# CoverAI: specifications

CoverAI writes cover letters: a user sends a link to a vacancy of hh.ru through
the REST API or the Telegram bot, a worker loads the vacancy, asks an LLM for
the letter, stores it and charges credits. This directory models the parts of
the program that are hard to test, checks them with TLC and proves what matters
most with TLAPS. Paths below are relative to `src/src/coverai/` unless they
begin with `src/`; line numbers are of the sources as they are in `src/`.

## 1. The system

| Component | State it keeps | Operations | Module |
|---|---|---|---|
| Balance and ledger | `users.credits`, `credit_transactions` | registration bonus, adjustment, debit, listing | `CreditLedger`, `AtomicLedger` |
| Payments | `payment_intents` | create, confirm, fail, cancel, refund | `CreditLedger` |
| Promo codes, discounts | `promo_codes`, `promo_redemptions`, `users.pending_top_up_*` | redeem (API, bot), apply to a payment, expire | `CreditLedger` |
| Bot billing | the same rows, second implementation | `redeem_promo_code`, `create_mock_top_up` | `CreditLedger` |
| Generation queue | `generation_requests`, the arq queue in Redis | enqueue (API, bot) | `GenerationPipeline` |
| Worker | `generation_requests`, `cover_letters`, `spend` rows | `generate_cover_letter` | `GenerationPipeline`, `PaidLetters` |
| Quota | counts of `generation_requests` | `ensure_can_generate`, the bot's own count | `GenerationPipeline`, `Conversation` |
| Vacancy cache | `vacancies`, `employers` | look up, load, upsert, placeholder | `VacancyCache` |
| hh.ru client | employers seen by one run, in memory | API of hh.ru first, its pages second | `HHClient`, `HHPage` |
| Subscriptions | `subscriptions`, `users.plan` | activate, prolong, change, expire, end by an admin | `Subscriptions` |
| Bot conversation | `PendingToneStore` in memory | link, resume, tone, first update, restart | `Conversation` |
| Registration, profile | `users`, `resume_profiles` | get or create, create or update | `Conversation`, `CreditLedger` |
| Database schema | every table, `alembic_version` | five revisions up and down | `Migrations` |
| Metrics, DI, settings, schemas, prompts, tokens, analytics, history | none that matters here | | not modelled (section 9) |

**How they interact.** The API process, the bot process and the workers share
nothing but Postgres and the arq queue. Each API request, bot use case and job
runs in one READ COMMITTED transaction (`infra/db/session.py:26`,
`api/dependencies/session.py:8`). Handlers that move credits lock the user's
row with `SELECT ... FOR UPDATE`; redemptions lock the promo code first. The API
puts a job on the queue before its transaction commits, the bot after. aiogram
handles every update in a task of its own (`main.py:45`), so the handlers of one
chat overlap.

**What is hard.** These mechanisms decide whether this code is right, and all of
them are in the models:

1. A row the session's identity map still holds is *not* refreshed by a later
   `SELECT ... FOR UPDATE`: the handler waits for the lock and then works on
   old values (`api/routes/promocodes.py:60`, `api/routes/admin.py:78`).
2. The unit of work writes a column only if it differs from what was loaded.
3. A status read before a lock is not read again after it
   (`api/routes/payments.py:70`, `:125`, `:147`).
4. An `INSERT` that references `users` takes `FOR KEY SHARE` on the user's row,
   which conflicts with the `FOR UPDATE` of the debit (`workers/tasks.py:171`).
5. A unique key makes an `INSERT` wait for an uncommitted row and then fail.
6. What a handler or a job read before an `await` (a plan, a profile, a pending
   link, a count of letters) is used after it, a worker runs up to ten jobs at
   once, and a restart of the bot has updates delivered again.
7. DDL locks tables until the whole alembic command commits, and rows that
   revision 5 admits do not fit revision 3.

For each component, what makes it right: the ledger adds up to the balance and
nothing is paid twice; a letter is charged exactly when it is stored; a request
ends as the documents say; a limit is as much as the code makes of it; the cache serves nothing older
than its lifetime; a page of hh.ru is read for what it says; a paid plan has a
period; a link is one job; a database is what its revision says. The hazards and
the lines where they bite are in `PROJECT.json`.

## 2. Modules

| Module | What it is |
|---|---|
| `AtomicLedger` | The promise: a balance changes only together with the one row that explains it, and never below zero |
| `CreditLedger` | Every handler that touches credits, intents, promo codes or discounts; implements `AtomicLedger` under a hypothesis |
| `PaidLetters` | The promise: a request keeps its owner; a letter, the success of its request and its charge are one step, and the owner pays it from a balance that covers it |
| `GenerationPipeline` | Clients, queue, worker slots, requests, letters and charges; implements `PaidLetters` |
| `VacancyCache` | Worker runs and API requests on the rows of vacancies and employers |
| `HHPage`, `HHClient` | The parser of the pages of hh.ru; the exchanges of the client that uses it |
| `Subscriptions` | The periods of a user and the plan they give |
| `Conversation` | A Telegram user, the bot, and the jobs that overlap in the workers as far as the limit of Free goes |
| `Migrations` | The revisions of alembic as operations on a schema, with rows |
| `MC...` | Instances for TLC: model values, the functions a `.cfg` cannot write, symmetry |
| `...Proofs` | Theorems about the module of that name |

Definitions marked `Mutant:` are variants of the definition below them with a
plausible bug. No specification uses them; they exist to show that each property
fails when the code is changed that way (`PROJECT.json`, "mutants").

### CreditLedger

A `Session` serves one request at a time. Its transaction begins (`Begin...`:
the unlocked reads, kept in `loaded`), takes the lock of a promo code
(`LockPromo`) and of a user (`LockUser`), and ends in one step that writes and
commits (`Confirm`, `Close`, `Refund`, `Redeem`, `BotTopUp`, `Adjust`, `Debit`,
`Register`, `CreatePayment`), returns without a write (`Return`) or rolls back
(`Abort`). Writing and committing are one step because the locks are held and
nobody sees the rows between them. `create_payment` has a step more: it decides
with `PricePayment` whether the discount still counts, and only then waits, in
the flush of its INSERT, for the row of the user (`CreatePayment`); a date that
passes in between is not noticed.

| Code | Model |
|---|---|
| `users.credits`, `pending_top_up_discount_*` | `credits[u]`, `discount[u]` |
| identity map of a session | `loaded[s]`; `LockUser` reloads it unless the kind is in `StaleKinds` |
| UPDATE of changed columns | `Column`, `WriteDiscount`, `WriteStatus`, `MoveCredits` |
| `credit_transactions` in the order of their ids | `ledger[u]`, `created_at` is when the transaction began |
| `SELECT ... FOR UPDATE` | `user_lock`, `promo_lock`, released by `Finish` |
| the six checks of `validate_promo` and `promo_was_redeemed` | `PromoRefused` (the bot makes only the second) |
| `valid_until` of a code or a discount | a `Date`, `ValidUntil[p]`; `Expire(d)` when it passes |

Abstracted: prices in roubles, payloads, texts. `promo_codes.is_active` is left
out because no code changes it. The check constraint `credits >= 0` is left out
on purpose: the model shows that the handlers never need it. The `FOR KEY SHARE`
of the worker is in `GenerationPipeline`.

### GenerationPipeline

`client[c]` is an API request or a bot message: `Check` (balance and quota),
then `ApiEnqueue` (insert and enqueue) and `ApiCommit`, or `BotEnqueue`.
`work[w]` is a worker slot: `Start` takes the first waiting job and makes the
checks of `generate_for_vacancy_url` (`Refusal`), `LoadVacancy`, `HHFails` or
`VacancyClosed`, `SaveLetter` or `LLMFails`, `Debit`, `DebitRefused` or
`Deadlock`, `Report`. `Timeout` and `Crash` may hit a run anywhere. A request is
`"reserved"` while the transaction that inserted it is open: others do not see
it. `Sharers(u)` is who holds `FOR KEY SHARE` on the user's row. Debit and
commit are one step; a request marked failed by an exception that leaves the
transaction is rolled back (`Fails`), one whose exception is caught inside it is
committed (`HHFails`).

`RefinesPaidLetters` maps the rows of `PaidLetters` to what is committed
(`Visible`): a row that is reserved, or was rolled back, is not there yet. `Accept` is
then `ApiCommit`, `Fail` is what `HHFails` commits, `Deliver` is the commit of `Debit`,
which for a bot request is also the step that shows its row. The promise lets a request
be delivered twice, because after a crash a job may run again
(`OneLetterPerSuccess` excludes it while nothing has crashed).

### VacancyCache

`run[w]` is a worker run inside `get_or_load_vacancy`: `LookUp`,
`LookUpEmployer`, `GetVacancy`, `GetEmployer`, then `Select`, `WriteEmployer`,
`Select`, `WriteVacancy`, and at last `Commit`, which may be long after, because
the LLM is asked in between. `FindNone`, `CreatePlaceholder`,
`CommitPlaceholder` are the API. Every run may roll back anywhere (`Rollback`):
hh.ru fails, the vacancy is closed, a unique key is violated, the LLM fails. A
written row is in `draft` under its `lock` until the commit. What hh.ru returns
is the time of its last edit, so "equal content" is "equal version".

### HHPage and HHClient

`HHPage` is the parser of `clients/hh.py`: a page is the sequence of events the
HTML parser of the library calls back with; `handle_starttag`, `handle_endtag` and
`handle_data` keep the stack of captures, `candidates_from_json_ld` walks the
JSON of the scripts, `merge_candidates` and `complete_html_candidate` choose. A
text is the sequence of its words, a value in a script has the depth it is nested to.
What the parser should keep is said by the elements of the page as HTML has them
(`Elements`, `Ends`, `TextOf`, `LinksOf`): where as many tags are closed as are opened,
those without an end tag left out. `HHClient` has one step for each exchange of
`HttpxHHClient` with hh.ru: `ApiVacancy`, `PageVacancy`, `ApiEmployer`,
`PageEmployer`, `FoundEmployer`, with every way an exchange can end
(`Outcomes`), and what the client remembers between them (`Remember`). HTTP, URLs
and encodings are abstracted to the outcome.

What the code does there and the model shows: a vacancy without a type counts as
closed; `httpx.DecodingError` is not among the errors that are translated; an
element that is never closed (`<br>`) inside a captured one makes the capture
run on to a later end tag. `TextOfElements` is exact for `Regular` pages, without such a tag in a captured
element (a `<br/>` is start and end at once for the parser, and does no harm), and
says of all others that nothing is cut off: the text that is taken
begins with the text of an element. That element may itself be empty (an empty
title with a `<br>` in it takes words from behind it), which the attempt to prove
a stronger form brought to light.

The same `<br>` in the element with the notice of the archive keeps its capture
from ending: on a page without a spare end tag the notice is lost, and the closed
vacancy is loaded. `ClosedIsNotLoaded` says so: it is about every page, and every
notice whose capture ends (`CaptureEnds`). A malformed link in a JSON-LD script
(`urljoin`, `clients/hh.py:509`) raises ValueError, JSON nested too deeply
RecursionError, both outside the `try`, and the page is given up although its elements
may say everything: `candidates_from_json_ld` has these ways out, and `ElementsSuffice`
allows the page to be given up for them only (`ScriptRaises`). An AssertionError of
the HTML parser itself would give it up as well and is not modelled; nor are ids in
links too long for `int()`.

### Subscriptions

`tx[t]` is a transaction of `BillingService` or of the admin route: a purchase
(`activate`: prolong from `expires_at` or change the plan at once), the sweep
(`expire_due`: `ListDue`, then one `ExpireOne` per period), the admin
(`admin_expire`). Each statement is a step; what a transaction has written is in
its record until `Commit`, and rows it has written hold others up. `cut` is
history: the periods an admin ended. `BillingService` is called by tests only; the
payment intents of subscriptions are not modelled because nothing confirms one.
Each of the three writes periods before users: the admin's flush too, because the
unit of work orders its mappers by name where no relationship orders them.

What the model shows beyond the finding of section 7: an admin whose request
loads the user while the plan is Free writes no plan, so a purchase that commits
in between leaves a paid plan without an active period (ADMIN-005 of
`src/docs/bdd-specification.md` expects Free); of two periods that end at the same
instant the admin ends either (`admin.py:186` orders by the end alone), where
`get_active_by_user_id` takes the newer; a period that is
overdue but not yet swept is prolonged from its past end (SUB-003); to prolong and
then change the plan leaves the older of two periods active.

### Conversation

`handler[m]` is the task of update `m` of one Telegram user: `Deliver`
(`get_or_create_telegram_user`), `CreateUser`, `SaveResume`, `CreateProfile`,
`UpdateProfile`, `HandleVacancyUrl`, `ToneCallback`, `MayEnqueue`, `EnqueueJob`. Between
two of them any other handler may run. `Restart` cuts all of them off, empties
`pending` and leaves what Telegram has not been told it may forget (`confirmed`)
to be delivered again. `runs[s]` is a job in one of the slots of the workers:
`BeginJob` opens its transaction, whose time its rows will carry, and reads the plan;
`CheckQuota` counts the letters since midnight; hh.ru and the LLM are asked, and
`FinishJob` commits request and letter or `FailJob` leaves nothing. A
message is a link, a resume or a press; the parsers of text only decide which.

Nothing is reserved between the two counts and the letter, so runs that overlap all
find none: the code does not meet TARIFF-007 (`src/docs/bdd-specification.md:766`,
"атомарно резервирует только один generation_request"). What it does keep, and
`FreeLettersADay` states, is that the Free letters dated and counted on one day of
Moscow are no more than the jobs that run at once, however many links the bot let
through; with one slot that is the one letter of the plan. A run that begins before
midnight and counts behind it is dated on a day it has not counted, and is left out.

What the code does there and no property states, because the line alone shows it:
neither bot nor worker asks whether the plan still allows the tone; the keyboard
of the first link enqueues the link stored last; the bot refuses at 00:30 in
Moscow a Free user who had a letter the evening before (TG-GEN-001 promises one a
day, and the glossary says the day is Moscow's), and it does not check the limit
of Standard at all (TG-GEN-005); the month of Standard is the calendar's in the
code and the period's in the glossary.

### Migrations

A revision is the list of the operations of its `upgrade` and `downgrade`, each
with the table it changes and the columns, checks, unique keys, references and
indexes it adds, alters or drops. `Begin` reads the revision, `Execute` runs the
next operation (it waits for the tables others have touched), `Commit` writes
the new revision, `Rollback` and `Abort` undo everything. `Insert` is the program,
with every value the current schema admits in the columns that vary.
`metadata` is the schema the models of SQLAlchemy describe. Names are abstracted:
the convention of `infra/db/base.py` gives a check the same name, with its prefix
doubled, when it is made and when it is dropped. In one thing models and migrations
disagree: `models.py:369` gives `promo_codes.is_active` the default `text("1")`, which
PostgreSQL refuses for a Boolean, and `0003:124` gives it true. `metadata` has what the
models say; `HeadMatchesModels` compares with `Declared`, where this one default is the
migration's, so it shows that there is no second disagreement.

In `docker-compose.yml:22` the API runs `alembic upgrade head` before it starts and
the worker waits for the API to be healthy; the bot does not wait, which is not
modelled. A row made before revision 5 keeps a discount percent without an expiry,
which `api/routes/payments.py` treats as one that never expires.

## 3. Runs

Passing:

| Run | Instance | Shows | States |
|---|---|---|---|
| `ledger_atomic` | 2 users, 2 sessions, 1 intent, a code of credits and a discount, 4 transactions, all handlers but `api_redeem` and `adjust_self`, fair | types; balance >= 0; ledger adds up; settled intents were credited; a promo pays once and its counter counts its redemptions; a discount is one its user has redeemed; `CreditLedger` implements `AtomicLedger`; no order of locks makes a request wait for ever | 95k |
| `pipeline` | 2 Free users, 1 client, 2 slots, 2 jobs, 2 request ids, 1 crash, fair | letters and charges are committed together, balances pay for them, one letter per success and hh.ru errors recorded (without crashes), every job ends; `GenerationPipeline` implements `PaidLetters` | 195k |
| `cache` | 3 worker runs, 1 API request, 1 vacancy, lifetime 0, 2 ticks | a closing is known after a lifetime; a vacancy with content has its employer; no run works on content that was out of date before it began | 401k |
| `hh_client` | all failures of the API, 1440 pages, scripts that raise among them | what is taken from a page is in it, a notice whose capture ends stops the run, a page whose elements say enough is given up only when a script raises, the employer is remembered | 7k |
| `subscriptions` | 2 transactions of all kinds, 3 periods, 2 ticks | a paid plan has its period unless an admin ended it; no period ends early | 3.1M |
| `conversation` | 2 links, 1 resume, 2 presses, 2 jobs at once, 1 restart, around a midnight of either calendar | one bonus; a job at most per delivery of a link; none without a resume; on Free no more letters a Moscow day than jobs run at once | 2.4M |
| `migrations` | 2 commands to revision 0, 2 or 5, users that register | the revision tells the schema, revision 5 is what the models expect but for one default, upgrades are accepted, only rows stop a downgrade | 161k |

Violated, each a disagreement between the code and a document:

| Run | Property | What happens |
|---|---|---|
| `stale_redeem` | `LedgerChain` | `redeem_promo` overwrites a debit that committed while it waited |
| `double_confirm` | `CreditedAtMostOnce` | two deliveries of one webhook both credit |
| `lost_expiry` | `DiscountEndsWithItsPromo` | two codes with one expiry: a payment clears the lapsed discount while the second is redeemed, and the new one never expires |
| `job_before_commit` | `PendingIsServed` | the job runs before its request is committed and gives up; the request stays pending |
| `prolonged_to_free` | `ActiveIsPaid` | the sweep of the first period sets a user to Free who has prolonged |

The same models show further disagreements that have no run of their own,
because they repeat a mechanism above or are plain in one line of code:

- an error of the LLM, or a closed vacancy, leaves its request pending: the failed
  status is rolled back with the transaction (`services/generation/cover_letter_service.py:96`,
  `services/vacancy/vacancy_service.py:141`);
- two API requests that overlap pass one check of the limit, and so do two jobs of the
  bot: nothing reserves a place (`services/generation/generation_queue_service.py:64`,
  `services/generation/cover_letter_service.py:77`), although
  `src/docs/bdd-specification.md:766` has the system reserve it atomically. In the run
  `conversation` a Free user gets two letters a day;
- a job that runs again after its commit, when hh.ru then fails, marks a charged
  request failed;
- two overlapping refunds both debit (`payments.py:147`), and a canceled or failed
  intent may keep its `top_up` row (`payments.py:125`): as `double_confirm`;
- the bot redeems beyond `max_activations` and after `valid_until`, and stores
  only the percent of a discount (`bot/runtime.py:153`, `:171`, `:189`):
  BILLING-017 and the discount scenarios of `src/docs/bdd-specification.md` say otherwise;
- a pending discount is copied into every intent created before one is confirmed
  (`payments.py:27`), although the document calls it used after a payment (line 924);
- the ledger is listed by `created_at`, the start of a transaction, not by the
  order of the changes (`billing.py:52`);
- two runs for one user may deadlock on the user's row (action `Deadlock`), and one
  loses the letter it has paid the LLM for; no user is charged for it;
- a closed vacancy is loaded when a `<br>` without an end tag stands in the element that
  says so (`clients/hh.py:346`), and a vacancy whose page says enough is given up when a
  link in one of its scripts is malformed (`clients/hh.py:509`): section 2;
- Pro jobs are not preferred: `workers/priority.py` is called by nothing;
- `src/README.md:184` and `src/docs/cover-letter-bot-architecture.md:125` disagree
  on who runs the upgrade of the database.

## 4. Bounds

`MaxTransactions`, `MaxCrashes`, `MaxTries`, `MaxTime`, `MaxPeriods`,
`MaxRestarts` and the sets of ids bound the behaviours; the limits on
`FreeIntents`, free jobs and request ids only stop a model from asking for more
rows than it has. They are large enough for what the properties are about:

- a harmful overlap needs two sessions on one user, so four transactions leave
  room for a registration, the creation of an intent and two handlers that overlap
  on it; a second user may redeem the same code;
- one crash is enough to run a job again, and two tries reach `max_tries`; two users
  let a letter be charged to the wrong one, two jobs of one user let two runs
  share-lock one row;
- `LetterIsCurrent` needs three runs: with a write order that does not take the
  employer's lock first, two runs keep it and three break it. With a lifetime of 0
  a row is fresh in the tick it was stamped and stale in the next, so two ticks
  reach both; the theorems of section 6 are for every lifetime;
- `DiscountWasRedeemed` is checked with the redemptions of the bot, which do not lock a
  row they have loaded before; the run `lost_expiry` has those of the API, and the
  theorem is for both;
- the 1440 pages are every choice of one of seven scripts, five titles, six companies
  and six descriptions (nested, repeated, blank, archived, unclosed, malformed), and of
  the last three inside an element that ends behind them; with `RecursionLimit = 1` a value inside a
  value inside a value is too deep;
- three periods let a user prolong and then change, two ticks with a period of one
  let the sweep find one of them over; one transaction suffices for `ActiveIsPaid`
  to fail, which is why that run has one;
- a day has two ticks, and a behaviour begins before or at a midnight of UTC (2) or of
  Moscow (5) and crosses no more than that one; the theorem is for any times. Two
  slots let runs overlap, and one restart has each update delivered twice;
- the revisions 0, 2 and 5 are the ends and the one between the tables of the first
  release and those of the API; every path between them runs every operation. Only
  `users` has rows, in the columns whose checks change.

`MCSymmetry` permutes sessions, clients, slots, commands, transactions or
messages, which no property and no action tells apart; liveness runs use none.
Deadlock is not checked: every model may stop when its bound is reached or
nobody asks for anything.

## 5. Fairness

`ledger_atomic`: weak fairness of `Work(s)` for each session. The server goes on
with a request it has begun, and Postgres grants a free row lock to a waiter.
Beginning, aborting and the passing of time need not happen.
`pipeline`: weak fairness of `Run(w)` (arq polls; the calls to hh.ru and the LLM
have timeouts; Postgres breaks deadlocks) and of `ApiCommit(c)` (a request that
has enqueued goes on to commit or is rolled back). Neither crashes nor timeouts
are assumed.

## 6. Proofs

Each module assumes only the named assumptions on its constants
(`LedgerConstants`, `PipelineConstants`, `CacheConstants`,
`SubscriptionConstants`, `ConversationConstants`, `MigrationConstants`,
`HHPageAssumption`, `HHClientAssumption`), which TLC evaluates in every run. The last
two say what pages and JSON are: a page is a finite sequence of events, a value in a
script is nested less deeply than the value it is in.
Every inductive invariant below was checked with TLC on the instance of its run
before it was proved.

**`CreditLedgerProofs`**, for every number of users, sessions, intents and codes,
every set of handlers and every bound:

| Theorem | Statement |
|---|---|
| `TypeCorrect` | `Spec => []TypeOK` |
| `BalancesNonNegative` | `Spec => []NonNegativeBalance`: for all handlers, the two that work on a stale row included |
| `LedgerExplainsBalance` | if `Kinds \cap StaleKinds = {}`, then `Spec => []LedgerChain` |
| `ImplementsAtomicLedger` | if `Kinds \cap StaleKinds = {}`, then `Spec => RefinesAtomicLedger` |

The hypothesis on `StaleKinds` is needed: `stale_redeem` is the counterexample
without it. The argument has three layers, each an inductive invariant that
contains the one before. `TypeInv` adds to `TypeOK` what a request in flight looks
like (`RequestsInFlight`) and that an intent has an owner and an amount
(`OwnedIntents`). `BalanceInv` adds that what the sessions have loaded is not
negative: a handler writes its loaded balance plus an amount it has checked
against that balance. `ChainInv` adds `Held` (a session in phase `locked` owns the
lock of its user), `Fresh` (what it has loaded of that user is what is stored, where
the hypothesis enters) and `Unregistered`. Then `MoveCredits` appends a row that
continues the chain, and a step of `CreditLedger` is a step of `AtomicLedger` or
leaves balance and ledger alone.

`CreditLedgerProofs` also has the theorems about promo codes, discounts and payments:

| Theorem | Statement |
|---|---|
| `CountersAreRight` | `Spec => []ActivationsCounted`, for all handlers |
| `LimitsHold` | without `bot_redeem`, `Spec => []ActivationsBounded` |
| `PromosPayOnce` | `Spec => []PromoPaidOnce`, for all handlers |
| `DiscountsWereRedeemed` | `Spec => []DiscountWasRedeemed`, for all handlers |
| `SettledIsCredited` | `Spec => []SettledWasCredited`, for all handlers |

`CountInv` adds to `TypeInv` that a redemption past its first lock holds the lock of the
code and knows that its user has not redeemed it (`CodeHeld`), so counter and
redemptions grow together. `PaidInv` adds that the ledger of a user has one row for a
code of credits that was redeemed and none for any other. `DiscountInv` says that
the stored percent, the one every session has loaded and the one of every intent is
zero or that of a code their user has redeemed; redemptions are never taken back, so a
row that is written back late keeps it. No expiry is in it: `lost_expiry` shows that the
expiry of a discount is not kept.

For the last one, `SettleInv` says what a request knows of its intent (`Knowing`): its owner and
credits, and that it was credited if the request has read `succeeded`. A request may
know less than what is stored, since it has read without a lock, but what it knows
stays true because a ledger only grows: therefore whatever it writes over a newer
status keeps the property.

**`GenerationPipelineProofs`**: `TypeCorrect`, `OneLetter` (`OneLetterPerSuccess`) and
`HHErrorsRecorded` (`HHErrorRecorded`). `TypeInv` holds always; `Undisturbed`,
while no worker has crashed, says for each slot what its job and request are
(`WorkInv`), for each client what it has reserved (`ClientInv`), for each job whose
it is (`JobInv`), and that letters belong to successes (`LetterInv`). It has to speak of
jobs, because a job that is run a second time on a request that is done is what would
write a second letter; after a crash that can happen, so the two properties that
exclude it say `crashes = 0`.

**`PaidLettersProofs`**: `ImplementsPaidLetters` (`Spec => RefinesPaidLetters`), with
crashes and for any number of users. The invariant `OwnInv` says whose rows are: a row
that an open transaction has inserted is reserved for the user of that transaction, and
no two transactions have inserted the same one (`Exclusive`); a job is for the owner of
its request (`JobOwns`); what a run has not inserted itself it has found committed
(`WorkOwns`). So a rollback only takes away what nobody else has seen, and the user
`Debit` charges is the owner of the row. `BalancesPay` (`Spec => []BalancePaysCharges`)
follows: what a user has paid for is a sum over the requests, the inductive `BalanceInv`
says that balance and sum are together what the user had, and a step of `PaidLetters`
(which every step is, by the refinement) moves one price from one to the other. The
lemmas about that sum over a finite set go by well-founded minima (`TotalWith`).

**`VacancyCacheProofs`**: `TypeCorrect`, `EmployersJoined`, `ClosingsLearned` and
`LettersAreCurrent`, for every lifetime and any number of runs. The first
invariant has three parts: `RowInv` (a cached vacancy was open when it was
stamped, has its employer, and that employer is cached), `DraftInv` (what a
transaction has written may replace the row: it is not missing again, not
uncached, and keeps its employer) and `RunInv` (what a run has read may still be
replaced by what is stored, which is why skipping equal columns does no harm).
`CurrentInv`, on top of it, carries `LetterIsCurrent`: a draft of a vacancy is
written under the lock of its employer or into a row that is not there, so while
a run holds that lock the row it has read stays as it is; therefore the version
and the stamp it writes are its own.

**`SubscriptionsProofs`**: `TypeCorrect`, `PaidHasPeriod` (`PaidIsSubscribed`) and
`PeriodsRunOut`. The invariant says that a transaction which leaves the plan as it is
ends no period of that plan (`PlanIsKept`), what each phase of a transaction has
read and written (`Transactions`), and that the end of a period is bounded by its id
(`Instants`), so that the clock of the bound suffices. That the current period exists
is an argument by well-founded minima, since `Current` is a CHOOSE.

**`ConversationProofs`**: `TypeCorrect`, `WelcomedOnce`, `NoJobWithoutResume`
(a handler past the check knows of a profile, and profiles are never removed),
`OneJobPerDelivery` (`JobsPerDelivery`: between its delivery and its job a link is in
one place only, with one handler or in the store, `OnePlace`) and `FreeLettersBounded`
(`FreeLettersADay`). For the last, `Balanced` says of every day that the letters made on
it (`MadeOn`) and the runs that have counted on it and may still write one (`DueOn`) are
together no more than the slots: a letter takes the place of its run, and a run that
counts and finds no letter since midnight finds `MadeOn` empty (`InThePast`, and the
arithmetic of `%` and `\div` for the days), so only runs are left to count.

**`MigrationsProofs`**, for any number of commands, any targets, and rows in any tables:

| Theorem | Statement |
|---|---|
| `RevisionTells` | `Spec => []RevisionTellsSchema` |
| `HeadMatches` | `Spec => []HeadMatchesModels` |
| `OnlyRowsStopDowngrades` | `Spec => []DowngradeStoppedByRows` |
| `TypeCorrect` | `Spec => []TypeOK` |
| `UpgradesAccepted` | `Spec => []UpgradeAccepted` |

The revisions are constants, so a part of the proof is a computation: `Trail(ops, s)` is the
list of schemas that the operations `ops` pass through from `s`, each downgrade is shown to
reverse its upgrade operation by operation (`Reversed`, `Undoes`), and so the schema
of every revision is the same from both sides, and that of the last one is
`Declared`. `View(c)` is the schema a command `c` should see at its place. `SchemaInv`
says of the shared tables that they have the definition of the stored revision, unless
a command has locked them, in which case that definition is in `saved` (`Shaped`); of a
command whose revision is still the stored one, that the tables it has locked are as in
its view (`OnItsWay`); and that what is locked was made by its owner (`Made`). A command that
was overtaken may see another schema, and `Stamp` then refuses it. `StopInv` adds
`RefsHeld`: a reference that an open transaction has added has locked its target, so the
order in which a downgrade drops tables is never what stops it (`Between`, `StoppedByRows`).

The last two need the rows. The tables of every revision are `Neat` (`NeatSchemas`): a
checked column is never empty, has one check, and its default is among what that check admits,
so whatever `Insert` writes fits (`WrittenValues`). Every operation of an upgrade is
`Ready` (`AllReady`): a column it adds may be empty or has a default; a check it adds admits
what an earlier operation of the same revision has put there, by adding the column with such a
default or by dropping a check that was narrower; a column it makes unique, or a reference,
is one it has added itself and that is still empty (`Provides`, `Given`). `RowInv` carries that through
the interleavings: the rows of a table have its columns; those of an unlocked
table fit its checks, and so do those in `saved` (`TableRows`); in the tables a command
has locked, if they were as its first revision says, the rows fit the half-changed table and have what
the command has provided for (`Gained`, `Way`). It is not inductive without `SchemaInv`: the rows
of a table with another definition than the command expects say nothing. Before the proof
TLC checked `RowInv` on the `migrations` run and on one with four written tables, with
the sets a column's values may come from (`W` in `Gained`) taken from the checks of the schema.

**`HHClientProofs`**, for pages of any length, JSON-LD of any finite depth, any status
codes and kinds of fields:

| Theorem | Statement |
|---|---|
| `ClientTypes` | `Spec => []TypeOK` |
| `TextsAreOfElements` | `Spec => []TextOfElements` |
| `ClosedStops` | `Spec => []ClosedIsNotLoaded` |
| `ElementsAreEnough` | `Spec => []ElementsSuffice` |
| `PageEmployerIsKnown` | `Spec => []EmployerIsRemembered` |

The inductive invariant `Inv` is short: a vacancy that is asked on for its employer comes
from a page that parses and is not archived, or from JSON that is open
(`OpenIsAskedFor`); an error after a page means that the page says too little
(`ErrorSaysTooLittle`), any other failure that a script raises (`OtherRaises`); a vacancy
read from its page has its employer in what is remembered (`PageIsFound`). The work is in what the parser does. A recursive
function is a CHOOSE, so it has to be shown first that `Pick`, `FlattenSeq`, `feed` and
`iter_json_dicts` have the values their equations give: `Recursion` builds such a
function step by step, and `UpTo`, an induction by the least number that fails, takes the
place of the library's induction, which these provers cannot apply (`SolutionExists`
and `SolutionsAgree` do it for the depth of JSON). Then `Read` relates the
parser to the page after every event (`ReadAlways`): its captures are the elements that
are `Live`, each with its depth, with what has been said since it began and its first link;
its texts are those of the captures that are `Over`, the first to end first. It is
not enough to speak of texts alone, because an end tag closes what any earlier tag
has opened. Last, depth and `Balance` are both differences of counts, equal where no tag
lacks its end tag and the balance never more than the depth (`DepthAndBalance`): so
a capture is over where its element ends (`ElementIsOver`, `OverEnds`), or behind
it (`OverIsElement`). `merge_candidates` never loses a notice that was kept, and where no
script raises the elements' own candidate is always the last one tried (`ParseIs`).

Only model-checked: liveness (`EveryRequestEnds`, `EveryJobEnds`), because the
provers installed do not handle `ENABLED`. Every safety invariant, action property and
refinement a passing run checks is a theorem as well.

## 7. Findings

`PROJECT.json` quotes, for each violated run, the line of the documents the code
disagrees with. Those that cost money or what was paid for are `double_confirm`
(re-read the intent under the user's lock), `stale_redeem` (refresh the row when it
is locked, for instance with `populate_existing`) and `prolonged_to_free` (look
for a later active period before the plan is set to Free); `lost_expiry` needs the same
refresh as `stale_redeem`;
`job_before_commit` needs the job to be enqueued after the commit, as the bot
does it. The ledger with the stale handlers left out is proved to add up.

## 8. Status

Everything planned is in place: ledger, pipeline, cache, client of hh.ru,
subscriptions, conversation, migrations, and every safety property of the passing runs
is proved. What would come next is a composition of `VacancyCache` with
`HHClient` in place of versions.

## 9. Not modelled, and why

Metrics and dashboards (written outside transactions, read by nobody in the
program); dependency injection, settings, logging (no state that changes at run
time); API schemas, mappers, formatters, keyboards, prompts and resume extraction
(pure formatting); the parser of links (a pure function of a text: in
`Conversation` a message is a link or it is not); history (read-only); tokens and
password hashes (pure functions over libraries); analytics (read-only); the HTTP of
the LLM and Telegram clients (pure I/O; their outcomes are in the pipeline); the
choice of a model by the LLM client; payment intents of subscriptions (written and
never read).

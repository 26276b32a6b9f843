------------------------------ MODULE Conversation ------------------------------
(***************************************************************************)
(* A Telegram user and the bot.                                            *)
(*                                                                         *)
(* aiogram handles every update in a task of its own, so the handlers of   *)
(* one chat interleave at each await.  All but the help find or create the *)
(* user; a text is then a resume or the link of a vacancy; the link of a   *)
(* paid user waits in PendingToneStore, in memory, for a press on the      *)
(* keyboard with the tones.  The jobs they enqueue are served by workers,  *)
(* many at once, which count the letters of a Free user again, and by      *)
(* another day.                                                            *)
(*                                                                         *)
(* Telegram delivers an update again when the bot restarts before the next *)
(* getUpdates has confirmed it.                                            *)
(***************************************************************************)
EXTENDS Integers, Sequences, FiniteSetsExt

CONSTANTS
  Link,                    \* messages with the link of a vacancy
  Resume,                  \* messages with the text of a resume, or its file
  Press,                   \* presses on the keyboards with the tones
  Slot,                    \* the jobs the workers run at once; 10 for each of them in arq
  Length,                  \* Length[m]: characters of resume m, blanks at its ends left out
  MIN_RESUME_TEXT_LENGTH,
  MAX_RESUME_TEXT_LENGTH,
  Day,                     \* ticks of a day
  MoscowOffset,            \* ticks by which Moscow is ahead of UTC
  Time,                    \* bound: what the clock can show
  MaxRestarts,             \* bound: restarts of the bot
  None

ASSUME ConversationConstants ==
  /\ Length \in [Resume -> Nat]
  /\ MIN_RESUME_TEXT_LENGTH \in Nat
  /\ MAX_RESUME_TEXT_LENGTH \in Nat
  /\ MIN_RESUME_TEXT_LENGTH <= MAX_RESUME_TEXT_LENGTH
  /\ Day \in Nat \ {0}
  /\ MoscowOffset \in 0..Day
  /\ Time \subseteq Nat
  /\ MaxRestarts \in Nat
  /\ IsFiniteSet(Slot)
  /\ Link \cap Resume = {} /\ Link \cap Press = {} /\ Resume \cap Press = {}
  /\ None \notin Link \cup Resume \cup Press \cup Nat /\ None \notin {"free", "paid"}

Update == Link \cup Resume \cup Press

VARIABLES
  now,        \* the clock, in UTC
  plan,       \* users.plan: "free", or "paid" for Standard and Pro
  account,    \* the user's committed row: whether it exists, and its welcome bonuses
  profile,    \* length of the committed resume, or None
  handler,    \* what the handler of each update is doing
  pending,    \* PendingToneStore: the link that waits for a tone, or None
  keyboard,   \* a keyboard with the tones is on the screen
  confirmed,  \* updates Telegram does not deliver again
  delivered,  \* delivered[l]: how often Telegram has delivered link l
  jobs,       \* jobs[l]: how many jobs link l has become
  waiting,    \* how many jobs no worker has begun
  runs,       \* the job in each slot, as far as it has come
  letters,    \* the letters: the date of their request, the plan, and for Free the day
              \* in Moscow whose letters were counted before
  restarts    \* restarts so far

vars == <<now, plan, account, profile, handler, pending, keyboard, confirmed, delivered,
          jobs, waiting, runs, letters, restarts>>

Idle  == [phase |-> "idle", plan |-> None, link |-> None]
NoRun == [phase |-> "free", plan |-> None, at |-> None, day |-> None]

Init ==
  /\ now \in Time
  /\ plan      = "free"
  /\ account   = [exists |-> FALSE, bonuses |-> 0]
  /\ profile   = None
  /\ handler   = [m \in Update |-> Idle]
  /\ pending   = None
  /\ keyboard  = FALSE
  /\ confirmed = {}
  /\ delivered = [l \in Link |-> 0]
  /\ jobs      = [l \in Link |-> 0]
  /\ waiting   = 0
  /\ runs      = [s \in Slot |-> NoRun]
  /\ letters   = <<>>
  /\ restarts  = 0

database == <<plan, account, profile>>
telegram == <<keyboard, confirmed, delivered, restarts>>
worker   == <<jobs, waiting, runs, letters>>

Goto(m, phase) == handler' = [handler EXCEPT ![m].phase = phase]

\* The handler answers, and that is all.
Answer(m) == handler' = [handler EXCEPT ![m] = [Idle EXCEPT !.phase = "done"]]

In(phase) == { m \in Update : handler[m].phase = phase }

-----------------------------------------------------------------------------
(* Telegram and the user. *)

\* The handler goes on with the user as it has found him: only that of a link looks
\* at the plan.
Found(m) == [Idle EXCEPT !.phase = "user", !.plan = IF m \in Link THEN plan ELSE None]

\* A press needs a keyboard to be pressed; a resume or a link can always be sent.
\* Whatever it is, the handler begins with get_or_create_telegram_user.
Deliver(m) ==
  /\ handler[m].phase = "idle"
  /\ m \in Press => keyboard
  /\ handler' = [handler EXCEPT ![m] =
       IF account.exists THEN Found(m) ELSE [Idle EXCEPT !.phase = "create"]]
  /\ delivered' = [l \in Link |-> IF l = m THEN delivered[l] + 1 ELSE delivered[l]]
  /\ UNCHANGED <<now, database, pending, keyboard, confirmed, worker, restarts>>

\* The next getUpdates confirms what the last ones have brought, which matters
\* only to a bot that will restart.
Poll ==
  /\ restarts < MaxRestarts
  /\ confirmed' = Update \ In("idle")
  /\ UNCHANGED <<now, database, handler, pending, keyboard, delivered, worker, restarts>>

\* Handlers are cut off, the store is empty; keyboards stay on the screen.  After the
\* last restart it matters no longer what is confirmed.
Restart ==
  /\ restarts < MaxRestarts
  /\ restarts' = restarts + 1
  /\ pending'  = None
  /\ handler'  = [m \in Update |-> IF m \in confirmed THEN [Idle EXCEPT !.phase = "done"] ELSE Idle]
  /\ confirmed' = IF restarts' < MaxRestarts THEN confirmed ELSE {}
  /\ UNCHANGED <<now, database, keyboard, delivered, worker>>

\* Mutant: telegram_id is not unique.
CreateUserAgain(m) ==
  /\ handler[m].phase = "create"
  /\ account' = [exists |-> TRUE, bonuses |-> account.bonuses + 1]
  /\ handler' = [handler EXCEPT ![m] = Found(m)]
  /\ UNCHANGED <<now, plan, profile, pending, telegram, worker>>

\* User and welcome bonus are one transaction; telegram_id is unique, so of two
\* that found nobody the second fails, and its update with it.
CreateUser(m) ==
  /\ handler[m].phase = "create"
  /\ IF account.exists
     THEN Answer(m) /\ UNCHANGED account
     ELSE /\ account' = [exists |-> TRUE, bonuses |-> account.bonuses + 1]
          /\ handler' = [handler EXCEPT ![m] = Found(m)]
  /\ UNCHANGED <<now, plan, profile, pending, telegram, worker>>

-----------------------------------------------------------------------------
(* save_resume_text and save_resume_file. *)

\* A resume that is too short is refused.  The others go on by whether there is
\* a profile.
SaveResume(m) ==
  /\ m \in Resume
  /\ handler[m].phase = "user"
  /\ IF Length[m] < MIN_RESUME_TEXT_LENGTH
     THEN Answer(m)
     ELSE Goto(m, IF profile = None THEN "insert" ELSE "update")
  /\ UNCHANGED <<now, database, pending, telegram, worker>>

\* normalize_resume_text cuts a long one.
Normalized(m) == Min({Length[m], MAX_RESUME_TEXT_LENGTH})

\* create_profile: user_id is unique, the second insert fails.
CreateProfile(m) ==
  /\ handler[m].phase = "insert"
  /\ profile' = IF profile = None THEN Normalized(m) ELSE profile
  /\ Answer(m)
  /\ UNCHANGED <<now, plan, account, pending, telegram, worker>>

UpdateProfile(m) ==
  /\ handler[m].phase = "update"
  /\ profile' = Normalized(m)
  /\ Answer(m)
  /\ UNCHANGED <<now, plan, account, pending, telegram, worker>>

-----------------------------------------------------------------------------
(* Links and tones. *)

\* Mutant: only the user who has to wait for a tone is asked for a resume.
HandleVacancyUrlFreely(m) ==
  /\ m \in Link
  /\ handler[m].phase = "user"
  /\ \/ profile = None /\ handler[m].plan = "paid" /\ Answer(m) /\ UNCHANGED <<pending, keyboard>>
     \/ /\ profile # None /\ handler[m].plan = "paid"
        /\ pending' = m /\ keyboard' = TRUE
        /\ Answer(m)
     \/ /\ handler[m].plan = "free"
        /\ handler' = [handler EXCEPT ![m].phase = "check", ![m].link = m]
        /\ UNCHANGED <<pending, keyboard>>
  /\ UNCHANGED <<now, database, confirmed, delivered, restarts, worker>>

\* handle_vacancy_url: without a resume the user is asked for one.  The plan is
\* the one seen when the update came: the link of a paid user waits for a tone.
HandleVacancyUrl(m) ==
  /\ m \in Link
  /\ handler[m].phase = "user"
  /\ \/ profile = None /\ Answer(m) /\ UNCHANGED <<pending, keyboard>>
     \/ /\ profile # None /\ handler[m].plan = "paid"
        /\ pending' = m /\ keyboard' = TRUE
        /\ Answer(m)
     \/ /\ profile # None /\ handler[m].plan = "free"
        /\ handler' = [handler EXCEPT ![m].phase = "check", ![m].link = m]
        /\ UNCHANGED <<pending, keyboard>>
  /\ UNCHANGED <<now, database, confirmed, delivered, restarts, worker>>

\* Mutant: the link is looked at, not taken out.
ToneCallbackKeeps(m) ==
  /\ m \in Press
  /\ handler[m].phase = "user"
  /\ IF pending = None
     THEN Answer(m)
     ELSE handler' = [handler EXCEPT ![m].phase = "check", ![m].link = pending]
  /\ UNCHANGED <<now, database, pending, telegram, worker>>

\* Mutant: that nothing is waiting is not looked at.
ToneCallbackBlind(m) ==
  /\ m \in Press
  /\ handler[m].phase = "user"
  /\ handler' = [handler EXCEPT ![m].phase = "check", ![m].link = pending]
  /\ pending' = None
  /\ UNCHANGED <<now, database, telegram, worker>>

\* handle_tone_callback takes the link out before anything can fail.
ToneCallback(m) ==
  /\ m \in Press
  /\ handler[m].phase = "user"
  /\ IF pending = None
     THEN Answer(m)
     ELSE handler' = [handler EXCEPT ![m].phase = "check", ![m].link = pending]
  /\ pending' = None
  /\ UNCHANGED <<now, database, telegram, worker>>

-----------------------------------------------------------------------------
(* enqueue_generation. *)

\* The last midnight of either calendar, and the letters requested since then.
UtcMidnight    == now - (now % Day)
MoscowMidnight == now - ((now + MoscowOffset) % Day)
MadeSince(time) == Cardinality({ n \in DOMAIN letters : letters[n].at >= time })

\* The bot counts from midnight in UTC, and only for the plan Free.  Whether the
\* credits suffice is CreditLedger's matter; if they do not, the handler Fails.
MayEnqueue(m) ==
  /\ handler[m].phase = "check"
  /\ IF plan = "free" /\ MadeSince(UtcMidnight) >= 1 THEN Answer(m) ELSE Goto(m, "enqueue")
  /\ UNCHANGED <<now, database, pending, telegram, worker>>

EnqueueJob(m) ==
  /\ handler[m].phase = "enqueue"
  /\ jobs' = [jobs EXCEPT ![handler[m].link] = @ + 1]
  /\ waiting' = waiting + 1
  /\ Answer(m)
  /\ UNCHANGED <<now, database, pending, telegram, runs, letters>>

\* An exception, a lack of credits, a connection that is lost: nothing is undone
\* but the transaction.
Fails(m) ==
  /\ handler[m].phase \notin {"idle", "done"}
  /\ Answer(m)
  /\ UNCHANGED <<now, database, pending, telegram, worker>>

-----------------------------------------------------------------------------
(* generate_cover_letter, in a slot of a worker. *)

\* A transaction begins and reads the user, whose plan the session keeps.  Its
\* rows will have the time of its beginning as created_at.
BeginJob(s) ==
  /\ runs[s].phase = "free"
  /\ waiting > 0
  /\ waiting' = waiting - 1
  /\ runs' = [runs EXCEPT ![s] = [phase |-> "begun", plan |-> plan, at |-> now, day |-> None]]
  /\ UNCHANGED <<now, database, handler, pending, telegram, jobs, letters>>

MoscowDay(time) == (time + MoscowOffset) \div Day

\* Mutant: the worker counts from midnight in UTC, as the bot does.
CheckQuotaByUtc(s) ==
  /\ runs[s].phase = "begun"
  /\ \/ /\ runs[s].plan = "paid"
        /\ runs' = [runs EXCEPT ![s].phase = "counted"]
     \/ /\ runs[s].plan = "free" /\ MadeSince(UtcMidnight) = 0
        /\ runs' = [runs EXCEPT ![s].phase = "counted", ![s].day = MoscowDay(now)]
     \/ /\ runs[s].plan = "free" /\ MadeSince(UtcMidnight) >= 1
        /\ runs' = [runs EXCEPT ![s] = NoRun]
  /\ UNCHANGED <<now, database, handler, pending, telegram, jobs, waiting, letters>>

\* ensure_can_generate: the plan Free has a letter a day, in Moscow.  Nothing is
\* reserved.  No instance has the hundreds of letters that a month of Standard allows.
CheckQuota(s) ==
  /\ runs[s].phase = "begun"
  /\ \/ /\ runs[s].plan = "paid"
        /\ runs' = [runs EXCEPT ![s].phase = "counted"]
     \/ /\ runs[s].plan = "free" /\ MadeSince(MoscowMidnight) = 0
        /\ runs' = [runs EXCEPT ![s].phase = "counted", ![s].day = MoscowDay(now)]
     \/ /\ runs[s].plan = "free" /\ MadeSince(MoscowMidnight) >= 1
        /\ runs' = [runs EXCEPT ![s] = NoRun]
  /\ UNCHANGED <<now, database, handler, pending, telegram, jobs, waiting, letters>>

\* hh.ru and the language model have answered: request, letter and charge are
\* committed, and count from now on.
FinishJob(s) ==
  /\ runs[s].phase = "counted"
  /\ letters' = Append(letters, [at |-> runs[s].at, day |-> runs[s].day, plan |-> runs[s].plan])
  /\ runs' = [runs EXCEPT ![s] = NoRun]
  /\ UNCHANGED <<now, database, handler, pending, telegram, jobs, waiting>>

\* An error or a timeout leaves nothing that counts.  GenerationPipeline has the rest.
FailJob(s) ==
  /\ runs[s].phase # "free"
  /\ runs' = [runs EXCEPT ![s] = NoRun]
  /\ UNCHANGED <<now, database, handler, pending, telegram, jobs, waiting, letters>>

Work(s) == BeginJob(s) \/ CheckQuota(s) \/ FinishJob(s) \/ FailJob(s)

-----------------------------------------------------------------------------
\* A subscription begins or ends.
ChangePlan ==
  /\ account.exists
  /\ plan' = IF plan = "free" THEN "paid" ELSE "free"
  /\ UNCHANGED <<now, account, profile, handler, pending, telegram, worker>>

Tick == /\ now + 1 \in Time
        /\ now' = now + 1
        /\ UNCHANGED <<database, handler, pending, telegram, worker>>

Handle(m) ==
  \/ CreateUser(m)
  \/ SaveResume(m) \/ CreateProfile(m) \/ UpdateProfile(m)
  \/ HandleVacancyUrl(m) \/ ToneCallback(m)
  \/ MayEnqueue(m) \/ EnqueueJob(m)

Next ==
  \/ Tick \/ ChangePlan \/ Poll \/ Restart
  \/ \E s \in Slot : Work(s)
  \/ \E m \in Update : Deliver(m) \/ Handle(m) \/ Fails(m)

Spec == Init /\ [][Next]_vars

-----------------------------------------------------------------------------
(* Properties. *)

Phases == {"idle", "create", "user", "insert", "update", "check",
           "enqueue", "done"}

Runs    == [phase: {"free", "begun", "counted"}, plan: {"free", "paid", None},
            at: Time \cup {None}, day: Nat \cup {None}]
Letters == [at: Time, day: Nat \cup {None}, plan: {"free", "paid"}]

\* Whoever is about to ask for a job has a link.
LinksInHand ==
  \A m \in Update : handler[m].phase \in {"check", "enqueue"} => handler[m].link \in Link

\* A run that has begun has read the clock and the plan.
RunsTyped ==
  /\ runs \in [Slot -> Runs]
  /\ \A s \in Slot : runs[s].phase # "free" => runs[s].plan # None /\ runs[s].at # None

TypeOK ==
  /\ now \in Time
  /\ plan \in {"free", "paid"}
  /\ account \in [exists: BOOLEAN, bonuses: Nat]
  /\ profile \in Nat \cup {None}
  /\ handler \in [Update -> [phase: Phases, plan: {"free", "paid", None}, link: Link \cup {None}]]
  /\ LinksInHand
  /\ pending \in Link \cup {None}
  /\ keyboard \in BOOLEAN
  /\ confirmed \subseteq Update
  /\ delivered \in [Link -> 0..(1 + MaxRestarts)]
  /\ jobs \in [Link -> Nat]
  /\ waiting \in Nat
  /\ RunsTyped
  /\ letters \in Seq(Letters)
  /\ restarts \in 0..MaxRestarts

\* However many first messages are handled at once, the user has one account, and
\* it has its welcome bonus once.
OneWelcome == account.bonuses = IF account.exists THEN 1 ELSE 0

\* A link becomes at most one job for each time Telegram delivers it, however
\* often the keyboards are pressed and whatever links came in between.
JobsPerDelivery == \A l \in Link : jobs[l] <= delivered[l]

\* Whoever gets a job has sent a resume, and the prompt will have its length.
JobHasResume ==
  (\E l \in Link : jobs[l] > 0) => profile \in MIN_RESUME_TEXT_LENGTH..MAX_RESUME_TEXT_LENGTH

\* The quota of the plan Free, as far as the code keeps it (TARIFF-007 wants the
\* check to reserve the letter, and the code does not): whatever the bot let
\* through (links checked before the first letter was there, links that waited over
\* midnight, and links sent when the day was another one in UTC), the letters of a
\* day in Moscow are no more than the jobs that run at once.  With one slot that is
\* one letter a day; with more of them every run that counts before the first letter
\* is committed finds none.  A run that begins before midnight and counts after it is
\* dated on the day it has not counted, and is left out.
FreeLettersADay ==
  \A day \in 0..MoscowDay(now) :
    Cardinality({ n \in DOMAIN letters :
      /\ letters[n].plan = "free"
      /\ MoscowDay(letters[n].at) = day /\ letters[n].day = day })
    <= Cardinality(Slot)

=============================================================================

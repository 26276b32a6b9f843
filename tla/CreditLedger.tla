---------------------------- MODULE CreditLedger ----------------------------
(***************************************************************************)
(* The money of CoverAI: users.credits, the credit_transactions ledger,    *)
(* payment intents, promo codes and top-up discounts, changed by the API   *)
(* handlers, the Telegram bot and the worker, each in one READ COMMITTED   *)
(* transaction of a SQLAlchemy session.                                    *)
(*                                                                         *)
(* A transaction is one request served by a Session: it begins (and reads  *)
(* the rows its handler reads without a lock), waits for the row locks it  *)
(* takes with SELECT ... FOR UPDATE, and ends in one step that flushes     *)
(* and commits, returns without a write, or rolls back.  What the session  *)
(* has loaded stays in `loaded`, because a row that the session's identity *)
(* map still holds is NOT refreshed by a later SELECT ... FOR UPDATE.      *)
(***************************************************************************)
EXTENDS Integers, Sequences, FiniteSets

CONSTANTS
  User,             \* rows of users that may come to exist
  Session,          \* database sessions: the requests served at the same time
  Intent,           \* rows of payment_intents that may come to exist
  Promo,            \* rows of promo_codes
  Date,             \* moments at which a promo code may expire
  Kinds,            \* the handlers this instance runs, a subset of Handler
  Amounts,          \* amounts a client or an administrator may ask for
  WelcomeBonus,     \* credits granted to a new user
  GenerationCost,   \* credits a successful generation costs
  Value,            \* Value[p]: credits or discount percent promo p gives
  ValidUntil,       \* ValidUntil[p]: promo_codes.valid_until
  CreditPromos,     \* promo codes of type fixed_credits; the others discount
  MaxActivations,   \* MaxActivations[p]: activation limit of promo p
  MaxTransactions,  \* bound: transactions of one behaviour
  None

VARIABLES
  registered,   \* users that exist
  credits,      \* users.credits
  discount,     \* users.pending_top_up_discount_{percent, valid_until, promo_code_id}
  intents,      \* payment_intents
  activations,  \* promo_codes.activations_count
  expired,      \* the moments that have passed
  redeemed,     \* promo_redemptions: pairs <<promo, user>>
  ledger,       \* credit_transactions of each user, in the order of their ids
  user_lock,    \* session holding the users row FOR UPDATE
  promo_lock,   \* session holding the promo_codes row FOR UPDATE
  phase,        \* how far each session's transaction has come
  req,          \* the request each session serves
  loaded,       \* what the session's identity map holds of the user and the intent
  began,        \* when each session's transaction began (Postgres now())
  clock         \* transactions begun so far

store == <<registered, credits, discount, intents, activations, expired, redeemed, ledger>>
locks == <<user_lock, promo_lock>>
local == <<phase, req, loaded, began>>
vars  == <<store, locks, local, clock>>

-----------------------------------------------------------------------------
IntentKinds  == {"confirm", "fail", "cancel", "refund"}
RedeemKinds  == {"api_redeem", "bot_redeem"}
AmountKinds  == {"create_payment", "bot_top_up", "adjust", "adjust_self"}
Handler      == IntentKinds \cup RedeemKinds \cup AmountKinds \cup {"register", "debit"}

\* Handlers whose session holds the caller's users row (current_user) before
\* they lock that same row, and so keep working on what was loaded first.
StaleKinds   == {"api_redeem", "adjust_self"}
\* Handlers that depend on current_user: the row is loaded as they begin.
LoadingKinds == StaleKinds \cup {"create_payment"}

ASSUME LedgerConstants ==
  /\ Kinds \subseteq Handler
  /\ Amounts \subseteq Nat \ {0}
  /\ WelcomeBonus \in Nat \ {0}
  /\ GenerationCost \in Nat \ {0}
  /\ CreditPromos \subseteq Promo
  /\ Value \in [Promo -> Nat \ {0}]
  /\ ValidUntil \in [Promo -> Date]
  /\ MaxActivations \in [Promo -> Nat]
  /\ MaxTransactions \in Nat
  /\ None \notin Session \cup Intent \cup Promo \cup User \cup Date
  /\ Intent \cap Promo = {}

Statuses  == {"absent", "pending", "succeeded", "failed", "canceled", "refunded", "review"}
EntryType == {"welcome_bonus", "top_up", "promo", "spend", "adjustment", "refund"}

\* A request as its handler works with it: the user whose row it changes, the
\* intent or promo code it names, and the number of credits it is about.
Request ==
       [kind: Kinds \cap IntentKinds, user: User, item: Intent, amount: Amounts]
  \cup [kind: Kinds \cap RedeemKinds, user: User, item: Promo, amount: Nat]
  \cup [kind: Kinds \cap {"adjust", "adjust_self"}, user: User, item: {None}, amount: Int]
  \cup [kind: Kinds \cap {"create_payment", "bot_top_up"}, user: User, item: {None},
        amount: Amounts]
  \cup [kind: Kinds \cap {"register"}, user: User, item: {None}, amount: {WelcomeBonus}]
  \cup [kind: Kinds \cap {"debit"}, user: User, item: {None}, amount: {GenerationCost}]

NoRequest  == [kind |-> "none", user |-> None, item |-> None, amount |-> 0]
NoDiscount == [percent |-> 0, until |-> None, promo |-> None]
NoRow      == [credits |-> 0, discount |-> NoDiscount, status |-> "absent", activations |-> 0]
NoIntent   == [status |-> "absent", owner |-> None, credits |-> 0, percent |-> 0]

Discounts == [percent: Nat, until: Date \cup {None}, promo: Promo \cup {None}]
Entries   == [type: EntryType, amount: Int, balance_after: Int,
              source: Intent \cup Promo \cup {None}, created_at: Nat]
LoadedRows == [credits: Int, discount: Discounts, status: Statuses, activations: Nat]
Intents   == [status: Statuses, owner: User \cup {None}, credits: Nat, percent: Nat]

-----------------------------------------------------------------------------
Init ==
  /\ registered  = {}
  /\ credits     = [u \in User |-> 0]
  /\ discount    = [u \in User |-> NoDiscount]
  /\ intents     = [i \in Intent |-> NoIntent]
  /\ activations = [p \in Promo |-> 0]
  /\ expired     = {}
  /\ redeemed    = {}
  /\ ledger      = [u \in User |-> <<>>]
  /\ user_lock   = [u \in User |-> None]
  /\ promo_lock  = [p \in Promo |-> None]
  /\ phase       = [s \in Session |-> "idle"]
  /\ req         = [s \in Session |-> NoRequest]
  /\ loaded      = [s \in Session |-> NoRow]
  /\ began       = [s \in Session |-> 0]
  /\ clock       = 0

-----------------------------------------------------------------------------
(* The transaction of a request. *)

\* Session s begins the transaction that serves request r, having loaded row.
Start(s, r, row) ==
  /\ phase[s] = "idle"
  /\ clock < MaxTransactions
  /\ clock'  = clock + 1
  /\ began'  = [began EXCEPT ![s] = clock + 1]
  /\ phase'  = [phase EXCEPT ![s] = "begun"]
  /\ req'    = [req EXCEPT ![s] = r]
  /\ loaded' = [loaded EXCEPT ![s] = row]
  /\ UNCHANGED <<store, locks>>

\* The transaction of s ends, committed or rolled back; its locks are released.
Finish(s) ==
  /\ phase'      = [phase EXCEPT ![s] = "idle"]
  /\ req'        = [req EXCEPT ![s] = NoRequest]
  /\ loaded'     = [loaded EXCEPT ![s] = NoRow]
  /\ began'      = [began EXCEPT ![s] = 0]
  /\ user_lock'  = [u \in User |-> IF user_lock[u] = s THEN None ELSE user_lock[u]]
  /\ promo_lock' = [p \in Promo |-> IF promo_lock[p] = s THEN None ELSE promo_lock[p]]
  /\ UNCHANGED clock

\* Session s serves a request of kind k and stands at phase ph.
Serves(s, k, ph) == phase[s] = ph /\ req[s].kind = k

\* A payment webhook or refund: the intent is read without a lock.
BeginIntent(s) ==
  \E k \in Kinds \cap IntentKinds, i \in Intent :
    /\ intents[i].status # "absent"
    /\ Start(s, [kind |-> k, user |-> intents[i].owner, item |-> i,
                 amount |-> intents[i].credits],
                [NoRow EXCEPT !.status = intents[i].status])

\* What current_user leaves in the identity map of a handler of kind k.
CallerRow(k, u) ==
  IF k \in LoadingKinds
  THEN [NoRow EXCEPT !.credits = credits[u], !.discount = discount[u]]
  ELSE NoRow

BeginRedeem(s) ==
  \E k \in Kinds \cap RedeemKinds, u \in registered, p \in Promo :
    Start(s, [kind |-> k, user |-> u, item |-> p, amount |-> Value[p]], CallerRow(k, u))

\* Rows of Intent left for those who create one: a bound of the model only.
FreeIntents == { i \in Intent : intents[i].status = "absent" }
Creating    == { s \in Session : req[s].kind \in {"create_payment", "bot_top_up"} }

BeginAmount(s) ==
  \E k \in Kinds \cap AmountKinds, u \in registered, a \in Amounts :
  /\ k \in {"create_payment", "bot_top_up"} =>
       Cardinality(Creating) < Cardinality(FreeIntents)
  /\ \E n \in IF k \in {"adjust", "adjust_self"} THEN {a, -a} ELSE {a} :
       Start(s, [kind |-> k, user |-> u, item |-> None, amount |-> n], CallerRow(k, u))

BeginDebit(s) ==
  \E k \in Kinds \cap {"debit"}, u \in registered :
    Start(s, [kind |-> k, user |-> u, item |-> None, amount |-> GenerationCost], NoRow)

BeginRegister(s) ==
  \E k \in Kinds \cap {"register"}, u \in User :
    Start(s, [kind |-> k, user |-> u, item |-> None, amount |-> WelcomeBonus], NoRow)

\* promo_was_redeemed and validate_promo.  The bot asks only the first.
PromoRefused(s) ==
  LET p == req[s].item IN
  \/ <<p, req[s].user>> \in redeemed
  \/ /\ req[s].kind = "api_redeem"
     /\ ValidUntil[p] \in expired \/ activations[p] >= MaxActivations[p]

\* Mutant: the promo code is read without FOR UPDATE.
LockPromoUnlocked(s) ==
  /\ phase[s] = "begun"
  /\ req[s].kind \in RedeemKinds
  /\ IF PromoRefused(s)
     THEN Finish(s)
     ELSE /\ phase' = [phase EXCEPT ![s] = "promo"]
          /\ loaded' = [loaded EXCEPT ![s].activations = activations[req[s].item]]
          /\ UNCHANGED <<locks, req, began, clock>>
  /\ UNCHANGED store

\* SELECT ... FOR UPDATE of the promo code, then the checks made under the lock.
LockPromo(s) ==
  /\ phase[s] = "begun"
  /\ req[s].kind \in RedeemKinds
  /\ promo_lock[req[s].item] = None
  /\ IF PromoRefused(s)
     THEN Finish(s)
     ELSE /\ promo_lock' = [promo_lock EXCEPT ![req[s].item] = s]
          /\ phase' = [phase EXCEPT ![s] = "promo"]
          /\ loaded' = [loaded EXCEPT ![s].activations = activations[req[s].item]]
          /\ UNCHANGED <<user_lock, req, began, clock>>
  /\ UNCHANGED store

\* Mutant: refund_payment does not ask whether the intent has succeeded.
WantsUserUnpaid(s) ==
  \/ phase[s] = "promo"
  \/ phase[s] = "begun" /\ req[s].kind \in {"bot_top_up", "adjust", "adjust_self", "debit"}
  \/ Serves(s, "confirm", "begun") /\ loaded[s].status # "succeeded"
  \/ Serves(s, "refund", "begun")

\* The handler of s goes on to lock the user's row: the early returns that
\* read a status do so on the intent as it was loaded.
WantsUser(s) ==
  \/ phase[s] = "promo"
  \/ phase[s] = "begun" /\ req[s].kind \in {"bot_top_up", "adjust", "adjust_self", "debit"}
  \/ Serves(s, "confirm", "begun") /\ loaded[s].status # "succeeded"
  \/ Serves(s, "refund", "begun") /\ loaded[s].status = "succeeded"

\* Mutant: the user is read without FOR UPDATE.
LockUserUnlocked(s) ==
  LET u == req[s].user IN
  /\ WantsUser(s)
  /\ phase' = [phase EXCEPT ![s] = "locked"]
  /\ loaded' = IF req[s].kind \in StaleKinds
               THEN loaded
               ELSE [loaded EXCEPT ![s].credits = credits[u], ![s].discount = discount[u]]
  /\ UNCHANGED <<store, locks, req, began, clock>>

\* Mutant: a redemption may lock the user before the promo code.
LockUserFirst(s) ==
  LET u == req[s].user
      first == phase[s] = "begun" /\ req[s].kind \in RedeemKinds IN
  /\ WantsUser(s) \/ first
  /\ user_lock[u] \in {None} \cup { x \in {s} : phase[s] = "promo" }
  /\ user_lock' = [user_lock EXCEPT ![u] = s]
  /\ phase' = [phase EXCEPT ![s] = IF first THEN "begun" ELSE "locked"]
  /\ loaded' = IF req[s].kind \in StaleKinds
               THEN loaded
               ELSE [loaded EXCEPT ![s].credits = credits[u], ![s].discount = discount[u]]
  /\ UNCHANGED <<store, promo_lock, req, began, clock>>

\* SELECT ... FOR UPDATE of the user: waits for the lock, then loads the row as
\* committed, unless the identity map already holds it.
LockUser(s) ==
  LET u == req[s].user IN
  /\ WantsUser(s)
  /\ user_lock[u] = None
  /\ user_lock' = [user_lock EXCEPT ![u] = s]
  /\ phase' = [phase EXCEPT ![s] = "locked"]
  /\ loaded' = IF req[s].kind \in StaleKinds
               THEN loaded
               ELSE [loaded EXCEPT ![s].credits = credits[u], ![s].discount = discount[u]]
  /\ UNCHANGED <<store, promo_lock, req, began, clock>>

-----------------------------------------------------------------------------
(* What a flush writes. *)

\* The unit of work writes a column only when it differs from what was loaded.
Column(stored, old, new) == IF new = old THEN stored ELSE new

WriteDiscount(s, new) ==
  LET old == loaded[s].discount IN
  discount' = [discount EXCEPT ![req[s].user] =
                [percent |-> Column(@.percent, old.percent, new.percent),
                 until   |-> Column(@.until, old.until, new.until),
                 promo   |-> Column(@.promo, old.promo, new.promo)]]

WriteStatus(s, new) ==
  intents' = [intents EXCEPT ![req[s].item].status = Column(@, loaded[s].status, new)]

\* Mutant: the row records the balance read before the change.
MoveCreditsBefore(s, type, amount, source) ==
  LET u == req[s].user
      new == loaded[s].credits + amount IN
  /\ credits' = [credits EXCEPT ![u] = Column(@, loaded[s].credits, new)]
  /\ ledger'  = [ledger EXCEPT ![u] = Append(@,
                  [type |-> type, amount |-> amount, balance_after |-> loaded[s].credits,
                   source |-> source, created_at |-> began[s]])]

\* user.credits += amount, and the credit_transactions row that records it.
MoveCredits(s, type, amount, source) ==
  LET u == req[s].user
      new == loaded[s].credits + amount IN
  /\ credits' = [credits EXCEPT ![u] = Column(@, loaded[s].credits, new)]
  /\ ledger'  = [ledger EXCEPT ![u] = Append(@,
                  [type |-> type, amount |-> amount, balance_after |-> new,
                   source |-> source, created_at |-> began[s]])]

-----------------------------------------------------------------------------
(* How each handler ends. *)

\* Early returns and refusals: nothing is written.
Return(s) ==
  /\ \/ Serves(s, "confirm", "begun") /\ loaded[s].status = "succeeded"
     \/ Serves(s, "refund", "begun") /\ loaded[s].status # "succeeded"
     \/ phase[s] = "begun" /\ req[s].kind \in {"fail", "cancel"} /\ loaded[s].status # "pending"
     \/ Serves(s, "register", "begun") /\ req[s].user \in registered
     \/ /\ phase[s] = "locked"
        /\ req[s].kind \in {"adjust", "adjust_self"}
        /\ loaded[s].credits + req[s].amount < 0
     \/ Serves(s, "debit", "locked") /\ loaded[s].credits < req[s].amount
  /\ Finish(s)
  /\ UNCHANGED store

\* The transaction fails at any point (an exception, a lost connection, a
\* process that dies, a deadlock victim) and rolls back.
Abort(s) ==
  /\ phase[s] # "idle"
  /\ Finish(s)
  /\ UNCHANGED store

\* Mutant: the ledger row names the user instead of no source.
RegisterSource(s) ==
  /\ Serves(s, "register", "begun")
  /\ req[s].user \notin registered
  /\ registered' = registered \cup {req[s].user}
  /\ MoveCredits(s, "welcome_bonus", req[s].amount, req[s].user)
  /\ Finish(s)
  /\ UNCHANGED <<discount, intents, activations, expired, redeemed>>

\* The users row and the welcome bonus are created in one transaction; the new
\* row is invisible, and its email and telegram_id are unique, until it commits.
Register(s) ==
  /\ Serves(s, "register", "begun")
  /\ req[s].user \notin registered
  /\ registered' = registered \cup {req[s].user}
  /\ MoveCredits(s, "welcome_bonus", req[s].amount, None)
  /\ Finish(s)
  /\ UNCHANGED <<discount, intents, activations, expired, redeemed>>

\* The discount loaded by s is past the valid_until it was stored with.
DiscountExpired(s) == loaded[s].discount.until \in expired

\* create_payment decides whether the discount still counts, then flushes.
PricePayment(s) ==
  /\ Serves(s, "create_payment", "begun")
  /\ phase' = [phase EXCEPT ![s] = IF DiscountExpired(s) THEN "lapsed" ELSE "priced"]
  /\ UNCHANGED <<store, locks, req, loaded, began, clock>>

\* The new intent references the user, so its INSERT waits for the row lock; what
\* was decided before is not looked at again.
CreatePayment(s) ==
  LET u   == req[s].user
      new == IF phase[s] = "lapsed" THEN NoDiscount ELSE loaded[s].discount IN
  /\ Serves(s, "create_payment", "priced") \/ Serves(s, "create_payment", "lapsed")
  /\ user_lock[u] = None
  /\ \E i \in Intent :
       /\ intents[i].status = "absent"
       /\ intents' = [intents EXCEPT ![i] =
            [status |-> "pending", owner |-> u, credits |-> req[s].amount,
             percent |-> new.percent]]
  /\ WriteDiscount(s, new)
  /\ Finish(s)
  /\ UNCHANGED <<registered, credits, activations, expired, redeemed, ledger>>

\* The handler checks the status it loaded, not the one stored by now.
Confirm(s) ==
  /\ Serves(s, "confirm", "locked")
  /\ WriteDiscount(s, NoDiscount)
  /\ WriteStatus(s, "succeeded")
  /\ MoveCredits(s, "top_up", req[s].amount, req[s].item)
  /\ Finish(s)
  /\ UNCHANGED <<registered, activations, expired, redeemed>>

\* fail_payment and cancel_payment take no lock on the user.
Close(s) ==
  /\ phase[s] = "begun"
  /\ loaded[s].status = "pending"
  /\ \/ req[s].kind = "fail"   /\ WriteStatus(s, "failed")
     \/ req[s].kind = "cancel" /\ WriteStatus(s, "canceled")
  /\ Finish(s)
  /\ UNCHANGED <<registered, credits, discount, activations, expired, redeemed, ledger>>

Refund(s) ==
  /\ Serves(s, "refund", "locked")
  /\ \/ /\ loaded[s].credits < req[s].amount
        /\ WriteStatus(s, "review")
        /\ UNCHANGED <<credits, ledger>>
     \/ /\ loaded[s].credits >= req[s].amount
        /\ WriteStatus(s, "refunded")
        /\ MoveCredits(s, "refund", -req[s].amount, req[s].item)
  /\ Finish(s)
  /\ UNCHANGED <<registered, discount, activations, expired, redeemed>>

\* The API stores the whole discount, the bot only its percent.
RedeemedDiscount(s) ==
  LET p == req[s].item IN
  IF req[s].kind = "api_redeem"
  THEN [percent |-> req[s].amount, until |-> ValidUntil[p], promo |-> p]
  ELSE [loaded[s].discount EXCEPT !.percent = req[s].amount]

\* Mutant: the redemption row is not added.
RedeemUnrecorded(s) ==
  LET p == req[s].item IN
  /\ phase[s] = "locked"
  /\ req[s].kind \in RedeemKinds
  /\ activations' = [activations EXCEPT ![p] = loaded[s].activations + 1]
  /\ \/ p \in CreditPromos /\ MoveCredits(s, "promo", req[s].amount, p) /\ UNCHANGED discount
     \/ p \notin CreditPromos /\ WriteDiscount(s, RedeemedDiscount(s)) /\ UNCHANGED <<credits, ledger>>
  /\ Finish(s)
  /\ UNCHANGED <<registered, intents, expired, redeemed>>

\* A redemption: the counter, the redemption row, and credits or a discount.
Redeem(s) ==
  LET p == req[s].item IN
  /\ phase[s] = "locked"
  /\ req[s].kind \in RedeemKinds
  /\ <<p, req[s].user>> \notin redeemed   \* unique (promo_code_id, user_id)
  /\ activations' = [activations EXCEPT ![p] = loaded[s].activations + 1]
  /\ redeemed' = redeemed \cup {<<p, req[s].user>>}
  /\ \/ p \in CreditPromos /\ MoveCredits(s, "promo", req[s].amount, p) /\ UNCHANGED discount
     \/ p \notin CreditPromos /\ WriteDiscount(s, RedeemedDiscount(s)) /\ UNCHANGED <<credits, ledger>>
  /\ Finish(s)
  /\ UNCHANGED <<registered, intents, expired>>

\* create_mock_top_up of the bot: intent, credits and ledger row in one step.
BotTopUp(s) ==
  LET old == loaded[s].discount IN
  /\ Serves(s, "bot_top_up", "locked")
  /\ \E i \in Intent :
       /\ intents[i].status = "absent"
       /\ intents' = [intents EXCEPT ![i] =
            [status |-> "succeeded", owner |-> req[s].user, credits |-> req[s].amount,
             percent |-> old.percent]]
       /\ MoveCredits(s, "top_up", req[s].amount, i)
  /\ WriteDiscount(s, [old EXCEPT !.percent = 0])
  /\ Finish(s)
  /\ UNCHANGED <<registered, activations, expired, redeemed>>

Adjust(s) ==
  /\ phase[s] = "locked"
  /\ req[s].kind \in {"adjust", "adjust_self"}
  /\ loaded[s].credits + req[s].amount >= 0
  /\ MoveCredits(s, "adjustment", req[s].amount, None)
  /\ Finish(s)
  /\ UNCHANGED <<registered, discount, intents, activations, expired, redeemed>>

\* Mutant: the balance is not checked again under the lock.
DebitUnchecked(s) ==
  /\ Serves(s, "debit", "locked")
  /\ MoveCredits(s, "spend", -req[s].amount, None)
  /\ Finish(s)
  /\ UNCHANGED <<registered, discount, intents, activations, expired, redeemed>>

\* debit_generation_credits of the worker.
Debit(s) ==
  /\ Serves(s, "debit", "locked")
  /\ loaded[s].credits >= req[s].amount
  /\ MoveCredits(s, "spend", -req[s].amount, None)
  /\ Finish(s)
  /\ UNCHANGED <<registered, discount, intents, activations, expired, redeemed>>

\* Time: the valid_until of promo codes and discounts passes.
Expire(d) ==
  /\ d \notin expired
  /\ expired' = expired \cup {d}
  /\ UNCHANGED <<registered, credits, discount, intents, activations, redeemed, ledger,
                 locks, local, clock>>

-----------------------------------------------------------------------------
Begin(s) ==
  BeginIntent(s) \/ BeginRedeem(s) \/ BeginAmount(s) \/ BeginDebit(s) \/ BeginRegister(s)

Work(s) ==
  \/ LockPromo(s) \/ LockUser(s) \/ Return(s) \/ Register(s) \/ PricePayment(s)
  \/ CreatePayment(s) \/ Confirm(s) \/ Close(s) \/ Refund(s) \/ Redeem(s) \/ BotTopUp(s)
  \/ Adjust(s) \/ Debit(s)

Next ==
  \/ \E s \in Session : Begin(s) \/ Work(s) \/ Abort(s)
  \/ \E d \in Date : Expire(d)

Spec == Init /\ [][Next]_vars

\* A server that runs goes on with a request it has begun, and Postgres queues
\* the waiters of a row lock; nothing makes clients or time act, or sessions fail.
FairSpec == Spec /\ \A s \in Session : WF_vars(Work(s))

-----------------------------------------------------------------------------
(* Properties. *)

TypeOK ==
  /\ registered \subseteq User
  /\ credits \in [User -> Int]
  /\ discount \in [User -> Discounts]
  /\ intents \in [Intent -> Intents]
  /\ activations \in [Promo -> Nat]
  /\ expired \subseteq Date
  /\ redeemed \subseteq Promo \X User
  /\ ledger \in [User -> Seq(Entries)]
  /\ user_lock \in [User -> Session \cup {None}]
  /\ promo_lock \in [Promo -> Session \cup {None}]
  /\ phase \in [Session -> {"idle", "begun", "promo", "locked", "priced", "lapsed"}]
  /\ req \in [Session -> Request \cup {NoRequest}]
  /\ loaded \in [Session -> LoadedRows]
  /\ began \in [Session -> Nat]
  /\ clock \in Nat

\* No interleaving of the handlers drives a balance below zero, although some
\* of them compute the new balance from a row loaded before they held the lock.
NonNegativeBalance == \A u \in User : credits[u] >= 0

\* The ledger explains the balance: each row's balance_after is the one before
\* it plus its amount, and the last one is users.credits.
BalanceBefore(u, n) == IF n = 1 THEN 0 ELSE ledger[u][n - 1].balance_after

LedgerChain ==
  \A u \in User :
    /\ \A n \in 1..Len(ledger[u]) :
         ledger[u][n].balance_after = BalanceBefore(u, n) + ledger[u][n].amount
    /\ credits[u] = BalanceBefore(u, Len(ledger[u]) + 1)

\* The numbers of the ledger rows of user u with this type and source.
Rows(u, type, source) ==
  { n \in 1..Len(ledger[u]) : ledger[u][n].type = type /\ ledger[u][n].source = source }

\* A promo code gives its credits once to a user, however many sessions of the
\* API and the bot redeem it at the same time, and never without a redemption.
PromoPaidOnce ==
  \A u \in User, p \in Promo :
    Cardinality(Rows(u, "promo", p)) =
      IF p \in CreditPromos /\ <<p, u>> \in redeemed THEN 1 ELSE 0

\* activations_count is the number of redemption rows of the promo code.
ActivationsCounted ==
  \A p \in Promo : activations[p] = Cardinality({ u \in User : <<p, u>> \in redeemed })

\* The activation limit of a code holds where the API alone redeems it.
ActivationsBounded == \A p \in Promo : activations[p] <= MaxActivations[p]

\* An intent has settled (succeeded, refunded or in manual review) only if its
\* credits reached its owner's ledger, and a pending one has no ledger row.
SettledWasCredited ==
  \A i \in Intent :
    /\ intents[i].status \in {"succeeded", "refunded", "review"} =>
         \E n \in Rows(intents[i].owner, "top_up", i) :
           ledger[intents[i].owner][n].amount = intents[i].credits
    /\ intents[i].status \in {"absent", "pending"} =>
         \A u \in User : \A n \in 1..Len(ledger[u]) : ledger[u][n].source # i

\* A percent some code of user u has given him.
GivenTo(u, percent) ==
  \E p \in Promo \ CreditPromos : <<p, u>> \in redeemed /\ Value[p] = percent

\* A discount, waiting for the next top-up or applied to one, is the value of a code
\* that user has redeemed, although sessions write back the row they loaded and
\* redemptions are rolled back.
DiscountWasRedeemed ==
  /\ \A u \in User : discount[u].percent > 0 => GivenTo(u, discount[u].percent)
  /\ \A i \in Intent : intents[i].percent > 0 => GivenTo(intents[i].owner, intents[i].percent)

\* A discount redeemed in the API is valid until its code is.
DiscountEndsWithItsPromo ==
  \A u \in User : discount[u].promo # None => discount[u].until = ValidUntil[discount[u].promo]

\* Every request that is served gets its answer: the row locks are taken in one
\* order, promo code before user, so nobody waits for ever.
EveryRequestEnds == \A s \in Session : phase[s] # "idle" ~> phase[s] = "idle"

\* Repeating a confirmation does not credit the intent twice.
CreditedAtMostOnce ==
  \A u \in User, i \in Intent : Cardinality(Rows(u, "top_up", i)) <= 1

Abstract == INSTANCE AtomicLedger WITH balance <- credits, history <- ledger

\* Without a handler that locks a row it has already loaded, every step of the
\* system moves one balance with the one row that explains it, or none.
RefinesAtomicLedger == Abstract!Spec

=============================================================================

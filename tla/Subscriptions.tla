----------------------------- MODULE Subscriptions -----------------------------
(***************************************************************************)
(* The paid periods of one user and the plan they give him.                *)
(*                                                                         *)
(* A purchase prolongs the plan or changes it, a sweep ends the periods    *)
(* whose time is over, and an admin may end the current one.  Each works   *)
(* on the tables subscriptions and users in a transaction of its own.      *)
(* Statements see what was committed before they ran; an UPDATE waits for  *)
(* the transaction that has written the row, and the unit of work leaves   *)
(* it out when the column already has the value, as it was read.           *)
(*                                                                         *)
(* Users share nothing here: the sweep of several users is the sweep of    *)
(* each.  The insert of a period shares the key of the user's row, which   *)
(* an UPDATE of the plan does not touch, so neither waits for the other.   *)
(***************************************************************************)
EXTENDS Integers

CONSTANTS
  Transaction,                 \* transactions open at once
  Kinds,                       \* the operations this instance has
  PAID_SUBSCRIPTION_DURATION,  \* length of a period, in ticks of the clock
  MaxPeriods,                  \* bound: periods that are inserted
  MaxTime,                     \* bound: ticks of a behaviour
  None

ASSUME SubscriptionConstants ==
  /\ Kinds \subseteq {"activate", "expire_due", "admin_expire"}
  /\ PAID_SUBSCRIPTION_DURATION \in Nat \ {0}
  /\ MaxPeriods \in Nat
  /\ MaxTime \in Nat
  /\ None \notin Nat \cup Transaction \cup {"free", "standard", "pro"}
                      \cup {"activate", "expire_due", "admin_expire"}

VARIABLES
  now,      \* the clock
  plan,     \* users.plan, as committed
  period,   \* the rows of subscriptions, by id
  cut,      \* history: periods an admin has ended
  tx        \* what each transaction is doing

vars == <<now, plan, period, cut, tx>>

Paid     == {"standard", "pro"}
Plans    == {"free"} \cup Paid
Period   == 1..MaxPeriods
NoPeriod == [status |-> "absent", plan |-> None, starts_at |-> 0, expires_at |-> 0]

\* A transaction writes "plan": "seen" is the plan of the user when it began,
\* "sets" the one it has written.  It has marked the periods "ends" expired, has
\* "due" still to mark, and has inserted "new".
NoTx == [phase |-> "idle", kind |-> None, plan |-> None, seen |-> None, starts_at |-> 0,
         due |-> {}, new |-> None, ends |-> {}, sets |-> None]

Init ==
  /\ now     = 0
  /\ plan    = "free"
  /\ period  = [i \in Period |-> NoPeriod]
  /\ cut     = {}
  /\ tx      = [t \in Transaction |-> NoTx]

-----------------------------------------------------------------------------
(* Rows. *)

Active == { i \in Period : period[i].status = "active" }

\* The active periods that end last.
Latest == { i \in Active : \A j \in Active : period[j].expires_at <= period[i].expires_at }

\* get_active_by_user_id: of several that end last, the newest.
Current ==
  IF Latest = {} THEN None ELSE CHOOSE i \in Latest : \A j \in Latest : j <= i

\* No other transaction has written period i, or the user's plan.
PeriodFree(t, i) == \A u \in Transaction \ {t} : i \notin tx[u].ends
UserFree(t)      == \A u \in Transaction \ {t} : tx[u].sets = None

\* update_status of period i: no UPDATE if it was ended before.
Expire(t, i) == IF period[i].status = "active" THEN tx[t].ends \cup {i} ELSE tx[t].ends

\* users.plan as t reads it.
PlanSeen(t) == IF tx[t].sets = None THEN plan ELSE tx[t].sets

Goto(t, phase) == tx' = [tx EXCEPT ![t].phase = phase]

-----------------------------------------------------------------------------
(* A purchase: activate_subscription. *)

\* A period of the plan that is current is continued, one of another plan ended.
Activate(t) ==
  /\ tx[t].phase = "idle"
  /\ "activate" \in Kinds
  /\ \E p \in Paid :
       LET prolongs == Current # None /\ period[Current].plan = p IN
       tx' = [tx EXCEPT ![t] = [NoTx EXCEPT
                !.phase = "create", !.kind = "activate", !.plan = p, !.seen = plan,
                !.starts_at = IF prolongs THEN period[Current].expires_at ELSE now,
                !.due = IF prolongs \/ Current = None THEN {} ELSE {Current}]]
  /\ UNCHANGED <<now, plan, period, cut>>

\* Mutant: the new period gets the plan the user had when he paid.
CreatePeriodAsBefore(t) ==
  /\ tx[t].phase = "create"
  /\ \A i \in tx[t].due : PeriodFree(t, i)
  /\ \E n \in Period :
       /\ period[n].status = "absent"
       /\ \A i \in 1..(n - 1) : period[i].status # "absent"
       /\ period' = [period EXCEPT ![n] =
            [status |-> "inserted", plan |-> tx[t].seen, starts_at |-> tx[t].starts_at,
             expires_at |-> tx[t].starts_at + PAID_SUBSCRIPTION_DURATION]]
       /\ tx' = [tx EXCEPT ![t] = [@ EXCEPT
                    !.new = n, !.due = {}, !.seen = None, !.starts_at = 0,
                    !.ends = UNION { Expire(t, i) : i \in tx[t].due },
                    !.phase = IF plan = tx[t].plan THEN "commit" ELSE "plan"]]
  /\ UNCHANGED <<now, plan, cut>>

\* The period that is replaced is marked, the new one inserted, and update_plan
\* reads the user.
CreatePeriod(t) ==
  /\ tx[t].phase = "create"
  /\ \A i \in tx[t].due : PeriodFree(t, i)
  /\ \E n \in Period :
       /\ period[n].status = "absent"
       /\ \A i \in 1..(n - 1) : period[i].status # "absent"
       /\ period' = [period EXCEPT ![n] =
            [status |-> "inserted", plan |-> tx[t].plan, starts_at |-> tx[t].starts_at,
             expires_at |-> tx[t].starts_at + PAID_SUBSCRIPTION_DURATION]]
       /\ tx' = [tx EXCEPT ![t] = [@ EXCEPT
                    !.new = n, !.due = {}, !.seen = None, !.starts_at = 0,
                    !.ends = UNION { Expire(t, i) : i \in tx[t].due },
                    !.phase = IF plan = tx[t].plan THEN "commit" ELSE "plan"]]
  /\ UNCHANGED <<now, plan, cut>>

-----------------------------------------------------------------------------
(* The sweep: expire_subscriptions. *)

\* Mutant: a period that ends at this instant is taken as over.
ListDueOrEnding(t) ==
  LET over == { i \in Active : period[i].expires_at <= now } IN
  /\ tx[t].phase = "idle"
  /\ "expire_due" \in Kinds
  /\ over # {}
  /\ tx' = [tx EXCEPT ![t] = [NoTx EXCEPT !.phase = "due", !.kind = "expire_due",
                                          !.plan = "free", !.due = over]]
  /\ UNCHANGED <<now, plan, period, cut>>

ListDue(t) ==
  LET over == { i \in Active : period[i].expires_at < now } IN
  /\ tx[t].phase = "idle"
  /\ "expire_due" \in Kinds
  /\ over # {}
  /\ tx' = [tx EXCEPT ![t] = [NoTx EXCEPT !.phase = "due", !.kind = "expire_due",
                                          !.plan = "free", !.due = over]]
  /\ UNCHANGED <<now, plan, period, cut>>

\* Mutant: the status is committed at once, the plan follows.
ExpireOneAtOnce(t) ==
  /\ tx[t].phase = "due"
  /\ tx[t].kind = "expire_due"
  /\ \E i \in tx[t].due :
       /\ PeriodFree(t, i)
       /\ period' = [period EXCEPT ![i].status = "expired"]
       /\ tx' = [tx EXCEPT ![t].due = @ \ {i},
                           ![t].phase = IF PlanSeen(t) = "free" THEN "due" ELSE "plan"]
  /\ UNCHANGED <<now, plan, cut>>

\* One of them is marked, in no order the code asks for; update_plan reads the user.
ExpireOne(t) ==
  /\ tx[t].phase = "due"
  /\ tx[t].kind = "expire_due"
  /\ \E i \in tx[t].due :
       /\ PeriodFree(t, i)
       /\ tx' = [tx EXCEPT ![t].ends = Expire(t, i), ![t].due = @ \ {i},
                           ![t].phase = IF PlanSeen(t) = "free" THEN "due" ELSE "plan"]
  /\ UNCHANGED <<now, plan, period, cut>>

SweepEnds(t) ==
  /\ tx[t].phase = "due"
  /\ tx[t].kind = "expire_due"
  /\ tx[t].due = {}
  /\ Goto(t, "commit")
  /\ UNCHANGED <<now, plan, period, cut>>

-----------------------------------------------------------------------------
(* An admin: POST /admin/users/{id}/subscription/expire. *)

\* The user is read first; the session keeps the plan it has seen.
GetTarget(t) ==
  /\ tx[t].phase = "idle"
  /\ "admin_expire" \in Kinds
  /\ tx' = [tx EXCEPT ![t] = [NoTx EXCEPT !.phase = "target", !.kind = "admin_expire",
                                          !.plan = "free", !.seen = plan]]
  /\ UNCHANGED <<now, plan, period, cut>>

\* Then a period: of several that end last, any.
FindCurrent(t) ==
  /\ tx[t].phase = "target"
  /\ \E found \in IF Latest = {} THEN {{}} ELSE { {i} : i \in Latest } :
       tx' = [tx EXCEPT ![t].due = found, ![t].phase = "due"]
  /\ UNCHANGED <<now, plan, period, cut>>

\* The flush writes the period, then the user, unless the plan that was seen is Free.
EndCurrent(t) ==
  /\ tx[t].phase = "due"
  /\ tx[t].kind = "admin_expire"
  /\ \A i \in tx[t].due : PeriodFree(t, i)
  /\ tx' = [tx EXCEPT ![t].ends = tx[t].due, ![t].due = {}, ![t].seen = None,
                      ![t].phase = IF tx[t].seen = "free" THEN "commit" ELSE "plan"]
  /\ UNCHANGED <<now, plan, period, cut>>

-----------------------------------------------------------------------------
(* Every transaction. *)

\* The UPDATE of users.plan waits for the row.
SetPlan(t) ==
  /\ tx[t].phase = "plan"
  /\ UserFree(t)
  /\ tx' = [tx EXCEPT ![t].sets = tx[t].plan,
                      ![t].phase = IF tx[t].kind = "expire_due" THEN "due" ELSE "commit"]
  /\ UNCHANGED <<now, plan, period, cut>>

Commit(t) ==
  /\ tx[t].phase = "commit"
  /\ period' = [i \in Period |->
       IF i = tx[t].new THEN [period[i] EXCEPT !.status = "active"]
       ELSE IF i \in tx[t].ends THEN [period[i] EXCEPT !.status = "expired"]
       ELSE period[i]]
  /\ plan' = PlanSeen(t)
  /\ cut' = IF tx[t].kind = "admin_expire" THEN cut \cup (tx[t].ends \cap Active) ELSE cut
  /\ tx' = [tx EXCEPT ![t] = NoTx]
  /\ UNCHANGED now

\* Any exception, a deadlock that Postgres resolves included; the id stays unused.
Abort(t) ==
  /\ tx[t].phase # "idle"
  /\ period' = [i \in Period |->
       IF i = tx[t].new THEN [period[i] EXCEPT !.status = "unused"] ELSE period[i]]
  /\ tx' = [tx EXCEPT ![t] = NoTx]
  /\ UNCHANGED <<now, plan, cut>>

Tick == now < MaxTime /\ now' = now + 1 /\ UNCHANGED <<plan, period, cut, tx>>

-----------------------------------------------------------------------------
Work(t) ==
  \/ Activate(t) \/ CreatePeriod(t)
  \/ ListDue(t) \/ ExpireOne(t) \/ SweepEnds(t)
  \/ GetTarget(t) \/ FindCurrent(t) \/ EndCurrent(t)
  \/ SetPlan(t) \/ Commit(t) \/ Abort(t)

Next ==
  \/ Tick
  \/ \E t \in Transaction : Work(t)

Spec == Init /\ [][Next]_vars

-----------------------------------------------------------------------------
(* Properties. *)

Instant == 0..(MaxTime + MaxPeriods * PAID_SUBSCRIPTION_DURATION)

TypeOK ==
  /\ now \in 0..MaxTime
  /\ plan \in Plans
  /\ period \in [Period -> [status: {"absent", "inserted", "unused", "active", "expired"},
                            plan: Paid \cup {None}, starts_at: Instant, expires_at: Instant]]
  /\ cut \subseteq Period
  /\ tx \in [Transaction ->
       [phase: {"idle", "create", "due", "target", "plan", "commit"}, kind: Kinds \cup {None},
        plan: Plans \cup {None}, seen: Plans \cup {None}, starts_at: Instant,
        due: SUBSET Period, new: Period \cup {None}, ends: SUBSET Period,
        sets: Plans \cup {None}]]

\* A paid plan has an active period of that plan, however purchases and sweeps
\* overlap; only a period that an admin ended can leave its plan behind.
PaidIsSubscribed ==
  plan \in Paid =>
    \E i \in Period : period[i].plan = plan /\ (i \in Active \/ i \in cut)

\* A period is active until its time is over, unless an admin ends it or the
\* user pays for another plan, which is his as soon as this one ends.
PeriodRunsOut ==
  [][\A i \in Active : period'[i].status = "expired" =>
       \/ period[i].expires_at < now
       \/ i \in cut'
       \/ \E n \in Period \ Active : period'[n].status = "active" /\ period'[n].plan # period[i].plan
    ]_vars

\* While a period that was paid for lasts, the user has a paid plan.
ActiveIsPaid ==
  (\E i \in Active : period[i].starts_at <= now /\ now < period[i].expires_at) => plan \in Paid

=============================================================================

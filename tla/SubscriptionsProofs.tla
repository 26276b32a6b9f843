-------------------------- MODULE SubscriptionsProofs --------------------------
(***************************************************************************)
(* Theorems about Subscriptions, for any number of transactions, purchases *)
(* and ticks, and any length of a period.  x is what a transaction is      *)
(* doing: a value of tx.                                                   *)
(***************************************************************************)
EXTENDS Subscriptions, WellFoundedInduction, TLAPS

TxStates == [phase: {"idle", "create", "due", "target", "plan", "commit"}, kind: Kinds \cup {None},
             plan: Plans \cup {None}, seen: Plans \cup {None}, starts_at: Instant,
             due: SUBSET Period, new: Period \cup {None}, ends: SUBSET Period,
             sets: Plans \cup {None}]

Rows == [status: {"absent", "inserted", "unused", "active", "expired"},
         plan: Paid \cup {None}, starts_at: Instant, expires_at: Instant]

\* What the fields say of the operation.
Consistent(x) ==
  /\ x.phase = "idle" => x = NoTx
  /\ x.phase = "create" => /\ x.kind = "activate"
                           /\ x.new = None /\ x.ends = {} /\ x.sets = None
  /\ x.phase = "due" => x.kind \in {"expire_due", "admin_expire"}
  /\ x.phase = "target" => /\ x.kind = "admin_expire"
                           /\ x.due = {} /\ x.ends = {} /\ x.sets = None
  /\ x.phase # "idle" => x.kind \in {"activate", "expire_due", "admin_expire"}
  /\ x.kind = "activate" =>
       /\ x.plan \in Paid
       /\ x.sets \in {None, x.plan}
       /\ x.phase \in {"plan", "commit"} => x.new \in Period
  /\ x.kind \in {"expire_due", "admin_expire"} =>
       x.plan = "free" /\ x.sets \in {None, "free"} /\ x.new = None

\* A period that is being inserted has the plan that was paid for; those to be
\* ended were committed when they were chosen, of another plan if it is a
\* purchase and overdue if it is the sweep.
RowsOf(x) ==
  /\ x.new # None => period[x.new].status = "inserted" /\ period[x.new].plan = x.plan
  /\ \A i \in x.due \cup x.ends :
       /\ period[i].status \in {"active", "expired"}
       /\ x.kind = "activate" => period[i].plan # x.plan
       /\ x.kind = "expire_due" => period[i].expires_at < now

\* It ends period i and leaves the plan as it is.
EndsOnly(x, i) ==
  /\ i \in x.ends
  /\ x.kind # "admin_expire"
  /\ x.sets = None
  /\ x.phase \in {"due", "commit"}

\* The new period starts now or when an earlier one ends.
Starts(x) ==
  x.phase = "create" =>
    \/ x.starts_at <= MaxTime
    \/ \E i \in Period : period[i].status # "absent" /\ x.starts_at <= period[i].expires_at

Transactions ==
  \A t \in Transaction :
    /\ Consistent(tx[t])
    /\ RowsOf(tx[t])
    /\ Starts(tx[t])
    /\ \A u \in Transaction \ {t} : tx[t].new # None => tx[u].new # tx[t].new

\* A period of the plan is ended by no transaction that leaves the plan as it is.
Witness(i) ==
  /\ period[i].plan = plan
  /\ \/ i \in cut
     \/ period[i].status = "active" /\ \A t \in Transaction : ~EndsOnly(tx[t], i)

PlanIsKept == plan \in Paid => \E i \in Period : Witness(i)

\* Ids are taken in order, and an id bounds the instant at which its period ends.
Last(i) == MaxTime + i * PAID_SUBSCRIPTION_DURATION

Instants ==
  \A i \in Period :
    /\ period[i].expires_at <= Last(i)
    /\ i \in cut => period[i].status = "expired"
    /\ period[i].status # "absent" => \A j \in 1..(i - 1) : period[j].status # "absent"

IInv == TypeOK /\ Transactions /\ PlanIsKept /\ Instants

-----------------------------------------------------------------------------
(* Types. *)

LEMMA InstantRange ==
  ASSUME NEW i \in 0..MaxPeriods, NEW x \in Nat, x <= Last(i)
  PROVE  x \in Instant
<1>. USE SubscriptionConstants
<1>. DEFINE D == PAID_SUBSCRIPTION_DURATION
<1>1. i * D <= MaxPeriods * D /\ i * D \in Nat /\ MaxPeriods * D \in Nat
  OBVIOUS
<1>. QED  BY <1>1 DEF Last, Instant

LEMMA NoTxTypes == NoTx \in TxStates /\ Consistent(NoTx)
<1>1. 0 \in Instant
  BY SubscriptionConstants, InstantRange DEF Instant
<1>. QED  BY <1>1, SubscriptionConstants DEF NoTx, TxStates, Consistent, Plans, Paid

LEMMA InitTypes == Init => IInv
<1>. SUFFICES ASSUME Init PROVE IInv
  OBVIOUS
<1>1. NoPeriod \in Rows
  BY InstantRange, SubscriptionConstants DEF Rows, NoPeriod, Instant
<1>2. TypeOK
  BY <1>1, NoTxTypes, SubscriptionConstants DEF Init, TypeOK, TxStates, Rows, Plans
<1>3. Transactions
  BY NoTxTypes DEF Init, Transactions, RowsOf, Starts, NoTx
<1>4. PlanIsKept
  BY SubscriptionConstants DEF Init, PlanIsKept, Paid
<1>5. Instants
  <2>1. ASSUME NEW i \in Period PROVE 0 <= Last(i)
    <3>1. i * PAID_SUBSCRIPTION_DURATION \in Nat
      BY SubscriptionConstants DEF Period
    <3>. QED  BY <3>1, SubscriptionConstants DEF Last
  <2>. QED  BY <2>1 DEF Init, Instants, NoPeriod
<1>. QED  BY <1>2, <1>3, <1>4, <1>5 DEF IInv

-----------------------------------------------------------------------------
(* Steps of one transaction that leave the rows alone. *)

LEMMA TxStep ==
  ASSUME IInv, NEW t \in Transaction, NEW x \in TxStates,
         tx' = [tx EXCEPT ![t] = x], UNCHANGED <<now, plan, period, cut>>,
         Consistent(x), RowsOf(x), Starts(x), x.new \in {None, tx[t].new},
         \A i \in Period : EndsOnly(x, i) => EndsOnly(tx[t], i) \/ plan = "free"
  PROVE  IInv'
<1>1. tx' \in [Transaction -> TxStates]
  BY DEF IInv, TypeOK, TxStates
<1>2. ASSUME NEW u \in Transaction
      PROVE  tx'[u] = IF u = t THEN x ELSE tx[u]
  BY DEF IInv, TypeOK
<1>3. TypeOK'
  BY <1>1 DEF IInv, TypeOK, TxStates
<1>4. ASSUME NEW u \in Transaction
      PROVE  (Consistent(tx[u]) /\ RowsOf(tx[u]) /\ Starts(tx[u]))'
  <2>1. Consistent(tx'[u]) /\ RowsOf(tx'[u]) /\ Starts(tx'[u])
    BY <1>2 DEF IInv, Transactions
  <2>. QED  BY <2>1 DEF Consistent, RowsOf, Starts
<1>5. Transactions'
  <2>1. ASSUME NEW u \in Transaction, NEW v \in Transaction \ {u}, tx'[u].new # None
        PROVE  tx'[v].new # tx'[u].new
    BY <1>2, <2>1 DEF IInv, Transactions
  <2>. QED  BY <1>4, <2>1 DEF Transactions
<1>6. PlanIsKept'
  <2>1. ASSUME NEW i \in Period, Witness(i), plan \in Paid
        PROVE  Witness(i)'
    <3>1. plan # "free"
      BY <2>1 DEF Paid
    <3>2. ASSUME NEW u \in Transaction, EndsOnly(tx'[u], i)
          PROVE  EndsOnly(tx[u], i)
      BY <1>2, <3>1, <3>2
    <3>. QED  BY <2>1, <3>2 DEF Witness, EndsOnly
  <2>. QED  BY <2>1 DEF IInv, PlanIsKept
<1>7. Instants'
  BY DEF IInv, Instants, Last
<1>. QED  BY <1>3, <1>5, <1>6, <1>7 DEF IInv

\* What such a step needs to know of t before it.
LEMMA Known ==
  ASSUME IInv, NEW t \in Transaction
  PROVE  /\ tx[t] \in TxStates /\ Consistent(tx[t]) /\ RowsOf(tx[t]) /\ Starts(tx[t])
         /\ plan \in Plans /\ Active \subseteq Period /\ None \notin Plans
BY SubscriptionConstants DEF IInv, TypeOK, Transactions, TxStates, Active, Plans, Paid

\* A set of naturals that is not empty has a least member.
LEMMA LeastNatural ==
  ASSUME NEW S \in SUBSET Nat, S # {}
  PROVE  \E x \in S : \A y \in S : x <= y
<1>. DEFINE R == OpToRel(<, Nat)
<1>1. IsWellFoundedOn(R, Nat)
  BY NatLessThanWellFounded
<1>2. \A x, y \in Nat : y < x => <<y, x>> \in R
  BY DEF OpToRel
<1>. HIDE DEF R
<1>3. PICK x \in S : \A y \in S : ~(<<y, x>> \in R)
  BY <1>1, WFMin
<1>4. ASSUME NEW y \in S PROVE x <= y
  <2>1. x \in Nat /\ y \in Nat /\ ~(y < x)
    BY <1>2, <1>3
  <2>. QED  BY <2>1
<1>. QED  BY <1>4

\* The active period that counts is one: of those that end last, the newest.
LEMMA CurrentIsActive ==
  ASSUME IInv, Current # None
  PROVE  Current \in Active
<1>1. Latest # {} /\ \A i \in Latest : i \in Active /\ i \in 1..MaxPeriods
  BY DEF Current, Latest, Active, Period
<1>2. PICK i \in Latest : \A j \in Latest : j <= i
  <2>. DEFINE S == { MaxPeriods - j : j \in Latest }
  <2>1. S \in SUBSET Nat /\ S # {}
    BY <1>1, SubscriptionConstants
  <2>2. PICK x \in S : \A y \in S : x <= y
    BY <2>1, LeastNatural
  <2>3. PICK i \in Latest : x = MaxPeriods - i
    BY <2>2
  <2>4. ASSUME NEW j \in Latest PROVE j <= i
    <3>1. x <= MaxPeriods - j
      BY <2>2, <2>4
    <3>. QED  BY <1>1, <2>3, <3>1, SubscriptionConstants
  <2>. QED  BY <2>3, <2>4
<1>. QED  BY <1>1, <1>2 DEF Current

LEMMA ActivateStep ==
  ASSUME IInv, NEW t \in Transaction, Activate(t)
  PROVE  IInv'
<1>1. PICK p \in Paid :
        LET prolongs == Current # None /\ period[Current].plan = p IN
        tx' = [tx EXCEPT ![t] = [NoTx EXCEPT
                 !.phase = "create", !.kind = "activate", !.plan = p, !.seen = plan,
                 !.starts_at = IF prolongs THEN period[Current].expires_at ELSE now,
                 !.due = IF prolongs \/ Current = None THEN {} ELSE {Current}]]
  BY DEF Activate
<1>. DEFINE prolongs == Current # None /\ period[Current].plan = p
            start == IF prolongs THEN period[Current].expires_at ELSE now
            ending == IF prolongs \/ Current = None THEN {} ELSE {Current}
            x == [NoTx EXCEPT !.phase = "create", !.kind = "activate", !.plan = p, !.seen = plan,
                              !.starts_at = start, !.due = ending]
<1>2. tx' = [tx EXCEPT ![t] = x] /\ UNCHANGED <<now, plan, period, cut>> /\ "activate" \in Kinds
  BY <1>1 DEF Activate
<1>3. Current # None => Current \in Period /\ period[Current].status = "active"
  BY CurrentIsActive DEF Active
<1>4. start \in Instant /\ ending \in SUBSET Period
      /\ \A i \in ending : period[i].status = "active" /\ period[i].plan # p
  <2>1. now \in Instant
    <3>1. 0 * PAID_SUBSCRIPTION_DURATION = 0
      BY SubscriptionConstants
    <3>2. now \in Nat /\ 0 \in 0..MaxPeriods /\ now <= Last(0)
      BY <3>1, SubscriptionConstants DEF IInv, TypeOK, Last
    <3>. QED  BY <3>2, InstantRange
  <2>2. Current # None => period[Current].expires_at \in Instant
    BY <1>3 DEF IInv, TypeOK
  <2>. QED  BY <1>3, <2>1, <2>2
<1>5. start <= MaxTime \/ \E i \in Period : period[i].status # "absent" /\ start <= period[i].expires_at
  <2>1. CASE prolongs
    <3>1. start \in Int
      BY <1>4, SubscriptionConstants DEF Instant
    <3>. QED  BY <1>3, <2>1, <3>1
  <2>2. CASE ~prolongs
    BY <2>2, SubscriptionConstants DEF IInv, TypeOK
  <2>. QED  BY <2>1, <2>2
<1>. HIDE DEF start, ending
<1>6. /\ x.phase = "create" /\ x.kind = "activate" /\ x.plan = p /\ x.seen = plan
      /\ x.starts_at = start /\ x.due = ending
      /\ x.new = None /\ x.ends = {} /\ x.sets = None
      /\ x \in TxStates
  BY <1>2, <1>4, Known, NoTxTypes DEF NoTx, TxStates, Plans
<1>. HIDE DEF x
<1>7. Consistent(x)
  BY <1>6 DEF Consistent
<1>8. RowsOf(x) /\ Starts(x)
  BY <1>4, <1>5, <1>6 DEF RowsOf, Starts
<1>. QED  BY <1>2, <1>6, <1>7, <1>8, TxStep DEF EndsOnly

LEMMA ListDueStep ==
  ASSUME IInv, NEW t \in Transaction, ListDue(t)
  PROVE  IInv'
<1>. DEFINE over == { i \in Active : period[i].expires_at < now }
            x == [NoTx EXCEPT !.phase = "due", !.kind = "expire_due", !.plan = "free", !.due = over]
<1>1. tx' = [tx EXCEPT ![t] = x] /\ UNCHANGED <<now, plan, period, cut>> /\ "expire_due" \in Kinds
  BY DEF ListDue
<1>2. /\ x.phase = "due" /\ x.kind = "expire_due" /\ x.plan = "free" /\ x.due = over
      /\ x.new = None /\ x.ends = {} /\ x.sets = None
      /\ x \in TxStates
  BY <1>1, Known, NoTxTypes DEF NoTx, TxStates, Plans
<1>3. Consistent(x)
  BY <1>2 DEF Consistent
<1>4. RowsOf(x) /\ Starts(x)
  BY <1>2 DEF RowsOf, Starts, Active
<1>. QED  BY <1>1, <1>2, <1>3, <1>4, TxStep DEF EndsOnly

\* Marking i leaves the periods a transaction ends among those it had to end.
LEMMA ExpireEnds ==
  ASSUME NEW t, NEW i
  PROVE  Expire(t, i) \subseteq tx[t].ends \cup {i}
BY DEF Expire

LEMMA ExpireOneStep ==
  ASSUME IInv, NEW t \in Transaction, ExpireOne(t)
  PROVE  IInv'
<1>1. PICK i \in tx[t].due :
        tx' = [tx EXCEPT ![t].ends = Expire(t, i), ![t].due = @ \ {i},
                         ![t].phase = IF PlanSeen(t) = "free" THEN "due" ELSE "plan"]
  BY DEF ExpireOne
<1>. DEFINE x == [tx[t] EXCEPT !.ends = Expire(t, i), !.due = @ \ {i},
                               !.phase = IF PlanSeen(t) = "free" THEN "due" ELSE "plan"]
<1>2. tx' = [tx EXCEPT ![t] = x] /\ UNCHANGED <<now, plan, period, cut>>
      /\ tx[t].kind = "expire_due" /\ tx[t].phase = "due"
  BY <1>1 DEF ExpireOne
<1>3. Expire(t, i) \in SUBSET Period /\ Expire(t, i) \subseteq tx[t].ends \cup {i}
  BY ExpireEnds, Known DEF TxStates
<1>4. /\ x.phase = (IF PlanSeen(t) = "free" THEN "due" ELSE "plan")
      /\ x.kind = "expire_due" /\ x.plan = tx[t].plan /\ x.due = tx[t].due \ {i}
      /\ x.new = tx[t].new /\ x.ends = Expire(t, i) /\ x.sets = tx[t].sets
      /\ x \in TxStates
  BY <1>2, <1>3, Known DEF TxStates
<1>. HIDE DEF x
<1>5. Consistent(x)
  BY <1>2, <1>4, Known DEF Consistent
<1>6. RowsOf(x) /\ Starts(x)
  BY <1>2, <1>3, <1>4, Known DEF RowsOf, Starts
<1>7. ASSUME NEW k \in Period, EndsOnly(x, k) PROVE plan = "free"
  BY <1>4, <1>7 DEF EndsOnly, PlanSeen
<1>. QED  BY <1>2, <1>4, <1>5, <1>6, <1>7, TxStep

LEMMA GetTargetStep ==
  ASSUME IInv, NEW t \in Transaction, GetTarget(t)
  PROVE  IInv'
<1>. DEFINE x == [NoTx EXCEPT !.phase = "target", !.kind = "admin_expire", !.plan = "free",
                              !.seen = plan]
<1>1. tx' = [tx EXCEPT ![t] = x] /\ UNCHANGED <<now, plan, period, cut>> /\ "admin_expire" \in Kinds
  BY DEF GetTarget
<1>2. /\ x.phase = "target" /\ x.kind = "admin_expire" /\ x.plan = "free" /\ x.due = {}
      /\ x.new = None /\ x.ends = {} /\ x.sets = None
      /\ x \in TxStates
  BY <1>1, Known, NoTxTypes DEF NoTx, TxStates, Plans
<1>. HIDE DEF x
<1>3. Consistent(x)
  BY <1>2 DEF Consistent
<1>4. RowsOf(x) /\ Starts(x)
  BY <1>2 DEF RowsOf, Starts
<1>. QED  BY <1>1, <1>2, <1>3, <1>4, TxStep DEF EndsOnly

LEMMA FindCurrentStep ==
  ASSUME IInv, NEW t \in Transaction, FindCurrent(t)
  PROVE  IInv'
<1>0. PICK found \in IF Latest = {} THEN {{}} ELSE { {i} : i \in Latest } :
        tx' = [tx EXCEPT ![t].due = found, ![t].phase = "due"]
  BY DEF FindCurrent
<1>. DEFINE x == [tx[t] EXCEPT !.due = found, !.phase = "due"]
<1>1. tx' = [tx EXCEPT ![t] = x] /\ UNCHANGED <<now, plan, period, cut>> /\ tx[t].phase = "target"
  BY <1>0 DEF FindCurrent
<1>2. found \in SUBSET Period /\ \A i \in found : period[i].status = "active"
  BY DEF Latest, Active
<1>3. /\ x.phase = "due"
      /\ x.kind = tx[t].kind /\ x.plan = tx[t].plan /\ x.due = found
      /\ x.new = tx[t].new /\ x.ends = tx[t].ends /\ x.sets = tx[t].sets
      /\ x \in TxStates
  BY <1>2, Known DEF TxStates
<1>. HIDE DEF x
<1>4. tx[t].kind = "admin_expire" /\ tx[t].ends = {}
  BY <1>1, Known DEF Consistent
<1>5. Consistent(x)
  BY <1>1, <1>3, <1>4, Known DEF Consistent
<1>6. RowsOf(x) /\ Starts(x)
  BY <1>1, <1>2, <1>3, <1>4, Known DEF RowsOf, Starts
<1>. QED  BY <1>1, <1>3, <1>4, <1>5, <1>6, TxStep DEF EndsOnly

LEMMA EndCurrentStep ==
  ASSUME IInv, NEW t \in Transaction, EndCurrent(t)
  PROVE  IInv'
<1>. DEFINE phase == IF tx[t].seen = "free" THEN "commit" ELSE "plan"
            x == [tx[t] EXCEPT !.ends = tx[t].due, !.due = {}, !.seen = None, !.phase = phase]
<1>1. tx' = [tx EXCEPT ![t] = x] /\ UNCHANGED <<now, plan, period, cut>>
      /\ tx[t].kind = "admin_expire" /\ tx[t].phase = "due"
  BY DEF EndCurrent
<1>2. /\ x.phase = phase /\ phase \in {"commit", "plan"}
      /\ x.kind = tx[t].kind /\ x.plan = tx[t].plan /\ x.due = {}
      /\ x.new = tx[t].new /\ x.ends = tx[t].due /\ x.sets = tx[t].sets
      /\ x \in TxStates
  BY Known DEF TxStates
<1>. HIDE DEF x
<1>3. Consistent(x)
  BY <1>1, <1>2, Known DEF Consistent
<1>4. RowsOf(x) /\ Starts(x)
  BY <1>1, <1>2, Known DEF RowsOf, Starts
<1>. QED  BY <1>1, <1>2, <1>3, <1>4, TxStep DEF EndsOnly

LEMMA SweepEndsStep ==
  ASSUME IInv, NEW t \in Transaction, SweepEnds(t)
  PROVE  IInv'
<1>. DEFINE x == [tx[t] EXCEPT !.phase = "commit"]
<1>1. tx' = [tx EXCEPT ![t] = x] /\ UNCHANGED <<now, plan, period, cut>>
      /\ tx[t].kind = "expire_due" /\ tx[t].phase = "due"
  BY DEF SweepEnds, Goto
<1>2. /\ x.phase = "commit" /\ x.kind = tx[t].kind /\ x.plan = tx[t].plan /\ x.due = tx[t].due
      /\ x.new = tx[t].new /\ x.ends = tx[t].ends /\ x.sets = tx[t].sets
      /\ x \in TxStates
  BY Known DEF TxStates
<1>. HIDE DEF x
<1>3. Consistent(x)
  BY <1>1, <1>2, Known DEF Consistent
<1>4. RowsOf(x) /\ Starts(x)
  BY <1>1, <1>2, Known DEF RowsOf, Starts
<1>. QED  BY <1>1, <1>2, <1>3, <1>4, TxStep DEF EndsOnly

LEMMA SetPlanStep ==
  ASSUME IInv, NEW t \in Transaction, SetPlan(t)
  PROVE  IInv'
<1>. DEFINE x == [tx[t] EXCEPT !.sets = tx[t].plan,
                               !.phase = IF tx[t].kind = "expire_due" THEN "due" ELSE "commit"]
<1>1. tx' = [tx EXCEPT ![t] = x] /\ UNCHANGED <<now, plan, period, cut>> /\ tx[t].phase = "plan"
  BY DEF SetPlan
<1>2. /\ x.phase = (IF tx[t].kind = "expire_due" THEN "due" ELSE "commit")
      /\ x.kind = tx[t].kind /\ x.plan = tx[t].plan /\ x.due = tx[t].due
      /\ x.new = tx[t].new /\ x.ends = tx[t].ends /\ x.sets = tx[t].plan
      /\ x \in TxStates
  BY Known DEF TxStates
<1>. HIDE DEF x
<1>3. tx[t].kind \in {"activate", "expire_due", "admin_expire"} /\ tx[t].plan # None
  BY <1>1, Known DEF Consistent, Plans
<1>4. Consistent(x)
  BY <1>1, <1>2, <1>3, Known DEF Consistent
<1>5. RowsOf(x) /\ Starts(x)
  BY <1>1, <1>2, Known DEF RowsOf, Starts
<1>. QED  BY <1>1, <1>2, <1>3, <1>4, <1>5, TxStep DEF EndsOnly

-----------------------------------------------------------------------------
(* Steps that write rows. *)

\* A row that was committed keeps its plan and its end, and one that another
\* purchase is inserting is left alone.
RowsKept(n) ==
  \A i \in Period :
    /\ period[i].status \in {"active", "expired"} => period'[i].status \in {"active", "expired"}
    /\ period[i].status # "absent" => /\ period'[i].status # "absent"
                                      /\ period'[i].plan = period[i].plan
                                      /\ period'[i].expires_at = period[i].expires_at
    /\ period[i].status = "inserted" /\ i # n => period'[i].status = "inserted"

LEMMA RowStep ==
  ASSUME IInv, NEW t \in Transaction, NEW x \in TxStates, NEW n \in Period \cup {None},
         tx' = [tx EXCEPT ![t] = x], now' = now,
         RowsKept(n), n = None \/ n = tx[t].new \/ (n \in Period /\ period[n].status = "absent"),
         Consistent(x), RowsOf(x)', x.phase # "create", x.new \in {None, n}
  PROVE  Transactions' /\ tx' \in [Transaction -> TxStates]
<1>. USE DEF Period
<1>1. tx' \in [Transaction -> TxStates]
  BY DEF IInv, TypeOK, TxStates
<1>2. ASSUME NEW u \in Transaction
      PROVE  tx'[u] = IF u = t THEN x ELSE tx[u]
  BY DEF IInv, TypeOK
<1>3. ASSUME NEW u \in Transaction \ {t}
      PROVE  (RowsOf(tx[u]) /\ Starts(tx[u]))'
  <2>1. RowsOf(tx[u]) /\ Starts(tx[u]) /\ tx'[u] = tx[u] /\ tx[u] \in TxStates
    BY <1>2, Known
  <2>2. tx[u].due \subseteq Period /\ tx[u].ends \subseteq Period /\ tx[u].new \in Period \cup {None}
    BY <2>1 DEF TxStates
  <2>3. tx[u].new # None => tx[u].new # n
    BY <2>1 DEF IInv, Transactions, RowsOf
  <2>4. RowsOf(tx[u])'
    BY <2>1, <2>2, <2>3 DEF RowsOf, RowsKept
  <2>5. Starts(tx[u])'
    BY <2>1 DEF Starts, RowsKept
  <2>. QED  BY <2>4, <2>5
<1>4. (RowsOf(tx[t]) /\ Starts(tx[t]))'
  <2>1. tx'[t] = x
    BY <1>2
  <2>. QED  BY <2>1 DEF RowsOf, Starts
<1>5. ASSUME NEW u \in Transaction
      PROVE  Consistent(tx[u])'
  BY <1>2, Known DEF Consistent
<1>6. ASSUME NEW u \in Transaction, NEW v \in Transaction \ {u}, tx'[u].new # None
      PROVE  tx'[v].new # tx'[u].new
  <2>1. tx[u].new # None => tx[v].new # tx[u].new
    BY DEF IInv, Transactions
  <2>2. tx[v].new # None => tx[u].new # tx[v].new
    BY DEF IInv, Transactions
  <2>3. ASSUME NEW w \in Transaction \ {t}, x.new # None
        PROVE  tx[w].new # x.new
    BY <2>3 DEF IInv, Transactions, RowsOf
  <2>. QED  BY <1>2, <1>6, <2>1, <2>2, <2>3
<1>. QED  BY <1>1, <1>3, <1>4, <1>5, <1>6 DEF Transactions

LEMMA LastGrows ==
  ASSUME NEW i \in Nat, NEW j \in Nat, i <= j
  PROVE  Last(i) \in Nat /\ MaxTime <= Last(i) /\ Last(i) <= Last(j)
         /\ Last(i + 1) = Last(i) + PAID_SUBSCRIPTION_DURATION
<1>. USE SubscriptionConstants
<1>1. i * PAID_SUBSCRIPTION_DURATION \in Nat
      /\ i * PAID_SUBSCRIPTION_DURATION <= j * PAID_SUBSCRIPTION_DURATION
      /\ (i + 1) * PAID_SUBSCRIPTION_DURATION = i * PAID_SUBSCRIPTION_DURATION + PAID_SUBSCRIPTION_DURATION
      /\ j * PAID_SUBSCRIPTION_DURATION \in Nat
  OBVIOUS
<1>. QED  BY <1>1 DEF Last

LEMMA CreatePeriodStep ==
  ASSUME IInv, NEW t \in Transaction, CreatePeriod(t)
  PROVE  IInv'
<1>1. PICK n \in Period :
        /\ period[n].status = "absent"
        /\ \A i \in 1..(n - 1) : period[i].status # "absent"
        /\ period' = [period EXCEPT ![n] =
             [status |-> "inserted", plan |-> tx[t].plan, starts_at |-> tx[t].starts_at,
              expires_at |-> tx[t].starts_at + PAID_SUBSCRIPTION_DURATION]]
        /\ tx' = [tx EXCEPT ![t] = [@ EXCEPT
                     !.new = n, !.due = {}, !.seen = None, !.starts_at = 0,
                     !.ends = UNION { Expire(t, i) : i \in tx[t].due },
                     !.phase = IF plan = tx[t].plan THEN "commit" ELSE "plan"]]
  BY DEF CreatePeriod
<1>. DEFINE ending == UNION { Expire(t, i) : i \in tx[t].due }
            end == tx[t].starts_at + PAID_SUBSCRIPTION_DURATION
            row == [status |-> "inserted", plan |-> tx[t].plan, starts_at |-> tx[t].starts_at,
                    expires_at |-> end]
            y == [tx[t] EXCEPT !.new = n, !.due = {}, !.seen = None, !.starts_at = 0,
                               !.ends = ending,
                               !.phase = IF plan = tx[t].plan THEN "commit" ELSE "plan"]
<1>2. tx' = [tx EXCEPT ![t] = y] /\ period' = [period EXCEPT ![n] = row]
      /\ UNCHANGED <<now, plan, cut>> /\ tx[t].phase = "create"
  BY <1>1 DEF CreatePeriod
<1>3. /\ tx[t].kind = "activate" /\ tx[t].plan \in Paid /\ tx[t].ends = {} /\ tx[t].sets = None
      /\ tx[t].new = None /\ tx[t].starts_at \in Nat /\ tx[t].due \subseteq Period
      /\ tx[t].starts_at \in Instant /\ 0 \in Instant /\ Instant \subseteq Nat
  BY <1>2, Known, NoTxTypes, SubscriptionConstants DEF Consistent, TxStates, Instant, NoTx
<1>4. ending \subseteq tx[t].due
  <2>1. \A i \in tx[t].due : Expire(t, i) \subseteq {i}
    BY <1>3, ExpireEnds
  <2>. QED  BY <2>1
<1>5. end \in Instant /\ end <= Last(n)
  <2>1. n - 1 \in Nat /\ n \in 0..MaxPeriods /\ (n - 1) + 1 = n
    BY SubscriptionConstants DEF Period
  <2>2. tx[t].starts_at <= Last(n - 1)
    <3>1. CASE tx[t].starts_at <= MaxTime
      BY <1>3, <2>1, <3>1, LastGrows, SubscriptionConstants
    <3>2. ASSUME NEW i \in Period, period[i].status # "absent", tx[t].starts_at <= period[i].expires_at
          PROVE  tx[t].starts_at <= Last(n - 1)
      <4>1. i \in Nat /\ i < n
        <5>1. i # n /\ ~(n \in 1..(i - 1)) /\ i \in Nat /\ n \in Nat /\ 1 <= n
          BY <1>1, <3>2, SubscriptionConstants DEF IInv, Instants, Period
        <5>. QED  BY <5>1
      <4>2. period[i].expires_at <= Last(i) /\ period[i].expires_at \in Nat
        BY <1>3 DEF IInv, Instants, TypeOK
      <4>3. Last(i) \in Nat /\ Last(n - 1) \in Nat /\ Last(i) <= Last(n - 1)
        BY <2>1, <4>1, LastGrows
      <4>. QED  BY <1>3, <3>2, <4>2, <4>3
    <3>. QED  BY <1>2, <3>1, <3>2, Known DEF Starts
  <2>3. Last(n - 1) \in Nat /\ Last(n) = Last(n - 1) + PAID_SUBSCRIPTION_DURATION
    BY <2>1, LastGrows
  <2>4. end <= Last(n) /\ end \in Nat
    BY <1>3, <2>2, <2>3, SubscriptionConstants
  <2>. QED  BY <2>1, <2>4, InstantRange
<1>. HIDE DEF ending, end
<1>6. PICK x \in TxStates :
        /\ tx' = [tx EXCEPT ![t] = x]
        /\ x.phase = (IF plan = tx[t].plan THEN "commit" ELSE "plan")
        /\ x.kind = "activate" /\ x.plan = tx[t].plan /\ x.due = {}
        /\ x.new = n /\ x.ends = ending /\ x.sets = None
  <2>1. /\ y.phase = (IF plan = tx[t].plan THEN "commit" ELSE "plan")
        /\ y.kind = "activate" /\ y.plan = tx[t].plan /\ y.due = {}
        /\ y.new = n /\ y.ends = ending /\ y.sets = None
        /\ y \in TxStates
    BY <1>3, <1>4, Known DEF TxStates
  <2>. QED  BY <1>2, <2>1
<1>. HIDE DEF y
<1>7. row \in Rows /\ row.status = "inserted" /\ row.plan = tx[t].plan /\ row.expires_at = end
  BY <1>3, <1>5 DEF Rows
<1>. HIDE DEF row
<1>8. period' \in [Period -> Rows]
      /\ \A i \in Period : period'[i] = IF i = n THEN row ELSE period[i]
  BY <1>2, <1>7 DEF IInv, TypeOK, Rows
<1>9. Consistent(x) /\ RowsKept(n)
  BY <1>1, <1>3, <1>6, <1>8 DEF Consistent, RowsKept
<1>10. RowsOf(x)'
  <2>1. \A i \in ending : /\ i # n /\ i \in Period
                          /\ period[i].status \in {"active", "expired"} /\ period[i].plan # tx[t].plan
    BY <1>1, <1>3, <1>4, Known DEF RowsOf
  <2>. QED  BY <1>6, <1>7, <1>8, <2>1 DEF RowsOf
<1>11. Transactions' /\ tx' \in [Transaction -> TxStates]
  BY <1>1, <1>2, <1>6, <1>9, <1>10, RowStep
<1>12. TypeOK'
  BY <1>2, <1>8, <1>11 DEF IInv, TypeOK, TxStates, Rows
<1>13. PlanIsKept'
  <2>1. ASSUME NEW i \in Period, Witness(i)
        PROVE  Witness(i)'
    <3>1. i # n /\ period'[i] = period[i]
      BY <1>1, <1>8, <2>1 DEF Witness, IInv, Instants
    <3>2. ASSUME NEW u \in Transaction, EndsOnly(tx'[u], i), period[i].status = "active",
                 ~EndsOnly(tx[u], i)
          PROVE  FALSE
      <4>1. u = t /\ tx'[u] = x
        BY <1>6, <3>2 DEF IInv, TypeOK
      <4>2. i \in tx[t].due /\ plan = tx[t].plan
        BY <1>4, <1>6, <3>2, <4>1 DEF EndsOnly
      <4>. QED  BY <1>3, <2>1, <4>2, Known DEF RowsOf, Witness
    <3>. QED  BY <1>2, <2>1, <3>1, <3>2 DEF Witness, EndsOnly
  <2>. QED  BY <1>2, <2>1 DEF IInv, PlanIsKept
<1>14. Instants'
  <2>1. ASSUME NEW i \in Period
        PROVE  /\ period'[i].expires_at <= Last(i)
               /\ i \in cut' => period'[i].status = "expired"
               /\ period'[i].status # "absent" => \A j \in 1..(i - 1) : period'[j].status # "absent"
    <3>1. \A j \in 1..(i - 1) : j \in Period
      BY SubscriptionConstants DEF Period
    <3>. QED  BY <1>1, <1>2, <1>5, <1>7, <1>8, <3>1 DEF IInv, Instants
  <2>. QED  BY <2>1 DEF Instants, Last
<1>. QED  BY <1>11, <1>12, <1>13, <1>14 DEF IInv

\* What a commit does to the rows.
LEMMA CommitRows ==
  ASSUME IInv, NEW t \in Transaction, Commit(t)
  PROVE  /\ period' \in [Period -> Rows]
         /\ \A i \in Period :
              /\ period'[i].plan = period[i].plan
              /\ period'[i].expires_at = period[i].expires_at
              /\ period'[i].status = IF i = tx[t].new THEN "active"
                                     ELSE IF i \in tx[t].ends THEN "expired" ELSE period[i].status
<1>1. \A i \in Period : period[i] \in Rows
  BY DEF IInv, TypeOK, Rows
<1>2. ASSUME NEW i \in Period
      PROVE  /\ period'[i] \in Rows
             /\ period'[i].plan = period[i].plan
             /\ period'[i].expires_at = period[i].expires_at
             /\ period'[i].status = IF i = tx[t].new THEN "active"
                                    ELSE IF i \in tx[t].ends THEN "expired" ELSE period[i].status
  BY <1>1 DEF Commit, Rows
<1>. QED  BY <1>2 DEF Commit

LEMMA CommitStep ==
  ASSUME IInv, NEW t \in Transaction, Commit(t)
  PROVE  IInv'
<1>1. /\ tx' = [tx EXCEPT ![t] = NoTx] /\ tx[t].phase = "commit" /\ now' = now
      /\ plan' = PlanSeen(t)
      /\ cut' = IF tx[t].kind = "admin_expire" THEN cut \cup (tx[t].ends \cap Active) ELSE cut
  BY DEF Commit
<1>2. /\ tx[t].new \in Period \cup {None} /\ tx[t].ends \subseteq Period
      /\ tx[t].sets \in Plans \cup {None}
      /\ tx[t].kind \in {"activate", "expire_due", "admin_expire"}
  BY <1>1, Known DEF TxStates, Consistent
<1>3. /\ tx[t].new # None => period[tx[t].new].status = "inserted"
      /\ \A i \in tx[t].ends : period[i].status \in {"active", "expired"}
      /\ None \notin Period
  BY Known, SubscriptionConstants DEF RowsOf, Period
<1>4. RowsKept(tx[t].new)
  BY <1>2, <1>3, CommitRows DEF RowsKept
<1>5. RowsOf(NoTx)' /\ NoTx.phase # "create" /\ NoTx.new = None
  BY DEF RowsOf, NoTx
<1>6. Transactions' /\ tx' \in [Transaction -> TxStates]
  BY <1>1, <1>2, <1>4, <1>5, NoTxTypes, RowStep
<1>7. TypeOK'
  BY <1>1, <1>2, <1>6, CommitRows DEF IInv, TypeOK, TxStates, Rows, PlanSeen, Active
<1>8. PlanIsKept'
  <2>1. CASE tx[t].sets = None
    <3>1. plan' = plan
      BY <1>1, <2>1 DEF PlanSeen
    <3>2. ASSUME NEW i \in Period, Witness(i)
          PROVE  Witness(i)'
      <4>1. i \in cut => i \in cut'
        BY <1>1
      <4>2. ASSUME i \notin cut', NEW u \in Transaction, EndsOnly(tx'[u], i)
            PROVE  FALSE
        <5>1. tx'[u] = IF u = t THEN NoTx ELSE tx[u]
          BY <1>1 DEF IInv, TypeOK
        <5>. QED  BY <3>2, <4>1, <4>2, <5>1 DEF Witness, EndsOnly, NoTx
      <4>3. ASSUME i \notin cut'
            PROVE  period'[i].status = "active"
        <5>1. i \notin cut /\ period[i].status = "active" /\ ~EndsOnly(tx[t], i)
          BY <3>2, <4>1, <4>3 DEF Witness
        <5>2. i \notin tx[t].ends
          BY <1>1, <2>1, <4>3, <5>1 DEF EndsOnly, Active
        <5>. QED  BY <5>1, <5>2, CommitRows
      <4>. QED  BY <3>1, <3>2, <4>2, <4>3, CommitRows DEF Witness, EndsOnly
    <3>. QED  BY <3>1, <3>2 DEF IInv, PlanIsKept
  <2>2. CASE tx[t].sets # None /\ tx[t].kind # "activate"
    <3>1. plan' = "free"
      BY <1>1, <1>2, <2>2, Known DEF Consistent, PlanSeen
    <3>. QED  BY <3>1 DEF PlanIsKept, Paid
  <2>3. CASE tx[t].sets # None /\ tx[t].kind = "activate"
    <3>1. plan' = tx[t].plan /\ tx[t].new \in Period
      BY <1>1, <1>2, <2>3, Known DEF Consistent, PlanSeen
    <3>2. ASSUME NEW u \in Transaction, EndsOnly(tx'[u], tx[t].new)
          PROVE  FALSE
      <4>1. tx'[u] = IF u = t THEN NoTx ELSE tx[u]
        BY <1>1 DEF IInv, TypeOK
      <4>2. tx[t].new \in tx[u].ends
        BY <3>2, <4>1 DEF EndsOnly, NoTx
      <4>. QED  BY <1>3, <3>1, <4>2, Known DEF RowsOf
    <3>3. period'[tx[t].new].plan = plan' /\ period'[tx[t].new].status = "active"
      BY <1>3, <3>1, CommitRows, Known DEF RowsOf
    <3>4. PICK i \in Period : i = tx[t].new
      BY <3>1
    <3>5. Witness(i)'
      BY <3>2, <3>3, <3>4 DEF Witness, EndsOnly
    <3>. QED  BY <3>5 DEF PlanIsKept
  <2>. QED  BY <1>2, <2>1, <2>2, <2>3
<1>9. Instants'
  <2>1. ASSUME NEW i \in Period, i \in cut'
        PROVE  period'[i].status = "expired"
    BY <1>1, <1>3, <2>1, CommitRows DEF IInv, Instants, Active
  <2>2. \A i \in Period : period'[i].status = "absent" <=> period[i].status = "absent"
    BY <1>3, CommitRows
  <2>3. \A i \in Period : \A j \in 1..(i - 1) : j \in Period
    BY SubscriptionConstants DEF Period
  <2>. QED  BY <2>1, <2>2, <2>3, CommitRows DEF IInv, Instants, Last
<1>. QED  BY <1>6, <1>7, <1>8, <1>9 DEF IInv

LEMMA AbortStep ==
  ASSUME IInv, NEW t \in Transaction, Abort(t)
  PROVE  IInv'
<1>1. tx' = [tx EXCEPT ![t] = NoTx] /\ UNCHANGED <<now, plan, cut>>
  BY DEF Abort
<1>2. /\ tx[t].new \in Period \cup {None} /\ None \notin Period
      /\ tx[t].new # None => period[tx[t].new].status = "inserted"
  BY Known, SubscriptionConstants DEF TxStates, RowsOf, Period
<1>3. ASSUME NEW i \in Period
      PROVE  /\ period'[i] \in Rows
             /\ period'[i].plan = period[i].plan
             /\ period'[i].expires_at = period[i].expires_at
             /\ period'[i].status = IF i = tx[t].new THEN "unused" ELSE period[i].status
  <2>1. period[i] \in Rows
    BY DEF IInv, TypeOK, Rows
  <2>. QED  BY <2>1 DEF Abort, Rows
<1>4. RowsKept(tx[t].new)
  BY <1>2, <1>3 DEF RowsKept
<1>5. RowsOf(NoTx)' /\ NoTx.phase # "create" /\ NoTx.new = None
  BY DEF RowsOf, NoTx
<1>6. Transactions' /\ tx' \in [Transaction -> TxStates]
  BY <1>1, <1>2, <1>4, <1>5, NoTxTypes, RowStep
<1>7. period' \in [Period -> Rows]
  BY <1>3 DEF Abort
<1>8. TypeOK'
  BY <1>1, <1>6, <1>7 DEF IInv, TypeOK, TxStates, Rows
<1>9. PlanIsKept'
  <2>1. ASSUME NEW i \in Period, Witness(i)
        PROVE  Witness(i)'
    <3>1. period'[i].status = period[i].status /\ period'[i].plan = period[i].plan
      BY <1>2, <1>3, <2>1 DEF Witness, IInv, Instants
    <3>2. ASSUME NEW u \in Transaction, EndsOnly(tx'[u], i)
          PROVE  EndsOnly(tx[u], i)
      <4>1. tx'[u] = IF u = t THEN NoTx ELSE tx[u]
        BY <1>1 DEF IInv, TypeOK
      <4>. QED  BY <3>2, <4>1 DEF EndsOnly, NoTx
    <3>. QED  BY <1>1, <2>1, <3>1, <3>2 DEF Witness, EndsOnly
  <2>. QED  BY <1>1, <2>1 DEF IInv, PlanIsKept
<1>10. Instants'
  <2>1. ASSUME NEW i \in Period, i \in cut'
        PROVE  period'[i].status = "expired"
    BY <1>1, <1>2, <1>3, <2>1 DEF IInv, Instants
  <2>2. \A i \in Period : period'[i].status = "absent" <=> period[i].status = "absent"
    BY <1>2, <1>3
  <2>3. \A i \in Period : \A j \in 1..(i - 1) : j \in Period
    BY SubscriptionConstants DEF Period
  <2>. QED  BY <1>3, <2>1, <2>2, <2>3 DEF IInv, Instants, Last
<1>. QED  BY <1>6, <1>8, <1>9, <1>10 DEF IInv

LEMMA TickStep ==
  ASSUME IInv, Tick
  PROVE  IInv'
<1>1. now' = now + 1 /\ now \in 0..MaxTime /\ now' \in 0..MaxTime
      /\ UNCHANGED <<plan, period, cut, tx>>
  BY SubscriptionConstants DEF Tick, IInv, TypeOK
<1>2. TypeOK'
  BY <1>1 DEF IInv, TypeOK
<1>3. ASSUME NEW t \in Transaction
      PROVE  RowsOf(tx[t])'
  <2>1. tx[t].due \subseteq Period /\ tx[t].ends \subseteq Period /\ RowsOf(tx[t])
    BY Known DEF TxStates
  <2>2. \A i \in Period : period[i].expires_at \in Int
    BY SubscriptionConstants DEF IInv, TypeOK, Instant
  <2>. QED  BY <1>1, <2>1, <2>2 DEF RowsOf
<1>4. Transactions'
  BY <1>1, <1>3 DEF IInv, Transactions, Consistent, Starts
<1>5. PlanIsKept' /\ Instants'
  BY <1>1 DEF IInv, PlanIsKept, Instants, Witness, EndsOnly, Last
<1>. QED  BY <1>2, <1>4, <1>5 DEF IInv

-----------------------------------------------------------------------------
(* Theorems. *)

LEMMA Step == IInv /\ [Next]_vars => IInv'
<1>. SUFFICES ASSUME IInv, [Next]_vars PROVE IInv'
  OBVIOUS
<1>1. CASE UNCHANGED vars
  BY <1>1 DEF vars, IInv, TypeOK, Transactions, Consistent, RowsOf, Starts, PlanIsKept, Witness,
              EndsOnly, Instants, Last
<1>2. ASSUME NEW t \in Transaction, Work(t)
      PROVE  IInv'
  BY <1>2, ActivateStep, CreatePeriodStep, ListDueStep, ExpireOneStep, SweepEndsStep,
     GetTargetStep, FindCurrentStep, EndCurrentStep, SetPlanStep, CommitStep, AbortStep DEF Work
<1>. QED  BY <1>1, <1>2, TickStep DEF Next

LEMMA Inductive == Spec => []IInv
<1>1. Init => IInv
  BY InitTypes
<1>. QED  BY <1>1, Step, PTL DEF Spec

\* Every state is well typed: no instant of a period lies outside the years that
\* MaxPeriods purchases can reach.
THEOREM TypeCorrect == Spec => []TypeOK
<1>1. IInv => TypeOK
  BY DEF IInv
<1>. QED  BY <1>1, Inductive, PTL

\* A paid plan has an active period of that plan, or one an admin ended
\* (activate_subscription, expire_subscriptions and the admin route, interleaved
\* at every statement).
THEOREM PaidHasPeriod == Spec => []PaidIsSubscribed
<1>1. IInv => PaidIsSubscribed
  BY DEF IInv, PlanIsKept, Witness, PaidIsSubscribed, Active
<1>. QED  BY <1>1, Inductive, PTL

\* A period ends when its time is over, when an admin ends it, or when the user
\* pays for another plan: no sweep ends one that was prolonged meanwhile.
THEOREM PeriodsRunOut == Spec => PeriodRunsOut
<1>. DEFINE Ends(i) ==
       period'[i].status = "expired" =>
         \/ period[i].expires_at < now
         \/ i \in cut'
         \/ \E n \in Period \ Active : period'[n].status = "active" /\ period'[n].plan # period[i].plan
<1>1. ASSUME IInv, [Next]_vars, NEW i \in Active
      PROVE  Ends(i)
  <2>. USE <1>1
  <2>1. i \in Period /\ period[i].status = "active"
    BY DEF Active
  <2>2. CASE UNCHANGED period
    BY <2>1, <2>2
  <2>3. ASSUME NEW t \in Transaction, CreatePeriod(t)
        PROVE  Ends(i)
    <3>1. PICK n \in Period :
            period[n].status = "absent" /\ \E r : period' = [period EXCEPT ![n] = r]
      BY <2>3 DEF CreatePeriod
    <3>2. period'[i] = period[i]
      BY <2>1, <3>1 DEF IInv, TypeOK
    <3>. QED  BY <2>1, <3>2
  <2>4. ASSUME NEW t \in Transaction, Abort(t)
        PROVE  Ends(i)
    BY <2>1, <2>4 DEF Abort
  <2>5. ASSUME NEW t \in Transaction, Commit(t), period'[i].status = "expired"
        PROVE  Ends(i)
    <3>1. i \in tx[t].ends
      BY <2>1, <2>5, CommitRows
    <3>2. tx[t].kind \in {"activate", "expire_due", "admin_expire"} /\ RowsOf(tx[t])
      BY <2>5, Known DEF Commit, Consistent
    <3>3. CASE tx[t].kind = "expire_due"
      BY <3>1, <3>2, <3>3 DEF RowsOf
    <3>4. CASE tx[t].kind = "admin_expire"
      BY <2>5, <3>1, <3>4 DEF Commit
    <3>5. CASE tx[t].kind = "activate"
      <4>1. tx[t].new \in Period /\ tx[t].new # None
        BY <2>5, <3>5, Known, SubscriptionConstants DEF Commit, Consistent, Period
      <4>2. period[tx[t].new].status = "inserted" /\ period[tx[t].new].plan # period[i].plan
        BY <3>1, <3>2, <3>5, <4>1 DEF RowsOf
      <4>. QED  BY <4>1, <4>2, CommitRows, <2>5 DEF Active
    <3>. QED  BY <3>2, <3>3, <3>4, <3>5
  <2>. HIDE DEF Ends
  <2>6. ASSUME NEW t \in Transaction, Work(t), ~UNCHANGED period
        PROVE  CreatePeriod(t) \/ Commit(t) \/ Abort(t)
    BY <2>6 DEF Work, Activate, ListDue, ExpireOne, SweepEnds, GetTarget, FindCurrent, EndCurrent,
                SetPlan
  <2>7. Tick => UNCHANGED period
    BY DEF Tick
  <2>8. ASSUME NEW t \in Transaction, Commit(t)
        PROVE  Ends(i)
    BY <2>5, <2>8 DEF Ends
  <2>. QED  BY <2>2, <2>3, <2>4, <2>6, <2>7, <2>8 DEF Next, vars
<1>2. IInv /\ [Next]_vars => [\A i \in Active : Ends(i)]_vars
  BY <1>1
<1>. QED  BY <1>2, Inductive, PTL DEF Spec, PeriodRunsOut

=============================================================================

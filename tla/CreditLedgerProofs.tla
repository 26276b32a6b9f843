------------------------- MODULE CreditLedgerProofs -------------------------
(***************************************************************************)
(* Theorems about CreditLedger, for any number of users, sessions, intents *)
(* and promo codes, and any choice of handlers: balances and the ledger    *)
(* first, then promo codes, the discounts they give, and the payments that *)
(* settle.                                                                 *)
(***************************************************************************)
EXTENDS CreditLedger, FiniteSetTheorems, TLAPS

\* A transaction in flight serves a request, about a user and an intent that
\* exist; only a registration has no user yet, and it has loaded nothing.
RequestsInFlight ==
  \A s \in Session : phase[s] # "idle" =>
    /\ req[s] \in Request
    /\ req[s].kind # "register" => req[s].user \in registered
    /\ req[s].kind = "register" => phase[s] = "begun" /\ loaded[s].credits = 0
    /\ phase[s] = "promo" => req[s].kind \in RedeemKinds
    /\ req[s].kind \in IntentKinds => intents[req[s].item].status # "absent"

\* An intent that exists belongs to a user that exists.
OwnedIntents ==
  \A i \in Intent : intents[i].status # "absent" =>
    intents[i].owner \in registered /\ intents[i].credits \in Amounts

TypeInv == TypeOK /\ RequestsInFlight /\ OwnedIntents

-----------------------------------------------------------------------------
(* Type correctness. *)

\* A request to begin with: about rows that exist, having loaded a balance or none.
WellFormed(r, row) ==
  /\ r.kind # "register" => r.user \in registered
  /\ r.kind = "register" => row.credits = 0
  /\ r.kind \in IntentKinds => intents[r.item].status # "absent"
  /\ row.credits \in {0} \cup { credits[u] : u \in User }

\* Beginning a transaction for a well-formed request keeps the types.
LEMMA StartTypes ==
  ASSUME TypeInv, NEW s \in Session, NEW r \in Request,
         NEW row \in LoadedRows, WellFormed(r, row), Start(s, r, row)
  PROVE  TypeInv'
<1>1. TypeOK'
  <2>1. UNCHANGED <<store, locks>>
    BY DEF Start
  <2>2. phase' \in [Session -> {"idle", "begun", "promo", "locked", "priced", "lapsed"}]
    BY DEF TypeInv, TypeOK, Start
  <2>3. req' \in [Session -> Request \cup {NoRequest}]
    BY DEF TypeInv, TypeOK, Start
  <2>4. loaded' \in [Session -> LoadedRows]
    BY DEF TypeInv, TypeOK, Start
  <2>5. clock' \in Nat /\ began' \in [Session -> Nat]
    BY DEF TypeInv, TypeOK, Start
  <2>. QED  BY <2>1, <2>2, <2>3, <2>4, <2>5 DEF TypeInv, TypeOK, store, locks
<1>2. RequestsInFlight'
  BY DEF TypeInv, TypeOK, RequestsInFlight, Start, store, WellFormed
<1>3. OwnedIntents'
  BY DEF TypeInv, OwnedIntents, Start, store
<1>. QED  BY <1>1, <1>2, <1>3 DEF TypeInv

\* NoRow is a row.
LEMMA NoRowType ==
  NoRow \in LoadedRows
BY DEF LoadedRows, NoRow, NoDiscount, Discounts, Statuses

\* Whoever begins, begins with a well-formed request.
LEMMA BeginEffect ==
  ASSUME TypeInv, NEW s \in Session, Begin(s)
  PROVE  \E r \in Request, row \in LoadedRows : WellFormed(r, row) /\ Start(s, r, row)
<1>. USE LedgerConstants
<1>1. CASE BeginIntent(s)
  <2>1. PICK k \in Kinds \cap IntentKinds, i \in Intent :
          /\ intents[i].status # "absent"
          /\ Start(s, [kind |-> k, user |-> intents[i].owner, item |-> i,
                       amount |-> intents[i].credits],
                      [NoRow EXCEPT !.status = intents[i].status])
    BY <1>1 DEF BeginIntent
  <2>2. intents[i].owner \in registered /\ intents[i].owner \in User
        /\ intents[i].credits \in Amounts /\ intents[i].status \in Statuses
    BY <2>1 DEF TypeInv, TypeOK, OwnedIntents, Intents
  <2>3. [kind |-> k, user |-> intents[i].owner, item |-> i,
         amount |-> intents[i].credits] \in Request
    BY <2>2 DEF Request
  <2>4. [NoRow EXCEPT !.status = intents[i].status] \in LoadedRows
    BY <2>2, NoRowType DEF LoadedRows, NoRow
  <2>5. k # "register"
    BY DEF IntentKinds
  <2>6. [NoRow EXCEPT !.status = intents[i].status].credits = 0
    BY DEF NoRow
  <2>. QED  BY <2>1, <2>2, <2>3, <2>4, <2>5, <2>6 DEF WellFormed
<1>2. ASSUME NEW k, NEW u \in User
      PROVE  CallerRow(k, u) \in LoadedRows /\ CallerRow(k, u).credits \in {0, credits[u]}
  <2>1. credits[u] \in Int /\ discount[u] \in Discounts
    BY DEF TypeInv, TypeOK
  <2>2. CASE k \in LoadingKinds
    BY <2>1, <2>2, NoRowType DEF CallerRow, LoadedRows, NoRow, LoadingKinds, StaleKinds
  <2>3. CASE k \notin LoadingKinds
    BY <2>3, NoRowType DEF CallerRow, NoRow
  <2>. QED  BY <2>2, <2>3
<1>3. registered \subseteq User
  BY DEF TypeInv, TypeOK
<1>4. CASE BeginRedeem(s)
  <2>1. PICK k \in Kinds \cap RedeemKinds, u \in registered, p \in Promo :
          Start(s, [kind |-> k, user |-> u, item |-> p, amount |-> Value[p]], CallerRow(k, u))
    BY <1>4 DEF BeginRedeem
  <2>2. [kind |-> k, user |-> u, item |-> p, amount |-> Value[p]] \in Request
    BY <1>3 DEF Request
  <2>. QED  BY <2>1, <2>2, <1>2, <1>3 DEF WellFormed, RedeemKinds, IntentKinds
<1>5. CASE BeginAmount(s)
  <2>1. PICK k \in Kinds \cap AmountKinds, u \in registered, a \in Amounts :
          \E n \in IF k \in {"adjust", "adjust_self"} THEN {a, -a} ELSE {a} :
            Start(s, [kind |-> k, user |-> u, item |-> None, amount |-> n], CallerRow(k, u))
    BY <1>5 DEF BeginAmount
  <2>3. PICK n \in IF k \in {"adjust", "adjust_self"} THEN {a, -a} ELSE {a} :
          Start(s, [kind |-> k, user |-> u, item |-> None, amount |-> n], CallerRow(k, u))
    BY <2>1
  <2>2. [kind |-> k, user |-> u, item |-> None, amount |-> n] \in Request
    BY <1>3 DEF Request, AmountKinds
  <2>. QED  BY <2>1, <2>2, <2>3, <1>2, <1>3 DEF WellFormed, AmountKinds, IntentKinds
<1>6. CASE BeginDebit(s)
  <2>1. PICK k \in Kinds \cap {"debit"}, u \in registered :
          Start(s, [kind |-> k, user |-> u, item |-> None, amount |-> GenerationCost], NoRow)
    BY <1>6 DEF BeginDebit
  <2>2. [kind |-> k, user |-> u, item |-> None, amount |-> GenerationCost] \in Request
    BY <1>3 DEF Request
  <2>3. NoRow.credits = 0
    BY DEF NoRow
  <2>. QED  BY <2>1, <2>2, <2>3, NoRowType DEF WellFormed, IntentKinds
<1>7. CASE BeginRegister(s)
  <2>1. PICK k \in Kinds \cap {"register"}, u \in User :
          Start(s, [kind |-> k, user |-> u, item |-> None, amount |-> WelcomeBonus], NoRow)
    BY <1>7 DEF BeginRegister
  <2>2. [kind |-> k, user |-> u, item |-> None, amount |-> WelcomeBonus] \in Request
    BY DEF Request
  <2>3. NoRow.credits = 0
    BY DEF NoRow
  <2>. QED  BY <2>1, <2>2, <2>3, NoRowType DEF WellFormed, IntentKinds
<1>. QED  BY <1>1, <1>4, <1>5, <1>6, <1>7 DEF Begin

LEMMA BeginTypes ==
  ASSUME TypeInv, NEW s \in Session, Begin(s)
  PROVE  TypeInv'
BY BeginEffect, StartTypes

\* The variables of the sessions once a transaction has ended.
LEMMA FinishTypes ==
  ASSUME TypeInv, NEW s \in Session, Finish(s)
  PROVE  /\ phase' = [phase EXCEPT ![s] = "idle"]
         /\ phase' \in [Session -> {"idle", "begun", "promo", "locked", "priced", "lapsed"}]
         /\ req' \in [Session -> Request \cup {NoRequest}]
         /\ loaded' \in [Session -> LoadedRows]
         /\ began' \in [Session -> Nat]
         /\ user_lock' \in [User -> Session \cup {None}]
         /\ promo_lock' \in [Promo -> Session \cup {None}]
         /\ clock' \in Nat
         /\ \A t \in Session \ {s} :
              phase'[t] = phase[t] /\ req'[t] = req[t] /\ loaded'[t] = loaded[t]
         /\ phase'[s] = "idle"
BY NoRowType DEF TypeInv, TypeOK, Finish

\* A step that ends a transaction keeps the types when what it stores is typed.
LEMMA FinishTypeInv ==
  ASSUME TypeInv, NEW s \in Session, Finish(s),
         registered \subseteq registered', registered' \subseteq User,
         credits' \in [User -> Int],
         discount' \in [User -> Discounts],
         intents' \in [Intent -> Intents],
         \A i \in Intent : intents'[i].status # "absent" =>
           intents'[i].owner \in registered /\ intents'[i].credits \in Amounts,
         \A i \in Intent : intents[i].status # "absent" => intents'[i].status # "absent",
         activations' \in [Promo -> Nat],
         expired' \subseteq Date,
         redeemed' \subseteq Promo \X User,
         ledger' \in [User -> Seq(Entries)]
  PROVE  TypeInv'
<1>1. TypeOK'
  BY FinishTypes DEF TypeOK
<1>2. RequestsInFlight'
  <2>. SUFFICES ASSUME NEW t \in Session, phase'[t] # "idle"
                PROVE  /\ req'[t] \in Request
                       /\ req'[t].kind # "register" => req'[t].user \in registered'
                       /\ req'[t].kind = "register" => phase'[t] = "begun" /\ loaded'[t].credits = 0
                       /\ phase'[t] = "promo" => req'[t].kind \in RedeemKinds
                       /\ req'[t].kind \in IntentKinds => intents'[req'[t].item].status # "absent"
    BY DEF RequestsInFlight
  <2>1. t # s /\ phase'[t] = phase[t] /\ req'[t] = req[t] /\ loaded'[t] = loaded[t]
    BY FinishTypes
  <2>2. req[t].kind \in IntentKinds => req[t].item \in Intent
    BY <2>1 DEF TypeInv, RequestsInFlight, Request, IntentKinds, RedeemKinds
  <2>. QED  BY <2>1, <2>2 DEF TypeInv, RequestsInFlight
<1>3. OwnedIntents'
  BY DEF OwnedIntents
<1>. QED  BY <1>1, <1>2, <1>3 DEF TypeInv

\* What a flush writes is typed.
LEMMA WriteDiscountType ==
  ASSUME TypeInv, NEW s \in Session, NEW new \in Discounts, WriteDiscount(s, new)
  PROVE  discount' \in [User -> Discounts]
<1>1. \A u \in User : discount[u] \in Discounts
  BY DEF TypeInv, TypeOK
<1>. QED  BY <1>1 DEF TypeInv, TypeOK, WriteDiscount, Column, Discounts

LEMMA WriteStatusType ==
  ASSUME TypeInv, NEW s \in Session, NEW new \in Statuses \ {"absent"},
         req[s].item \in Intent, intents[req[s].item].status # "absent",
         WriteStatus(s, new)
  PROVE  /\ intents' \in [Intent -> Intents]
         /\ \A i \in Intent : intents'[i].status # "absent" =>
              intents'[i].owner \in registered /\ intents'[i].credits \in Amounts
         /\ \A i \in Intent : intents[i].status # "absent" => intents'[i].status # "absent"
<1>. DEFINE j == req[s].item
            v == Column(intents[j].status, loaded[s].status, new)
<1>1. v \in Statuses \ {"absent"}
  BY DEF TypeInv, TypeOK, Column, Intents
<1>2. intents' = [intents EXCEPT ![j] = [intents[j] EXCEPT !.status = v]]
  BY DEF WriteStatus, TypeInv, TypeOK
<1>3. \A i \in Intent : intents[i] \in Intents
  BY DEF TypeInv, TypeOK
<1>. HIDE DEF v, j
<1>4. [intents[j] EXCEPT !.status = v] \in Intents
  BY <1>1, <1>3 DEF Intents, j
<1>5. \A i \in Intent : intents'[i].owner = intents[i].owner /\ intents'[i].credits = intents[i].credits
  BY <1>2, <1>3 DEF Intents, TypeInv, TypeOK
<1>6. \A i \in Intent : intents'[i].status # "absent" => intents[i].status # "absent"
  BY <1>2 DEF TypeInv, TypeOK, j
<1>7. [intents[j] EXCEPT !.status = v].status # "absent"
  BY <1>1, <1>3 DEF Intents, j
<1>8. \A i \in Intent : intents[i].status # "absent" => intents'[i].status # "absent"
  BY <1>2, <1>7 DEF TypeInv, TypeOK, j
<1>9. intents' \in [Intent -> Intents]
  BY <1>2, <1>4 DEF TypeInv, TypeOK
<1>. QED  BY <1>5, <1>6, <1>8, <1>9 DEF TypeInv, OwnedIntents

LEMMA MoveCreditsType ==
  ASSUME TypeInv, NEW s \in Session, NEW type \in EntryType, NEW amount \in Int,
         NEW source \in Intent \cup Promo \cup {None}, req[s].user \in User,
         MoveCredits(s, type, amount, source)
  PROVE  credits' \in [User -> Int] /\ ledger' \in [User -> Seq(Entries)]
<1>. DEFINE new == loaded[s].credits + amount
            e == [type |-> type, amount |-> amount, balance_after |-> new,
                  source |-> source, created_at |-> began[s]]
<1>1. new \in Int /\ began[s] \in Nat /\ loaded[s].credits \in Int
  BY DEF TypeInv, TypeOK, LoadedRows
<1>2. e \in Entries
  BY <1>1 DEF Entries
<1>3. credits' \in [User -> Int]
  BY <1>1 DEF MoveCredits, Column, TypeInv, TypeOK
<1>4. ledger' = [ledger EXCEPT ![req[s].user] = Append(@, e)]
  BY DEF MoveCredits
<1>. HIDE DEF e
<1>5. Append(ledger[req[s].user], e) \in Seq(Entries)
  BY <1>2 DEF TypeInv, TypeOK
<1>. QED  BY <1>3, <1>4, <1>5 DEF TypeInv, TypeOK

\* What is in flight at a step of a handler, by the kind of the request.
LEMMA RequestFields ==
  ASSUME TypeInv, NEW s \in Session, phase[s] # "idle"
  PROVE  /\ req[s].user \in User
         /\ req[s].amount \in Int
         /\ req[s].kind \in IntentKinds =>
              /\ req[s].item \in Intent
              /\ req[s].amount \in Amounts
              /\ intents[req[s].item].status # "absent"
         /\ req[s].kind \in RedeemKinds => req[s].item \in Promo /\ req[s].amount \in Nat
         /\ req[s].kind \in {"create_payment", "bot_top_up"} => req[s].amount \in Amounts
         /\ req[s].kind \in {"register", "debit"} => req[s].amount \in Nat \ {0}
         /\ req[s].kind # "register" => req[s].user \in registered
<1>1. req[s] \in Request
  BY DEF TypeInv, RequestsInFlight
<1>2. req[s].user \in User
  BY <1>1 DEF Request
<1>3. req[s].amount \in Int
  <2>1. Amounts \subseteq Int /\ WelcomeBonus \in Int /\ GenerationCost \in Int
    BY LedgerConstants
  <2>2. CASE req[s] \in [kind: Kinds \cap IntentKinds, user: User, item: Intent, amount: Amounts]
    BY <2>1, <2>2
  <2>3. CASE req[s] \in [kind: Kinds \cap RedeemKinds, user: User, item: Promo, amount: Nat]
    BY <2>3
  <2>4. CASE req[s] \in [kind: Kinds \cap {"adjust", "adjust_self"}, user: User, item: {None},
                         amount: Int]
    BY <2>4
  <2>5. CASE req[s] \in [kind: Kinds \cap {"create_payment", "bot_top_up"}, user: User,
                         item: {None}, amount: Amounts]
    BY <2>1, <2>5
  <2>6. CASE req[s] \in [kind: Kinds \cap {"register"}, user: User, item: {None},
                         amount: {WelcomeBonus}]
    BY <2>1, <2>6
  <2>7. CASE req[s] \in [kind: Kinds \cap {"debit"}, user: User, item: {None},
                         amount: {GenerationCost}]
    BY <2>1, <2>7
  <2>. QED  BY <1>1, <2>2, <2>3, <2>4, <2>5, <2>6, <2>7 DEF Request
<1>4. req[s].kind \in IntentKinds => req[s].item \in Intent /\ req[s].amount \in Amounts
  BY <1>1 DEF Request, IntentKinds, RedeemKinds
<1>5. req[s].kind \in RedeemKinds => req[s].item \in Promo /\ req[s].amount \in Nat
  BY <1>1 DEF Request, IntentKinds, RedeemKinds
<1>6. req[s].kind \in {"create_payment", "bot_top_up"} => req[s].amount \in Amounts
  BY <1>1 DEF Request, IntentKinds, RedeemKinds
<1>7. req[s].kind \in {"register", "debit"} => req[s].amount \in Nat \ {0}
  BY <1>1, LedgerConstants DEF Request, IntentKinds, RedeemKinds
<1>. QED  BY <1>2, <1>3, <1>4, <1>5, <1>6, <1>7 DEF TypeInv, RequestsInFlight

LEMMA LockTypes ==
  ASSUME TypeInv, NEW s \in Session, LockPromo(s) \/ LockUser(s) \/ PricePayment(s)
  PROVE  TypeInv'
<1>1. CASE LockPromo(s) /\ PromoRefused(s)
  <2>1. Finish(s) /\ UNCHANGED store
    BY <1>1 DEF LockPromo
  <2>. QED  BY <2>1, FinishTypeInv DEF TypeInv, TypeOK, OwnedIntents, store
<1>2. CASE LockPromo(s) /\ ~PromoRefused(s)
  <2>1. /\ phase[s] = "begun" /\ req[s].kind \in RedeemKinds
        /\ promo_lock' = [promo_lock EXCEPT ![req[s].item] = s]
        /\ phase' = [phase EXCEPT ![s] = "promo"]
        /\ loaded' = [loaded EXCEPT ![s].activations = activations[req[s].item]]
        /\ UNCHANGED <<user_lock, req, began, clock, store>>
    BY <1>2 DEF LockPromo
  <2>2. req[s].item \in Promo
    BY <2>1, RequestFields
  <2>3. loaded' \in [Session -> LoadedRows] /\ \A t \in Session : loaded'[t].credits = loaded[t].credits
    <3>1. activations[req[s].item] \in Nat /\ loaded \in [Session -> LoadedRows]
      BY <2>2 DEF TypeInv, TypeOK
    <3>. QED  BY <2>1, <3>1 DEF LoadedRows
  <2>4. TypeOK'
    BY <2>1, <2>2, <2>3 DEF TypeInv, TypeOK, store
  <2>5. RequestsInFlight'
    <3>. SUFFICES ASSUME NEW t \in Session, phase'[t] # "idle"
                  PROVE  /\ req[t] \in Request
                         /\ req[t].kind # "register" => req[t].user \in registered
                         /\ req[t].kind = "register" => phase'[t] = "begun" /\ loaded'[t].credits = 0
                         /\ phase'[t] = "promo" => req[t].kind \in RedeemKinds
                         /\ req[t].kind \in IntentKinds => intents[req[t].item].status # "absent"
      BY <2>1 DEF RequestsInFlight, store
    <3>1. phase[t] # "idle" /\ loaded'[t].credits = loaded[t].credits
      BY <2>1, <2>3 DEF TypeInv, TypeOK
    <3>2. t # s => phase'[t] = phase[t]
      BY <2>1 DEF TypeInv, TypeOK
    <3>3. req[s].kind # "register"
      BY <2>1 DEF RedeemKinds
    <3>. QED  BY <2>1, <3>1, <3>2, <3>3 DEF TypeInv, RequestsInFlight
  <2>. QED  BY <2>1, <2>4, <2>5 DEF TypeInv, OwnedIntents, store
<1>3. CASE LockUser(s)
  <2>1. /\ WantsUser(s)
        /\ user_lock' = [user_lock EXCEPT ![req[s].user] = s]
        /\ phase' = [phase EXCEPT ![s] = "locked"]
        /\ UNCHANGED <<store, promo_lock, req, began, clock>>
    BY <1>3 DEF LockUser
  <2>2. phase[s] # "idle" /\ req[s].user \in User /\ req[s].kind # "register"
    BY <2>1, RequestFields DEF WantsUser, Serves, TypeInv, RequestsInFlight, RedeemKinds
  <2>3. loaded' \in [Session -> LoadedRows]
    <3>1. credits[req[s].user] \in Int /\ discount[req[s].user] \in Discounts
      BY <2>2 DEF TypeInv, TypeOK
    <3>2. loaded[s] \in LoadedRows
      BY DEF TypeInv, TypeOK
    <3>3. [loaded[s] EXCEPT !.credits = credits[req[s].user],
                            !.discount = discount[req[s].user]] \in LoadedRows
      BY <3>1, <3>2 DEF LoadedRows
    <3>4. \/ loaded' = loaded
          \/ loaded' = [loaded EXCEPT ![s] =
                          [loaded[s] EXCEPT !.credits = credits[req[s].user],
                                            !.discount = discount[req[s].user]]]
      BY <1>3 DEF LockUser, TypeInv, TypeOK
    <3>. QED  BY <3>3, <3>4 DEF TypeInv, TypeOK
  <2>4. \A t \in Session \ {s} : loaded'[t] = loaded[t]
    BY <1>3 DEF LockUser, TypeInv, TypeOK
  <2>5. TypeOK'
    BY <2>1, <2>2, <2>3 DEF TypeInv, TypeOK, store
  <2>6. RequestsInFlight'
    BY <2>1, <2>2, <2>4 DEF TypeInv, TypeOK, RequestsInFlight, store
  <2>. QED  BY <2>1, <2>5, <2>6 DEF TypeInv, OwnedIntents, store
<1>4. CASE PricePayment(s)
  <2>1. /\ UNCHANGED <<store, locks, req, loaded, began, clock>>
        /\ \A t \in Session \ {s} : phase'[t] = phase[t]
        /\ phase[s] = "begun" /\ phase'[s] \in {"priced", "lapsed"}
        /\ req[s].kind = "create_payment"
    BY <1>4 DEF PricePayment, Serves, TypeInv, TypeOK
  <2>2. phase' \in [Session -> {"idle", "begun", "promo", "locked", "priced", "lapsed"}]
    BY <1>4 DEF PricePayment, TypeInv, TypeOK
  <2>3. TypeOK'
    BY <2>1, <2>2 DEF TypeInv, TypeOK, store, locks
  <2>4. RequestsInFlight'
    BY <2>1 DEF TypeInv, RequestsInFlight, store
  <2>. QED  BY <2>1, <2>3, <2>4 DEF TypeInv, OwnedIntents, store
<1>. QED  BY <1>1, <1>2, <1>3, <1>4

\* What the store holds, before a step that changes some of it.
LEMMA StoredTypes ==
  ASSUME TypeInv
  PROVE  /\ registered \subseteq User
         /\ credits \in [User -> Int]
         /\ discount \in [User -> Discounts]
         /\ intents \in [Intent -> Intents]
         /\ \A i \in Intent : intents[i].status # "absent" =>
              intents[i].owner \in registered /\ intents[i].credits \in Amounts
         /\ activations \in [Promo -> Nat]
         /\ expired \subseteq Date
         /\ redeemed \subseteq Promo \X User
         /\ ledger \in [User -> Seq(Entries)]
BY DEF TypeInv, TypeOK, OwnedIntents

\* A new intent is typed and belongs to the user of the request.
LEMMA NewIntentType ==
  ASSUME TypeInv, NEW i \in Intent, intents[i].status = "absent",
         NEW status \in Statuses, NEW u \in registered, NEW amount \in Amounts,
         NEW percent \in Nat,
         intents' = [intents EXCEPT ![i] = [status |-> status, owner |-> u,
                                            credits |-> amount, percent |-> percent]]
  PROVE  /\ intents' \in [Intent -> Intents]
         /\ \A j \in Intent : intents'[j].status # "absent" =>
              intents'[j].owner \in registered /\ intents'[j].credits \in Amounts
         /\ \A j \in Intent : intents[j].status # "absent" /\ j # i => intents'[j].status # "absent"
<1>. DEFINE new == [status |-> status, owner |-> u, credits |-> amount, percent |-> percent]
<1>1. u \in User /\ amount \in Nat
  BY StoredTypes, LedgerConstants
<1>2. new \in Intents
  BY <1>1 DEF Intents
<1>3. new.owner = u /\ new.credits = amount
  OBVIOUS
<1>4. intents' = [intents EXCEPT ![i] = new]
  OBVIOUS
<1>. HIDE DEF new
<1>. QED  BY <1>2, <1>3, <1>4, StoredTypes

\* The steps that end a transaction.
Ends(s) ==
  \/ Return(s) \/ Abort(s) \/ Register(s) \/ CreatePayment(s) \/ Confirm(s)
  \/ Close(s) \/ Refund(s) \/ Redeem(s) \/ BotTopUp(s) \/ Adjust(s) \/ Debit(s)

\* They keep the types: one step for each handler.
LEMMA EndTypes ==
  ASSUME TypeInv, NEW s \in Session, Ends(s)
  PROVE  TypeInv'
<1>. USE StoredTypes
<1>1. CASE Return(s) \/ Abort(s)
  BY <1>1, FinishTypeInv DEF Return, Abort, store
<1>2. phase[s] # "idle"
  BY DEF Ends, Return, Abort, Register, CreatePayment, Confirm, Close, Refund, Redeem, BotTopUp,
         Adjust, Debit, Serves
<1>. USE <1>2, RequestFields
<1>3. loaded[s].discount \in Discounts /\ loaded[s].credits \in Int
  BY DEF TypeInv, TypeOK, LoadedRows
<1>4. NoDiscount \in Discounts
  BY DEF NoDiscount, Discounts
<1>5. CASE Register(s)
  <2>1. registered' \subseteq User /\ registered \subseteq registered'
    BY <1>5 DEF Register
  <2>2. credits' \in [User -> Int] /\ ledger' \in [User -> Seq(Entries)]
    BY <1>5, MoveCreditsType DEF Register, EntryType
  <2>. QED  BY <1>5, <2>1, <2>2, FinishTypeInv DEF Register
<1>6. CASE CreatePayment(s)
  <2>. DEFINE new == IF phase[s] = "lapsed" THEN NoDiscount ELSE loaded[s].discount
  <2>1. PICK i \in Intent :
          /\ intents[i].status = "absent"
          /\ intents' = [intents EXCEPT ![i] =
               [status |-> "pending", owner |-> req[s].user, credits |-> req[s].amount,
                percent |-> new.percent]]
    BY <1>6 DEF CreatePayment
  <2>2. new \in Discounts
    BY <1>3, <1>4
  <2>3. WriteDiscount(s, new)
    BY <1>6 DEF CreatePayment
  <2>. HIDE DEF new
  <2>4. new.percent \in Nat
    BY <2>2 DEF Discounts
  <2>5. req[s].user \in registered /\ req[s].amount \in Amounts
    BY <1>6 DEF CreatePayment, Serves
  <2>6. discount' \in [User -> Discounts]
    BY <2>2, <2>3, WriteDiscountType
  <2>. QED  BY <1>6, <2>1, <2>4, <2>5, <2>6, NewIntentType, FinishTypeInv
            DEF CreatePayment, Statuses
<1>7. CASE Confirm(s)
  <2>1. req[s].kind \in IntentKinds
    BY <1>7 DEF Confirm, Serves, IntentKinds
  <2>2. discount' \in [User -> Discounts]
    BY <1>7, <1>4, WriteDiscountType DEF Confirm
  <2>3. credits' \in [User -> Int] /\ ledger' \in [User -> Seq(Entries)]
    BY <1>7, <2>1, MoveCreditsType DEF Confirm, EntryType
  <2>. QED  BY <1>7, <2>1, <2>2, <2>3, WriteStatusType, FinishTypeInv DEF Confirm, Statuses
<1>8. CASE Close(s)
  BY <1>8, WriteStatusType, FinishTypeInv DEF Close, Statuses, IntentKinds
<1>9. CASE Refund(s)
  <2>1. req[s].kind \in IntentKinds
    BY <1>9 DEF Refund, Serves, IntentKinds
  <2>2. credits' \in [User -> Int] /\ ledger' \in [User -> Seq(Entries)]
    BY <1>9, <2>1, MoveCreditsType DEF Refund, EntryType
  <2>3. \E new \in {"review", "refunded"} : WriteStatus(s, new)
    BY <1>9 DEF Refund
  <2>. QED  BY <1>9, <2>1, <2>2, <2>3, WriteStatusType, FinishTypeInv DEF Refund, Statuses
<1>10. CASE Redeem(s)
  <2>1. req[s].kind \in RedeemKinds /\ req[s].item \in Promo /\ req[s].amount \in Nat
    BY <1>10 DEF Redeem
  <2>2. credits' \in [User -> Int] /\ ledger' \in [User -> Seq(Entries)]
    BY <1>10, <2>1, MoveCreditsType DEF Redeem, EntryType
  <2>3. discount' \in [User -> Discounts]
    <3>1. RedeemedDiscount(s) \in Discounts
      BY <1>3, <2>1, LedgerConstants DEF RedeemedDiscount, Discounts
    <3>. QED  BY <1>10, <3>1, WriteDiscountType DEF Redeem
  <2>4. activations' \in [Promo -> Nat]
    <3>1. loaded[s].activations + 1 \in Nat
      BY DEF TypeInv, TypeOK, LoadedRows
    <3>2. activations' = [activations EXCEPT ![req[s].item] = loaded[s].activations + 1]
      BY <1>10 DEF Redeem
    <3>. QED  BY <3>1, <3>2
  <2>5. redeemed' \subseteq Promo \X User
    BY <1>10, <2>1 DEF Redeem
  <2>. QED  BY <1>10, <2>2, <2>3, <2>4, <2>5, FinishTypeInv DEF Redeem
<1>11. CASE BotTopUp(s)
  <2>1. PICK i \in Intent :
          /\ intents[i].status = "absent"
          /\ intents' = [intents EXCEPT ![i] =
               [status |-> "succeeded", owner |-> req[s].user, credits |-> req[s].amount,
                percent |-> loaded[s].discount.percent]]
          /\ MoveCredits(s, "top_up", req[s].amount, i)
    BY <1>11 DEF BotTopUp
  <2>2. loaded[s].discount.percent \in Nat
        /\ [loaded[s].discount EXCEPT !.percent = 0] \in Discounts
    BY <1>3 DEF Discounts
  <2>3. req[s].user \in registered /\ req[s].amount \in Amounts
    BY <1>11 DEF BotTopUp, Serves
  <2>4. discount' \in [User -> Discounts]
    BY <1>11, <2>2, WriteDiscountType DEF BotTopUp
  <2>5. credits' \in [User -> Int] /\ ledger' \in [User -> Seq(Entries)]
    BY <2>1, MoveCreditsType DEF EntryType
  <2>. QED  BY <1>11, <2>1, <2>2, <2>3, <2>4, <2>5, NewIntentType, FinishTypeInv
            DEF BotTopUp, Statuses
<1>12. CASE Adjust(s)
  <2>1. credits' \in [User -> Int] /\ ledger' \in [User -> Seq(Entries)]
    BY <1>12, MoveCreditsType DEF Adjust, EntryType
  <2>. QED  BY <1>12, <2>1, FinishTypeInv DEF Adjust
<1>13. CASE Debit(s)
  <2>1. credits' \in [User -> Int] /\ ledger' \in [User -> Seq(Entries)]
    BY <1>13, MoveCreditsType DEF Debit, EntryType
  <2>. QED  BY <1>13, <2>1, FinishTypeInv DEF Debit
<1>. QED  BY <1>1, <1>5, <1>6, <1>7, <1>8, <1>9, <1>10, <1>11, <1>12, <1>13 DEF Ends

\* The types hold at first.
LEMMA InitTypes ==
  Init => TypeInv
<1>. SUFFICES ASSUME Init PROVE TypeInv
  OBVIOUS
<1>1. NoDiscount \in Discounts /\ NoIntent \in Intents
  BY DEF NoDiscount, Discounts, NoIntent, Intents, Statuses
<1>2. <<>> \in Seq(Entries)
  OBVIOUS
<1>3. TypeOK
  BY <1>1, <1>2, NoRowType DEF Init, TypeOK
<1>. QED  BY <1>3 DEF TypeInv, RequestsInFlight, OwnedIntents, Init, NoIntent

\* Every step keeps them.
LEMMA NextTypes ==
  TypeInv /\ [Next]_vars => TypeInv'
<1>. SUFFICES ASSUME TypeInv, [Next]_vars PROVE TypeInv'
  OBVIOUS
<1>1. ASSUME NEW s \in Session, Begin(s) PROVE TypeInv'
  BY <1>1, BeginTypes
<1>2. ASSUME NEW s \in Session, Work(s) \/ Abort(s) PROVE TypeInv'
  BY <1>2, LockTypes, EndTypes DEF Work, Ends
<1>3. ASSUME NEW d \in Date, Expire(d) PROVE TypeInv'
  BY <1>3 DEF Expire, locks, local, TypeInv, TypeOK, RequestsInFlight, OwnedIntents
<1>4. CASE UNCHANGED vars
  BY <1>4 DEF vars, store, locks, local, TypeInv, TypeOK, RequestsInFlight, OwnedIntents
<1>. QED  BY <1>1, <1>2, <1>3, <1>4 DEF Next

\* The rows and sessions of the ledger always have the shape their types state,
\* and no open transaction works for a user or an intent that does not exist.
THEOREM TypeCorrect == Spec => []TypeOK
<1>1. TypeInv => TypeOK
  BY DEF TypeInv
<1>. QED  BY <1>1, InitTypes, NextTypes, PTL DEF Spec

-----------------------------------------------------------------------------
(* Balances. *)

\* No session computes a balance from a negative one.
LoadedNonNegative == \A s \in Session : loaded[s].credits >= 0

BalanceInv == TypeInv /\ NonNegativeBalance /\ LoadedNonNegative

\* The handler that has locked a user holds that user's row.
Held == \A s \in Session : phase[s] = "locked" => user_lock[req[s].user] = s

\* What it has loaded is the balance as stored: nobody else moves it meanwhile.
Fresh == \A s \in Session : phase[s] = "locked" => loaded[s].credits = credits[req[s].user]

\* A user who is not registered has neither credits nor a ledger.
Unregistered == \A u \in User \ registered : credits[u] = 0 /\ ledger[u] = <<>>

ChainInv == BalanceInv /\ Held /\ Fresh /\ Unregistered /\ LedgerChain

\* The ways in which a transaction may leave balances: as they are, moved by the
\* handler that has locked the user, or opened by a registration.
Untouched == UNCHANGED <<registered, credits, ledger>>
Moved(s, amount) ==
  /\ loaded[s].credits + amount >= 0
  /\ \E type \in EntryType, source \in Intent \cup Promo \cup {None} :
       MoveCredits(s, type, amount, source)
MovedLocked(s, amount) ==
  phase[s] = "locked" /\ registered' = registered /\ Moved(s, amount)
Opened(s, amount) ==
  /\ req[s].user \notin registered
  /\ loaded[s].credits = 0
  /\ registered' = registered \cup {req[s].user}
  /\ Moved(s, amount)

\* Every handler ends in one of these ways.
LEMMA EndEffect ==
  ASSUME BalanceInv, NEW s \in Session, Ends(s)
  PROVE  /\ phase[s] # "idle" /\ Finish(s)
         /\ \/ Untouched
            \/ \E amount \in Int : MovedLocked(s, amount) \/ Opened(s, amount)
<1>1. phase[s] # "idle" /\ Finish(s)
  BY DEF Ends, Return, Abort, Register, CreatePayment, Confirm, Close, Refund, Redeem,
         BotTopUp, Adjust, Debit, Serves
<1>2. TypeInv /\ loaded[s].credits \in Int /\ loaded[s].credits >= 0
  BY DEF BalanceInv, LoadedNonNegative, TypeInv, TypeOK, LoadedRows
<1>. USE <1>1, <1>2, RequestFields
<1>3. CASE Return(s) \/ Abort(s) \/ CreatePayment(s) \/ Close(s)
  BY <1>3 DEF Return, Abort, CreatePayment, Close, store, Untouched
<1>4. CASE Register(s)
  <2>1. req[s].amount \in Int /\ req[s].amount >= 0 /\ loaded[s].credits = 0
    BY <1>4 DEF Register, Serves, TypeInv, RequestsInFlight
  <2>2. Opened(s, req[s].amount)
    BY <1>4, <2>1 DEF Register, Serves, Opened, Moved, EntryType
  <2>. QED  BY <2>1, <2>2
<1>5. CASE Confirm(s)
  <2>1. req[s].item \in Intent /\ req[s].amount \in Int /\ req[s].amount >= 0
    BY <1>5, LedgerConstants DEF Confirm, Serves, IntentKinds
  <2>2. MovedLocked(s, req[s].amount)
    BY <1>5, <2>1 DEF Confirm, Serves, MovedLocked, Moved, EntryType
  <2>. QED  BY <2>1, <2>2
<1>6. CASE Refund(s)
  <2>1. req[s].item \in Intent /\ req[s].amount \in Int
    BY <1>6 DEF Refund, Serves, IntentKinds
  <2>2. CASE UNCHANGED <<credits, ledger>>
    BY <1>6, <2>2 DEF Refund, Untouched
  <2>3. CASE loaded[s].credits >= req[s].amount /\ MoveCredits(s, "refund", -req[s].amount, req[s].item)
    <3>1. -req[s].amount \in Int /\ loaded[s].credits + (-req[s].amount) >= 0
      BY <2>1, <2>3
    <3>2. MovedLocked(s, -req[s].amount)
      BY <1>6, <2>1, <2>3, <3>1 DEF Refund, Serves, MovedLocked, Moved, EntryType
    <3>. QED  BY <3>1, <3>2
  <2>. QED  BY <1>6, <2>2, <2>3 DEF Refund
<1>7. CASE Redeem(s)
  <2>1. req[s].item \in Promo /\ req[s].amount \in Int /\ req[s].amount >= 0
    BY <1>7 DEF Redeem
  <2>2. CASE UNCHANGED <<credits, ledger>>
    BY <1>7, <2>2 DEF Redeem, Untouched
  <2>3. CASE MoveCredits(s, "promo", req[s].amount, req[s].item)
    <3>1. MovedLocked(s, req[s].amount)
      BY <1>7, <2>1, <2>3 DEF Redeem, MovedLocked, Moved, EntryType
    <3>. QED  BY <2>1, <3>1
  <2>. QED  BY <1>7, <2>2, <2>3 DEF Redeem
<1>8. CASE BotTopUp(s)
  <2>1. req[s].amount \in Int /\ req[s].amount >= 0
    BY <1>8, LedgerConstants DEF BotTopUp, Serves
  <2>2. MovedLocked(s, req[s].amount)
    BY <1>8, <2>1 DEF BotTopUp, Serves, MovedLocked, Moved, EntryType
  <2>. QED  BY <2>1, <2>2
<1>9. CASE Adjust(s)
  <2>1. MovedLocked(s, req[s].amount)
    BY <1>9 DEF Adjust, MovedLocked, Moved, EntryType
  <2>. QED  BY <2>1
<1>10. CASE Debit(s)
  <2>1. -req[s].amount \in Int /\ loaded[s].credits + (-req[s].amount) >= 0
    BY <1>10 DEF Debit, Serves
  <2>2. MovedLocked(s, -req[s].amount)
    BY <1>10, <2>1 DEF Debit, Serves, MovedLocked, Moved, EntryType
  <2>. QED  BY <2>1, <2>2
<1>. QED  BY <1>3, <1>4, <1>5, <1>6, <1>7, <1>8, <1>9, <1>10 DEF Ends

\* A step that neither begins nor ends a transaction leaves the balances alone
\* and what a session loads is a stored balance.
LEMMA LockEffect ==
  ASSUME BalanceInv, NEW s \in Session, LockPromo(s) \/ LockUser(s) \/ PricePayment(s)
  PROVE  \/ Finish(s) /\ UNCHANGED store
         \/ /\ UNCHANGED <<store, req>>
            /\ phase[s] # "idle" /\ phase'[s] # "idle"
            /\ \A t \in Session : t # s => phase'[t] = phase[t] /\ loaded'[t] = loaded[t]
            /\ loaded'[s].credits \in {loaded[s].credits, credits[req[s].user]}
<1>1. TypeInv
  BY DEF BalanceInv
<1>2. CASE LockPromo(s)
  BY <1>1, <1>2 DEF LockPromo, TypeInv, TypeOK, LoadedRows
<1>3. CASE LockUser(s)
  BY <1>1, <1>3 DEF LockUser, WantsUser, Serves, TypeInv, TypeOK, LoadedRows
<1>4. CASE PricePayment(s)
  BY <1>1, <1>4 DEF PricePayment, Serves, TypeInv, TypeOK
<1>. QED  BY <1>2, <1>3, <1>4

\* Moving credits sets the balance and appends one row that explains it, if the
\* balance loaded is the balance stored.
LEMMA MoveEffect ==
  ASSUME TypeInv, NEW s \in Session, NEW amount \in Int, Moved(s, amount),
         req[s].user \in User
  PROVE  LET u == req[s].user IN
         /\ credits' \in [User -> Int]
         /\ \A v \in User \ {u} : credits'[v] = credits[v] /\ ledger'[v] = ledger[v]
         /\ credits'[u] \in {credits[u], loaded[s].credits + amount}
         /\ loaded[s].credits = credits[u] => credits'[u] = loaded[s].credits + amount
         /\ \E e \in Entries : /\ e.amount = amount
                               /\ e.balance_after = loaded[s].credits + amount
                               /\ ledger' = [ledger EXCEPT ![u] = Append(ledger[u], e)]
<1>. DEFINE u == req[s].user
            new == loaded[s].credits + amount
<1>1. PICK type \in EntryType, source \in Intent \cup Promo \cup {None} :
        MoveCredits(s, type, amount, source)
  BY DEF Moved
<1>. DEFINE e == [type |-> type, amount |-> amount, balance_after |-> new,
                  source |-> source, created_at |-> began[s]]
<1>2. new \in Int /\ began[s] \in Nat /\ loaded[s].credits \in Int
  BY DEF TypeInv, TypeOK, LoadedRows
<1>3. e \in Entries /\ e.amount = amount /\ e.balance_after = new
  BY <1>2 DEF Entries
<1>4. ledger' = [ledger EXCEPT ![u] = Append(ledger[u], e)]
  BY <1>1 DEF MoveCredits
<1>5. credits' = [credits EXCEPT ![u] = Column(credits[u], loaded[s].credits, new)]
  BY <1>1 DEF MoveCredits
<1>6. Column(credits[u], loaded[s].credits, new) \in {credits[u], new}
  BY DEF Column
<1>7. loaded[s].credits = credits[u] => Column(credits[u], loaded[s].credits, new) = new
  BY DEF Column
<1>8. credits \in [User -> Int] /\ ledger \in [User -> Seq(Entries)]
  BY StoredTypes
<1>9. \E x \in Entries : /\ x.amount = amount /\ x.balance_after = new
                        /\ ledger' = [ledger EXCEPT ![u] = Append(ledger[u], x)]
  BY <1>3, <1>4
<1>. HIDE DEF e, new
<1>10. credits' \in [User -> Int]
  BY <1>2, <1>5, <1>6, <1>8 DEF new
<1>11. \A v \in User \ {u} : credits'[v] = credits[v] /\ ledger'[v] = ledger[v]
  BY <1>4, <1>5, <1>8
<1>12. credits'[u] = Column(credits[u], loaded[s].credits, new)
  BY <1>5, <1>8
<1>. QED  BY <1>6, <1>7, <1>9, <1>10, <1>11, <1>12 DEF new

\* The balances after a step that ends a transaction.
LEMMA EndBalances ==
  ASSUME BalanceInv, NEW s \in Session, Ends(s)
  PROVE  NonNegativeBalance' /\ LoadedNonNegative'
<1>1. TypeInv /\ TypeInv' /\ Finish(s) /\ phase[s] # "idle"
  BY EndEffect, EndTypes DEF BalanceInv
<1>2. LoadedNonNegative'
  <2>1. NoRow.credits >= 0
    BY DEF NoRow
  <2>. QED  BY <1>1, <2>1 DEF BalanceInv, LoadedNonNegative, Finish, TypeInv, TypeOK
<1>3. CASE Untouched
  BY <1>2, <1>3 DEF BalanceInv, NonNegativeBalance, Untouched
<1>4. ASSUME NEW amount \in Int, MovedLocked(s, amount) \/ Opened(s, amount)
      PROVE  NonNegativeBalance'
  <2>1. Moved(s, amount) /\ loaded[s].credits + amount >= 0
    BY <1>4 DEF MovedLocked, Opened, Moved
  <2>2. req[s].user \in User
    BY <1>1, RequestFields
  <2>. QED  BY <1>1, <2>1, <2>2, MoveEffect DEF BalanceInv, NonNegativeBalance
<1>. QED  BY <1>2, <1>3, <1>4, EndEffect

\* Balances, loaded or stored, stay non-negative: a step either leaves them
\* alone, loads a stored one, or stores one its handler has checked.
LEMMA NextBalances ==
  BalanceInv /\ [Next]_vars => BalanceInv'
<1>. SUFFICES ASSUME BalanceInv, [Next]_vars PROVE NonNegativeBalance' /\ LoadedNonNegative'
  BY NextTypes DEF BalanceInv
<1>. USE DEF BalanceInv, NonNegativeBalance, LoadedNonNegative
<1>1. ASSUME NEW s \in Session, Begin(s) PROVE NonNegativeBalance' /\ LoadedNonNegative'
  <2>1. PICK r \in Request, row \in LoadedRows : WellFormed(r, row) /\ Start(s, r, row)
    BY <1>1, BeginEffect
  <2>2. row.credits >= 0
    BY <2>1 DEF WellFormed
  <2>. QED  BY <2>1, <2>2 DEF Start, store, TypeInv, TypeOK
<1>2. ASSUME NEW s \in Session, LockPromo(s) \/ LockUser(s) \/ PricePayment(s)
      PROVE  NonNegativeBalance' /\ LoadedNonNegative'
  <2>1. CASE Finish(s) /\ UNCHANGED store
    <3>1. NoRow.credits >= 0
      BY DEF NoRow
    <3>. QED  BY <2>1, <3>1 DEF Finish, store, TypeInv, TypeOK
  <2>2. CASE ~ (Finish(s) /\ UNCHANGED store)
    <3>1. /\ UNCHANGED <<store, req>> /\ phase[s] # "idle"
          /\ \A t \in Session : t # s => loaded'[t] = loaded[t]
          /\ loaded'[s].credits \in {loaded[s].credits, credits[req[s].user]}
      BY <1>2, <2>2, LockEffect
    <3>2. req[s].user \in User
      BY <3>1, RequestFields
    <3>. QED  BY <3>1, <3>2 DEF store
  <2>. QED  BY <2>1, <2>2
<1>3. ASSUME NEW s \in Session, Ends(s) PROVE NonNegativeBalance' /\ LoadedNonNegative'
  BY <1>3, EndBalances
<1>4. ASSUME NEW d \in Date, Expire(d) PROVE NonNegativeBalance' /\ LoadedNonNegative'
  BY <1>4 DEF Expire, local
<1>5. CASE UNCHANGED vars
  BY <1>5 DEF vars, store, local
<1>. QED  BY <1>1, <1>2, <1>3, <1>4, <1>5 DEF Next, Work, Ends

\* No interleaving of the handlers drives a balance below zero, with however many
\* sessions and whichever handlers, the two that work on a stale row included.
THEOREM BalancesNonNegative == Spec => []NonNegativeBalance
<1>1. Init => BalanceInv
  <2>1. NoRow.credits = 0
    BY DEF NoRow
  <2>. QED  BY <2>1, InitTypes DEF Init, BalanceInv, NonNegativeBalance, LoadedNonNegative
<1>2. BalanceInv => NonNegativeBalance
  BY DEF BalanceInv
<1>. QED  BY <1>1, <1>2, NextBalances, PTL DEF Spec

-----------------------------------------------------------------------------
(* The ledger explains the balance, when no handler works on a stale row. *)

\* What LedgerChain says of one user.
Explained(u) ==
  /\ \A n \in 1..Len(ledger[u]) :
       ledger[u][n].balance_after = BalanceBefore(u, n) + ledger[u][n].amount
  /\ credits[u] = BalanceBefore(u, Len(ledger[u]) + 1)

\* The kind of a request in flight is one of the handlers this instance runs.
LEMMA KindInFlight ==
  ASSUME TypeInv, NEW s \in Session, phase[s] # "idle"
  PROVE  req[s].kind \in Kinds
<1>1. req[s] \in Request
  BY DEF TypeInv, RequestsInFlight
<1>. QED  BY <1>1 DEF Request

\* A chain that ends in the balance goes on with a row that starts from it.
LEMMA AppendExplained ==
  ASSUME TypeInv, NEW u \in User, NEW e \in Entries, Explained(u),
         e.balance_after = credits[u] + e.amount,
         ledger'[u] = Append(ledger[u], e), credits'[u] = e.balance_after
  PROVE  Explained(u)'
<1>. DEFINE h == ledger[u]
<1>0. h \in Seq(Entries) /\ Len(h) \in Nat /\ credits[u] \in Int
  BY DEF TypeInv, TypeOK
<1>. PICK k \in Nat : k = Len(ledger[u])   \* a rigid name for the old length
  BY <1>0
<1>1. h \in Seq(Entries) /\ k = Len(h) /\ credits[u] \in Int
  BY <1>0
<1>2. Len(ledger'[u]) = k + 1 /\ ledger'[u][k + 1] = e
  BY <1>1
<1>3. \A n \in 1..k : ledger'[u][n] = h[n]
  BY <1>1
<1>. HIDE DEF h
<1>4. ASSUME NEW n \in 1..(k + 1) PROVE BalanceBefore(u, n)' = BalanceBefore(u, n)
  <2>1. CASE n = 1
    BY <2>1 DEF BalanceBefore
  <2>2. CASE n # 1
    <3>1. n - 1 \in 1..k
      BY <1>1, <2>2
    <3>. QED  BY <1>3, <2>2, <3>1 DEF BalanceBefore, h
  <2>. QED  BY <2>1, <2>2
<1>5. BalanceBefore(u, k + 2)' = e.balance_after
  <2>1. k + 2 # 1 /\ (k + 2) - 1 = k + 1
    BY <1>1
  <2>. QED  BY <1>2, <2>1 DEF BalanceBefore
<1>6. ASSUME NEW n \in 1..(k + 1)
      PROVE  ledger'[u][n].balance_after = BalanceBefore(u, n)' + ledger'[u][n].amount
  <2>1. CASE n = k + 1
    <3>1. BalanceBefore(u, k + 1)' = credits[u]
      BY <1>1, <1>4 DEF Explained, h
    <3>. QED  BY <1>2, <2>1, <3>1
  <2>2. CASE n # k + 1
    <3>1. n \in 1..k
      BY <1>1, <2>2
    <3>2. h[n].balance_after = BalanceBefore(u, n) + h[n].amount
      BY <3>1 DEF Explained, h
    <3>. QED  BY <1>3, <1>4, <3>1, <3>2
  <2>. QED  BY <2>1, <2>2
<1>7. k + 1 + 1 = k + 2
  BY <1>1
<1>. QED  BY <1>2, <1>5, <1>6, <1>7 DEF Explained

\* The transactions that remain when s ends hold their locks.
LEMMA EndHeld ==
  ASSUME TypeInv, Held, NEW s \in Session, Finish(s)
  PROVE  /\ Held'
         /\ \A t \in Session : phase'[t] = "locked" =>
              /\ t # s /\ phase[t] = "locked" /\ req'[t] = req[t]
              /\ loaded'[t] = loaded[t] /\ req[t].user \in registered
              /\ user_lock[req[t].user] = t
<1>1. ASSUME NEW t \in Session, phase'[t] = "locked"
      PROVE  /\ t # s /\ phase[t] = "locked" /\ req'[t] = req[t]
             /\ loaded'[t] = loaded[t]
  BY <1>1, FinishTypes
<1>2. ASSUME NEW t \in Session, phase'[t] = "locked"
      PROVE  /\ req[t].user \in registered /\ user_lock[req[t].user] = t
             /\ req[t].user \in User
  BY <1>1, <1>2, RequestFields DEF Held, TypeInv, RequestsInFlight
<1>3. ASSUME NEW t \in Session, phase'[t] = "locked"
      PROVE  user_lock'[req'[t].user] = t
  BY <1>1, <1>2, <1>3 DEF Finish
<1>. QED  BY <1>1, <1>2, <1>3 DEF Held

\* A step that moves credits, by the holder of the user's lock or by the
\* registration of the user, moves them as the atomic ledger does.
LEMMA MoveIsAtomic ==
  ASSUME ChainInv, NEW s \in Session, Ends(s), NEW amount \in Int,
         MovedLocked(s, amount) \/ Opened(s, amount)
  PROVE  /\ req[s].user \in User
         /\ \A v \in User \ {req[s].user} : credits'[v] = credits[v] /\ ledger'[v] = ledger[v]
         /\ credits'[req[s].user] >= 0
         /\ \E e \in Entries : /\ e.balance_after = credits[req[s].user] + e.amount
                               /\ credits' = [credits EXCEPT ![req[s].user] = e.balance_after]
                               /\ ledger' = [ledger EXCEPT ![req[s].user] = Append(ledger[req[s].user], e)]
<1>1. TypeInv /\ phase[s] # "idle"
  BY EndEffect DEF ChainInv, BalanceInv
<1>2. req[s].user \in User
  BY <1>1, RequestFields
<1>3. Moved(s, amount) /\ loaded[s].credits + amount >= 0
  BY DEF MovedLocked, Opened, Moved
<1>4. loaded[s].credits = credits[req[s].user]
  BY <1>2 DEF ChainInv, Fresh, Unregistered, MovedLocked, Opened
<1>5. PICK e \in Entries :
        /\ e.amount = amount
        /\ e.balance_after = loaded[s].credits + amount
        /\ ledger' = [ledger EXCEPT ![req[s].user] = Append(ledger[req[s].user], e)]
  BY <1>1, <1>2, <1>3, MoveEffect
<1>6. /\ credits' \in [User -> Int]
      /\ \A v \in User \ {req[s].user} : credits'[v] = credits[v] /\ ledger'[v] = ledger[v]
      /\ credits'[req[s].user] = loaded[s].credits + amount
  BY <1>1, <1>2, <1>3, <1>4, MoveEffect
<1>7. credits' = [credits EXCEPT ![req[s].user] = e.balance_after]
  BY <1>1, <1>2, <1>5, <1>6 DEF TypeInv, TypeOK
<1>. QED  BY <1>2, <1>3, <1>4, <1>5, <1>6, <1>7

\* The end of a transaction keeps the chain and what the others rely on.
LEMMA EndChain ==
  ASSUME ChainInv, NEW s \in Session, Ends(s)
  PROVE  ChainInv'
<1>1. TypeInv /\ Held /\ Finish(s) /\ phase[s] # "idle"
  BY EndEffect DEF ChainInv, BalanceInv
<1>2. BalanceInv'
  BY EndBalances, EndTypes DEF ChainInv, BalanceInv
<1>3. Held'
  BY <1>1, EndHeld
<1>4. CASE Untouched
  <2>1. Fresh'
    BY <1>1, <1>4, EndHeld DEF ChainInv, Fresh, Untouched
  <2>2. Unregistered' /\ LedgerChain'
    BY <1>4 DEF ChainInv, Unregistered, LedgerChain, BalanceBefore, Untouched
  <2>. QED  BY <1>2, <1>3, <2>1, <2>2 DEF ChainInv
<1>5. ASSUME NEW amount \in Int, MovedLocked(s, amount) \/ Opened(s, amount)
      PROVE  ChainInv'
  <2>. DEFINE u == req[s].user
  <2>1. /\ u \in User
        /\ \A v \in User \ {u} : credits'[v] = credits[v] /\ ledger'[v] = ledger[v]
    BY <1>5, MoveIsAtomic
  <2>2. PICK e \in Entries : /\ e.balance_after = credits[u] + e.amount
                             /\ credits' = [credits EXCEPT ![u] = e.balance_after]
                             /\ ledger' = [ledger EXCEPT ![u] = Append(ledger[u], e)]
    BY <1>5, MoveIsAtomic
  <2>3. credits'[u] = e.balance_after /\ ledger'[u] = Append(ledger[u], e)
    BY <1>1, <2>1, <2>2, StoredTypes
  <2>4. u \in registered' /\ registered \subseteq registered'
    BY <1>1, <1>5, <2>1 DEF MovedLocked, Opened, TypeInv, RequestsInFlight
  <2>5. Unregistered'
    BY <2>1, <2>4 DEF ChainInv, Unregistered
  <2>6. ASSUME NEW t \in Session, phase'[t] = "locked"
        PROVE  req[t].user \in User /\ req[t].user # u
    <3>1. /\ t # s /\ req[t].user \in registered /\ user_lock[req[t].user] = t
      BY <1>1, <2>6, EndHeld
    <3>2. CASE phase[s] = "locked"
      BY <1>1, <3>1, <3>2, StoredTypes DEF Held
    <3>3. CASE Opened(s, amount)
      BY <1>1, <3>1, <3>3, StoredTypes DEF Opened
    <3>. QED  BY <1>5, <3>2, <3>3 DEF MovedLocked
  <2>7. Fresh'
    BY <1>1, <2>1, <2>6, EndHeld DEF ChainInv, Fresh
  <2>8. ASSUME NEW v \in User PROVE Explained(v)'
    <3>1. Explained(v)
      BY DEF ChainInv, LedgerChain, Explained
    <3>2. CASE v = u
      BY <1>1, <2>2, <2>3, <3>1, <3>2, AppendExplained
    <3>3. CASE v # u
      BY <2>1, <3>1, <3>3 DEF Explained, BalanceBefore
    <3>. QED  BY <3>2, <3>3
  <2>9. LedgerChain'
    <3>. SUFFICES ASSUME NEW v \in User PROVE Explained(v)'
      BY Zenon DEF LedgerChain, Explained
    <3>. QED  BY <2>8
  <2>. QED  BY <1>2, <1>3, <2>5, <2>7, <2>9 DEF ChainInv
<1>. QED  BY <1>4, <1>5, EndEffect DEF ChainInv

\* A lock taken keeps it too, unless the row locked is one already loaded.
LEMMA LockChain ==
  ASSUME Kinds \cap StaleKinds = {}, ChainInv, NEW s \in Session,
         LockPromo(s) \/ LockUser(s) \/ PricePayment(s)
  PROVE  Held' /\ Fresh'
<1>1. TypeInv
  BY DEF ChainInv, BalanceInv
<1>2. CASE Finish(s) /\ UNCHANGED store
  BY <1>1, <1>2, EndHeld DEF ChainInv, Fresh, store
<1>3. CASE LockPromo(s) /\ ~ (Finish(s) /\ UNCHANGED store)
  <2>1. /\ UNCHANGED <<store, req, user_lock>>
        /\ phase' = [phase EXCEPT ![s] = "promo"]
        /\ loaded' = [loaded EXCEPT ![s].activations = activations[req[s].item]]
    BY <1>3 DEF LockPromo
  <2>2. ASSUME NEW t \in Session, phase'[t] = "locked"
        PROVE  phase[t] = "locked" /\ loaded'[t] = loaded[t]
    BY <1>1, <2>1, <2>2 DEF TypeInv, TypeOK
  <2>. QED  BY <2>1, <2>2 DEF ChainInv, Held, Fresh, store
<1>4. CASE LockUser(s)
  <2>1. phase[s] # "idle"
    BY <1>4 DEF LockUser, WantsUser, Serves
  <2>2. req[s].user \in User /\ req[s].kind \notin StaleKinds
    BY <1>1, <2>1, RequestFields, KindInFlight
  <2>3. /\ UNCHANGED <<store, req>> /\ user_lock[req[s].user] = None
        /\ user_lock' = [user_lock EXCEPT ![req[s].user] = s]
        /\ phase' = [phase EXCEPT ![s] = "locked"]
        /\ loaded' = [loaded EXCEPT ![s].credits = credits[req[s].user],
                                    ![s].discount = discount[req[s].user]]
    BY <1>4, <2>2 DEF LockUser
  <2>4. loaded'[s].credits = credits[req[s].user]
    BY <1>1, <2>3 DEF TypeInv, TypeOK, LoadedRows
  <2>5. ASSUME NEW t \in Session, phase'[t] = "locked", t # s
        PROVE  /\ phase[t] = "locked" /\ loaded'[t] = loaded[t]
               /\ user_lock[req[t].user] = t /\ req[t].user \in User
    <3>1. phase[t] = "locked"
      BY <1>1, <2>3, <2>5 DEF TypeInv, TypeOK
    <3>2. loaded'[t] = loaded[t]
      BY <1>1, <2>3, <2>5 DEF TypeInv, TypeOK
    <3>3. user_lock[req[t].user] = t
      BY <3>1 DEF ChainInv, Held
    <3>. QED  BY <1>1, <3>1, <3>2, <3>3, RequestFields
  <2>6. ASSUME NEW t \in Session, phase'[t] = "locked"
        PROVE  user_lock'[req[t].user] = t
    BY <1>1, <2>2, <2>3, <2>5, <2>6, LedgerConstants DEF TypeInv, TypeOK
  <2>7. Held'
    BY <2>3, <2>6 DEF Held
  <2>8. credits' = credits
    BY <2>3 DEF store
  <2>9. ASSUME NEW t \in Session, phase'[t] = "locked"
        PROVE  loaded'[t].credits = credits'[req'[t].user]
    <3>1. CASE t = s
      BY <2>3, <2>4, <2>8, <3>1
    <3>2. CASE t # s
      BY <2>3, <2>5, <2>8, <2>9, <3>2 DEF ChainInv, Fresh
    <3>. QED  BY <3>1, <3>2
  <2>. QED  BY <2>7, <2>9 DEF Fresh
<1>5. CASE PricePayment(s)
  <2>1. /\ UNCHANGED <<store, locks, req, loaded>>
        /\ \A t \in Session : phase'[t] = "locked" => phase[t] = "locked"
    BY <1>1, <1>5 DEF PricePayment, TypeInv, TypeOK
  <2>. QED  BY <2>1 DEF ChainInv, Held, Fresh, store, locks
<1>. QED  BY <1>2, <1>3, <1>4, <1>5

\* The strengthened chain is inductive.
LEMMA NextChain ==
  ASSUME Kinds \cap StaleKinds = {}, ChainInv, [Next]_vars
  PROVE  ChainInv'
<1>1. TypeInv /\ BalanceInv'
  BY NextBalances DEF ChainInv, BalanceInv
<1>2. ASSUME NEW s \in Session, Begin(s) PROVE ChainInv'
  <2>1. PICK r \in Request, row \in LoadedRows : Start(s, r, row)
    BY <1>1, <1>2, BeginEffect
  <2>2. /\ UNCHANGED <<store, locks>> /\ phase[s] = "idle"
        /\ \A t \in Session : phase'[t] = "locked" =>
             phase[t] = "locked" /\ req'[t] = req[t] /\ loaded'[t] = loaded[t]
    BY <1>1, <2>1 DEF Start, TypeInv, TypeOK
  <2>. QED  BY <1>1, <2>2 DEF ChainInv, Held, Fresh, Unregistered, LedgerChain, BalanceBefore,
                              store, locks
<1>3. ASSUME NEW s \in Session, LockPromo(s) \/ LockUser(s) \/ PricePayment(s) PROVE ChainInv'
  <2>1. UNCHANGED store
    BY <1>3 DEF LockPromo, LockUser, PricePayment, store
  <2>2. Held' /\ Fresh'
    BY <1>3, LockChain
  <2>. QED  BY <1>1, <2>1, <2>2 DEF ChainInv, Unregistered, LedgerChain, BalanceBefore, store
<1>4. ASSUME NEW s \in Session, Ends(s) PROVE ChainInv'
  BY <1>4, EndChain
<1>5. CASE UNCHANGED <<registered, credits, ledger, locks, local>>
  BY <1>1, <1>5 DEF ChainInv, Held, Fresh, Unregistered, LedgerChain, BalanceBefore, locks, local
<1>6. (\E d \in Date : Expire(d)) \/ UNCHANGED vars
         => UNCHANGED <<registered, credits, ledger, locks, local>>
  BY DEF Expire, vars, store
<1>. QED  BY <1>2, <1>3, <1>4, <1>5, <1>6 DEF Next, Work, Ends

\* It holds at first.
LEMMA InitChain ==
  Init => ChainInv
<1>. SUFFICES ASSUME Init PROVE ChainInv
  OBVIOUS
<1>1. NoRow.credits = 0
  BY DEF NoRow
<1>2. BalanceInv
  BY <1>1, InitTypes DEF Init, BalanceInv, NonNegativeBalance, LoadedNonNegative
<1>3. Held /\ Fresh /\ Unregistered
  BY DEF Init, Held, Fresh, Unregistered
<1>4. \A u \in User : Len(ledger[u]) = 0 /\ credits[u] = 0
  BY DEF Init
<1>5. LedgerChain
  BY <1>4 DEF LedgerChain, BalanceBefore
<1>. QED  BY <1>2, <1>3, <1>5 DEF ChainInv

\* Whatever the interleaving, the ledger of a user explains the balance row by
\* row, provided no handler runs that locks a row it has already loaded: the
\* counterexample for one that does is the run stale_redeem.
THEOREM LedgerExplainsBalance ==
  ASSUME Kinds \cap StaleKinds = {}
  PROVE  Spec => []LedgerChain
<1>1. ChainInv /\ [Next]_vars => ChainInv'
  BY NextChain
<1>2. ChainInv => LedgerChain
  BY DEF ChainInv
<1>. QED  BY <1>1, <1>2, InitChain, PTL DEF Spec

\* And then the system implements the atomic ledger: every step moves one balance
\* together with the one row that explains it, or leaves both as they are.
THEOREM ImplementsAtomicLedger ==
  ASSUME Kinds \cap StaleKinds = {}
  PROVE  Spec => RefinesAtomicLedger
<1>1. Init => Abstract!Init
  BY DEF Init, Abstract!Init
<1>2. ASSUME ChainInv, NEW s \in Session, Ends(s)
      PROVE  [Abstract!Next]_<<credits, ledger>>
  <2>1. CASE Untouched
    BY <2>1 DEF Untouched
  <2>2. ASSUME NEW amount \in Int, MovedLocked(s, amount) \/ Opened(s, amount)
        PROVE  Abstract!Next
    <3>. DEFINE u == req[s].user
    <3>1. u \in User /\ credits'[u] >= 0
      BY <1>2, <2>2, MoveIsAtomic
    <3>2. PICK e \in Entries : /\ e.balance_after = credits[u] + e.amount
                               /\ credits' = [credits EXCEPT ![u] = e.balance_after]
                               /\ ledger' = [ledger EXCEPT ![u] = Append(ledger[u], e)]
      BY <1>2, <2>2, MoveIsAtomic
    <3>3. credits \in [User -> Int] /\ ledger \in [User -> Seq(Entries)]
      BY <1>2, StoredTypes DEF ChainInv, BalanceInv
    <3>4. /\ credits'[u] = e.balance_after /\ ledger'[u] = Append(ledger[u], e)
          /\ ledger[u] \in Seq(Entries)
      BY <3>1, <3>2, <3>3
    <3>5. Len(ledger'[u]) = Len(ledger[u]) + 1 /\ ledger'[u][Len(ledger'[u])] = e
      BY <3>4
    <3>6. Abstract!Move(u)
      BY <3>1, <3>2, <3>4, <3>5 DEF Abstract!Move
    <3>. QED  BY <3>1, <3>6 DEF Abstract!Next
  <2>. QED  BY <1>2, <2>1, <2>2, EndEffect DEF ChainInv
<1>3. ChainInv /\ [Next]_vars => [Abstract!Next]_<<credits, ledger>>
  <2>. SUFFICES ASSUME ChainInv, [Next]_vars PROVE [Abstract!Next]_<<credits, ledger>>
    OBVIOUS
  <2>1. ASSUME NEW s \in Session, Begin(s) PROVE UNCHANGED <<credits, ledger>>
    <3>1. TypeInv
      BY DEF ChainInv, BalanceInv
    <3>. QED  BY <2>1, <3>1, BeginEffect DEF Start, store
  <2>2. ASSUME NEW s \in Session, LockPromo(s) \/ LockUser(s) \/ PricePayment(s)
        PROVE  UNCHANGED <<credits, ledger>>
    BY <2>2 DEF LockPromo, LockUser, PricePayment, store
  <2>3. (\E d \in Date : Expire(d)) \/ UNCHANGED vars => UNCHANGED <<credits, ledger>>
    BY DEF Expire, vars, store
  <2>. QED  BY <1>2, <2>1, <2>2, <2>3 DEF Next, Work, Ends
<1>4. ChainInv /\ [Next]_vars => ChainInv'
  BY NextChain
<1>. QED  BY <1>1, <1>3, <1>4, InitChain, PTL
          DEF Spec, RefinesAtomicLedger, Abstract!Spec, Abstract!vars

-----------------------------------------------------------------------------
(* What a request knows as it begins. *)

\* What a request knows as it begins: the intent it names, the value of the promo
\* code it names, and a discount that is stored, or none.
Reads(r, row) ==
  /\ row.discount \in {NoDiscount, discount[r.user]}
  /\ r.kind \in RedeemKinds => r.item \in Promo /\ r.amount = Value[r.item]
  /\ r.kind \in IntentKinds =>
       /\ r.item \in Intent
       /\ r.user = intents[r.item].owner
       /\ r.amount = intents[r.item].credits
       /\ row.status = intents[r.item].status

\* Whoever begins has read this.
LEMMA BeginReads ==
  ASSUME NEW s \in Session, Begin(s)
  PROVE  \E r, row : Reads(r, row) /\ Start(s, r, row)
<1>. USE DEF IntentKinds, RedeemKinds, AmountKinds
<1>1. NoRow.discount = NoDiscount
  BY DEF NoRow
<1>2. CASE BeginIntent(s)
  <2>1. PICK k \in Kinds \cap IntentKinds, i \in Intent :
          Start(s, [kind |-> k, user |-> intents[i].owner, item |-> i,
                    amount |-> intents[i].credits],
                   [NoRow EXCEPT !.status = intents[i].status])
    BY <1>2 DEF BeginIntent
  <2>2. /\ [NoRow EXCEPT !.status = intents[i].status].discount = NoDiscount
        /\ [NoRow EXCEPT !.status = intents[i].status].status = intents[i].status
    BY DEF NoRow
  <2>3. Reads([kind |-> k, user |-> intents[i].owner, item |-> i, amount |-> intents[i].credits],
              [NoRow EXCEPT !.status = intents[i].status])
    BY <2>2 DEF Reads
  <2>. QED  BY <2>1, <2>3
<1>3. ASSUME NEW k, NEW u
      PROVE  CallerRow(k, u).discount \in {NoDiscount, discount[u]}
  BY <1>1 DEF CallerRow, NoRow
<1>4. CASE BeginRedeem(s)
  <2>1. PICK k \in Kinds \cap RedeemKinds, u \in registered, p \in Promo :
          Start(s, [kind |-> k, user |-> u, item |-> p, amount |-> Value[p]], CallerRow(k, u))
    BY <1>4 DEF BeginRedeem
  <2>2. Reads([kind |-> k, user |-> u, item |-> p, amount |-> Value[p]], CallerRow(k, u))
    BY <1>3 DEF Reads
  <2>. QED  BY <2>1, <2>2
<1>5. ASSUME NEW k \in {"create_payment", "bot_top_up", "adjust", "adjust_self", "debit", "register"},
             NEW u, NEW n, NEW row,
             row.discount \in {NoDiscount, discount[u]}
      PROVE  Reads([kind |-> k, user |-> u, item |-> None, amount |-> n], row)
  BY <1>5 DEF Reads
<1>6. CASE BeginAmount(s)
  <2>1. PICK k \in Kinds \cap AmountKinds, u \in registered, a \in Amounts :
          \E n \in IF k \in {"adjust", "adjust_self"} THEN {a, -a} ELSE {a} :
            Start(s, [kind |-> k, user |-> u, item |-> None, amount |-> n], CallerRow(k, u))
    BY <1>6 DEF BeginAmount
  <2>2. PICK n : Start(s, [kind |-> k, user |-> u, item |-> None, amount |-> n], CallerRow(k, u))
    BY <2>1
  <2>3. Reads([kind |-> k, user |-> u, item |-> None, amount |-> n], CallerRow(k, u))
    BY <1>3, <1>5
  <2>. QED  BY <2>2, <2>3
<1>7. CASE BeginDebit(s)
  <2>1. PICK u \in registered :
          Start(s, [kind |-> "debit", user |-> u, item |-> None, amount |-> GenerationCost], NoRow)
    BY <1>7 DEF BeginDebit
  <2>2. Reads([kind |-> "debit", user |-> u, item |-> None, amount |-> GenerationCost], NoRow)
    BY <1>1, <1>5
  <2>. QED  BY <2>1, <2>2
<1>8. CASE BeginRegister(s)
  <2>1. PICK u \in User :
          Start(s, [kind |-> "register", user |-> u, item |-> None, amount |-> WelcomeBonus], NoRow)
    BY <1>8 DEF BeginRegister
  <2>2. Reads([kind |-> "register", user |-> u, item |-> None, amount |-> WelcomeBonus], NoRow)
    BY <1>1, <1>5
  <2>. QED  BY <2>1, <2>2
<1>. QED  BY <1>2, <1>4, <1>6, <1>7, <1>8 DEF Begin

\* Beginning a transaction stores nothing and touches no other session.
LEMMA StartEffect ==
  ASSUME TypeInv, NEW s \in Session, NEW r, NEW row, Start(s, r, row)
  PROVE  /\ UNCHANGED <<store, locks>>
         /\ phase[s] = "idle" /\ phase'[s] = "begun" /\ req'[s] = r /\ loaded'[s] = row
         /\ \A t \in Session \ {s} :
              phase'[t] = phase[t] /\ req'[t] = req[t] /\ loaded'[t] = loaded[t]
BY DEF Start, TypeInv, TypeOK

\* So does taking a lock, which keeps what the request has found out about its
\* intent and loads a discount that is stored, or none.
LEMMA LockUserEffect ==
  ASSUME TypeInv, NEW s \in Session, LockUser(s)
  PROVE  /\ UNCHANGED <<store, req, promo_lock>>
         /\ phase[s] # "idle" /\ WantsUser(s) /\ phase'[s] = "locked"
         /\ \A t \in Session \ {s} : phase'[t] = phase[t] /\ loaded'[t] = loaded[t]
         /\ loaded'[s].activations = loaded[s].activations
         /\ loaded'[s].status = loaded[s].status
         /\ loaded'[s].discount \in {loaded[s].discount, discount[req[s].user]}
<1>1. /\ UNCHANGED <<store, req, promo_lock>> /\ WantsUser(s)
      /\ phase' = [phase EXCEPT ![s] = "locked"]
      /\ \/ loaded' = loaded
         \/ loaded' = [loaded EXCEPT ![s].credits = credits[req[s].user],
                                     ![s].discount = discount[req[s].user]]
  BY DEF LockUser
<1>2. phase[s] # "idle"
  BY <1>1 DEF WantsUser, Serves
<1>3. loaded[s] \in LoadedRows /\ loaded \in [Session -> LoadedRows]
  BY DEF TypeInv, TypeOK
<1>4. /\ loaded'[s].activations = loaded[s].activations
      /\ loaded'[s].status = loaded[s].status
      /\ loaded'[s].discount \in {loaded[s].discount, discount[req[s].user]}
  BY <1>1, <1>3 DEF LoadedRows
<1>. QED  BY <1>1, <1>2, <1>3, <1>4 DEF TypeInv, TypeOK

\* A promo code that is not refused is locked, and its counter loaded.
LEMMA LockPromoEffect ==
  ASSUME TypeInv, NEW s \in Session, LockPromo(s), ~ Finish(s)
  PROVE  /\ UNCHANGED <<store, req>>
         /\ phase[s] = "begun" /\ phase'[s] = "promo" /\ req[s].kind \in RedeemKinds
         /\ req[s].item \in Promo /\ promo_lock[req[s].item] = None
         /\ ~ PromoRefused(s)
         /\ promo_lock' = [promo_lock EXCEPT ![req[s].item] = s]
         /\ \A t \in Session \ {s} : phase'[t] = phase[t] /\ loaded'[t] = loaded[t]
         /\ loaded'[s].activations = activations[req[s].item]
         /\ loaded'[s].status = loaded[s].status
         /\ loaded'[s].discount = loaded[s].discount
<1>1. /\ UNCHANGED <<store, req>> /\ phase[s] = "begun" /\ req[s].kind \in RedeemKinds
      /\ promo_lock[req[s].item] = None /\ ~ PromoRefused(s)
      /\ promo_lock' = [promo_lock EXCEPT ![req[s].item] = s]
      /\ phase' = [phase EXCEPT ![s] = "promo"]
      /\ loaded' = [loaded EXCEPT ![s].activations = activations[req[s].item]]
  BY DEF LockPromo
<1>2. req[s].item \in Promo
  BY <1>1, RequestFields
<1>3. loaded[s] \in LoadedRows /\ loaded \in [Session -> LoadedRows]
  BY DEF TypeInv, TypeOK
<1>4. /\ loaded'[s].activations = activations[req[s].item]
      /\ loaded'[s].status = loaded[s].status
      /\ loaded'[s].discount = loaded[s].discount
  BY <1>1, <1>3 DEF LoadedRows
<1>. QED  BY <1>1, <1>2, <1>3, <1>4 DEF TypeInv, TypeOK

\* Pricing a payment stores nothing and locks nothing.
LEMMA PriceEffect ==
  ASSUME TypeInv, NEW s \in Session, PricePayment(s)
  PROVE  /\ UNCHANGED <<store, req, loaded, promo_lock>>
         /\ phase[s] = "begun" /\ phase'[s] \in {"priced", "lapsed"}
         /\ req[s].kind = "create_payment"
         /\ \A t \in Session \ {s} : phase'[t] = phase[t]
BY DEF PricePayment, Serves, TypeInv, TypeOK, locks

\* Every step begins a request, takes a lock, prices a payment, ends a transaction, or is the passing
\* of time, which changes neither rows nor sessions.
LEMMA NextSteps ==
  ASSUME [Next]_vars
  PROVE  \/ \E s \in Session : Begin(s)
         \/ \E s \in Session : LockUser(s) \/ PricePayment(s) \/ (LockPromo(s) /\ ~ Finish(s))
         \/ \E s \in Session : Finish(s) /\ UNCHANGED store
         \/ \E s \in Session : Ends(s)
         \/ /\ UNCHANGED <<registered, credits, discount, intents, activations, redeemed, ledger>>
            /\ UNCHANGED <<locks, local>>
<1>1. ASSUME NEW s \in Session, LockPromo(s) PROVE UNCHANGED store
  BY <1>1 DEF LockPromo
<1>2. (\E d \in Date : Expire(d)) \/ UNCHANGED vars =>
        /\ UNCHANGED <<registered, credits, discount, intents, activations, redeemed, ledger>>
        /\ UNCHANGED <<locks, local>>
  BY DEF Expire, vars, store
<1>. QED  BY <1>1, <1>2 DEF Next, Work, Ends

\* A transaction that ends was open, and it alone ends.
LEMMA EndsFinish ==
  ASSUME TypeInv, NEW s \in Session, Ends(s)
  PROVE  phase[s] # "idle" /\ Finish(s)
BY DEF Ends, Return, Abort, Register, CreatePayment, Confirm, Close, Refund, Redeem,
       BotTopUp, Adjust, Debit, Serves

-----------------------------------------------------------------------------
(* The counter of a promo code. *)

\* A redemption that has passed the checks holds its code, knows its counter, and,
\* through the API, has found it below the limit.
CodeHeld ==
  \A s \in Session : phase[s] \in {"promo", "locked"} /\ req[s].kind \in RedeemKinds =>
    /\ promo_lock[req[s].item] = s
    /\ loaded[s].activations = activations[req[s].item]
    /\ req[s].kind = "api_redeem" => activations[req[s].item] < MaxActivations[req[s].item]

Redeemers(p) == { u \in User : <<p, u>> \in redeemed }

CountInv ==
  /\ TypeInv
  /\ CodeHeld
  /\ \A p \in Promo : IsFiniteSet(Redeemers(p)) /\ activations[p] = Cardinality(Redeemers(p))

\* The end of a transaction leaves the codes that others hold alone, if it leaves
\* the counters of those codes alone.
LEMMA FinishCodeHeld ==
  ASSUME TypeInv, CodeHeld, NEW s \in Session, Finish(s),
         \A t \in Session \ {s} : phase[t] \in {"promo", "locked"} /\ req[t].kind \in RedeemKinds =>
           activations'[req[t].item] = activations[req[t].item]
  PROVE  CodeHeld'
<1>. SUFFICES ASSUME NEW t \in Session, phase'[t] \in {"promo", "locked"}, req'[t].kind \in RedeemKinds
              PROVE  /\ promo_lock'[req'[t].item] = t
                     /\ loaded'[t].activations = activations'[req'[t].item]
                     /\ req'[t].kind = "api_redeem" =>
                          activations'[req'[t].item] < MaxActivations[req'[t].item]
  BY DEF CodeHeld
<1>1. t # s /\ phase[t] = phase'[t] /\ req'[t] = req[t] /\ loaded'[t] = loaded[t]
  BY FinishTypes
<1>2. req[t].item \in Promo
  BY <1>1, RequestFields
<1>3. promo_lock[req[t].item] = t
  BY <1>1 DEF CodeHeld
<1>4. promo_lock'[req[t].item] = t
  BY <1>1, <1>2, <1>3 DEF Finish
<1>. QED  BY <1>1, <1>4 DEF CodeHeld

\* All handlers but a redemption leave counters and redemptions alone.
LEMMA EndsKeepCounters ==
  ASSUME NEW s \in Session, Ends(s), ~ Redeem(s)
  PROVE  UNCHANGED <<activations, redeemed>>
BY DEF Ends, Return, Abort, Register, CreatePayment, Confirm, Close, Refund,
       BotTopUp, Adjust, Debit, store

\* A redemption counts itself: the counter it loaded is the number of redemptions,
\* because it has held the code since.
LEMMA RedeemCounts ==
  ASSUME CountInv, NEW s \in Session, Redeem(s)
  PROVE  CountInv'
<1>. DEFINE p == req[s].item
            u == req[s].user
<1>1. TypeInv /\ TypeInv' /\ Ends(s)
  BY EndTypes DEF CountInv, Ends
<1>2. /\ phase[s] = "locked" /\ req[s].kind \in RedeemKinds /\ <<p, u>> \notin redeemed
      /\ activations' = [activations EXCEPT ![p] = loaded[s].activations + 1]
      /\ redeemed' = redeemed \cup {<<p, u>>}
      /\ Finish(s)
  BY DEF Redeem
<1>3. p \in Promo /\ u \in User
  BY <1>1, <1>2, RequestFields
<1>4. promo_lock[p] = s /\ loaded[s].activations = activations[p]
  BY <1>2 DEF CountInv, CodeHeld
<1>5. activations \in [Promo -> Nat]
  BY <1>1, StoredTypes
<1>6. CodeHeld'
  <2>1. ASSUME NEW t \in Session \ {s}, phase[t] \in {"promo", "locked"}, req[t].kind \in RedeemKinds
        PROVE  activations'[req[t].item] = activations[req[t].item]
    <3>1. promo_lock[req[t].item] = t
      BY <2>1 DEF CountInv, CodeHeld
    <3>2. req[t].item # p /\ req[t].item \in Promo
      BY <1>1, <1>4, <2>1, <3>1, RequestFields
    <3>. QED  BY <1>2, <1>5, <3>2
  <2>. QED  BY <1>1, <1>2, <2>1, FinishCodeHeld DEF CountInv
<1>7. ASSUME NEW q \in Promo
      PROVE  IsFiniteSet(Redeemers(q))' /\ activations'[q] = Cardinality(Redeemers(q))'
  <2>1. IsFiniteSet(Redeemers(q)) /\ activations[q] = Cardinality(Redeemers(q))
    BY DEF CountInv
  <2>2. CASE q # p
    <3>1. Redeemers(q)' = Redeemers(q)
      BY <1>2, <2>2 DEF Redeemers
    <3>2. activations'[q] = activations[q]
      BY <1>2, <1>5, <2>2
    <3>. QED  BY <2>1, <3>1, <3>2
  <2>3. CASE q = p
    <3>1. Redeemers(q)' = Redeemers(q) \cup {u} /\ u \notin Redeemers(q)
      BY <1>2, <1>3, <2>3 DEF Redeemers
    <3>2. activations'[q] = activations[q] + 1
      BY <1>2, <1>3, <1>4, <1>5, <2>3
    <3>3. /\ IsFiniteSet(Redeemers(q) \cup {u})
          /\ Cardinality(Redeemers(q) \cup {u}) = Cardinality(Redeemers(q)) + 1
      BY <2>1, <3>1, FS_AddElement
    <3>. HIDE DEF u
    <3>4. IsFiniteSet(Redeemers(q)')
      BY <3>1, <3>3
    <3>5. Cardinality(Redeemers(q)') = Cardinality(Redeemers(q)) + 1
      BY <3>1, <3>3
    <3>6. IsFiniteSet(Redeemers(q))' /\ activations'[q] = Cardinality(Redeemers(q))'
      BY <2>1, <3>2, <3>4, <3>5
    <3>. QED  BY <3>6
  <2>. QED  BY <2>2, <2>3
<1>. QED  BY <1>1, <1>6, <1>7 DEF CountInv

\* What is in the rows of the codes stays when they are not redeemed.
LEMMA CountersStay ==
  ASSUME CountInv, TypeInv', CodeHeld', UNCHANGED <<activations, redeemed>>
  PROVE  CountInv'
BY DEF CountInv, Redeemers

LEMMA NextCounts ==
  CountInv /\ [Next]_vars => CountInv'
<1>. SUFFICES ASSUME CountInv, [Next]_vars PROVE CountInv'
  OBVIOUS
<1>1. TypeInv /\ TypeInv' /\ CodeHeld
  BY NextTypes DEF CountInv
<1>2. ASSUME NEW s \in Session, Begin(s) PROVE CountInv'
  <2>1. PICK r, row : Start(s, r, row)
    BY <1>2, BeginReads
  <2>2. /\ UNCHANGED <<store, locks>> /\ phase'[s] = "begun"
        /\ \A t \in Session \ {s} :
             phase'[t] = phase[t] /\ req'[t] = req[t] /\ loaded'[t] = loaded[t]
    BY <1>1, <2>1, StartEffect
  <2>3. CodeHeld'
    BY <1>1, <2>2 DEF CodeHeld, store, locks
  <2>. QED  BY <1>1, <2>2, <2>3, CountersStay DEF store
<1>3. ASSUME NEW s \in Session, LockUser(s) PROVE CountInv'
  <2>1. /\ UNCHANGED <<store, req, promo_lock>> /\ WantsUser(s)
        /\ \A t \in Session \ {s} : phase'[t] = phase[t] /\ loaded'[t] = loaded[t]
        /\ loaded'[s].activations = loaded[s].activations
    BY <1>1, <1>3, LockUserEffect
  <2>2. req[s].kind \in RedeemKinds => phase[s] = "promo"
    BY <2>1 DEF WantsUser, Serves, RedeemKinds
  <2>3. CodeHeld'
    BY <1>1, <2>1, <2>2 DEF CodeHeld, store
  <2>. QED  BY <1>1, <2>1, <2>3, CountersStay DEF store
<1>4. ASSUME NEW s \in Session, LockPromo(s), ~ Finish(s) PROVE CountInv'
  <2>1. /\ UNCHANGED <<store, req>> /\ req[s].item \in Promo /\ promo_lock[req[s].item] = None
        /\ promo_lock' = [promo_lock EXCEPT ![req[s].item] = s]
        /\ \A t \in Session \ {s} : phase'[t] = phase[t] /\ loaded'[t] = loaded[t]
        /\ loaded'[s].activations = activations[req[s].item]
        /\ ~ PromoRefused(s)
    BY <1>1, <1>4, LockPromoEffect
  <2>2. activations[req[s].item] \in Nat /\ MaxActivations[req[s].item] \in Nat
        /\ promo_lock \in [Promo -> Session \cup {None}]
    BY <1>1, <2>1, LedgerConstants DEF TypeInv, TypeOK
  <2>3. req[s].kind = "api_redeem" => activations[req[s].item] < MaxActivations[req[s].item]
    BY <2>1, <2>2 DEF PromoRefused
  <2>4. ASSUME NEW t \in Session, t # s, phase'[t] \in {"promo", "locked"}, req[t].kind \in RedeemKinds
        PROVE  /\ promo_lock'[req[t].item] = t
               /\ loaded'[t].activations = activations[req[t].item]
               /\ req[t].kind = "api_redeem" =>
                    activations[req[t].item] < MaxActivations[req[t].item]
    <3>1. /\ promo_lock[req[t].item] = t
          /\ loaded[t].activations = activations[req[t].item]
          /\ req[t].kind = "api_redeem" =>
               activations[req[t].item] < MaxActivations[req[t].item]
      BY <1>1, <2>1, <2>4 DEF CodeHeld
    <3>2. req[t].item # req[s].item
      BY <2>1, <3>1, LedgerConstants
    <3>3. promo_lock'[req[t].item] = t
      <4>1. req[t].item \in Promo
        BY <1>1, <2>1, <2>4, RequestFields
      <4>. QED  BY <2>1, <2>2, <3>1, <3>2, <4>1
    <3>. QED  BY <2>1, <2>4, <3>1, <3>3
  <2>5. promo_lock'[req[s].item] = s
    BY <2>1, <2>2
  <2>6. CodeHeld'
    BY <2>1, <2>3, <2>4, <2>5 DEF CodeHeld, store
  <2>. QED  BY <1>1, <2>1, <2>6, CountersStay DEF store
<1>8. ASSUME NEW s \in Session, PricePayment(s) PROVE CountInv'
  <2>1. /\ UNCHANGED <<store, req, loaded, promo_lock>>
        /\ phase'[s] \in {"priced", "lapsed"}
        /\ \A t \in Session \ {s} : phase'[t] = phase[t]
    BY <1>1, <1>8, PriceEffect
  <2>2. CodeHeld'
    BY <1>1, <2>1 DEF CodeHeld, store
  <2>. QED  BY <1>1, <2>1, <2>2, CountersStay DEF store
<1>5. ASSUME NEW s \in Session, Finish(s), UNCHANGED <<activations, redeemed>> PROVE CountInv'
  <2>1. CodeHeld'
    BY <1>1, <1>5, FinishCodeHeld
  <2>. QED  BY <1>1, <1>5, <2>1, CountersStay
<1>6. ASSUME NEW s \in Session, Ends(s) PROVE CountInv'
  BY <1>1, <1>5, <1>6, RedeemCounts, EndsKeepCounters, EndsFinish
<1>7. CASE UNCHANGED <<activations, redeemed, locks, local>>
  <2>1. CodeHeld'
    BY <1>1, <1>7 DEF CodeHeld, locks, local
  <2>. QED  BY <1>1, <1>7, <2>1, CountersStay
<1>. QED  BY <1>2, <1>3, <1>4, <1>5, <1>6, <1>7, <1>8, NextSteps DEF store

LEMMA InitCounts ==
  Init => CountInv
<1>. SUFFICES ASSUME Init PROVE CountInv
  OBVIOUS
<1>1. \A p \in Promo : Redeemers(p) = {} /\ activations[p] = 0
  BY DEF Init, Redeemers
<1>. QED  BY <1>1, InitTypes, FS_EmptySet DEF Init, CountInv, CodeHeld

\* The counter of a promo code is the number of its redemptions, however many
\* sessions of the API and of the bot redeem at the same time.
THEOREM CountersAreRight == Spec => []ActivationsCounted
<1>1. CountInv => ActivationsCounted
  BY DEF CountInv, ActivationsCounted, Redeemers
<1>. QED  BY <1>1, InitCounts, NextCounts, PTL DEF Spec

\* Where only the API redeems, no code is redeemed more often than it may be; the
\* bot does not look at the limit.
THEOREM LimitsHold ==
  ASSUME "bot_redeem" \notin Kinds
  PROVE  Spec => []ActivationsBounded
<1>1. ASSUME CountInv, ActivationsBounded, [Next]_vars
      PROVE  ActivationsBounded'
  <2>1. ASSUME NEW s \in Session, Redeem(s) PROVE ActivationsBounded'
    <3>1. TypeInv /\ phase[s] = "locked" /\ req[s].kind \in RedeemKinds
          /\ activations' = [activations EXCEPT ![req[s].item] = loaded[s].activations + 1]
      BY <1>1, <2>1 DEF Redeem, CountInv
    <3>2. req[s].kind = "api_redeem" /\ req[s].item \in Promo
      BY <3>1, KindInFlight, RequestFields DEF RedeemKinds
    <3>3. /\ loaded[s].activations = activations[req[s].item]
          /\ activations[req[s].item] < MaxActivations[req[s].item]
      BY <1>1, <3>1, <3>2 DEF CountInv, CodeHeld
    <3>4. activations \in [Promo -> Nat] /\ MaxActivations \in [Promo -> Nat]
      BY <3>1, StoredTypes, LedgerConstants
    <3>5. loaded[s].activations + 1 <= MaxActivations[req[s].item]
      BY <3>2, <3>3, <3>4
    <3>. QED  BY <1>1, <3>1, <3>4, <3>5 DEF ActivationsBounded
  <2>2. CASE UNCHANGED activations
    BY <1>1, <2>2 DEF ActivationsBounded
  <2>3. ASSUME NEW s \in Session,
               Begin(s) \/ LockUser(s) \/ PricePayment(s) \/ (LockPromo(s) /\ ~ Finish(s))
        PROVE  UNCHANGED activations
    <3>1. TypeInv
      BY <1>1 DEF CountInv
    <3>. QED  BY <2>3, <3>1, BeginReads, StartEffect, LockUserEffect, LockPromoEffect, PriceEffect
              DEF store
  <2>. QED  BY <1>1, <2>1, <2>2, <2>3, NextSteps, EndsKeepCounters DEF store
<1>2. Init => ActivationsBounded
  <2>1. \A p \in Promo : 0 <= MaxActivations[p]
    BY LedgerConstants
  <2>. QED  BY <2>1 DEF Init, ActivationsBounded
<1>. QED  BY <1>1, <1>2, InitCounts, NextCounts, PTL DEF Spec

-----------------------------------------------------------------------------
(* The credits of a promo code. *)

\* Moving credits appends one row, of the type and source it is given.
LEMMA MoveRow ==
  ASSUME TypeInv, NEW s \in Session, NEW type \in EntryType, NEW amount \in Int,
         NEW source \in Intent \cup Promo \cup {None}, MoveCredits(s, type, amount, source)
  PROVE  \E e \in Entries :
           /\ e.type = type /\ e.source = source /\ e.amount = amount
           /\ ledger' = [ledger EXCEPT ![req[s].user] = Append(ledger[req[s].user], e)]
<1>. DEFINE e == [type |-> type, amount |-> amount, balance_after |-> loaded[s].credits + amount,
                  source |-> source, created_at |-> began[s]]
<1>1. loaded[s].credits \in Int /\ began[s] \in Nat
  BY DEF TypeInv, TypeOK, LoadedRows
<1>2. e \in Entries
  BY <1>1 DEF Entries
<1>3. ledger' = [ledger EXCEPT ![req[s].user] = Append(ledger[req[s].user], e)]
  BY DEF MoveCredits
<1>. QED  BY <1>2, <1>3

\* The rows of one type and source in a ledger h.
RowsIn(h, type, source) == { n \in 1..Len(h) : h[n].type = type /\ h[n].source = source }

LEMMA RowsOfLedger ==
  ASSUME NEW u \in User, NEW type, NEW source
  PROVE  /\ Rows(u, type, source) = RowsIn(ledger[u], type, source)
         /\ Rows(u, type, source)' = RowsIn(ledger'[u], type, source)
BY DEF Rows, RowsIn

\* A row appended is one more, or none, of them.
LEMMA AppendRows ==
  ASSUME NEW h \in Seq(Entries), NEW e \in Entries, NEW type, NEW source
  PROVE  /\ Len(h) + 1 \in Nat
         /\ ~ (e.type = type /\ e.source = source) =>
              RowsIn(Append(h, e), type, source) = RowsIn(h, type, source)
         /\ e.type = type /\ e.source = source =>
              RowsIn(Append(h, e), type, source) = RowsIn(h, type, source) \cup {Len(h) + 1}
<1>. DEFINE g == Append(h, e)
            k == Len(h)
<1>1. k \in Nat /\ Len(g) = k + 1 /\ g[k + 1] = e /\ \A n \in 1..k : g[n] = h[n]
  OBVIOUS
<1>. HIDE DEF g
<1>2. \A n : n \in 1..(k + 1) <=> n \in 1..k \/ n = k + 1
  BY <1>1
<1>3. k + 1 \notin 1..k
  BY <1>1
<1>4. ASSUME NEW n
      PROVE  n \in RowsIn(g, type, source) <=>
               \/ n \in RowsIn(h, type, source)
               \/ n = k + 1 /\ e.type = type /\ e.source = source
  BY <1>1, <1>2, <1>3 DEF RowsIn
<1>5. Len(h) + 1 \in Nat
  BY <1>1
<1>6. ~ (e.type = type /\ e.source = source) =>
         RowsIn(g, type, source) = RowsIn(h, type, source)
  BY <1>4
<1>7. e.type = type /\ e.source = source =>
         RowsIn(g, type, source) = RowsIn(h, type, source) \cup {k + 1}
  BY <1>4
<1>. QED  BY <1>5, <1>6, <1>7 DEF g

\* One row of type promo for each redemption of a code that gives credits.
PaidOnce(u, p) ==
  IF p \in CreditPromos /\ <<p, u>> \in redeemed
  THEN \E n \in Nat : Rows(u, "promo", p) = {n}
  ELSE Rows(u, "promo", p) = {}

PaidInv == TypeInv /\ \A u \in User, p \in Promo : PaidOnce(u, p)

\* Only a redemption appends a row of that type.
LEMMA OtherRows ==
  ASSUME TypeInv, NEW s \in Session, Ends(s), ~ Redeem(s), ledger' # ledger
  PROVE  \E e \in Entries : /\ e.type # "promo"
                            /\ ledger' = [ledger EXCEPT ![req[s].user] = Append(ledger[req[s].user], e)]
<1>. USE RequestFields
<1>1. phase[s] # "idle"
  BY EndsFinish
<1>2. ASSUME NEW type \in EntryType \ {"promo"}, NEW amount \in Int,
             NEW source \in Intent \cup Promo \cup {None}, MoveCredits(s, type, amount, source)
      PROVE  \E e \in Entries : /\ e.type # "promo"
                                /\ ledger' = [ledger EXCEPT ![req[s].user] =
                                                Append(ledger[req[s].user], e)]
  BY <1>2, MoveRow
<1>3. req[s].amount \in Int /\ -req[s].amount \in Int
  BY <1>1
<1>4. {"welcome_bonus", "top_up", "spend", "adjustment", "refund"} \subseteq EntryType \ {"promo"}
  BY DEF EntryType
<1>5. CASE Confirm(s) \/ Refund(s)
  <2>1. req[s].item \in Intent
    BY <1>1, <1>5 DEF Confirm, Refund, Serves, IntentKinds
  <2>. QED  BY <1>2, <1>3, <1>4, <1>5, <2>1 DEF Confirm, Refund
<1>6. CASE Register(s) \/ Adjust(s) \/ Debit(s)
  BY <1>2, <1>3, <1>4, <1>6 DEF Register, Adjust, Debit
<1>7. CASE BotTopUp(s)
  <2>1. PICK i \in Intent : MoveCredits(s, "top_up", req[s].amount, i)
    BY <1>7 DEF BotTopUp
  <2>. QED  BY <1>2, <1>3, <1>4, <2>1
<1>. QED  BY <1>5, <1>6, <1>7 DEF Ends, Return, Abort, CreatePayment, Close, store

\* What is paid stays so when neither ledgers nor redemptions change.
LEMMA PaidStays ==
  ASSUME PaidInv, TypeInv', UNCHANGED <<ledger, redeemed>>
  PROVE  PaidInv'
BY DEF PaidInv, PaidOnce, Rows

\* A redemption pays its user, if the code gives credits, and nobody else.
LEMMA RedeemPays ==
  ASSUME PaidInv, TypeInv', NEW s \in Session, Redeem(s)
  PROVE  PaidInv'
<1>1. TypeInv /\ phase[s] = "locked" /\ req[s].kind \in RedeemKinds
  BY DEF PaidInv, Redeem
<1>2. PICK p \in Promo, u \in User : p = req[s].item /\ u = req[s].user
  BY <1>1, RequestFields
<1>3. /\ <<p, u>> \notin redeemed
      /\ redeemed' = redeemed \cup {<<p, u>>}
      /\ \/ p \in CreditPromos /\ MoveCredits(s, "promo", req[s].amount, p)
         \/ p \notin CreditPromos /\ ledger' = ledger
  BY <1>2 DEF Redeem
<1>4. Rows(u, "promo", p) = {}
  BY <1>2, <1>3 DEF PaidInv, PaidOnce
<1>5. ASSUME NEW v \in User, NEW q \in Promo, v # u \/ q # p
      PROVE  <<q, v>> \in redeemed' <=> <<q, v>> \in redeemed
  BY <1>3, <1>5
<1>6. CASE p \notin CreditPromos /\ ledger' = ledger
  <2>1. ASSUME NEW v \in User, NEW q \in Promo PROVE PaidOnce(v, q)'
    <3>1. Rows(v, "promo", q)' = Rows(v, "promo", q)
      BY <1>6 DEF Rows
    <3>2. PaidOnce(v, q)
      BY DEF PaidInv
    <3>. QED  BY <1>5, <1>6, <3>1, <3>2 DEF PaidOnce
  <2>. QED  BY <2>1 DEF PaidInv
<1>7. CASE p \in CreditPromos /\ MoveCredits(s, "promo", req[s].amount, p)
  <2>1. req[s].amount \in Int /\ "promo" \in EntryType
    BY <1>1, RequestFields DEF EntryType
  <2>2. PICK e \in Entries : /\ e.type = "promo" /\ e.source = p
                             /\ ledger' = [ledger EXCEPT ![u] = Append(ledger[u], e)]
    BY <1>1, <1>2, <1>7, <2>1, MoveRow
  <2>3. /\ ledger[u] \in Seq(Entries) /\ ledger'[u] = Append(ledger[u], e)
        /\ \A v \in User \ {u} : ledger'[v] = ledger[v]
    BY <1>1, <2>2, StoredTypes
  <2>4. \A type, source :
          ~ (e.type = type /\ e.source = source) =>
            RowsIn(Append(ledger[u], e), type, source) = RowsIn(ledger[u], type, source)
    BY <2>3, AppendRows
  <2>5. \A type, source :
          e.type = type /\ e.source = source =>
            RowsIn(Append(ledger[u], e), type, source) =
              RowsIn(ledger[u], type, source) \cup {Len(ledger[u]) + 1}
    <3>1. ledger[u] \in Seq(Entries)
      BY <2>3
    <3>2. \A h \in Seq(Entries) : \A type, source :
            e.type = type /\ e.source = source =>
              RowsIn(Append(h, e), type, source) = RowsIn(h, type, source) \cup {Len(h) + 1}
      BY ONLY AppendRows, e \in Entries
    <3>. QED  BY <3>1, <3>2
  <2>6. Rows(u, "promo", p)' = {Len(ledger[u]) + 1}
    <3>1. RowsIn(Append(ledger[u], e), "promo", p) = RowsIn(ledger[u], "promo", p) \cup {Len(ledger[u]) + 1}
      BY <2>2, <2>5
    <3>2. Rows(u, "promo", p) = RowsIn(ledger[u], "promo", p)
          /\ Rows(u, "promo", p)' = RowsIn(ledger'[u], "promo", p)
      BY RowsOfLedger
    <3>. QED  BY <1>4, <2>3, <3>1, <3>2
  <2>7. ASSUME NEW v \in User, NEW q \in Promo, v # u \/ q # p
        PROVE  Rows(v, "promo", q)' = Rows(v, "promo", q)
    <3>1. CASE v # u
      BY <2>3, <3>1, RowsOfLedger
    <3>2. CASE v = u
      <4>1. ~ (e.type = "promo" /\ e.source = q)
        BY <2>2, <2>7, <3>2
      <4>2. RowsIn(Append(ledger[u], e), "promo", q) = RowsIn(ledger[u], "promo", q)
        BY <2>4, <4>1
      <4>3. Rows(u, "promo", q) = RowsIn(ledger[u], "promo", q)
            /\ Rows(u, "promo", q)' = RowsIn(ledger'[u], "promo", q)
        BY RowsOfLedger
      <4>4. Rows(u, "promo", q)' = Rows(u, "promo", q)
        BY <2>3, <4>2, <4>3
      <4>. QED  BY <3>2, <4>4
    <3>. QED  BY <3>1, <3>2
  <2>8. Len(ledger[u]) + 1 \in Nat
    BY <2>2, <2>3, AppendRows
  <2>9. PaidOnce(u, p)'
    <3>1. <<p, u>> \in redeemed'
      BY <1>3
    <3>. QED  BY <1>7, <2>6, <2>8, <3>1 DEF PaidOnce
  <2>10. ASSUME NEW v \in User, NEW q \in Promo, v # u \/ q # p PROVE PaidOnce(v, q)'
    <3>1. PaidOnce(v, q)
      BY DEF PaidInv
    <3>2. <<q, v>> \in redeemed' <=> <<q, v>> \in redeemed
      BY <1>5, <2>10
    <3>3. Rows(v, "promo", q)' = Rows(v, "promo", q)
      BY <2>7, <2>10
    <3>. QED  BY <3>1, <3>2, <3>3 DEF PaidOnce
  <2>. QED  BY <2>9, <2>10 DEF PaidInv
<1>. QED  BY <1>3, <1>6, <1>7

LEMMA NextPaid ==
  PaidInv /\ [Next]_vars => PaidInv'
<1>. SUFFICES ASSUME PaidInv, [Next]_vars PROVE PaidInv'
  OBVIOUS
<1>1. TypeInv /\ TypeInv'
  BY NextTypes DEF PaidInv
<1>2. CASE UNCHANGED <<ledger, redeemed>>
  BY <1>1, <1>2, PaidStays
<1>3. ASSUME NEW s \in Session, Ends(s) PROVE PaidInv'
  <2>1. CASE Redeem(s)
    BY <1>1, <2>1, RedeemPays
  <2>2. CASE ~ Redeem(s) /\ ledger' # ledger
    <3>1. PICK e \in Entries :
            /\ e.type # "promo"
            /\ ledger' = [ledger EXCEPT ![req[s].user] = Append(ledger[req[s].user], e)]
      BY <1>1, <1>3, <2>2, OtherRows
    <3>2. redeemed' = redeemed
      BY <1>3, <2>2, EndsKeepCounters
    <3>3. req[s].user \in User
      BY <1>1, <1>3, EndsFinish, RequestFields
    <3>4. ASSUME NEW v \in User, NEW q \in Promo PROVE Rows(v, "promo", q)' = Rows(v, "promo", q)
      <4>1. /\ ledger[v] \in Seq(Entries)
            /\ ledger'[v] = ledger[v] \/ ledger'[v] = Append(ledger[v], e)
        BY <1>1, <3>1, <3>3, StoredTypes
      <4>. QED  BY <3>1, <4>1, AppendRows, RowsOfLedger
    <3>5. ASSUME NEW v \in User, NEW q \in Promo PROVE PaidOnce(v, q)'
      <4>1. PaidOnce(v, q)
        BY DEF PaidInv
      <4>. QED  BY <3>2, <3>4, <4>1 DEF PaidOnce
    <3>. QED  BY <1>1, <3>5 DEF PaidInv
  <2>3. CASE ~ Redeem(s) /\ ledger' = ledger
    BY <1>2, <1>3, <2>3, EndsKeepCounters
  <2>. QED  BY <2>1, <2>2, <2>3
<1>4. ASSUME NEW s \in Session,
             Begin(s) \/ LockUser(s) \/ PricePayment(s) \/ (LockPromo(s) /\ ~ Finish(s))
      PROVE  UNCHANGED <<ledger, redeemed>>
  BY <1>1, <1>4, BeginReads, StartEffect, LockUserEffect, LockPromoEffect, PriceEffect DEF store
<1>. QED  BY <1>2, <1>3, <1>4, NextSteps DEF store

\* A promo code gives its credits once to a user, however many sessions of the API
\* and of the bot redeem it at the same time, and never without a redemption.
THEOREM PromosPayOnce == Spec => []PromoPaidOnce
<1>1. PaidInv => PromoPaidOnce
  <2>. SUFFICES ASSUME PaidInv, NEW u \in User, NEW p \in Promo
                PROVE  Cardinality(Rows(u, "promo", p)) =
                         IF p \in CreditPromos /\ <<p, u>> \in redeemed THEN 1 ELSE 0
    BY DEF PromoPaidOnce
  <2>1. PaidOnce(u, p)
    BY DEF PaidInv
  <2>. QED  BY <2>1, FS_EmptySet, FS_Singleton DEF PaidOnce
<1>2. Init => PaidInv
  <2>. SUFFICES ASSUME Init PROVE PaidInv
    OBVIOUS
  <2>1. ASSUME NEW u \in User, NEW p \in Promo PROVE Rows(u, "promo", p) = {}
    <3>1. Len(ledger[u]) = 0
      BY DEF Init
    <3>. QED  BY <3>1 DEF Rows
  <2>2. redeemed = {}
    BY DEF Init
  <2>. QED  BY <2>1, <2>2, InitTypes DEF PaidInv, PaidOnce
<1>. QED  BY <1>1, <1>2, NextPaid, PTL DEF Spec

-----------------------------------------------------------------------------
(* The discount that waits for the next top-up. *)

\* No percent, or the value of a code that u has redeemed, when the redemptions are
\* those of done.
PercentOf(x, u, done) ==
  \/ x = 0
  \/ \E p \in Promo \ CreditPromos : <<p, u>> \in done /\ Value[p] = x

\* A redemption works with the value of its code.
OwnValue ==
  \A s \in Session : phase[s] # "idle" /\ req[s].kind \in RedeemKinds =>
    req[s].amount = Value[req[s].item]

DiscountInv ==
  /\ TypeInv /\ OwnValue
  /\ \A u \in User : PercentOf(discount[u].percent, u, redeemed)
  /\ \A s \in Session : phase[s] # "idle" =>
       PercentOf(loaded[s].discount.percent, req[s].user, redeemed)
  /\ \A i \in Intent : PercentOf(intents[i].percent, intents[i].owner, redeemed)

\* Redemptions are not taken back.
LEMMA PercentStays ==
  ASSUME NEW x, NEW u, NEW done, NEW more, PercentOf(x, u, done), done \subseteq more
  PROVE  PercentOf(x, u, more)
BY DEF PercentOf

\* A flush leaves the percent that is stored, or writes its own.
LEMMA PercentWrite ==
  ASSUME TypeInv, NEW s \in Session, NEW new, WriteDiscount(s, new)
  PROVE  \A u \in User :
           \/ discount'[u].percent = discount[u].percent
           \/ u = req[s].user /\ discount'[u].percent = new.percent
<1>1. discount \in [User -> Discounts]
  BY StoredTypes
<1>. QED  BY <1>1 DEF WriteDiscount, Column

\* The end of a transaction keeps percents redeemed, if it stores redeemed ones.
LEMMA FinishDiscounts ==
  ASSUME DiscountInv, TypeInv', NEW s \in Session, Finish(s), redeemed \subseteq redeemed',
         \A u \in User : \/ discount'[u].percent = discount[u].percent
                         \/ PercentOf(discount'[u].percent, u, redeemed'),
         \A i \in Intent :
           \/ intents'[i].percent = intents[i].percent /\ intents'[i].owner = intents[i].owner
           \/ PercentOf(intents'[i].percent, intents'[i].owner, redeemed')
  PROVE  DiscountInv'
<1>1. ASSUME NEW t \in Session, phase'[t] # "idle"
      PROVE  phase[t] # "idle" /\ req'[t] = req[t] /\ loaded'[t] = loaded[t]
  BY <1>1, FinishTypes DEF DiscountInv
<1>2. OwnValue'
  BY <1>1 DEF DiscountInv, OwnValue
<1>3. ASSUME NEW t \in Session, phase'[t] # "idle"
      PROVE  PercentOf(loaded'[t].discount.percent, req'[t].user, redeemed')
  <2>1. PercentOf(loaded[t].discount.percent, req[t].user, redeemed)
    BY <1>1, <1>3 DEF DiscountInv
  <2>. QED  BY <1>1, <1>3, <2>1, PercentStays
<1>4. ASSUME NEW u \in User PROVE PercentOf(discount'[u].percent, u, redeemed')
  <2>1. PercentOf(discount[u].percent, u, redeemed)
    BY DEF DiscountInv
  <2>. QED  BY <2>1, PercentStays
<1>5. ASSUME NEW i \in Intent PROVE PercentOf(intents'[i].percent, intents'[i].owner, redeemed')
  <2>1. PercentOf(intents[i].percent, intents[i].owner, redeemed)
    BY DEF DiscountInv
  <2>. QED  BY <2>1, PercentStays
<1>. QED  BY <1>2, <1>3, <1>4, <1>5 DEF DiscountInv

\* Writing a status changes no percent.
LEMMA StatusDiscounts ==
  ASSUME TypeInv, NEW s \in Session, NEW new, WriteStatus(s, new)
  PROVE  \A i \in Intent :
           intents'[i].percent = intents[i].percent /\ intents'[i].owner = intents[i].owner
<1>1. intents \in [Intent -> Intents]
  BY StoredTypes
<1>. QED  BY <1>1 DEF WriteStatus, Intents

\* A new intent carries the percent its session had loaded, or none, and what is
\* left of the discount is that percent or none.
LEMMA CreateDiscounts ==
  ASSUME DiscountInv, TypeInv', NEW s \in Session, CreatePayment(s) \/ BotTopUp(s)
  PROVE  DiscountInv'
<1>. DEFINE kept == loaded[s].discount.percent
<1>1. TypeInv /\ phase[s] # "idle" /\ Finish(s) /\ redeemed' = redeemed
  BY DEF CreatePayment, BotTopUp, Serves, DiscountInv
<1>2. PICK i \in Intent : \E status, x : x \in {0, kept} /\ intents' = [intents EXCEPT ![i] =
          [status |-> status, owner |-> req[s].user, credits |-> req[s].amount, percent |-> x]]
  <2>1. CASE CreatePayment(s)
    <3>. DEFINE x == (IF phase[s] = "lapsed" THEN NoDiscount ELSE loaded[s].discount).percent
    <3>1. x \in {0, kept}
      BY DEF NoDiscount
    <3>2. \E i \in Intent : intents' = [intents EXCEPT ![i] =
            [status |-> "pending", owner |-> req[s].user, credits |-> req[s].amount,
             percent |-> x]]
      BY <2>1 DEF CreatePayment
    <3>. HIDE DEF x, kept
    <3>. QED  BY <3>1, <3>2
  <2>2. CASE BotTopUp(s)
    <3>1. \E i \in Intent : intents' = [intents EXCEPT ![i] =
            [status |-> "succeeded", owner |-> req[s].user, credits |-> req[s].amount,
             percent |-> kept]]
      BY <2>2 DEF BotTopUp
    <3>. HIDE DEF kept
    <3>. QED  BY <3>1
  <2>. QED  BY <2>1, <2>2
<1>3. PICK new : WriteDiscount(s, new) /\ new.percent \in {0, kept}
  <2>1. NoDiscount.percent = 0 /\ [loaded[s].discount EXCEPT !.percent = 0].percent = 0
    <3>1. loaded[s].discount \in Discounts
      BY <1>1 DEF TypeInv, TypeOK, LoadedRows
    <3>. QED  BY <3>1 DEF NoDiscount, Discounts
  <2>. QED  BY <2>1 DEF CreatePayment, BotTopUp
<1>4. PercentOf(kept, req[s].user, redeemed) /\ PercentOf(0, req[s].user, redeemed)
  BY <1>1 DEF DiscountInv, PercentOf
<1>5. intents'[i].percent \in {0, kept} /\ intents'[i].owner = req[s].user
  BY <1>1, <1>2, StoredTypes
<1>6. \A j \in Intent : j # i => intents'[j] = intents[j]
  BY <1>1, <1>2, StoredTypes
<1>. HIDE DEF kept
<1>7. \A u \in User : \/ discount'[u].percent = discount[u].percent
                      \/ PercentOf(discount'[u].percent, u, redeemed')
  BY <1>1, <1>3, <1>4, PercentWrite
<1>8. \A j \in Intent :
        \/ intents'[j].percent = intents[j].percent /\ intents'[j].owner = intents[j].owner
        \/ PercentOf(intents'[j].percent, intents'[j].owner, redeemed')
  BY <1>1, <1>4, <1>5, <1>6
<1>. QED  BY <1>1, <1>7, <1>8, FinishDiscounts

\* A redemption stores the percent of its code, in the API and in the bot.
LEMMA RedeemDiscounts ==
  ASSUME DiscountInv, TypeInv', NEW s \in Session, Redeem(s)
  PROVE  DiscountInv'
<1>. DEFINE p == req[s].item
            u == req[s].user
<1>1. TypeInv /\ phase[s] # "idle" /\ Finish(s) /\ req[s].kind \in RedeemKinds
      /\ redeemed' = redeemed \cup {<<p, u>>} /\ intents' = intents
  BY DEF Redeem, DiscountInv
<1>2. p \in Promo /\ u \in User /\ req[s].amount = Value[p]
  BY <1>1, RequestFields DEF DiscountInv, OwnValue
<1>3. CASE discount' = discount
  BY <1>1, <1>3, FinishDiscounts
<1>4. CASE p \notin CreditPromos /\ WriteDiscount(s, RedeemedDiscount(s))
  <2>1. RedeemedDiscount(s).percent = Value[p]
    <3>1. loaded[s].discount \in Discounts
      BY <1>1 DEF TypeInv, TypeOK, LoadedRows
    <3>. QED  BY <1>2, <3>1 DEF RedeemedDiscount, Discounts
  <2>2. PercentOf(Value[p], u, redeemed')
    BY <1>1, <1>2, <1>4 DEF PercentOf
  <2>3. \A v \in User : \/ discount'[v].percent = discount[v].percent
                        \/ PercentOf(discount'[v].percent, v, redeemed')
    BY <1>1, <1>4, <2>1, <2>2, PercentWrite
  <2>. QED  BY <1>1, <2>3, FinishDiscounts
<1>. QED  BY <1>3, <1>4 DEF Redeem

LEMMA EndDiscounts ==
  ASSUME DiscountInv, TypeInv', NEW s \in Session, Ends(s)
  PROVE  DiscountInv'
<1>1. TypeInv /\ phase[s] # "idle" /\ Finish(s)
  BY EndsFinish DEF DiscountInv
<1>2. CASE Confirm(s)
  <2>1. WriteDiscount(s, NoDiscount) /\ NoDiscount.percent = 0 /\ redeemed' = redeemed
    BY <1>2 DEF Confirm, NoDiscount
  <2>2. \A u \in User : \/ discount'[u].percent = discount[u].percent
                        \/ PercentOf(discount'[u].percent, u, redeemed')
    BY <1>1, <2>1, PercentWrite DEF PercentOf
  <2>3. \A i \in Intent :
          intents'[i].percent = intents[i].percent /\ intents'[i].owner = intents[i].owner
    BY <1>1, <1>2, StatusDiscounts DEF Confirm
  <2>. QED  BY <1>1, <2>1, <2>2, <2>3, FinishDiscounts
<1>3. CASE Close(s) \/ Refund(s)
  <2>1. discount' = discount /\ redeemed' = redeemed
    BY <1>3 DEF Close, Refund
  <2>2. \E new : WriteStatus(s, new)
    BY <1>3 DEF Close, Refund
  <2>3. \A i \in Intent :
          intents'[i].percent = intents[i].percent /\ intents'[i].owner = intents[i].owner
    BY <1>1, <2>2, StatusDiscounts
  <2>. QED  BY <1>1, <2>1, <2>3, FinishDiscounts
<1>4. CASE Return(s) \/ Abort(s) \/ Register(s) \/ Adjust(s) \/ Debit(s)
  <2>1. UNCHANGED <<discount, intents, redeemed>>
    BY <1>4 DEF Return, Abort, Register, Adjust, Debit, store
  <2>. QED  BY <1>1, <2>1, FinishDiscounts
<1>. QED  BY <1>2, <1>3, <1>4, CreateDiscounts, RedeemDiscounts DEF Ends

LEMMA NextDiscounts ==
  DiscountInv /\ [Next]_vars => DiscountInv'
<1>. SUFFICES ASSUME DiscountInv, [Next]_vars PROVE DiscountInv'
  OBVIOUS
<1>1. TypeInv /\ TypeInv'
  BY NextTypes DEF DiscountInv
<1>2. ASSUME NEW s \in Session, Begin(s) PROVE DiscountInv'
  <2>1. PICK r, row : Reads(r, row) /\ Start(s, r, row)
    BY <1>2, BeginReads
  <2>2. /\ UNCHANGED <<store, locks>> /\ req'[s] = r /\ loaded'[s] = row
        /\ \A t \in Session \ {s} :
             phase'[t] = phase[t] /\ req'[t] = req[t] /\ loaded'[t] = loaded[t]
    BY <1>1, <2>1, StartEffect
  <2>3. phase'[s] # "idle" /\ req'[s].user \in User
    <3>1. phase'[s] = "begun"
      BY <1>1, <2>1, StartEffect
    <3>2. req'[s] \in Request
      BY <1>1, <3>1 DEF TypeInv, RequestsInFlight
    <3>. QED  BY <3>1, <3>2 DEF Request
  <2>4. PercentOf(row.discount.percent, r.user, redeemed)
    <3>1. PercentOf(NoDiscount.percent, r.user, redeemed)
      BY DEF PercentOf, NoDiscount
    <3>2. PercentOf(discount[r.user].percent, r.user, redeemed)
      BY <2>2, <2>3 DEF DiscountInv
    <3>. QED  BY <2>1, <3>1, <3>2 DEF Reads
  <2>5. OwnValue'
    BY <2>1, <2>2 DEF DiscountInv, OwnValue, Reads
  <2>6. ASSUME NEW t \in Session, phase'[t] # "idle"
        PROVE  PercentOf(loaded'[t].discount.percent, req'[t].user, redeemed)
    BY <2>2, <2>4, <2>6 DEF DiscountInv
  <2>. QED  BY <1>1, <2>2, <2>5, <2>6 DEF DiscountInv, store
<1>3. ASSUME NEW s \in Session, LockUser(s) \/ PricePayment(s) \/ (LockPromo(s) /\ ~ Finish(s))
      PROVE  DiscountInv'
  <2>1. /\ UNCHANGED <<store, req>> /\ phase[s] # "idle"
        /\ \A t \in Session \ {s} : phase'[t] = phase[t] /\ loaded'[t] = loaded[t]
        /\ loaded'[s].discount \in {loaded[s].discount, discount[req[s].user]}
    BY <1>1, <1>3, LockUserEffect, LockPromoEffect, PriceEffect
  <2>2. PercentOf(loaded'[s].discount.percent, req[s].user, redeemed)
    <3>1. req[s].user \in User
      BY <1>1, <2>1, RequestFields
    <3>. QED  BY <2>1, <3>1 DEF DiscountInv
  <2>3. OwnValue'
    BY <2>1 DEF DiscountInv, OwnValue
  <2>4. ASSUME NEW t \in Session, phase'[t] # "idle"
        PROVE  PercentOf(loaded'[t].discount.percent, req[t].user, redeemed)
    BY <2>1, <2>2, <2>4 DEF DiscountInv
  <2>. QED  BY <1>1, <2>1, <2>3, <2>4 DEF DiscountInv, store
<1>4. ASSUME NEW s \in Session, Finish(s), UNCHANGED <<discount, intents, redeemed>> PROVE DiscountInv'
  BY <1>1, <1>4, FinishDiscounts
<1>5. ASSUME NEW s \in Session, Ends(s) PROVE DiscountInv'
  BY <1>1, <1>5, EndDiscounts
<1>6. CASE UNCHANGED <<discount, intents, redeemed, local>>
  BY <1>1, <1>6 DEF DiscountInv, OwnValue, local
<1>. QED  BY <1>2, <1>3, <1>4, <1>5, <1>6, NextSteps DEF store

LEMMA InitDiscounts ==
  Init => DiscountInv
<1>. SUFFICES ASSUME Init PROVE DiscountInv
  OBVIOUS
<1>1. \A u \in User : PercentOf(discount[u].percent, u, redeemed)
  BY DEF Init, PercentOf, NoDiscount
<1>2. \A i \in Intent : PercentOf(intents[i].percent, intents[i].owner, redeemed)
  BY DEF Init, NoIntent, PercentOf
<1>. QED  BY <1>1, <1>2, InitTypes DEF Init, DiscountInv, OwnValue

\* Every percent, waiting for a top-up or applied to one, is that of a code its user
\* has redeemed, through the API or the bot, whatever the handlers had loaded before
\* they got the lock and whichever of them were rolled back.
THEOREM DiscountsWereRedeemed == Spec => []DiscountWasRedeemed
<1>1. DiscountInv => DiscountWasRedeemed
  BY DEF DiscountInv, DiscountWasRedeemed, PercentOf, GivenTo
<1>. QED  BY <1>1, InitDiscounts, NextDiscounts, PTL DEF Spec

-----------------------------------------------------------------------------
(* Whatever has settled was credited. *)

\* Row of intent i has its top_up row in the ledger h of its owner.
CreditedIn(row, i, h) ==
  \E n \in 1..Len(h) : h[n].type = "top_up" /\ h[n].source = i /\ h[n].amount = row.credits

Settled == {"succeeded", "refunded", "review"}

\* Nothing in the ledger h is about intent i.
FreeOf(h, i) == \A n \in 1..Len(h) : h[n].source # i

\* What holds of a row of an intent, given the ledgers of all users.
IntentSettled(row, i, h) ==
  /\ row.status \in Settled => CreditedIn(row, i, h[row.owner])
  /\ row.status \in {"absent", "pending"} => \A u \in User : FreeOf(h[u], i)

\* What a request about an intent knows: its owner and its credits, and that it
\* was credited if it had succeeded when it was read.  A confirmation that goes on
\* has not read that, a refund that goes on has.
IntentKnown(r, row, stage, i, stored, h) ==
  /\ i \in Intent /\ stored.status # "absent"
  /\ r.user = stored.owner /\ r.amount = stored.credits
  /\ row.status = "succeeded" => CreditedIn(stored, i, h[stored.owner])
  /\ stage = "locked" /\ r.kind = "confirm" => row.status # "succeeded"
  /\ stage = "locked" /\ r.kind = "refund" => row.status = "succeeded"

Knowing ==
  \A s \in Session : phase[s] # "idle" /\ req[s].kind \in IntentKinds =>
    IntentKnown(req[s], loaded[s], phase[s], req[s].item, intents[req[s].item], ledger)

SettleInv ==
  /\ TypeInv
  /\ \A i \in Intent : IntentSettled(intents[i], i, ledger)
  /\ Knowing

-----------------------------------------------------------------------------
(* Ledgers grow. *)

\* A row appended leaves an intent credited.
LEMMA CreditStays ==
  ASSUME NEW h \in Seq(Entries), NEW e \in Entries, NEW row, NEW i, CreditedIn(row, i, h)
  PROVE  CreditedIn(row, i, Append(h, e))
<1>1. Len(h) \in Nat /\ Len(Append(h, e)) = Len(h) + 1
      /\ \A n \in 1..Len(h) : Append(h, e)[n] = h[n]
  OBVIOUS
<1>2. PICK n \in 1..Len(h) : h[n].type = "top_up" /\ h[n].source = i /\ h[n].amount = row.credits
  BY DEF CreditedIn
<1>3. n \in 1..Len(Append(h, e)) /\ Append(h, e)[n] = h[n]
  BY <1>1
<1>. QED  BY <1>2, <1>3 DEF CreditedIn

\* A row of type top_up about an intent credits it.
LEMMA CreditGiven ==
  ASSUME NEW h \in Seq(Entries), NEW e \in Entries, NEW row, NEW i,
         e.type = "top_up", e.source = i, e.amount = row.credits
  PROVE  CreditedIn(row, i, Append(h, e))
<1>1. Len(h) + 1 \in 1..Len(Append(h, e)) /\ Append(h, e)[Len(h) + 1] = e
  OBVIOUS
<1>. QED  BY <1>1 DEF CreditedIn

\* A row about something else leaves the ledger free of an intent.
LEMMA FreeStays ==
  ASSUME NEW h \in Seq(Entries), NEW e \in Entries, NEW i, FreeOf(h, i), e.source # i
  PROVE  FreeOf(Append(h, e), i)
<1>1. Len(h) \in Nat /\ Len(Append(h, e)) = Len(h) + 1 /\ Append(h, e)[Len(h) + 1] = e
      /\ \A n \in 1..Len(h) : Append(h, e)[n] = h[n]
  OBVIOUS
<1>2. \A n \in 1..(Len(h) + 1) : n \in 1..Len(h) \/ n = Len(h) + 1
  BY <1>1
<1>. QED  BY <1>1, <1>2 DEF FreeOf

\* The ledgers h and g: g has grown by a row about source, of user u, or not at all.
Grown(h, g, u, source) ==
  \/ g = h
  \/ \E e \in Entries : e.source = source /\ g = [h EXCEPT ![u] = Append(h[u], e)]

\* What is known about an intent stays known as ledgers grow, unless the row that
\* is appended is about an intent that is not settled.
LEMMA GrownSettled ==
  ASSUME NEW h \in [User -> Seq(Entries)], NEW g, NEW v \in User, NEW source,
         Grown(h, g, v, source), NEW row, NEW i
  PROVE  /\ row.owner \in User /\ CreditedIn(row, i, h[row.owner]) => CreditedIn(row, i, g[row.owner])
         /\ source # i /\ (\A u \in User : FreeOf(h[u], i)) => \A u \in User : FreeOf(g[u], i)
<1>1. CASE g = h
  BY <1>1
<1>2. ASSUME NEW e \in Entries, e.source = source, g = [h EXCEPT ![v] = Append(h[v], e)]
      PROVE  /\ row.owner \in User /\ CreditedIn(row, i, h[row.owner]) =>
                  CreditedIn(row, i, g[row.owner])
             /\ source # i /\ (\A u \in User : FreeOf(h[u], i)) => \A u \in User : FreeOf(g[u], i)
  <2>1. \A u \in User : h[u] \in Seq(Entries) /\ g[u] = IF u = v THEN Append(h[u], e) ELSE h[u]
    BY <1>2
  <2>2. ASSUME row.owner \in User, CreditedIn(row, i, h[row.owner])
        PROVE  CreditedIn(row, i, g[row.owner])
    BY <2>1, <2>2, CreditStays
  <2>3. ASSUME source # i, \A u \in User : FreeOf(h[u], i), NEW u \in User
        PROVE  FreeOf(g[u], i)
    BY <1>2, <2>1, <2>3, FreeStays
  <2>. QED  BY <2>2, <2>3
<1>. QED  BY <1>1, <1>2 DEF Grown

\* An intent that a step leaves alone stays as settled as it is.
LEMMA KeepsSettled ==
  ASSUME SettleInv, NEW v \in User, NEW source, Grown(ledger, ledger', v, source),
         NEW i \in Intent, intents'[i] = intents[i],
         source # i \/ intents[i].status \notin {"absent", "pending"}
  PROVE  IntentSettled(intents'[i], i, ledger')
<1>1. ledger \in [User -> Seq(Entries)]
  BY StoredTypes DEF SettleInv
<1>2. intents[i].status \in Settled => intents[i].owner \in User
  BY StoredTypes DEF SettleInv, Settled
<1>3. IntentSettled(intents[i], i, ledger)
  BY DEF SettleInv
<1>4. /\ intents[i].owner \in User /\ CreditedIn(intents[i], i, ledger[intents[i].owner]) =>
           CreditedIn(intents[i], i, ledger'[intents[i].owner])
      /\ source # i /\ (\A u \in User : FreeOf(ledger[u], i)) => \A u \in User : FreeOf(ledger'[u], i)
  BY <1>1, GrownSettled
<1>. QED  BY <1>2, <1>3, <1>4 DEF IntentSettled

\* The end of a transaction that leaves every intent settled, or not, as it must be.
LEMMA FinishSettled ==
  ASSUME SettleInv, TypeInv', NEW s \in Session, Finish(s),
         NEW v \in User, NEW source, Grown(ledger, ledger', v, source),
         \A i \in Intent : IntentSettled(intents'[i], i, ledger'),
         \A i \in Intent : intents[i].status # "absent" =>
           /\ intents'[i].status # "absent"
           /\ intents'[i].owner = intents[i].owner
           /\ intents'[i].credits = intents[i].credits
  PROVE  SettleInv'
<1>1. TypeInv
  BY DEF SettleInv
<1>2. ASSUME NEW t \in Session, phase'[t] # "idle", req'[t].kind \in IntentKinds
      PROVE  IntentKnown(req'[t], loaded'[t], phase'[t], req'[t].item, intents'[req'[t].item], ledger')
  <2>1. phase'[t] = phase[t] /\ req'[t] = req[t] /\ loaded'[t] = loaded[t] /\ phase[t] # "idle"
    BY <1>1, <1>2, FinishTypes
  <2>2. PICK i : i = req[t].item
    OBVIOUS
  <2>3. IntentKnown(req[t], loaded[t], phase[t], i, intents[i], ledger)
    BY <1>2, <2>1, <2>2 DEF SettleInv, Knowing
  <2>4. i \in Intent /\ intents[i].status # "absent" /\ intents[i].owner \in User
    BY <1>1, <2>3, StoredTypes DEF IntentKnown
  <2>5. CreditedIn(intents[i], i, ledger[intents[i].owner]) =>
          CreditedIn(intents[i], i, ledger'[intents[i].owner])
    BY <1>1, <2>4, GrownSettled, StoredTypes
  <2>6. CreditedIn(intents[i], i, ledger'[intents[i].owner]) =>
          CreditedIn(intents'[i], i, ledger'[intents'[i].owner])
    BY <2>4 DEF CreditedIn
  <2>7. IntentKnown(req[t], loaded[t], phase[t], i, intents'[i], ledger')
    BY <2>3, <2>4, <2>5, <2>6 DEF IntentKnown
  <2>. QED  BY <2>1, <2>2, <2>7
<1>3. Knowing'
  BY <1>2 DEF Knowing
<1>. QED  BY <1>3 DEF SettleInv

\* A status that differs from the one loaded is written.
LEMMA StatusWritten ==
  ASSUME TypeInv, NEW s \in Session, NEW new, WriteStatus(s, new), loaded[s].status # new,
         req[s].item \in Intent
  PROVE  /\ intents'[req[s].item].status = new
         /\ intents'[req[s].item].owner = intents[req[s].item].owner
         /\ intents'[req[s].item].credits = intents[req[s].item].credits
         /\ \A i \in Intent : i # req[s].item => intents'[i] = intents[i]
<1>1. intents \in [Intent -> Intents] /\ intents[req[s].item] \in Intents
  BY StoredTypes
<1>2. intents' = [intents EXCEPT ![req[s].item].status = new]
  BY DEF WriteStatus, Column
<1>. QED  BY <1>1, <1>2 DEF Intents

\* The rows that handlers append.
LEMMA MoveGrows ==
  ASSUME TypeInv, NEW s \in Session, NEW type \in EntryType, NEW amount \in Int,
         NEW source \in Intent \cup Promo \cup {None}, MoveCredits(s, type, amount, source)
  PROVE  Grown(ledger, ledger', req[s].user, source)
BY MoveRow DEF Grown

LEMMA MoveTopUp ==
  ASSUME TypeInv, NEW s \in Session, NEW i \in Intent, NEW row, req[s].user \in User,
         row.credits = req[s].amount, req[s].amount \in Int,
         MoveCredits(s, "top_up", req[s].amount, i)
  PROVE  CreditedIn(row, i, ledger'[req[s].user])
<1>1. PICK e \in Entries :
        /\ e.type = "top_up" /\ e.source = i /\ e.amount = req[s].amount
        /\ ledger' = [ledger EXCEPT ![req[s].user] = Append(ledger[req[s].user], e)]
  BY MoveRow DEF EntryType
<1>2. ledger[req[s].user] \in Seq(Entries) /\ ledger'[req[s].user] = Append(ledger[req[s].user], e)
  BY <1>1, StoredTypes
<1>. QED  BY <1>1, <1>2, CreditGiven

-----------------------------------------------------------------------------
(* The handlers. *)

\* What a handler of an intent knows as it writes.
LEMMA KnownIntent ==
  ASSUME SettleInv, NEW s \in Session, phase[s] # "idle", req[s].kind \in IntentKinds
  PROVE  /\ req[s].item \in Intent /\ intents[req[s].item].status # "absent"
         /\ req[s].user = intents[req[s].item].owner /\ req[s].user \in User
         /\ req[s].amount = intents[req[s].item].credits /\ req[s].amount \in Int
         /\ loaded[s].status = "succeeded" =>
              CreditedIn(intents[req[s].item], req[s].item, ledger[req[s].user])
         /\ phase[s] = "locked" /\ req[s].kind = "confirm" => loaded[s].status # "succeeded"
         /\ phase[s] = "locked" /\ req[s].kind = "refund" => loaded[s].status = "succeeded"
<1>1. TypeInv /\ IntentKnown(req[s], loaded[s], phase[s], req[s].item, intents[req[s].item], ledger)
  BY DEF SettleInv, Knowing
<1>2. req[s].user \in User /\ req[s].amount \in Int
  BY <1>1, RequestFields
<1>. QED  BY <1>1, <1>2 DEF IntentKnown

LEMMA ConfirmSettles ==
  ASSUME SettleInv, TypeInv', NEW s \in Session, Confirm(s)
  PROVE  SettleInv'
<1>1. /\ TypeInv /\ Finish(s) /\ phase[s] = "locked" /\ req[s].kind = "confirm"
      /\ WriteStatus(s, "succeeded") /\ MoveCredits(s, "top_up", req[s].amount, req[s].item)
      /\ req[s].kind \in IntentKinds /\ phase[s] # "idle"
  BY DEF Confirm, Serves, SettleInv, IntentKinds
<1>2. PICK j \in Intent, v \in User : j = req[s].item /\ v = req[s].user
  BY <1>1, KnownIntent
<1>3. /\ intents[j].status # "absent" /\ v = intents[j].owner
      /\ req[s].amount = intents[j].credits /\ req[s].amount \in Int
      /\ loaded[s].status # "succeeded"
  BY <1>1, <1>2, KnownIntent
<1>4. /\ intents'[j].status = "succeeded"
      /\ intents'[j].owner = v /\ intents'[j].credits = intents[j].credits
      /\ \A i \in Intent : i # j => intents'[i] = intents[i]
  BY <1>1, <1>2, <1>3, StatusWritten
<1>5. Grown(ledger, ledger', v, j)
  BY <1>1, <1>2, <1>3, MoveGrows DEF EntryType
<1>6. CreditedIn(intents'[j], j, ledger'[v])
  BY <1>1, <1>2, <1>3, <1>4, MoveTopUp
<1>7. IntentSettled(intents'[j], j, ledger')
  BY <1>4, <1>6 DEF IntentSettled
<1>8. \A i \in Intent : i # j => IntentSettled(intents'[i], i, ledger')
  BY <1>4, <1>5, KeepsSettled
<1>9. \A i \in Intent : intents[i].status # "absent" =>
        /\ intents'[i].status # "absent"
        /\ intents'[i].owner = intents[i].owner
        /\ intents'[i].credits = intents[i].credits
  BY <1>3, <1>4
<1>10. \A i \in Intent : IntentSettled(intents'[i], i, ledger')
  BY <1>7, <1>8
<1>. QED  BY <1>1, <1>5, <1>9, <1>10, FinishSettled

LEMMA RefundSettles ==
  ASSUME SettleInv, TypeInv', NEW s \in Session, Refund(s)
  PROVE  SettleInv'
<1>1. /\ TypeInv /\ Finish(s) /\ phase[s] = "locked" /\ req[s].kind = "refund"
      /\ req[s].kind \in IntentKinds /\ phase[s] # "idle"
  BY DEF Refund, Serves, SettleInv, IntentKinds
<1>2. PICK j \in Intent, v \in User : j = req[s].item /\ v = req[s].user
  BY <1>1, KnownIntent
<1>3. /\ intents[j].status # "absent" /\ v = intents[j].owner
      /\ req[s].amount \in Int /\ loaded[s].status = "succeeded"
      /\ CreditedIn(intents[j], j, ledger[v])
  BY <1>1, <1>2, KnownIntent
<1>4. PICK new \in {"review", "refunded"} : WriteStatus(s, new)
  BY DEF Refund
<1>5. /\ intents'[j].status = new
      /\ intents'[j].owner = v /\ intents'[j].credits = intents[j].credits
      /\ \A i \in Intent : i # j => intents'[i] = intents[i]
  BY <1>1, <1>2, <1>3, <1>4, StatusWritten
<1>6. Grown(ledger, ledger', v, j)
  <2>1. CASE ledger' = ledger
    BY <2>1 DEF Grown
  <2>2. CASE MoveCredits(s, "refund", -req[s].amount, req[s].item)
    <3>1. -req[s].amount \in Int /\ "refund" \in EntryType
      BY <1>3 DEF EntryType
    <3>. QED  BY <1>1, <1>2, <2>2, <3>1, MoveGrows
  <2>. QED  BY <2>1, <2>2 DEF Refund
<1>7. CreditedIn(intents'[j], j, ledger'[v])
  <2>1. CreditedIn(intents[j], j, ledger'[intents[j].owner])
    BY <1>1, <1>3, <1>6, GrownSettled, StoredTypes
  <2>. QED  BY <1>3, <1>5, <2>1 DEF CreditedIn
<1>8. IntentSettled(intents'[j], j, ledger')
  BY <1>5, <1>7 DEF IntentSettled
<1>9. \A i \in Intent : i # j => IntentSettled(intents'[i], i, ledger')
  BY <1>5, <1>6, KeepsSettled
<1>10. \A i \in Intent : intents[i].status # "absent" =>
        /\ intents'[i].status # "absent"
        /\ intents'[i].owner = intents[i].owner
        /\ intents'[i].credits = intents[i].credits
  BY <1>3, <1>5
<1>11. \A i \in Intent : IntentSettled(intents'[i], i, ledger')
  BY <1>8, <1>9
<1>. QED  BY <1>1, <1>6, <1>10, <1>11, FinishSettled

\* Whoever closes an intent has found it pending, and writes that it is closed,
\* over a success perhaps.
LEMMA CloseSettles ==
  ASSUME SettleInv, TypeInv', NEW s \in Session, Close(s)
  PROVE  SettleInv'
<1>1. /\ TypeInv /\ Finish(s) /\ phase[s] # "idle" /\ req[s].kind \in IntentKinds
      /\ loaded[s].status = "pending" /\ ledger' = ledger
  BY DEF Close, SettleInv, IntentKinds
<1>2. PICK j \in Intent, v \in User : j = req[s].item /\ v = req[s].user
  BY <1>1, KnownIntent
<1>3. PICK new \in {"failed", "canceled"} : WriteStatus(s, new)
  BY DEF Close
<1>4. /\ intents'[j].status = new
      /\ intents'[j].owner = intents[j].owner /\ intents'[j].credits = intents[j].credits
      /\ \A i \in Intent : i # j => intents'[i] = intents[i]
  BY <1>1, <1>2, <1>3, StatusWritten
<1>5. Grown(ledger, ledger', v, None)
  BY <1>1 DEF Grown
<1>6. IntentSettled(intents'[j], j, ledger')
  BY <1>4 DEF IntentSettled, Settled
<1>7. None \notin Intent
  BY LedgerConstants
<1>8. \A i \in Intent : IntentSettled(intents'[i], i, ledger')
  BY <1>4, <1>5, <1>6, <1>7, KeepsSettled
<1>9. \A i \in Intent : intents[i].status # "absent" =>
        /\ intents'[i].status # "absent"
        /\ intents'[i].owner = intents[i].owner
        /\ intents'[i].credits = intents[i].credits
  BY <1>4
<1>. QED  BY <1>1, <1>5, <1>8, <1>9, FinishSettled

\* A new intent has nothing in the ledger, but for the row a bot top-up writes.
LEMMA CreateSettles ==
  ASSUME SettleInv, TypeInv', NEW s \in Session, CreatePayment(s) \/ BotTopUp(s)
  PROVE  SettleInv'
<1>1. TypeInv /\ Finish(s) /\ phase[s] # "idle"
  BY DEF CreatePayment, BotTopUp, Serves, SettleInv
<1>2. PICK v \in User : v = req[s].user /\ req[s].amount \in Int
  BY <1>1, RequestFields
<1>3. PICK i \in Intent :
        /\ intents[i].status = "absent"
        /\ \/ /\ ledger' = ledger
              /\ \E percent : intents' = [intents EXCEPT ![i] =
                   [status |-> "pending", owner |-> req[s].user, credits |-> req[s].amount,
                    percent |-> percent]]
           \/ /\ MoveCredits(s, "top_up", req[s].amount, i)
              /\ \E percent : intents' = [intents EXCEPT ![i] =
                   [status |-> "succeeded", owner |-> req[s].user, credits |-> req[s].amount,
                    percent |-> percent]]
  BY DEF CreatePayment, BotTopUp
<1>4. /\ intents'[i].owner = v /\ intents'[i].credits = req[s].amount
      /\ \A j \in Intent : j # i => intents'[j] = intents[j]
      /\ \/ ledger' = ledger /\ intents'[i].status = "pending"
         \/ MoveCredits(s, "top_up", req[s].amount, i) /\ intents'[i].status = "succeeded"
  BY <1>1, <1>2, <1>3, StoredTypes
<1>5. Grown(ledger, ledger', v, i)
  <2>1. CASE ledger' = ledger
    BY <2>1 DEF Grown
  <2>2. CASE MoveCredits(s, "top_up", req[s].amount, i)
    BY <1>1, <1>2, <2>2, MoveGrows DEF EntryType
  <2>. QED  BY <1>4, <2>1, <2>2
<1>6. IntentSettled(intents'[i], i, ledger')
  <2>1. CASE ledger' = ledger /\ intents'[i].status = "pending"
    <3>1. \A u \in User : FreeOf(ledger[u], i)
      BY <1>3 DEF SettleInv, IntentSettled
    <3>. QED  BY <2>1, <3>1 DEF IntentSettled, Settled
  <2>2. CASE MoveCredits(s, "top_up", req[s].amount, i) /\ intents'[i].status = "succeeded"
    <3>1. CreditedIn(intents'[i], i, ledger'[v])
      BY <1>1, <1>2, <1>4, <2>2, MoveTopUp
    <3>. QED  BY <1>4, <2>2, <3>1 DEF IntentSettled
  <2>. QED  BY <1>4, <2>1, <2>2
<1>7. \A j \in Intent : IntentSettled(intents'[j], j, ledger')
  BY <1>4, <1>5, <1>6, KeepsSettled
<1>8. \A j \in Intent : intents[j].status # "absent" =>
        /\ intents'[j].status # "absent"
        /\ intents'[j].owner = intents[j].owner
        /\ intents'[j].credits = intents[j].credits
  BY <1>3, <1>4
<1>. QED  BY <1>1, <1>5, <1>7, <1>8, FinishSettled

\* The other handlers leave intents alone and write about something else.
LEMMA OthersSettle ==
  ASSUME SettleInv, TypeInv', NEW s \in Session,
         Return(s) \/ Abort(s) \/ Register(s) \/ Redeem(s) \/ Adjust(s) \/ Debit(s)
  PROVE  SettleInv'
<1>1. TypeInv /\ phase[s] # "idle" /\ Finish(s) /\ intents' = intents
  BY EndsFinish DEF SettleInv, Ends, Return, Abort, Register, Redeem, Adjust, Debit, store
<1>2. PICK v \in User : v = req[s].user /\ req[s].amount \in Int /\ -req[s].amount \in Int
  BY <1>1, RequestFields
<1>3. \E source : source \notin Intent /\ Grown(ledger, ledger', v, source)
  <2>1. CASE ledger' = ledger
    BY <2>1, LedgerConstants DEF Grown
  <2>2. ASSUME NEW type \in EntryType, NEW amount \in Int, NEW source \in Promo \cup {None},
               MoveCredits(s, type, amount, source)
        PROVE  source \notin Intent /\ Grown(ledger, ledger', v, source)
    BY <1>1, <1>2, <2>2, MoveGrows, LedgerConstants
  <2>3. CASE Redeem(s)
    <3>1. req[s].item \in Promo
      BY <1>1, <2>3, RequestFields DEF Redeem
    <3>. QED  BY <1>2, <2>1, <2>2, <2>3, <3>1 DEF Redeem, EntryType
  <2>4. CASE Register(s) \/ Adjust(s) \/ Debit(s)
    BY <1>2, <2>2, <2>4 DEF Register, Adjust, Debit, EntryType
  <2>. QED  BY <2>1, <2>3, <2>4 DEF Return, Abort, store
<1>4. PICK source : source \notin Intent /\ Grown(ledger, ledger', v, source)
  BY <1>3
<1>5. \A i \in Intent : IntentSettled(intents'[i], i, ledger')
  BY <1>1, <1>4, KeepsSettled
<1>. QED  BY <1>1, <1>4, <1>5, FinishSettled

-----------------------------------------------------------------------------
LEMMA NextSettled ==
  SettleInv /\ [Next]_vars => SettleInv'
<1>. SUFFICES ASSUME SettleInv, [Next]_vars PROVE SettleInv'
  OBVIOUS
<1>1. TypeInv /\ TypeInv'
  BY NextTypes DEF SettleInv
<1>2. ASSUME NEW s \in Session, Begin(s) PROVE SettleInv'
  <2>1. PICK r, row : Reads(r, row) /\ Start(s, r, row)
    BY <1>2, BeginReads
  <2>2. /\ UNCHANGED <<store, locks>> /\ req'[s] = r /\ loaded'[s] = row /\ phase'[s] = "begun"
        /\ \A t \in Session \ {s} :
             phase'[t] = phase[t] /\ req'[t] = req[t] /\ loaded'[t] = loaded[t]
    BY <1>1, <2>1, StartEffect
  <2>3. ASSUME r.kind \in IntentKinds
        PROVE  IntentKnown(r, row, "begun", r.item, intents[r.item], ledger)
    <3>1. /\ r.item \in Intent /\ r.user = intents[r.item].owner
          /\ r.amount = intents[r.item].credits /\ row.status = intents[r.item].status
      BY <2>1, <2>3 DEF Reads
    <3>2. intents[r.item].status # "absent"
      BY <1>1, <2>2, <2>3 DEF TypeInv, RequestsInFlight, store
    <3>3. IntentSettled(intents[r.item], r.item, ledger)
      BY <3>1 DEF SettleInv
    <3>. QED  BY <3>1, <3>2, <3>3 DEF IntentKnown, IntentSettled, Settled
  <2>4. Knowing'
    BY <2>2, <2>3 DEF SettleInv, Knowing, store
  <2>. QED  BY <1>1, <2>2, <2>4 DEF SettleInv, store
<1>3. ASSUME NEW s \in Session, LockUser(s) PROVE SettleInv'
  <2>1. /\ UNCHANGED <<store, req>> /\ phase[s] # "idle" /\ WantsUser(s) /\ phase'[s] = "locked"
        /\ \A t \in Session \ {s} : phase'[t] = phase[t] /\ loaded'[t] = loaded[t]
        /\ loaded'[s].status = loaded[s].status
    BY <1>1, <1>3, LockUserEffect
  <2>2. req[s].kind \in IntentKinds => phase[s] = "begun"
    BY <1>1, <2>1 DEF WantsUser, Serves, TypeInv, RequestsInFlight, IntentKinds, RedeemKinds
  <2>3. req[s].kind \in IntentKinds =>
          IntentKnown(req[s], loaded'[s], "locked", req[s].item, intents[req[s].item], ledger)
    BY <2>1, <2>2 DEF SettleInv, Knowing, IntentKnown, WantsUser, Serves
  <2>4. Knowing'
    BY <2>1, <2>3 DEF SettleInv, Knowing, store
  <2>. QED  BY <1>1, <2>1, <2>4 DEF SettleInv, store
<1>4. ASSUME NEW s \in Session, LockPromo(s), ~ Finish(s) PROVE SettleInv'
  <2>1. /\ UNCHANGED <<store, req>> /\ req[s].kind \in RedeemKinds
        /\ \A t \in Session \ {s} : phase'[t] = phase[t] /\ loaded'[t] = loaded[t]
    BY <1>1, <1>4, LockPromoEffect
  <2>2. req[s].kind \notin IntentKinds
    BY <2>1 DEF RedeemKinds, IntentKinds
  <2>3. Knowing'
    BY <2>1, <2>2 DEF SettleInv, Knowing, store
  <2>. QED  BY <1>1, <2>1, <2>3 DEF SettleInv, store
<1>8. ASSUME NEW s \in Session, PricePayment(s) PROVE SettleInv'
  <2>1. /\ UNCHANGED <<store, req, loaded>> /\ req[s].kind = "create_payment"
        /\ \A t \in Session \ {s} : phase'[t] = phase[t]
    BY <1>1, <1>8, PriceEffect
  <2>2. Knowing'
    BY <2>1 DEF SettleInv, Knowing, store, IntentKinds
  <2>. QED  BY <1>1, <2>1, <2>2 DEF SettleInv, store
<1>5. ASSUME NEW s \in Session, Finish(s), UNCHANGED store PROVE SettleInv'
  <2>1. phase'[s] = "idle" /\ \A t \in Session \ {s} :
          phase'[t] = phase[t] /\ req'[t] = req[t] /\ loaded'[t] = loaded[t]
    BY <1>1, <1>5, FinishTypes
  <2>2. Knowing'
    BY <1>5, <2>1 DEF SettleInv, Knowing, store
  <2>. QED  BY <1>1, <1>5, <2>2 DEF SettleInv, store
<1>6. ASSUME NEW s \in Session, Ends(s) PROVE SettleInv'
  BY <1>1, <1>6, ConfirmSettles, RefundSettles, CloseSettles, CreateSettles, OthersSettle DEF Ends
<1>7. CASE UNCHANGED <<intents, ledger, local>>
  BY <1>1, <1>7 DEF SettleInv, Knowing, local
<1>. QED  BY <1>2, <1>3, <1>4, <1>5, <1>6, <1>7, <1>8, NextSteps DEF store

LEMMA InitSettled ==
  Init => SettleInv
<1>. SUFFICES ASSUME Init PROVE SettleInv
  OBVIOUS
<1>1. ASSUME NEW i \in Intent PROVE IntentSettled(intents[i], i, ledger)
  <2>1. intents[i].status = "absent"
    BY DEF Init, NoIntent
  <2>2. \A u \in User : Len(ledger[u]) = 0
    BY DEF Init
  <2>3. \A u \in User : FreeOf(ledger[u], i)
    BY <2>2 DEF FreeOf
  <2>. QED  BY <2>1, <2>3 DEF IntentSettled, Settled
<1>. QED  BY <1>1, InitTypes DEF Init, SettleInv, Knowing

\* An intent that has succeeded, been refunded or gone to manual review has its
\* credits in its owner's ledger, and a pending one has nothing there, whichever
\* confirmations, refunds and cancellations overlap on it.
THEOREM SettledIsCredited == Spec => []SettledWasCredited
<1>1. SettleInv => SettledWasCredited
  <2>. SUFFICES ASSUME SettleInv, NEW i \in Intent
                PROVE  /\ intents[i].status \in {"succeeded", "refunded", "review"} =>
                            \E n \in Rows(intents[i].owner, "top_up", i) :
                              ledger[intents[i].owner][n].amount = intents[i].credits
                       /\ intents[i].status \in {"absent", "pending"} =>
                            \A u \in User : \A n \in 1..Len(ledger[u]) : ledger[u][n].source # i
    BY DEF SettledWasCredited
  <2>1. IntentSettled(intents[i], i, ledger)
    BY DEF SettleInv
  <2>. QED  BY <2>1 DEF IntentSettled, CreditedIn, FreeOf, Settled, Rows
<1>. QED  BY <1>1, InitSettled, NextSettled, PTL DEF Spec

=============================================================================

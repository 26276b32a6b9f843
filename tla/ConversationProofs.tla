-------------------------- MODULE ConversationProofs --------------------------
(***************************************************************************)
(* Theorems about Conversation, for any number of links, resumes and       *)
(* presses, any limits on resumes, any length of a day and any bound.      *)
(***************************************************************************)
EXTENDS Conversation, FiniteSetTheorems, TLAPS

\* Whoever is about to write a resume has one that is long enough.  Every restart
\* allows one delivery more of a link.
HandlersInFlight ==
  /\ \A m \in Update : handler[m].phase \in {"insert", "update"} =>
       m \in Resume /\ Length[m] >= MIN_RESUME_TEXT_LENGTH
  /\ \A l \in Link : delivered[l] <= restarts + 1
                      /\ (handler[l].phase = "idle" => delivered[l] <= restarts)

TypeInv == TypeOK /\ HandlersInFlight

-----------------------------------------------------------------------------
(* Type correctness. *)

HandlerStates == [phase: Phases, plan: {"free", "paid", None}, link: Link \cup {None}]

\* A resume is stored with a length between the limits.
LEMMA NormalizedRange ==
  ASSUME NEW m \in Resume, Length[m] >= MIN_RESUME_TEXT_LENGTH
  PROVE  Normalized(m) \in MIN_RESUME_TEXT_LENGTH..MAX_RESUME_TEXT_LENGTH
<1>. USE ConversationConstants
<1>. DEFINE S == {Length[m], MAX_RESUME_TEXT_LENGTH}
<1>1. Length[m] \in Nat /\ MAX_RESUME_TEXT_LENGTH \in Nat
  OBVIOUS
<1>2. \E x \in S : \A y \in S : x =< y
  BY <1>1
<1>3. Min(S) \in S /\ \A y \in S : Min(S) =< y
  BY <1>2 DEF Min
<1>. QED  BY <1>1, <1>3 DEF Normalized

\* The handler of m stands elsewhere than before, and nothing else changes that
\* the types of the handlers depend on.
LEMMA HandlerStep ==
  ASSUME TypeInv, NEW m \in Update, NEW h \in HandlerStates,
         handler' = [handler EXCEPT ![m] = h],
         handler[m].phase # "idle", h.phase # "idle",
         h.phase \in {"check", "enqueue"} => h.link \in Link,
         h.phase \in {"insert", "update"} => m \in Resume /\ Length[m] >= MIN_RESUME_TEXT_LENGTH,
         UNCHANGED <<delivered, restarts>>
  PROVE  handler' \in [Update -> HandlerStates] /\ LinksInHand' /\ HandlersInFlight'
<1>1. handler' \in [Update -> HandlerStates]
  BY DEF TypeInv, TypeOK, HandlerStates
<1>2. ASSUME NEW k \in Update
      PROVE  handler'[k] = IF k = m THEN h ELSE handler[k]
  BY DEF TypeInv, TypeOK
<1>3. LinksInHand'
  BY <1>2 DEF TypeInv, TypeOK, LinksInHand
<1>4. HandlersInFlight'
  BY <1>2 DEF TypeInv, HandlersInFlight, Update
<1>. QED  BY <1>1, <1>3, <1>4

\* An answer is such a step.
LEMMA AnswerTypes ==
  ASSUME TypeInv, NEW m \in Update, Answer(m), handler[m].phase # "idle",
         UNCHANGED <<delivered, restarts>>
  PROVE  handler' \in [Update -> HandlerStates] /\ LinksInHand' /\ HandlersInFlight'
<1>. DEFINE h == [Idle EXCEPT !.phase = "done"]
<1>1. h \in HandlerStates /\ h.phase = "done"
  BY DEF HandlerStates, Phases, Idle
<1>. QED  BY <1>1, HandlerStep DEF Answer

\* So is a step to another phase.
LEMMA GotoTypes ==
  ASSUME TypeInv, NEW m \in Update, NEW phase \in Phases, Goto(m, phase),
         handler[m].phase # "idle", phase # "idle",
         phase \in {"check", "enqueue"} => handler[m].link \in Link,
         phase \in {"insert", "update"} => m \in Resume /\ Length[m] >= MIN_RESUME_TEXT_LENGTH,
         UNCHANGED <<delivered, restarts>>
  PROVE  handler' \in [Update -> HandlerStates] /\ LinksInHand' /\ HandlersInFlight'
<1>. DEFINE h == [handler[m] EXCEPT !.phase = phase]
<1>1. h \in HandlerStates /\ h.phase = phase /\ h.link = handler[m].link
  BY DEF TypeInv, TypeOK, HandlerStates
<1>2. handler' = [handler EXCEPT ![m] = h]
  BY DEF Goto
<1>. QED  BY <1>1, <1>2, HandlerStep

\* At the start everything has its type.
LEMMA InitTypes == Init => TypeInv
<1>. SUFFICES ASSUME Init PROVE TypeInv
  OBVIOUS
<1>1. now \in Time
  BY ConversationConstants DEF Init
<1>2. Idle \in HandlerStates /\ Idle.phase = "idle"
  BY DEF HandlerStates, Phases, Idle
<1>3. jobs \in [Link -> Nat] /\ waiting \in Nat /\ letters \in Seq(Letters)
  BY DEF Init
<1>4. handler \in [Update -> HandlerStates] /\ LinksInHand /\ HandlersInFlight
  BY <1>2, ConversationConstants DEF Init, LinksInHand, HandlersInFlight, Update
<1>5. delivered \in [Link -> 0..(1 + MaxRestarts)] /\ restarts \in 0..MaxRestarts
  BY ConversationConstants DEF Init
<1>6. NoRun \in Runs /\ NoRun.phase = "free"
  BY DEF NoRun, Runs
<1>9. RunsTyped
  BY <1>6 DEF Init, RunsTyped
<1>7. plan \in {"free", "paid"} /\ account \in [exists: BOOLEAN, bonuses: Nat]
  BY DEF Init
<1>8. profile \in Nat \cup {None} /\ pending \in Link \cup {None}
      /\ keyboard \in BOOLEAN /\ confirmed \subseteq Update
  BY DEF Init
<1>. QED  BY <1>1, <1>3, <1>4, <1>5, <1>7, <1>8, <1>9 DEF TypeInv, TypeOK, HandlerStates

\* What a handler knows of the user has the type of a handler.
LEMMA FoundTypes ==
  ASSUME TypeInv, NEW m \in Update
  PROVE  Found(m) \in HandlerStates /\ Found(m).phase = "user"
BY DEF Found, HandlerStates, Phases, Idle, TypeInv, TypeOK

\* What Telegram and the restarts of the bot do.
LEMMA DeliverTypes ==
  ASSUME TypeInv, NEW m \in Update, Deliver(m)
  PROVE  TypeInv'
<1>. DEFINE h == IF account.exists THEN Found(m) ELSE [Idle EXCEPT !.phase = "create"]
<1>1. h \in HandlerStates /\ h.phase \in {"user", "create"}
  BY FoundTypes DEF HandlerStates, Phases, Idle
<1>2. handler' = [handler EXCEPT ![m] = h] /\ handler[m].phase = "idle"
      /\ delivered' = [l \in Link |-> IF l = m THEN delivered[l] + 1 ELSE delivered[l]]
      /\ UNCHANGED <<now, plan, account, profile, pending, keyboard, confirmed, restarts>>
      /\ UNCHANGED <<jobs, waiting, runs, letters>>
  BY DEF Deliver, database, worker
<1>. HIDE DEF h
<1>3. handler' \in [Update -> HandlerStates]
  BY <1>1, <1>2 DEF TypeInv, TypeOK, HandlerStates
<1>4. \A l \in Link : l = m => delivered[l] <= restarts
  BY <1>2 DEF TypeInv, HandlersInFlight
<1>5. ASSUME NEW l \in Link
      PROVE  delivered'[l] \in 0..(1 + MaxRestarts) /\ delivered'[l] <= restarts + 1
  <2>1. delivered[l] \in 0..(1 + MaxRestarts) /\ restarts \in 0..MaxRestarts
        /\ delivered[l] <= restarts + 1
    BY DEF TypeInv, TypeOK, HandlersInFlight
  <2>. QED  BY <1>2, <1>4, <2>1, ConversationConstants
<1>6. delivered' \in [Link -> 0..(1 + MaxRestarts)]
  BY <1>2, <1>5
<1>7. ASSUME NEW k \in Update
      PROVE  handler'[k] = IF k = m THEN h ELSE handler[k]
  BY <1>2 DEF TypeInv, TypeOK
<1>8. LinksInHand'
  BY <1>1, <1>7 DEF TypeInv, TypeOK, LinksInHand
<1>9. HandlersInFlight'
  BY <1>1, <1>2, <1>5, <1>7 DEF TypeInv, HandlersInFlight, Update
<1>10. RunsTyped'
  BY <1>2 DEF TypeInv, TypeOK, RunsTyped
<1>. QED  BY <1>2, <1>3, <1>6, <1>8, <1>9, <1>10 DEF TypeInv, TypeOK, HandlerStates

\* After a restart every handler has the type of one that has not begun or is over.
LEMMA RestartTypes ==
  ASSUME TypeInv, Restart
  PROVE  TypeInv'
<1>1. Idle \in HandlerStates /\ [Idle EXCEPT !.phase = "done"] \in HandlerStates
      /\ Idle.phase = "idle" /\ [Idle EXCEPT !.phase = "done"].phase = "done"
  BY DEF HandlerStates, Phases, Idle
<1>2. /\ restarts < MaxRestarts /\ restarts' = restarts + 1 /\ pending' = None
      /\ handler' = [m \in Update |->
           IF m \in confirmed THEN [Idle EXCEPT !.phase = "done"] ELSE Idle]
      /\ confirmed' = IF restarts' < MaxRestarts THEN confirmed ELSE {}
      /\ UNCHANGED <<now, plan, account, profile, keyboard, delivered>>
      /\ UNCHANGED <<jobs, waiting, runs, letters>>
  BY DEF Restart, database, worker
<1>3. handler' \in [Update -> HandlerStates]
  BY <1>1, <1>2
<1>4. restarts \in 0..MaxRestarts /\ restarts' \in 0..MaxRestarts
  BY <1>2, ConversationConstants DEF TypeInv, TypeOK
<1>5. ASSUME NEW m \in Update
      PROVE  handler'[m].phase \in {"idle", "done"}
  BY <1>1, <1>2
<1>6. LinksInHand' /\ RunsTyped'
  BY <1>2, <1>5 DEF LinksInHand, TypeInv, TypeOK, RunsTyped
<1>7. confirmed' \subseteq Update
  BY <1>2 DEF TypeInv, TypeOK
<1>8. TypeOK'
  BY <1>2, <1>3, <1>4, <1>6, <1>7 DEF TypeInv, TypeOK, HandlerStates
<1>9. ASSUME NEW l \in Link
      PROVE  delivered[l] <= restarts + 1 /\ delivered[l] \in 0..(1 + MaxRestarts)
  BY DEF TypeInv, TypeOK, HandlersInFlight
<1>10. HandlersInFlight'
  BY <1>2, <1>4, <1>5, <1>9, ConversationConstants DEF HandlersInFlight
<1>. QED  BY <1>8, <1>10 DEF TypeInv

\* What a handler does, with the rows and the store it writes.
LEMMA HandleTypes ==
  ASSUME TypeInv, NEW m \in Update, Handle(m) \/ Fails(m)
  PROVE  TypeInv'
<1>. USE DEF telegram, database, worker
<1>1. CASE Fails(m)
  BY <1>1, AnswerTypes DEF Fails, TypeInv, TypeOK, HandlerStates, RunsTyped
<1>2. CASE CreateUser(m)
  <2>1. CASE account.exists
    BY <1>2, <2>1, AnswerTypes DEF CreateUser, TypeInv, TypeOK, HandlerStates, RunsTyped
  <2>2. CASE ~account.exists
    <3>. DEFINE h == Found(m)
    <3>1. h \in HandlerStates /\ h.phase = "user"
      BY FoundTypes
    <3>2. handler' = [handler EXCEPT ![m] = h] /\ handler[m].phase = "create"
          /\ UNCHANGED <<delivered, restarts>>
      BY <1>2, <2>2 DEF CreateUser
    <3>3. handler' \in [Update -> HandlerStates] /\ LinksInHand' /\ HandlersInFlight'
      BY <3>1, <3>2, HandlerStep
    <3>4. account' \in [exists: BOOLEAN, bonuses: Nat]
      <4>1. account.bonuses \in Nat
        BY DEF TypeInv, TypeOK
      <4>2. account' = [exists |-> TRUE, bonuses |-> account.bonuses + 1]
        BY <1>2, <2>2 DEF CreateUser
      <4>. QED  BY <4>1, <4>2
    <3>5. UNCHANGED <<now, plan, profile, pending, telegram, worker>>
      BY <1>2 DEF CreateUser
    <3>. QED  BY <3>3, <3>4, <3>5 DEF TypeInv, TypeOK, HandlerStates, RunsTyped
  <2>. QED  BY <2>1, <2>2
<1>3. CASE SaveResume(m)
  <2>1. Length[m] \in Nat /\ handler[m].phase = "user" /\ m \in Resume
        /\ UNCHANGED <<delivered, restarts>>
    BY <1>3, ConversationConstants DEF SaveResume
  <2>2. CASE Length[m] < MIN_RESUME_TEXT_LENGTH
    BY <1>3, <2>1, <2>2, AnswerTypes DEF SaveResume, TypeInv, TypeOK, HandlerStates, RunsTyped
  <2>3. CASE ~(Length[m] < MIN_RESUME_TEXT_LENGTH)
    <3>1. Length[m] >= MIN_RESUME_TEXT_LENGTH
      BY <2>1, <2>3, ConversationConstants
    <3>2. PICK phase \in {"insert", "update"} : Goto(m, phase)
      BY <1>3, <2>3 DEF SaveResume
    <3>3. handler' \in [Update -> HandlerStates] /\ LinksInHand' /\ HandlersInFlight'
      BY <2>1, <3>1, <3>2, GotoTypes DEF Phases
    <3>. QED  BY <1>3, <3>3 DEF SaveResume, TypeInv, TypeOK, HandlerStates, RunsTyped
  <2>. QED  BY <2>2, <2>3
<1>4. CASE CreateProfile(m) \/ UpdateProfile(m)
  <2>1. handler[m].phase \in {"insert", "update"} /\ Answer(m) /\ UNCHANGED <<delivered, restarts>>
    BY <1>4 DEF CreateProfile, UpdateProfile
  <2>2. m \in Resume /\ Length[m] >= MIN_RESUME_TEXT_LENGTH
    BY <2>1 DEF TypeInv, HandlersInFlight
  <2>3. Normalized(m) \in Nat
    BY <2>2, NormalizedRange, ConversationConstants
  <2>4. profile' \in Nat \cup {None}
    BY <1>4, <2>3 DEF CreateProfile, UpdateProfile, TypeInv, TypeOK
  <2>5. handler' \in [Update -> HandlerStates] /\ LinksInHand' /\ HandlersInFlight'
    BY <2>1, AnswerTypes
  <2>. QED  BY <1>4, <2>4, <2>5 DEF CreateProfile, UpdateProfile, TypeInv, TypeOK,
         HandlerStates, RunsTyped
<1>5. ASSUME NEW link \in Link, handler[m].phase = "user",
             handler' = [handler EXCEPT ![m].phase = "check", ![m].link = link],
             UNCHANGED <<delivered, restarts>>
      PROVE  handler' \in [Update -> HandlerStates] /\ LinksInHand' /\ HandlersInFlight'
  <2>. DEFINE h == [handler[m] EXCEPT !.phase = "check", !.link = link]
  <2>1. h \in HandlerStates /\ h.phase = "check" /\ h.link = link
    BY DEF TypeInv, TypeOK, HandlerStates, Phases
  <2>2. handler' = [handler EXCEPT ![m] = h]
    BY <1>5
  <2>. QED  BY <1>5, <2>1, <2>2, HandlerStep
<1>6. CASE HandleVacancyUrl(m)
  <2>1. m \in Link /\ handler[m].phase = "user" /\ UNCHANGED <<delivered, restarts>>
    BY <1>6 DEF HandleVacancyUrl
  <2>2. handler' \in [Update -> HandlerStates] /\ LinksInHand' /\ HandlersInFlight'
    BY <1>5, <1>6, <2>1, AnswerTypes DEF HandleVacancyUrl
  <2>3. pending' \in Link \cup {None} /\ keyboard' \in BOOLEAN
    BY <1>6 DEF HandleVacancyUrl, TypeInv, TypeOK
  <2>. QED  BY <1>6, <2>2, <2>3 DEF HandleVacancyUrl, TypeInv, TypeOK, HandlerStates, RunsTyped
<1>7. CASE ToneCallback(m)
  <2>1. handler[m].phase = "user" /\ UNCHANGED <<delivered, restarts>> /\ pending' = None
        /\ pending \in Link \cup {None}
    BY <1>7 DEF ToneCallback, TypeInv, TypeOK
  <2>2. handler' \in [Update -> HandlerStates] /\ LinksInHand' /\ HandlersInFlight'
    BY <1>5, <1>7, <2>1, AnswerTypes DEF ToneCallback
  <2>. QED  BY <1>7, <2>1, <2>2 DEF ToneCallback, TypeInv, TypeOK, HandlerStates, RunsTyped
<1>8. CASE MayEnqueue(m)
  <2>1. handler[m].phase = "check" /\ UNCHANGED <<delivered, restarts>>
    BY <1>8 DEF MayEnqueue
  <2>2. handler[m].link \in Link
    BY <2>1 DEF TypeInv, TypeOK, LinksInHand
  <2>3. Answer(m) \/ Goto(m, "enqueue")
    BY <1>8 DEF MayEnqueue
  <2>4. handler' \in [Update -> HandlerStates] /\ LinksInHand' /\ HandlersInFlight'
    BY <2>1, <2>2, <2>3, AnswerTypes, GotoTypes DEF Phases
  <2>. QED  BY <1>8, <2>4 DEF MayEnqueue, TypeInv, TypeOK, HandlerStates, RunsTyped
<1>9. CASE EnqueueJob(m)
  <2>1. handler[m].phase = "enqueue" /\ UNCHANGED <<delivered, restarts>> /\ Answer(m)
        /\ jobs' = [jobs EXCEPT ![handler[m].link] = @ + 1] /\ waiting' = waiting + 1
    BY <1>9 DEF EnqueueJob
  <2>2. handler[m].link \in Link
    BY <2>1 DEF TypeInv, TypeOK, LinksInHand
  <2>3. handler' \in [Update -> HandlerStates] /\ LinksInHand' /\ HandlersInFlight'
    BY <2>1, AnswerTypes
  <2>4. jobs' \in [Link -> Nat] /\ waiting' \in Nat
    BY <2>1, <2>2 DEF TypeInv, TypeOK
  <2>. QED  BY <1>9, <2>3, <2>4 DEF EnqueueJob, TypeInv, TypeOK, HandlerStates, RunsTyped
<1>. QED  BY <1>1, <1>2, <1>3, <1>4, <1>6, <1>7, <1>8, <1>9 DEF Handle

\* What the workers do.
LEMMA WorkTypes ==
  ASSUME TypeInv, NEW s \in Slot, Work(s)
  PROVE  TypeInv'
<1>. USE DEF telegram, database, worker
<1>1. UNCHANGED <<now, plan, account, profile, handler, pending, keyboard, confirmed, delivered,
                  jobs, restarts>>
  BY DEF Work, BeginJob, CheckQuota, FinishJob, FailJob
<1>2. LinksInHand' /\ HandlersInFlight'
  BY <1>1 DEF TypeInv, TypeOK, LinksInHand, HandlersInFlight
<1>3. ASSUME NEW run \in Runs, runs' = [runs EXCEPT ![s] = run],
             run.phase # "free" => run.plan # None /\ run.at # None
      PROVE  RunsTyped'
  BY <1>3 DEF TypeInv, TypeOK, RunsTyped
<1>4. NoRun \in Runs /\ NoRun.phase = "free"
  BY DEF NoRun, Runs
<1>5. runs[s] \in Runs /\ now \in Time /\ plan \in {"free", "paid"}
  BY DEF TypeInv, TypeOK, RunsTyped
<1>6. ASSUME RunsTyped', waiting' \in Nat, letters' \in Seq(Letters)
      PROVE  TypeInv'
  BY <1>1, <1>2, <1>6 DEF TypeInv, TypeOK
<1>7. waiting \in Nat /\ letters \in Seq(Letters)
  BY DEF TypeInv, TypeOK
<1>8. CASE BeginJob(s)
  <2>. DEFINE run == [phase |-> "begun", plan |-> plan, at |-> now, day |-> None]
  <2>1. run \in Runs /\ run.plan # None /\ run.at # None
    BY <1>5, ConversationConstants DEF Runs
  <2>2. runs' = [runs EXCEPT ![s] = run] /\ waiting' \in Nat /\ letters' = letters
    BY <1>7, <1>8 DEF BeginJob
  <2>. HIDE DEF run
  <2>. QED  BY <1>3, <1>6, <1>7, <2>1, <2>2
<1>9. CASE FailJob(s)
  BY <1>3, <1>4, <1>6, <1>7, <1>9 DEF FailJob
<1>10. CASE CheckQuota(s)
  <2>1. waiting' = waiting /\ letters' = letters /\ runs[s].phase = "begun"
    BY <1>10 DEF CheckQuota
  <2>2. runs[s].plan # None /\ runs[s].at # None
    BY <2>1 DEF TypeInv, TypeOK, RunsTyped
  <2>3. CASE runs' = [runs EXCEPT ![s].phase = "counted"]
    <3>. DEFINE run == [runs[s] EXCEPT !.phase = "counted"]
    <3>1. run \in Runs /\ run.plan # None /\ run.at # None
      BY <1>5, <2>2 DEF Runs
    <3>2. runs' = [runs EXCEPT ![s] = run]
      BY <2>3
    <3>. HIDE DEF run
    <3>. QED  BY <1>3, <1>6, <1>7, <2>1, <3>1, <3>2
  <2>4. CASE runs' = [runs EXCEPT ![s].phase = "counted", ![s].day = MoscowDay(now)]
    <3>. DEFINE today == MoscowDay(now)
                run == [runs[s] EXCEPT !.phase = "counted", !.day = today]
    <3>1. today \in Nat
      BY <1>5, ConversationConstants DEF MoscowDay
    <3>2. runs' = [runs EXCEPT ![s] = run]
      BY <2>4
    <3>. HIDE DEF today
    <3>3. run \in Runs /\ run.plan # None /\ run.at # None
      BY <1>5, <2>2, <3>1 DEF Runs
    <3>. HIDE DEF run
    <3>. QED  BY <1>3, <1>6, <1>7, <2>1, <3>2, <3>3
  <2>5. CASE runs' = [runs EXCEPT ![s] = NoRun]
    BY <1>3, <1>4, <1>6, <1>7, <2>1, <2>5
  <2>. QED  BY <1>10, <2>3, <2>4, <2>5 DEF CheckQuota
<1>11. CASE FinishJob(s)
  <2>. DEFINE l == [at |-> runs[s].at, day |-> runs[s].day, plan |-> runs[s].plan]
  <2>1. runs' = [runs EXCEPT ![s] = NoRun] /\ letters' = Append(letters, l) /\ waiting' = waiting
        /\ runs[s].phase = "counted"
    BY <1>11 DEF FinishJob
  <2>2. runs[s].plan # None /\ runs[s].at # None
    BY <2>1 DEF TypeInv, TypeOK, RunsTyped
  <2>3. l \in Letters
    BY <1>5, <2>2 DEF Runs, Letters
  <2>. HIDE DEF l
  <2>4. letters' \in Seq(Letters)
    BY <1>7, <2>1, <2>3
  <2>. QED  BY <1>3, <1>4, <1>6, <1>7, <2>1, <2>4
<1>. QED  BY <1>8, <1>9, <1>10, <1>11 DEF Work

\* Everything else leaves handlers and runs alone.
LEMMA OthersTypes ==
  ASSUME TypeInv, Tick \/ ChangePlan \/ Poll \/ UNCHANGED vars
  PROVE  TypeInv'
<1>. USE DEF telegram, database, worker
<1>1. UNCHANGED <<handler, delivered, restarts, runs>>
  BY DEF Tick, ChangePlan, Poll, vars
<1>2. HandlersInFlight' /\ LinksInHand' /\ RunsTyped'
  BY <1>1 DEF TypeInv, TypeOK, HandlersInFlight, LinksInHand, RunsTyped
<1>3. CASE Tick
  BY <1>1, <1>2, <1>3, ConversationConstants DEF Tick, TypeInv, TypeOK
<1>4. CASE ChangePlan
  BY <1>1, <1>2, <1>4 DEF ChangePlan, TypeInv, TypeOK
<1>5. CASE Poll
  BY <1>1, <1>2, <1>5 DEF Poll, TypeInv, TypeOK
<1>6. CASE UNCHANGED vars
  BY <1>2, <1>6 DEF vars, TypeInv, TypeOK
<1>. QED  BY <1>2, <1>3, <1>4, <1>5, <1>6 DEF TypeInv

\* No step breaks a type.
LEMMA NextTypes == TypeInv /\ [Next]_vars => TypeInv'
BY DeliverTypes, RestartTypes, HandleTypes, WorkTypes, OthersTypes DEF Next

\* Updates, handlers, store and jobs keep their types, however often Telegram
\* delivers an update and the bot restarts.
THEOREM TypeCorrect == Spec => []TypeOK
<1>1. TypeInv => TypeOK
  BY DEF TypeInv
<1>. QED  BY <1>1, InitTypes, NextTypes, PTL DEF Spec

-----------------------------------------------------------------------------
(* The account and the welcome bonus. *)

\* However many updates find nobody, one of them creates the account.
THEOREM WelcomedOnce == Spec => []OneWelcome
<1>1. Init => OneWelcome
  BY DEF Init, OneWelcome
<1>2. TypeInv /\ OneWelcome /\ [Next]_vars => OneWelcome'
  <2>. SUFFICES ASSUME TypeInv, OneWelcome, [Next]_vars PROVE OneWelcome'
    OBVIOUS
  <2>1. account.exists \in BOOLEAN
    BY DEF TypeInv, TypeOK
  <2>2. ASSUME UNCHANGED account PROVE OneWelcome'
    BY <2>2 DEF OneWelcome
  <2>3. ASSUME NEW m \in Update, CreateUser(m) PROVE OneWelcome'
    <3>1. CASE account.exists
      BY <2>2, <2>3, <3>1 DEF CreateUser
    <3>2. CASE ~account.exists
      <4>1. account' = [exists |-> TRUE, bonuses |-> account.bonuses + 1]
        BY <2>3, <3>2 DEF CreateUser
      <4>2. account.bonuses = 0
        BY <3>2 DEF OneWelcome
      <4>. QED  BY <4>1, <4>2 DEF OneWelcome
    <3>. QED  BY <3>1, <3>2
  <2>4. CASE UNCHANGED vars
    BY <2>2, <2>4 DEF vars, database
  <2>5. CASE Tick \/ ChangePlan \/ Poll \/ Restart
    BY <2>2, <2>5 DEF Tick, ChangePlan, Poll, Restart, database
  <2>7. ASSUME NEW s \in Slot, Work(s) PROVE OneWelcome'
    BY <2>2, <2>7 DEF Work, BeginJob, CheckQuota, FinishJob, FailJob, database
  <2>6. ASSUME NEW m \in Update, Deliver(m) \/ Handle(m) \/ Fails(m) PROVE OneWelcome'
    BY <2>2, <2>3, <2>6 DEF Deliver, Handle, Fails, SaveResume, CreateProfile, UpdateProfile,
       HandleVacancyUrl, ToneCallback, MayEnqueue, EnqueueJob, database
  <2>. QED  BY <2>4, <2>5, <2>6, <2>7 DEF Next
<1>. QED  BY <1>1, <1>2, InitTypes, NextTypes, PTL DEF Spec

-----------------------------------------------------------------------------
(* The resume behind a job. *)

Asked == \E l \in Link : jobs[l] > 0

\* A stored resume has a length between the limits, and whoever waits for a tone, is
\* about to ask for a job or has asked for one has stored a resume.
ResumeInv ==
  /\ profile # None => profile \in MIN_RESUME_TEXT_LENGTH..MAX_RESUME_TEXT_LENGTH
  /\ pending # None => profile # None
  /\ Asked => profile # None
  /\ \A m \in Update : handler[m].phase \in {"check", "enqueue"} => profile # None

\* A handler that goes elsewhere keeps this, if there is a resume or it has no link.
LEMMA HandlerKeepsResume ==
  ASSUME TypeInv, ResumeInv, NEW m \in Update, NEW h \in HandlerStates,
         handler' = [handler EXCEPT ![m] = h], UNCHANGED profile,
         pending' # None \/ Asked' \/ h.phase \in {"check", "enqueue"} => profile # None
  PROVE  ResumeInv'
<1>1. ASSUME NEW k \in Update
      PROVE  handler'[k] = IF k = m THEN h ELSE handler[k]
  BY DEF TypeInv, TypeOK
<1>. QED  BY <1>1 DEF ResumeInv, Asked

\* A handler that answers has nothing to do with a link any more.
LEMMA AnswerKeepsResume ==
  ASSUME TypeInv, ResumeInv, NEW m \in Update, Answer(m), UNCHANGED profile,
         pending' # None \/ Asked' => profile # None
  PROVE  ResumeInv'
<1>. DEFINE h == [Idle EXCEPT !.phase = "done"]
<1>1. h \in HandlerStates /\ h.phase = "done"
  BY DEF HandlerStates, Phases, Idle
<1>. QED  BY <1>1, HandlerKeepsResume DEF Answer

\* Whatever a handler does, a link that goes on has a resume behind it.
LEMMA HandleKeepsResume ==
  ASSUME TypeInv, ResumeInv, NEW m \in Update, Handle(m) \/ Fails(m)
  PROVE  ResumeInv'
<1>. USE DEF telegram, database, worker
<1>1. CASE Fails(m)
  BY <1>1, AnswerKeepsResume DEF Fails, ResumeInv, Asked
<1>2. ASSUME NEW phase \in Phases \ {"check", "enqueue"},
             handler' = [handler EXCEPT ![m].phase = phase],
             UNCHANGED <<profile, pending, jobs>>
      PROVE  ResumeInv'
  <2>1. ASSUME NEW k \in Update PROVE handler'[k].phase = IF k = m THEN phase ELSE handler[k].phase
    BY <1>2 DEF TypeInv, TypeOK
  <2>. QED  BY <1>2, <2>1 DEF ResumeInv, Asked
<1>3. CASE CreateUser(m)
  <2>1. UNCHANGED <<profile, pending, jobs>>
        /\ (Answer(m) \/ handler' = [handler EXCEPT ![m] = Found(m)])
    BY <1>3 DEF CreateUser
  <2>2. pending' # None \/ Asked' => profile # None
    BY <2>1 DEF ResumeInv, Asked
  <2>3. CASE Answer(m)
    BY <2>1, <2>2, <2>3, AnswerKeepsResume
  <2>4. CASE handler' = [handler EXCEPT ![m] = Found(m)]
    BY <2>1, <2>2, <2>4, FoundTypes, HandlerKeepsResume
  <2>. QED  BY <2>1, <2>3, <2>4
<1>4. CASE SaveResume(m)
  <2>1. UNCHANGED <<profile, pending, jobs>>
        /\ (Answer(m) \/ Goto(m, "insert") \/ Goto(m, "update"))
    BY <1>4 DEF SaveResume
  <2>2. pending' # None \/ Asked' => profile # None
    BY <2>1 DEF ResumeInv, Asked
  <2>3. CASE Answer(m)
    BY <2>1, <2>2, <2>3, AnswerKeepsResume
  <2>4. ASSUME NEW phase \in {"insert", "update"}, Goto(m, phase) PROVE ResumeInv'
    <3>1. phase \in Phases \ {"check", "enqueue"}
      BY DEF Phases
    <3>2. handler' = [handler EXCEPT ![m].phase = phase]
      BY <2>4 DEF Goto
    <3>. QED  BY <1>2, <2>1, <3>1, <3>2
  <2>. QED  BY <2>1, <2>3, <2>4
<1>5. CASE CreateProfile(m) \/ UpdateProfile(m)
  <2>1. /\ handler[m].phase \in {"insert", "update"} /\ Answer(m) /\ UNCHANGED <<pending, jobs>>
        /\ profile' = Normalized(m) \/ (profile # None /\ profile' = profile)
    BY <1>5 DEF CreateProfile, UpdateProfile
  <2>2. Normalized(m) \in MIN_RESUME_TEXT_LENGTH..MAX_RESUME_TEXT_LENGTH
    BY <2>1, NormalizedRange DEF TypeInv, HandlersInFlight
  <2>3. profile' # None /\ profile' \in MIN_RESUME_TEXT_LENGTH..MAX_RESUME_TEXT_LENGTH
    BY <2>1, <2>2, ConversationConstants DEF ResumeInv, Asked
  <2>. QED  BY <2>3 DEF ResumeInv, Asked
<1>6. CASE HandleVacancyUrl(m)
  <2>1. profile' = profile /\ jobs' = jobs
    BY <1>6 DEF HandleVacancyUrl
  <2>2. CASE profile = None
    BY <1>6, <2>1, <2>2, AnswerKeepsResume DEF HandleVacancyUrl, ResumeInv, Asked
  <2>3. CASE profile # None
    BY <2>1, <2>3 DEF ResumeInv, Asked
  <2>. QED  BY <2>2, <2>3
<1>7. CASE ToneCallback(m)
  <2>1. profile' = profile /\ jobs' = jobs /\ pending' = None
    BY <1>7 DEF ToneCallback
  <2>2. CASE pending = None
    BY <1>7, <2>1, <2>2, AnswerKeepsResume DEF ToneCallback, ResumeInv, Asked
  <2>3. CASE pending # None
    BY <2>1, <2>3 DEF ResumeInv, Asked
  <2>. QED  BY <2>2, <2>3
<1>8. CASE MayEnqueue(m) \/ EnqueueJob(m)
  <2>1. handler[m].phase \in {"check", "enqueue"} /\ profile' = profile
    BY <1>8 DEF MayEnqueue, EnqueueJob
  <2>. QED  BY <2>1 DEF ResumeInv, Asked
<1>. QED  BY <1>1, <1>3, <1>4, <1>5, <1>6, <1>7, <1>8 DEF Handle

\* Whoever gets a job has stored a resume of a length between the limits, whatever
\* overlaps, is delivered again or is cut off.
THEOREM NoJobWithoutResume == Spec => []JobHasResume
<1>1. Init => ResumeInv
  BY DEF Init, ResumeInv, Asked, Idle, Update
<1>2. TypeInv /\ ResumeInv /\ [Next]_vars => ResumeInv'
  <2>. SUFFICES ASSUME TypeInv, ResumeInv, [Next]_vars PROVE ResumeInv'
    OBVIOUS
  <2>1. CASE Tick \/ ChangePlan \/ Poll \/ UNCHANGED vars
    <3>1. UNCHANGED <<profile, pending, jobs, handler>>
      BY <2>1 DEF Tick, ChangePlan, Poll, vars, database, worker, telegram
    <3>. QED  BY <3>1 DEF ResumeInv, Asked
  <2>2. CASE Restart
    <3>1. /\ pending' = None /\ UNCHANGED <<profile, jobs>>
          /\ \A m \in Update : handler'[m].phase \in {"idle", "done"}
      BY <2>2 DEF Restart, Idle, database, worker
    <3>. QED  BY <3>1 DEF ResumeInv, Asked
  <2>3. ASSUME NEW m \in Update, Deliver(m) PROVE ResumeInv'
    <3>1. UNCHANGED <<profile, pending, jobs>>
      BY <2>3 DEF Deliver, database, worker
    <3>. DEFINE h == IF account.exists THEN Found(m) ELSE [Idle EXCEPT !.phase = "create"]
    <3>2. h \in HandlerStates /\ h.phase \in {"user", "create"}
      BY FoundTypes DEF HandlerStates, Phases, Idle
    <3>3. handler' = [handler EXCEPT ![m] = h]
      BY <2>3 DEF Deliver
    <3>4. pending' # None \/ Asked' => profile # None
      BY <3>1 DEF ResumeInv, Asked
    <3>. HIDE DEF h
    <3>. QED  BY <3>1, <3>2, <3>3, <3>4, HandlerKeepsResume
  <2>4. ASSUME NEW s \in Slot, Work(s) PROVE ResumeInv'
    <3>1. UNCHANGED <<profile, pending, jobs, handler>>
      BY <2>4 DEF Work, BeginJob, CheckQuota, FinishJob, FailJob, database, telegram
    <3>. QED  BY <3>1 DEF ResumeInv, Asked
  <2>. QED  BY <2>1, <2>2, <2>3, <2>4, HandleKeepsResume DEF Next
<1>3. ResumeInv => JobHasResume
  BY DEF ResumeInv, Asked, JobHasResume
<1>. QED  BY <1>1, <1>2, <1>3, InitTypes, NextTypes, PTL DEF Spec

-----------------------------------------------------------------------------
(* One job for each delivery of a link. *)

\* Handler h, of update m, is still to make something of link l: its own, or the one
\* it has taken out of the store.
Asks(h, m, l) ==
  \/ m = l /\ h.phase \in {"create", "user"}
  \/ h.phase \in {"check", "enqueue"} /\ h.link = l

\* Between its delivery and its job a link is in one place: with one handler, or
\* in the store.  There it has one delivery that has not become a job.
LinkInv(l, hs, store, made, times) ==
  /\ made <= times
  /\ store = l => made < times
  /\ store = l \/ hs[l].phase = "idle" => \A m \in Update : ~Asks(hs[m], m, l)
  /\ hs[l].phase = "idle" => store # l
  /\ \A m \in Update : Asks(hs[m], m, l) =>
       made < times /\ \A k \in Update : Asks(hs[k], k, l) => k = m

OnePlace == \A l \in Link : LinkInv(l, handler, pending, jobs[l], delivered[l])

\* A job more for a link is one job more for this link, and for no other.
LEMMA JobsCounted ==
  ASSUME TypeInv, NEW l \in Link
  PROVE  /\ jobs[l] \in Nat /\ delivered[l] \in Nat
         /\ \A x \in Link : jobs' = [jobs EXCEPT ![x] = @ + 1] =>
              jobs'[l] = IF x = l THEN jobs[l] + 1 ELSE jobs[l]
BY ConversationConstants DEF TypeInv, TypeOK

\* A handler goes on: it has the link it had or the one it has taken out of the
\* store, and what it puts into the store it has no more.
LEMMA LinkHandedOn ==
  ASSUME TypeInv, OnePlace, NEW l \in Link, NEW m \in Update, NEW h,
         handler' = [handler EXCEPT ![m] = h], h.phase # "idle",
         delivered'[l] = delivered[l], UNCHANGED jobs,
         Asks(h, m, l) => Asks(handler[m], m, l) \/ pending = l,
         pending' = l => ~Asks(h, m, l) /\ (pending = l \/ Asks(handler[m], m, l))
  PROVE  LinkInv(l, handler', pending', jobs'[l], delivered'[l])
<1>1. LinkInv(l, handler, pending, jobs[l], delivered[l])
  BY DEF OnePlace
<1>2. ASSUME NEW k \in Update
      PROVE  handler'[k] = IF k = m THEN h ELSE handler[k]
  BY DEF TypeInv, TypeOK
<1>3. jobs'[l] = jobs[l] /\ l \in Update
  BY DEF Update
<1>4. ASSUME NEW k \in Update, Asks(handler'[k], k, l)
      PROVE  /\ pending' # l
             /\ jobs[l] < delivered[l]
             /\ \A n \in Update : Asks(handler'[n], n, l) => n = k
  BY <1>1, <1>2, <1>4 DEF LinkInv
<1>5. pending' = l => jobs[l] < delivered[l]
  BY <1>1 DEF LinkInv
<1>6. ASSUME handler'[l].phase = "idle"
      PROVE  pending' # l /\ \A k \in Update : ~Asks(handler'[k], k, l)
  BY <1>1, <1>2, <1>3, <1>6 DEF LinkInv
<1>7. jobs[l] <= delivered[l]
  BY <1>1 DEF LinkInv
<1>. HIDE DEF Asks
<1>. QED  BY <1>3, <1>4, <1>5, <1>6, <1>7 DEF LinkInv

\* The same of an answer: the handler has nothing any more.
LEMMA LinkDropped ==
  ASSUME TypeInv, OnePlace, NEW l \in Link, NEW m \in Update, Answer(m),
         delivered'[l] = delivered[l], UNCHANGED jobs,
         pending' = l => pending = l \/ Asks(handler[m], m, l)
  PROVE  LinkInv(l, handler', pending', jobs'[l], delivered'[l])
<1>. DEFINE h == [Idle EXCEPT !.phase = "done"]
<1>1. h.phase = "done" /\ ~Asks(h, m, l)
  BY DEF Idle, Asks
<1>2. handler' = [handler EXCEPT ![m] = h]
  BY DEF Answer
<1>. HIDE DEF h
<1>. QED  BY <1>1, <1>2, LinkHandedOn

\* A step to another phase, with the link it had or is about to have.
LEMMA HandlersKeepPlace ==
  ASSUME TypeInv, OnePlace, NEW l \in Link, NEW m \in Update, Handle(m) \/ Fails(m), ~EnqueueJob(m)
  PROVE  LinkInv(l, handler', pending', jobs'[l], delivered'[l])
<1>. USE DEF telegram, database, worker
<1>1. UNCHANGED <<jobs, delivered>>
  BY DEF Handle, Fails, CreateUser, SaveResume, CreateProfile, UpdateProfile, HandleVacancyUrl,
     ToneCallback, MayEnqueue
<1>2. handler[m] \in HandlerStates
  BY DEF TypeInv, TypeOK, HandlerStates
<1>3. ASSUME Answer(m), pending' = pending \/ pending' = None
      PROVE  LinkInv(l, handler', pending', jobs'[l], delivered'[l])
  <2>1. pending' = l => pending = l
    BY <1>3, ConversationConstants
  <2>. QED  BY <1>1, <1>3, <2>1, LinkDropped
<1>4. CASE Fails(m) \/ CreateProfile(m) \/ UpdateProfile(m)
  BY <1>3, <1>4 DEF Fails, CreateProfile, UpdateProfile
<1>5. CASE CreateUser(m)
  <2>1. handler[m].phase = "create" /\ pending' = pending
    BY <1>5 DEF CreateUser
  <2>2. CASE account.exists
    BY <1>3, <1>5, <2>1, <2>2 DEF CreateUser
  <2>3. CASE ~account.exists
    <3>. DEFINE h == Found(m)
    <3>1. handler' = [handler EXCEPT ![m] = h]
      BY <1>5, <2>3 DEF CreateUser
    <3>2. h.phase = "user"
      BY FoundTypes
    <3>3. Asks(h, m, l) <=> Asks(handler[m], m, l)
      BY <2>1, <3>2 DEF Asks
    <3>4. pending = l => ~Asks(handler[m], m, l)
      BY DEF OnePlace, LinkInv
    <3>. HIDE DEF h
    <3>. QED  BY <1>1, <2>1, <3>1, <3>2, <3>3, <3>4, LinkHandedOn
  <2>. QED  BY <2>2, <2>3
<1>6. CASE SaveResume(m)
  <2>1. /\ handler[m].phase = "user" /\ pending' = pending /\ m \in Resume
        /\ Answer(m) \/ Goto(m, "insert") \/ Goto(m, "update")
    BY <1>6 DEF SaveResume
  <2>2. CASE Answer(m)
    BY <1>3, <2>1, <2>2
  <2>3. ASSUME NEW phase \in {"insert", "update"}, Goto(m, phase)
        PROVE  LinkInv(l, handler', pending', jobs'[l], delivered'[l])
    <3>. DEFINE h == [handler[m] EXCEPT !.phase = phase]
    <3>1. handler' = [handler EXCEPT ![m] = h]
      BY <2>3 DEF Goto
    <3>2. h.phase = phase
      BY <1>2 DEF HandlerStates
    <3>3. h.phase # "idle" /\ ~Asks(h, m, l)
      BY <3>2 DEF Asks
    <3>. HIDE DEF h
    <3>. QED  BY <1>1, <2>1, <3>1, <3>3, LinkHandedOn
  <2>. QED  BY <2>1, <2>2, <2>3
<1>7. CASE HandleVacancyUrl(m)
  <2>1. m \in Link /\ handler[m].phase = "user"
    BY <1>7 DEF HandleVacancyUrl
  <2>2. CASE Answer(m)
    <3>1. pending' = pending \/ pending' = m
      BY <1>7, <2>2 DEF HandleVacancyUrl
    <3>2. pending' = l => pending = l \/ Asks(handler[m], m, l)
      BY <2>1, <3>1 DEF Asks
    <3>. QED  BY <1>1, <2>2, <3>2, LinkDropped
  <2>3. CASE handler' = [handler EXCEPT ![m].phase = "check", ![m].link = m] /\ UNCHANGED pending
    <3>. DEFINE h == [handler[m] EXCEPT !.phase = "check", !.link = m]
    <3>1. handler' = [handler EXCEPT ![m] = h]
      BY <2>3
    <3>2. h.phase = "check" /\ h.link = m
      BY <1>2 DEF HandlerStates
    <3>3. Asks(h, m, l) <=> Asks(handler[m], m, l)
      BY <2>1, <3>2 DEF Asks
    <3>4. pending = l => ~Asks(handler[m], m, l)
      BY DEF OnePlace, LinkInv
    <3>. HIDE DEF h
    <3>. QED  BY <1>1, <2>3, <3>1, <3>2, <3>3, <3>4, LinkHandedOn
  <2>. QED  BY <1>7, <2>2, <2>3 DEF HandleVacancyUrl
<1>8. CASE ToneCallback(m)
  <2>1. m \in Press /\ handler[m].phase = "user" /\ pending' = None
    BY <1>8 DEF ToneCallback
  <2>2. pending' # l
    BY <2>1, ConversationConstants
  <2>3. CASE pending = None
    BY <1>3, <1>8, <2>1, <2>3 DEF ToneCallback
  <2>4. CASE pending # None
    <3>. DEFINE h == [handler[m] EXCEPT !.phase = "check", !.link = pending]
    <3>1. handler' = [handler EXCEPT ![m] = h]
      BY <1>8, <2>4 DEF ToneCallback
    <3>2. h.phase = "check" /\ h.link = pending
      BY <1>2 DEF HandlerStates
    <3>3. Asks(h, m, l) => pending = l
      BY <3>2 DEF Asks
    <3>. HIDE DEF h
    <3>. QED  BY <1>1, <2>2, <3>1, <3>2, <3>3, LinkHandedOn
  <2>. QED  BY <2>3, <2>4
<1>9. CASE MayEnqueue(m)
  <2>1. /\ handler[m].phase = "check" /\ pending' = pending
        /\ Answer(m) \/ Goto(m, "enqueue")
    BY <1>9 DEF MayEnqueue
  <2>2. CASE Answer(m)
    BY <1>3, <2>1, <2>2
  <2>3. CASE Goto(m, "enqueue")
    <3>. DEFINE h == [handler[m] EXCEPT !.phase = "enqueue"]
    <3>1. handler' = [handler EXCEPT ![m] = h]
      BY <2>3 DEF Goto
    <3>2. h.phase = "enqueue" /\ h.link = handler[m].link
      BY <1>2 DEF HandlerStates
    <3>3. Asks(h, m, l) <=> Asks(handler[m], m, l)
      BY <2>1, <3>2 DEF Asks
    <3>4. pending = l => ~Asks(handler[m], m, l)
      BY DEF OnePlace, LinkInv
    <3>. HIDE DEF h
    <3>. QED  BY <1>1, <2>1, <3>1, <3>2, <3>3, <3>4, LinkHandedOn
  <2>. QED  BY <2>1, <2>2, <2>3
<1>. QED  BY <1>4, <1>5, <1>6, <1>7, <1>8, <1>9 DEF Handle

\* The job for a link uses up the delivery it had left.
LEMMA JobKeepsPlace ==
  ASSUME TypeInv, OnePlace, NEW l \in Link, NEW m \in Update, EnqueueJob(m)
  PROVE  LinkInv(l, handler', pending', jobs'[l], delivered'[l])
<1>. DEFINE h == [Idle EXCEPT !.phase = "done"]
<1>1. /\ handler' = [handler EXCEPT ![m] = h] /\ handler[m].phase = "enqueue"
      /\ jobs' = [jobs EXCEPT ![handler[m].link] = @ + 1] /\ UNCHANGED <<pending, delivered>>
  BY DEF EnqueueJob, Answer, telegram
<1>2. handler[m].link \in Link
  BY <1>1 DEF TypeInv, TypeOK, LinksInHand
<1>3. h.phase = "done" /\ ~Asks(h, m, l)
  BY DEF Idle, Asks
<1>. HIDE DEF h
<1>4. ASSUME NEW k \in Update
      PROVE  handler'[k] = IF k = m THEN h ELSE handler[k]
  BY <1>1 DEF TypeInv, TypeOK
<1>5. ASSUME NEW k \in Update, Asks(handler'[k], k, l)
      PROVE  k # m /\ Asks(handler[k], k, l)
  BY <1>3, <1>4, <1>5
<1>6. LinkInv(l, handler, pending, jobs[l], delivered[l]) /\ l \in Update
  BY DEF OnePlace, Update
<1>7. jobs[l] \in Nat /\ delivered[l] \in Nat
      /\ jobs'[l] = IF handler[m].link = l THEN jobs[l] + 1 ELSE jobs[l]
  BY <1>1, <1>2, JobsCounted
<1>8. handler'[l].phase = "idle" => handler[l].phase = "idle"
  BY <1>3, <1>4, <1>6
<1>9. CASE handler[m].link = l
  <2>1. Asks(handler[m], m, l)
    BY <1>1, <1>9 DEF Asks
  <2>2. /\ jobs[l] < delivered[l] /\ pending # l /\ handler[l].phase # "idle"
        /\ \A k \in Update : Asks(handler[k], k, l) => k = m
    BY <1>6, <2>1 DEF LinkInv
  <2>3. jobs'[l] <= delivered'[l]
    BY <1>1, <1>7, <1>9, <2>2
  <2>4. \A k \in Update : ~Asks(handler'[k], k, l)
    BY <1>5, <2>2
  <2>. QED  BY <1>1, <1>8, <2>2, <2>3, <2>4 DEF LinkInv
<1>10. CASE handler[m].link # l
  <2>1. jobs'[l] = jobs[l] /\ delivered'[l] = delivered[l] /\ pending' = pending
    BY <1>1, <1>7, <1>10
  <2>. QED  BY <1>5, <1>6, <1>8, <2>1 DEF LinkInv
<1>. QED  BY <1>9, <1>10

\* A link that is delivered is with its handler and nowhere else.
LEMMA DeliveryKeepsPlace ==
  ASSUME TypeInv, OnePlace, NEW l \in Link, NEW m \in Update, Deliver(m)
  PROVE  LinkInv(l, handler', pending', jobs'[l], delivered'[l])
<1>. DEFINE h == IF account.exists THEN Found(m) ELSE [Idle EXCEPT !.phase = "create"]
<1>1. /\ handler' = [handler EXCEPT ![m] = h] /\ handler[m].phase = "idle"
      /\ delivered' = [k \in Link |-> IF k = m THEN delivered[k] + 1 ELSE delivered[k]]
      /\ UNCHANGED <<pending, jobs>>
  BY DEF Deliver, worker
<1>2. h.phase \in {"user", "create"}
  BY FoundTypes DEF Idle
<1>. HIDE DEF h
<1>3. /\ \A k \in Update : handler'[k] = IF k = m THEN h ELSE handler[k]
      /\ delivered'[l] = IF l = m THEN delivered[l] + 1 ELSE delivered[l]
  BY <1>1 DEF TypeInv, TypeOK
<1>4. LinkInv(l, handler, pending, jobs[l], delivered[l]) /\ l \in Update
  BY DEF OnePlace, Update
<1>5. jobs[l] \in Nat /\ delivered[l] \in Nat /\ jobs'[l] = jobs[l]
  BY <1>1, JobsCounted
<1>6. CASE m = l
  <2>1. jobs[l] <= delivered[l] /\ pending # l /\ \A k \in Update : ~Asks(handler[k], k, l)
    BY <1>1, <1>4, <1>6 DEF LinkInv
  <2>2. jobs'[l] < delivered'[l] /\ jobs'[l] <= delivered'[l]
    BY <1>3, <1>4, <1>5, <1>6, <2>1
  <2>3. handler'[l].phase # "idle" /\ \A k \in Update : Asks(handler'[k], k, l) => k = l
    BY <1>2, <1>3, <1>4, <1>6, <2>1
  <2>. QED  BY <1>1, <2>1, <2>2, <2>3 DEF LinkInv
<1>7. CASE m # l
  <2>1. ~Asks(h, m, l) /\ h.phase # "idle"
    BY <1>2, <1>7 DEF Asks
  <2>2. delivered'[l] = delivered[l]
    BY <1>3, <1>4, <1>7
  <2>. QED  BY <1>1, <2>1, <2>2, LinkHandedOn
<1>. QED  BY <1>6, <1>7

\* A link becomes at most one job for each time it is delivered, however often the
\* keyboards are pressed, the bot restarts and handlers overlap: whoever takes a link
\* out of the store before he asks for the job is the only one who has it.
THEOREM OneJobPerDelivery == Spec => []JobsPerDelivery
<1>1. Init => OnePlace
  <2>. SUFFICES ASSUME Init, NEW l \in Link
                PROVE  LinkInv(l, handler, pending, jobs[l], delivered[l])
    BY DEF OnePlace
  <2>1. \A m \in Update : handler[m].phase = "idle" /\ ~Asks(handler[m], m, l)
    BY DEF Init, Idle, Asks, Update
  <2>3. jobs[l] = 0 /\ delivered[l] = 0
    BY DEF Init
  <2>4. pending # l
    BY ConversationConstants DEF Init
  <2>. QED  BY <2>1, <2>3, <2>4 DEF LinkInv
<1>2. TypeInv /\ OnePlace /\ [Next]_vars => OnePlace'
  <2>. SUFFICES ASSUME TypeInv, OnePlace, [Next]_vars, NEW l \in Link
                PROVE  LinkInv(l, handler', pending', jobs'[l], delivered'[l])
    BY DEF OnePlace
  <2>1. LinkInv(l, handler, pending, jobs[l], delivered[l])
    BY DEF OnePlace
  <2>2. CASE Tick \/ ChangePlan \/ Poll \/ UNCHANGED vars
    <3>1. UNCHANGED <<handler, pending, jobs, delivered>>
      BY <2>2 DEF Tick, ChangePlan, Poll, vars, worker, telegram
    <3>. QED  BY <2>1, <3>1
  <2>5. ASSUME NEW s \in Slot, Work(s)
        PROVE  LinkInv(l, handler', pending', jobs'[l], delivered'[l])
    <3>1. UNCHANGED <<handler, pending, jobs, delivered>>
      BY <2>5 DEF Work, BeginJob, CheckQuota, FinishJob, FailJob, telegram
    <3>. QED  BY <2>1, <3>1
  <2>3. CASE Restart
    <3>1. /\ pending' = None /\ UNCHANGED <<delivered, jobs>>
          /\ \A m \in Update : handler'[m].phase \in {"idle", "done"}
      BY <2>3 DEF Restart, Idle, worker
    <3>2. pending' # l /\ jobs'[l] = jobs[l] /\ \A m \in Update : ~Asks(handler'[m], m, l)
      BY <3>1, ConversationConstants DEF Asks
    <3>. QED  BY <2>1, <3>1, <3>2 DEF LinkInv
  <2>4. ASSUME NEW m \in Update, Deliver(m) \/ Handle(m) \/ Fails(m)
        PROVE  LinkInv(l, handler', pending', jobs'[l], delivered'[l])
    BY <2>4, DeliveryKeepsPlace, HandlersKeepPlace, JobKeepsPlace
  <2>. QED  BY <2>2, <2>3, <2>4, <2>5 DEF Next
<1>3. OnePlace => JobsPerDelivery
  BY DEF OnePlace, LinkInv, JobsPerDelivery
<1>. QED  BY <1>1, <1>2, <1>3, InitTypes, NextTypes, PTL DEF Spec

-----------------------------------------------------------------------------
(* The free letters of a day in Moscow. *)

\* A time before the last midnight is on another day, for any length of a day.
LEMMA AnotherDay ==
  ASSUME NEW d \in Nat \ {0}, NEW x \in Nat, NEW y \in Nat, x < y - (y % d)
  PROVE  x \div d # y \div d
<1>1. ASSUME NEW z \in Nat
      PROVE  z = d * (z \div d) + (z % d) /\ z \div d \in Nat /\ z % d \in Nat
  OBVIOUS
<1>. DEFINE p == x \div d
            q == y \div d
            r == x % d
            s == y % d
<1>2. x = d * p + r /\ y = d * q + s /\ p \in Nat /\ q \in Nat /\ r \in Nat /\ s \in Nat
  BY <1>1
<1>3. x < y - s
  OBVIOUS
<1>. HIDE DEF p, q, r, s
<1>4. ASSUME p = q PROVE FALSE
  <2>1. d * p \in Int
    BY <1>2
  <2>. QED  BY <1>2, <1>3, <1>4, <2>1
<1>. QED  BY <1>4 DEF p, q

\* The letters are a sequence, and each has a date.
LEMMA LetterTypes ==
  ASSUME TypeInv
  PROVE  /\ now \in Nat /\ Len(letters) \in Nat /\ DOMAIN letters = 1..Len(letters)
         /\ \A n \in DOMAIN letters : letters[n].at \in Nat
<1>1. letters \in Seq(Letters) /\ now \in Time
  BY DEF TypeInv, TypeOK
<1>2. \A l \in Letters : l.at \in Time
  BY DEF Letters
<1>3. \A n \in DOMAIN letters : letters[n] \in Letters
  BY <1>1
<1>4. \A n \in DOMAIN letters : letters[n].at \in Nat
  BY <1>2, <1>3, ConversationConstants
<1>5. Len(letters) \in Nat /\ DOMAIN letters = 1..Len(letters)
  BY <1>1
<1>6. now \in Nat
  BY <1>1, ConversationConstants
<1>. QED  BY <1>4, <1>5, <1>6

\* No letter since the last midnight in Moscow, no letter of this day in Moscow.
LEMMA NoneToday ==
  ASSUME TypeInv, MadeSince(MoscowMidnight) = 0, NEW n \in DOMAIN letters, letters[n].at <= now
  PROVE  MoscowDay(letters[n].at) # MoscowDay(now)
<1>. DEFINE S == { k \in DOMAIN letters : letters[k].at >= MoscowMidnight }
            a == letters[n].at
<1>1. now \in Nat /\ a \in Nat /\ Len(letters) \in Nat /\ DOMAIN letters = 1..Len(letters)
  BY LetterTypes
<1>2. IsFiniteSet(DOMAIN letters)
  BY LetterTypes, FS_Interval
<1>3. IsFiniteSet(S)
  BY <1>2, FS_Subset
<1>4. S = {}
  BY <1>3, FS_EmptySet DEF MadeSince
<1>5. ~(a >= MoscowMidnight)
  BY <1>4
<1>6. /\ a + MoscowOffset \in Nat /\ now + MoscowOffset \in Nat
      /\ a + MoscowOffset < (now + MoscowOffset) - ((now + MoscowOffset) % Day)
  <2>1. (now + MoscowOffset) % Day \in Int
    BY <1>1, ConversationConstants
  <2>. QED  BY <1>1, <1>5, <2>1, ConversationConstants DEF MoscowMidnight
<1>. QED  BY <1>6, AnotherDay, ConversationConstants DEF MoscowDay

\* No letter and no run is of the future.
InThePast ==
  /\ \A n \in DOMAIN letters : letters[n].at <= now
  /\ \A s \in Slot : runs[s].phase # "free" => runs[s].at <= now

\* The Free letters dated on the day whose letters they have counted, and the runs
\* that are about to become one.
MadeOn(day) ==
  { n \in DOMAIN letters : /\ letters[n].plan = "free"
                           /\ MoscowDay(letters[n].at) = day /\ letters[n].day = day }
DueOn(day) ==
  { s \in Slot : /\ runs[s].phase = "counted" /\ runs[s].plan = "free"
                 /\ MoscowDay(runs[s].at) = day /\ runs[s].day = day }

\* There are no more of both than runs at once: whoever counts and finds none of the
\* day has only runs beside him.
Balanced(made, due) == Cardinality(made) + Cardinality(due) <= Cardinality(Slot)

LettersInv == InThePast /\ \A day \in Nat : Balanced(MadeOn(day), DueOn(day))

\* Letters and runs of a day can be counted.
LEMMA Finite ==
  ASSUME TypeInv, NEW day \in Nat
  PROVE  /\ IsFiniteSet(MadeOn(day)) /\ IsFiniteSet(DueOn(day))
         /\ Cardinality(MadeOn(day)) \in Nat /\ Cardinality(DueOn(day)) \in Nat
         /\ Cardinality(Slot) \in Nat
<1>1. IsFiniteSet(DOMAIN letters)
  BY LetterTypes, FS_Interval
<1>2. IsFiniteSet(MadeOn(day))
  BY <1>1, FS_Subset DEF MadeOn
<1>3. IsFiniteSet(DueOn(day)) /\ IsFiniteSet(Slot)
  BY ConversationConstants, FS_Subset DEF DueOn
<1>. QED  BY <1>2, <1>3, FS_CardinalityType

\* Fewer runs that are about to become a letter do no harm.
LEMMA FewerDue ==
  ASSUME TypeInv, LettersInv, NEW day \in Nat, UNCHANGED letters, DueOn(day)' \subseteq DueOn(day)
  PROVE  Balanced(MadeOn(day), DueOn(day))'
<1>1. MadeOn(day)' = MadeOn(day)
  BY DEF MadeOn, MoscowDay
<1>2. Cardinality(DueOn(day)') <= Cardinality(DueOn(day)) /\ Cardinality(DueOn(day)') \in Nat
  BY Finite, FS_Subset, FS_CardinalityType
<1>. QED  BY <1>1, <1>2, Finite DEF LettersInv, Balanced

\* Begun, refused, failed: a slot whose run is not about to become a letter.
LEMMA NotDue ==
  ASSUME TypeInv, LettersInv, NEW s \in Slot, NEW run, runs' = [runs EXCEPT ![s] = run],
         UNCHANGED letters,
         run.phase # "counted" \/ run.plan # "free"
  PROVE  \A day \in Nat : Balanced(MadeOn(day), DueOn(day))'
<1>1. ASSUME NEW k \in Slot
      PROVE  runs'[k] = IF k = s THEN run ELSE runs[k]
  BY DEF TypeInv, TypeOK, RunsTyped
<1>2. ASSUME NEW day \in Nat PROVE DueOn(day)' \subseteq DueOn(day)
  BY <1>1 DEF DueOn, MoscowDay
<1>. QED  BY <1>2, FewerDue

\* A run is dated when it begins, its letter as the run.
LEMMA WorkInThePast ==
  ASSUME TypeInv, InThePast, NEW s \in Slot, Work(s)
  PROVE  InThePast'
<1>1. now \in Nat /\ now' = now
  BY LetterTypes DEF Work, BeginJob, CheckQuota, FinishJob, FailJob
<1>2. ASSUME NEW run, runs' = [runs EXCEPT ![s] = run],
             run.phase # "free" => run.at <= now, UNCHANGED letters
      PROVE  InThePast'
  <2>1. ASSUME NEW k \in Slot PROVE runs'[k] = IF k = s THEN run ELSE runs[k]
    BY <1>2 DEF TypeInv, TypeOK, RunsTyped
  <2>. QED  BY <1>1, <1>2, <2>1 DEF InThePast
<1>3. NoRun.phase = "free"
  BY DEF NoRun
<1>4. CASE BeginJob(s)
  <2>. DEFINE run == [phase |-> "begun", plan |-> plan, at |-> now, day |-> None]
  <2>1. run.at <= now /\ runs' = [runs EXCEPT ![s] = run] /\ UNCHANGED letters
    BY <1>1, <1>4 DEF BeginJob
  <2>. HIDE DEF run
  <2>. QED  BY <1>2, <2>1
<1>5. CASE FailJob(s)
  BY <1>2, <1>3, <1>5 DEF FailJob
<1>6. CASE CheckQuota(s)
  <2>1. runs[s].phase = "begun" /\ runs[s] \in Runs /\ UNCHANGED letters
    BY <1>6 DEF CheckQuota, TypeInv, TypeOK, RunsTyped
  <2>2. runs[s].at <= now
    BY <2>1 DEF InThePast
  <2>3. CASE runs' = [runs EXCEPT ![s].phase = "counted"]
    <3>. DEFINE run == [runs[s] EXCEPT !.phase = "counted"]
    <3>1. run.at = runs[s].at
      BY <2>1 DEF Runs
    <3>2. runs' = [runs EXCEPT ![s] = run]
      BY <2>3
    <3>. HIDE DEF run
    <3>. QED  BY <1>2, <2>1, <2>2, <3>1, <3>2
  <2>4. CASE runs' = [runs EXCEPT ![s].phase = "counted", ![s].day = MoscowDay(now)]
    <3>. DEFINE today == MoscowDay(now)
                run == [runs[s] EXCEPT !.phase = "counted", !.day = today]
    <3>1. runs' = [runs EXCEPT ![s] = run]
      BY <2>4
    <3>. HIDE DEF today
    <3>2. run.at = runs[s].at
      BY <2>1 DEF Runs
    <3>. HIDE DEF run
    <3>. QED  BY <1>2, <2>1, <2>2, <3>1, <3>2
  <2>5. CASE runs' = [runs EXCEPT ![s] = NoRun]
    BY <1>2, <1>3, <2>1, <2>5
  <2>. QED  BY <1>6, <2>3, <2>4, <2>5 DEF CheckQuota
<1>7. CASE FinishJob(s)
  <2>. DEFINE l == [at |-> runs[s].at, day |-> runs[s].day, plan |-> runs[s].plan]
  <2>1. letters' = Append(letters, l) /\ runs' = [runs EXCEPT ![s] = NoRun]
        /\ runs[s].phase = "counted" /\ letters \in Seq(Letters)
    BY <1>7 DEF FinishJob, TypeInv, TypeOK
  <2>2. l.at <= now
    BY <2>1 DEF InThePast
  <2>. HIDE DEF l
  <2>3. ASSUME NEW n \in DOMAIN letters'
        PROVE  letters'[n] = l \/ (n \in DOMAIN letters /\ letters'[n] = letters[n])
    BY <2>1
  <2>4. ASSUME NEW k \in Slot PROVE runs'[k] = IF k = s THEN NoRun ELSE runs[k]
    BY <2>1 DEF TypeInv, TypeOK, RunsTyped
  <2>. QED  BY <1>1, <1>3, <2>2, <2>3, <2>4 DEF InThePast
<1>. QED  BY <1>4, <1>5, <1>6, <1>7 DEF Work

\* Whoever counts on Free finds no letter of the day: then there are at most the runs.
LEMMA CheckKeepsBalance ==
  ASSUME TypeInv, LettersInv, NEW s \in Slot, CheckQuota(s)
  PROVE  \A day \in Nat : Balanced(MadeOn(day), DueOn(day))'
<1>1. runs[s] \in Runs /\ UNCHANGED letters /\ now' = now
  BY DEF CheckQuota, TypeInv, TypeOK, RunsTyped
<1>2. NoRun.phase = "free"
  BY DEF NoRun
<1>3. CASE runs' = [runs EXCEPT ![s] = NoRun]
  BY <1>1, <1>2, <1>3, NotDue
<1>4. CASE runs[s].plan = "paid" /\ runs' = [runs EXCEPT ![s].phase = "counted"]
  <2>. DEFINE run == [runs[s] EXCEPT !.phase = "counted"]
  <2>1. run.plan = "paid" /\ runs' = [runs EXCEPT ![s] = run]
    BY <1>1, <1>4 DEF Runs
  <2>. HIDE DEF run
  <2>. QED  BY <1>1, <2>1, NotDue
<1>5. CASE /\ MadeSince(MoscowMidnight) = 0
           /\ runs' = [runs EXCEPT ![s].phase = "counted", ![s].day = MoscowDay(now)]
  <2>. DEFINE today == MoscowDay(now)
              run == [runs[s] EXCEPT !.phase = "counted", !.day = today]
  <2>1. MadeOn(today) = {}
    <3>1. ASSUME NEW n \in DOMAIN letters PROVE MoscowDay(letters[n].at) # MoscowDay(now)
      BY <1>5, NoneToday DEF LettersInv, InThePast
    <3>. QED  BY <3>1 DEF MadeOn
  <2>2. runs' = [runs EXCEPT ![s] = run]
    BY <1>5
  <2>. HIDE DEF today
  <2>3. run.day = today
    BY <1>1 DEF Runs
  <2>. HIDE DEF run
  <2>4. ASSUME NEW k \in Slot PROVE runs'[k] = IF k = s THEN run ELSE runs[k]
    BY <2>2 DEF TypeInv, TypeOK, RunsTyped
  <2>5. ASSUME NEW day \in Nat, day # today
        PROVE  Balanced(MadeOn(day), DueOn(day))'
    <3>1. DueOn(day)' \subseteq DueOn(day)
      BY <2>3, <2>4, <2>5 DEF DueOn, MoscowDay
    <3>. QED  BY <1>1, <3>1, FewerDue
  <2>6. ASSUME NEW day \in Nat, day = today
        PROVE  Balanced(MadeOn(day), DueOn(day))'
    <3>1. MadeOn(day)' = {}
      <4>1. MadeOn(day)' = MadeOn(day)
        BY <1>1 DEF MadeOn, MoscowDay
      <4>. QED  BY <2>1, <2>6, <4>1
    <3>2. DueOn(day)' \subseteq Slot
      BY DEF DueOn
    <3>3. Cardinality(DueOn(day)') <= Cardinality(Slot) /\ Cardinality(DueOn(day)') \in Nat
      BY <3>2, ConversationConstants, FS_Subset, FS_CardinalityType
    <3>4. Cardinality({}) = 0
      BY FS_EmptySet
    <3>. QED  BY <3>1, <3>3, <3>4 DEF Balanced
  <2>. QED  BY <2>5, <2>6
<1>. QED  BY <1>3, <1>4, <1>5 DEF CheckQuota

\* A letter that is committed was due before.
LEMMA FinishKeepsBalance ==
  ASSUME TypeInv, LettersInv, NEW s \in Slot, FinishJob(s)
  PROVE  \A day \in Nat : Balanced(MadeOn(day), DueOn(day))'
<1>. DEFINE l == [at |-> runs[s].at, day |-> runs[s].day, plan |-> runs[s].plan]
            N == Len(letters) + 1
<1>1. letters' = Append(letters, l) /\ runs' = [runs EXCEPT ![s] = NoRun]
      /\ runs[s].phase = "counted" /\ letters \in Seq(Letters)
  BY DEF FinishJob, TypeInv, TypeOK
<1>2. l.at = runs[s].at /\ l.day = runs[s].day /\ l.plan = runs[s].plan /\ NoRun.phase = "free"
  BY DEF NoRun
<1>. HIDE DEF l
<1>3. /\ DOMAIN letters = 1..Len(letters) /\ DOMAIN letters' = 1..N /\ Len(letters) \in Nat
      /\ letters'[N] = l /\ \A n \in 1..Len(letters) : letters'[n] = letters[n]
  BY <1>1
<1>4. ASSUME NEW k \in Slot PROVE runs'[k] = IF k = s THEN NoRun ELSE runs[k]
  BY <1>1 DEF TypeInv, TypeOK, RunsTyped
<1>5. ASSUME NEW day \in Nat PROVE Balanced(MadeOn(day), DueOn(day))'
  <2>1. DueOn(day)' = DueOn(day) \ {s}
    BY <1>2, <1>4 DEF DueOn, MoscowDay
  <2>2. MadeOn(day)' = IF s \in DueOn(day) THEN MadeOn(day) \cup {N} ELSE MadeOn(day)
    <3>1. s \in DueOn(day) <=>
            l.plan = "free" /\ MoscowDay(l.at) = day /\ l.day = day
      BY <1>1, <1>2 DEF DueOn
    <3>2. \A n : n \in DOMAIN letters' <=> n = N \/ n \in DOMAIN letters
      BY <1>3
    <3>. HIDE DEF N
    <3>. QED  BY <1>3, <3>1, <3>2 DEF MadeOn, MoscowDay
  <2>3. CASE s \in DueOn(day)
    <3>1. N \notin MadeOn(day)
      BY <1>3 DEF MadeOn
    <3>2. Cardinality(MadeOn(day)') = Cardinality(MadeOn(day)) + 1
      BY <2>2, <2>3, <3>1, Finite, FS_AddElement
    <3>3. Cardinality(DueOn(day)') = Cardinality(DueOn(day)) - 1
      BY <2>1, <2>3, Finite, FS_RemoveElement
    <3>. QED  BY <3>2, <3>3, Finite DEF LettersInv, Balanced
  <2>4. CASE s \notin DueOn(day)
    <3>1. DueOn(day)' = DueOn(day) /\ MadeOn(day)' = MadeOn(day)
      BY <2>1, <2>2, <2>4
    <3>. QED  BY <3>1 DEF LettersInv, Balanced
  <2>. QED  BY <2>3, <2>4
<1>. QED  BY <1>5

\* No step makes more Free letters of a day, made and due, than there are slots.
LEMMA NextLetters ==
  ASSUME TypeInv, LettersInv, [Next]_vars
  PROVE  LettersInv'
<1>1. now \in Nat /\ \A n \in DOMAIN letters : letters[n].at \in Nat
  BY LetterTypes
<1>2. ASSUME UNCHANGED <<letters, runs>>, now' = now \/ now' = now + 1
      PROVE  LettersInv'
  <2>1. ASSUME NEW s \in Slot, runs[s].phase # "free" PROVE runs[s].at \in Nat
    BY <2>1, ConversationConstants DEF TypeInv, TypeOK, RunsTyped, Runs
  <2>2. InThePast'
    BY <1>1, <1>2, <2>1 DEF LettersInv, InThePast
  <2>3. ASSUME NEW day \in Nat PROVE Balanced(MadeOn(day), DueOn(day))'
    <3>1. DueOn(day)' = DueOn(day)
      BY <1>2 DEF DueOn, MoscowDay
    <3>. QED  BY <1>2, <3>1, FewerDue
  <2>. QED  BY <2>2, <2>3 DEF LettersInv
<1>3. CASE Tick \/ ChangePlan \/ Poll \/ Restart \/ UNCHANGED vars
  <2>1. UNCHANGED <<letters, runs>> /\ (now' = now \/ now' = now + 1)
    BY <1>3 DEF Tick, ChangePlan, Poll, Restart, vars, worker
  <2>. QED  BY <1>2, <2>1
<1>4. ASSUME NEW m \in Update, Deliver(m) \/ Handle(m) \/ Fails(m)
      PROVE  LettersInv'
  <2>1. UNCHANGED <<now, letters, runs>>
    BY <1>4 DEF Deliver, Handle, Fails, CreateUser, SaveResume, CreateProfile, UpdateProfile,
       HandleVacancyUrl, ToneCallback, MayEnqueue, EnqueueJob, worker
  <2>. QED  BY <1>2, <2>1
<1>5. ASSUME NEW s \in Slot, Work(s)
      PROVE  LettersInv'
  <2>1. InThePast'
    BY <1>5, WorkInThePast DEF LettersInv
  <2>2. CASE BeginJob(s)
    <3>. DEFINE run == [phase |-> "begun", plan |-> plan, at |-> now, day |-> None]
    <3>1. run.phase # "counted" /\ runs' = [runs EXCEPT ![s] = run] /\ UNCHANGED letters
      BY <2>2 DEF BeginJob
    <3>. HIDE DEF run
    <3>. QED  BY <2>1, <3>1, NotDue DEF LettersInv
  <2>3. CASE FailJob(s)
    <3>1. NoRun.phase # "counted" /\ runs' = [runs EXCEPT ![s] = NoRun] /\ UNCHANGED letters
      BY <2>3 DEF FailJob, NoRun
    <3>. QED  BY <2>1, <3>1, NotDue DEF LettersInv
  <2>4. CASE CheckQuota(s)
    BY <2>1, <2>4, CheckKeepsBalance DEF LettersInv
  <2>5. CASE FinishJob(s)
    BY <2>1, <2>5, FinishKeepsBalance DEF LettersInv
  <2>. QED  BY <1>5, <2>2, <2>3, <2>4, <2>5 DEF Work
<1>. QED  BY <1>3, <1>4, <1>5 DEF Next

\* The Free letters of a day in Moscow are no more than the jobs that run at once,
\* whatever the bot, which counts by another day, lets through: for any number of
\* slots, any length of a day and any offset.  With one slot that is one letter a day.
THEOREM FreeLettersBounded == Spec => []FreeLettersADay
<1>1. Init => LettersInv
  <2>. SUFFICES ASSUME Init PROVE LettersInv
    OBVIOUS
  <2>1. letters = <<>> /\ \A s \in Slot : runs[s].phase = "free"
    BY DEF Init, NoRun
  <2>2. ASSUME NEW day \in Nat PROVE MadeOn(day) = {} /\ DueOn(day) = {}
    BY <2>1 DEF MadeOn, DueOn
  <2>3. Cardinality({}) = 0 /\ Cardinality(Slot) \in Nat
    BY FS_EmptySet, FS_CardinalityType, ConversationConstants
  <2>4. InThePast
    BY <2>1 DEF InThePast
  <2>5. ASSUME NEW day \in Nat PROVE Balanced(MadeOn(day), DueOn(day))
    BY <2>2, <2>3 DEF Balanced
  <2>. QED  BY <2>4, <2>5 DEF LettersInv
<1>2. TypeInv /\ LettersInv /\ [Next]_vars => LettersInv'
  BY NextLetters
<1>3. TypeInv /\ LettersInv => FreeLettersADay
  <2>. SUFFICES ASSUME TypeInv, LettersInv, NEW day \in 0..MoscowDay(now)
                PROVE  Cardinality(MadeOn(day)) <= Cardinality(Slot)
    BY DEF FreeLettersADay, MadeOn
  <2>1. day \in Nat
    OBVIOUS
  <2>. QED  BY <2>1, Finite DEF LettersInv, Balanced
<1>. QED  BY <1>1, <1>2, <1>3, InitTypes, NextTypes, PTL DEF Spec

=============================================================================

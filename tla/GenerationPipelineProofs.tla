----------------------- MODULE GenerationPipelineProofs -----------------------
(***************************************************************************)
(* Theorems about GenerationPipeline, for any number of users, clients,    *)
(* worker slots, jobs and requests, any balance, cost and limit, and any   *)
(* number of crashes unless a theorem says without.                        *)
(***************************************************************************)
EXTENDS GenerationPipeline, SequenceTheorems, TLAPS

Rows    == [owner: User \cup {None}, status: Statuses]
Jobs    == [state: {"free", "queued", "running", "done"}, user: User \cup {None},
            request: Request \cup {None}, tries: 0..MaxTries, result: Results]
Clients == [phase: {"idle", "api", "bot", "enqueued"}, user: User \cup {None},
            request: Request \cup {None}]
Works   == [phase: {"idle", "begun", "loaded", "saved", "committed"},
            job: Job \cup {None}, request: Request \cup {None}]

\* Letters and charges are written by one action, so one count serves for both.
LetterIffCharge == \A r \in Request : letters[r] = spends[r]

TypeInv == TypeOK /\ LetterIffCharge

-----------------------------------------------------------------------------
(* What holds while no worker has crashed. *)

\* The transaction of w is open.
Holding(w) == work[w].phase \in {"begun", "loaded", "saved"}

\* A slot runs a job no other slot runs.  Its open transaction works on the
\* pending request of the job, or on one of its own that no job knows.
WorkInv ==
  \A w \in Worker :
    /\ work[w].phase # "idle" =>
         /\ work[w].job \in Job /\ jobs[work[w].job].state = "running"
         /\ \A v \in Worker \ {w} : work[v].phase # "idle" => work[v].job # work[w].job
    /\ Holding(w) => jobs[work[w].job].result = "none"
    /\ Holding(w) /\ jobs[work[w].job].request # None =>
         /\ work[w].request = jobs[work[w].job].request
         /\ requests[work[w].request].status = "pending"
    /\ work[w].phase = "begun" /\ jobs[work[w].job].request = None => work[w].request = None
    /\ work[w].phase \in {"loaded", "saved"} => work[w].request \in Request
    /\ work[w].phase \in {"loaded", "saved"} /\ jobs[work[w].job].request = None =>
         /\ requests[work[w].request].status = "reserved"
         /\ \A j \in Job : jobs[j].request # work[w].request
         /\ \A v \in Worker \ {w} : Holding(v) => work[v].request # work[w].request

\* A client that has enqueued a job reserves its request, and nobody else does.
ClientInv ==
  \A c \in Client :
    /\ client[c].phase # "enqueued" => client[c].request = None
    /\ client[c].phase = "enqueued" =>
         /\ client[c].request \in Request
         /\ requests[client[c].request].status = "reserved"
         /\ \E j \in Job : jobs[j].request = client[c].request
         /\ \A d \in Client \ {c} : client[d].request # client[c].request

\* A request has one job; until the job is run it is pending at most, and where
\* hh.ru failed it is failed.
JobInv ==
  \A j \in Job :
    /\ jobs[j].state = "free" => jobs[j].request = None
    /\ jobs[j].request # None =>
         /\ \A i \in Job \ {j} : jobs[i].request # jobs[j].request
         /\ requests[jobs[j].request].status # "absent"
         /\ jobs[j].state = "queued" =>
              requests[jobs[j].request].status \in {"reserved", "unused", "pending"}
         /\ jobs[j].result = "hh_error" => requests[jobs[j].request].status = "failed"

LetterInv == \A r \in Request : letters[r] = IF requests[r].status = "succeeded" THEN 1 ELSE 0

Undisturbed == WorkInv /\ ClientInv /\ JobInv /\ LetterInv

IInv == TypeInv /\ (crashes = 0 => Undisturbed)

-----------------------------------------------------------------------------
(* Types. *)

LEMMA Typed ==
  ASSUME TypeOK
  PROVE  /\ credits \in [User -> Nat] /\ requests \in [Request -> Rows]
         /\ letters \in [Request -> Nat] /\ spends \in [Request -> Nat]
         /\ jobs \in [Job -> Jobs] /\ queue \in Seq(Job)
         /\ client \in [Client -> Clients] /\ work \in [Worker -> Works]
         /\ crashes \in 0..MaxCrashes
BY DEF TypeOK, Rows, Jobs, Clients, Works

LEMMA InitTypes == Init => IInv
<1>. SUFFICES ASSUME Init PROVE IInv
  OBVIOUS
<1>1. TypeOK
  <2>1. NoJob \in Jobs /\ NoClient \in Clients /\ NoWork \in Works
    BY PipelineConstants DEF NoJob, NoClient, NoWork, Jobs, Clients, Works, Results
  <2>2. crashes \in 0..MaxCrashes /\ queue \in Seq(Job)
    BY PipelineConstants DEF Init
  <2>3. credits \in [User -> Nat] /\ requests \in [Request -> Rows]
        /\ letters \in [Request -> Nat] /\ spends \in [Request -> Nat]
    BY PipelineConstants DEF Init, Rows, Statuses
  <2>4. jobs \in [Job -> Jobs] /\ client \in [Client -> Clients] /\ work \in [Worker -> Works]
    BY <2>1 DEF Init
  <2>. QED  BY <2>2, <2>3, <2>4 DEF TypeOK, Rows, Jobs, Clients, Works
<1>2. Undisturbed
  BY DEF Init, Undisturbed, WorkInv, ClientInv, JobInv, LetterInv, Holding, NoJob, NoClient, NoWork
<1>. QED  BY <1>1, <1>2 DEF IInv, TypeInv, LetterIffCharge, Init

\* What Rollback and SetStatus do to the rows.
LEMMA RollbackRows ==
  ASSUME TypeOK, NEW r, Rollback(r)
  PROVE  /\ requests' \in [Request -> Rows]
         /\ \A q \in Request : q # r => requests'[q] = requests[q]
         /\ \A q \in Request :
              requests'[q].status = IF q = r /\ r # None /\ requests[q].status = "reserved"
                                    THEN "unused" ELSE requests[q].status
<1>1. requests \in [Request -> Rows]
  BY Typed
<1>2. CASE r # None /\ requests[r].status = "reserved"
  BY <1>1, <1>2 DEF Rollback, SetStatus, Rows, Statuses
<1>3. CASE ~(r # None /\ requests[r].status = "reserved")
  BY <1>1, <1>3 DEF Rollback
<1>. QED  BY <1>2, <1>3

LEMMA SetStatusRows ==
  ASSUME TypeOK, NEW r, NEW status \in Statuses, SetStatus(r, status)
  PROVE  /\ requests' \in [Request -> Rows]
         /\ \A q \in Request : q # r => requests'[q] = requests[q]
         /\ \A q \in Request : requests'[q].status = IF q = r THEN status ELSE requests[q].status
BY Typed DEF SetStatus, Rows

LEMMA ReserveRows ==
  ASSUME TypeOK, NEW r \in Request, NEW u \in User \cup {None}, Reserve(r, u)
  PROVE  /\ requests' \in [Request -> Rows] /\ requests[r].status = "absent"
         /\ \A q \in Request : q # r => requests'[q] = requests[q]
         /\ requests'[r].status = "reserved"
BY Typed DEF Reserve, Rows, Statuses

\* What Finished and Enqueue do to the jobs.
LEMMA FinishedJobs ==
  ASSUME TypeOK, NEW j, NEW result \in Results, Finished(j, result)
  PROVE  /\ jobs' \in [Job -> Jobs] /\ queue' \in Seq(Job)
         /\ \A i \in Job : /\ jobs'[i].request = jobs[i].request
                           /\ i # j => jobs'[i] = jobs[i]
                           /\ i = j => jobs'[i].state = "done" /\ jobs'[i].result = result
<1>1. jobs \in [Job -> Jobs] /\ queue \in Seq(Job)
      /\ jobs' = [jobs EXCEPT ![j].state = "done", ![j].result = result]
  BY Typed DEF Finished
<1>2. ASSUME NEW i \in Job
      PROVE  /\ jobs'[i] \in Jobs
             /\ jobs'[i].request = jobs[i].request
             /\ i # j => jobs'[i] = jobs[i]
             /\ i = j => jobs'[i].state = "done" /\ jobs'[i].result = result
  BY <1>1 DEF Jobs
<1>3. PICK n \in DOMAIN queue : queue' = RemoveAt(queue, n)
  BY DEF Finished
<1>4. n \in 1..Len(queue)
  BY <1>1, <1>3
<1>5. SubSeq(queue, 1, n - 1) \in Seq(Job) /\ SubSeq(queue, n + 1, Len(queue)) \in Seq(Job)
  BY <1>1, <1>4, SubSeqProperties
<1>6. queue' \in Seq(Job)
  BY <1>3, <1>5, ConcatProperties DEF RemoveAt
<1>. QED  BY <1>1, <1>2, <1>6

LEMMA EnqueueJobs ==
  ASSUME TypeOK, NEW u \in User \cup {None}, NEW r \in Request \cup {None}, Enqueue(u, r)
  PROVE  /\ jobs' \in [Job -> Jobs] /\ queue' \in Seq(Job)
         /\ \E j \in Job :
              /\ jobs[j].state = "free"
              /\ jobs'[j].state = "queued" /\ jobs'[j].request = r /\ jobs'[j].result = "none"
              /\ \A i \in Job \ {j} : jobs'[i] = jobs[i]
<1>1. PICK j \in Job :
        /\ jobs[j].state = "free"
        /\ jobs' = [jobs EXCEPT ![j] = [NoJob EXCEPT !.state = "queued", !.user = u, !.request = r]]
        /\ queue' = Append(queue, j)
  BY DEF Enqueue
<1>. DEFINE h == [NoJob EXCEPT !.state = "queued", !.user = u, !.request = r]
<1>2. h \in Jobs /\ h.state = "queued" /\ h.request = r /\ h.result = "none"
  <2>1. 0 \in 0..MaxTries
    BY PipelineConstants
  <2>. QED  BY <2>1 DEF NoJob, Jobs, Results
<1>. HIDE DEF h
<1>3. jobs' = [jobs EXCEPT ![j] = h] /\ jobs \in [Job -> Jobs] /\ queue \in Seq(Job)
  BY <1>1, Typed DEF h
<1>4. queue' \in Seq(Job)
  BY <1>1, <1>3, AppendProperties
<1>. QED  BY <1>1, <1>2, <1>3, <1>4

\* The slot of w, or the client c, goes on to x.
LEMMA WorkTo ==
  ASSUME TypeOK, NEW w \in Worker, NEW x \in Works, work' = [work EXCEPT ![w] = x]
  PROVE  /\ work' \in [Worker -> Works]
         /\ \A v \in Worker : work'[v] = IF v = w THEN x ELSE work[v]
BY Typed

LEMMA ClientTo ==
  ASSUME TypeOK, NEW c \in Client, NEW x \in Clients, client' = [client EXCEPT ![c] = x]
  PROVE  /\ client' \in [Client -> Clients]
         /\ \A d \in Client : client'[d] = IF d = c THEN x ELSE client[d]
BY Typed

LEMMA Nothing ==
  NoClient \in Clients /\ NoWork \in Works /\ NoWork.phase = "idle" /\ NoClient.phase = "idle"
  /\ NoWork.request = None /\ NoClient.request = None
BY DEF NoClient, NoWork, Clients, Works

-----------------------------------------------------------------------------
(* Clients. *)

LEMMA CheckStep ==
  ASSUME IInv, NEW c \in Client, Check(c)
  PROVE  IInv'
<1>1. PICK u \in User, ch \in Channels :
        client' = [client EXCEPT ![c] = [NoClient EXCEPT !.phase = ch, !.user = u]]
  BY DEF Check
<1>. DEFINE x == [NoClient EXCEPT !.phase = ch, !.user = u]
<1>2. x \in Clients /\ x.phase \in {"api", "bot"} /\ x.request = None
  BY PipelineConstants DEF NoClient, Clients
<1>. HIDE DEF x
<1>3. client' = [client EXCEPT ![c] = x] /\ client[c].phase = "idle" /\ TypeOK
      /\ UNCHANGED <<credits, requests, letters, spends, jobs, queue, work, crashes>>
  BY <1>1 DEF Check, store, arq, x, IInv, TypeInv
<1>4. client' \in [Client -> Clients] /\ \A d \in Client : client'[d] = IF d = c THEN x ELSE client[d]
  BY <1>2, <1>3, ClientTo
<1>5. TypeInv'
  BY <1>3, <1>4, Typed DEF IInv, TypeInv, TypeOK, LetterIffCharge, Rows, Jobs, Clients, Works
<1>6. ASSUME Undisturbed PROVE Undisturbed'
  <2>1. WorkInv' /\ JobInv' /\ LetterInv'
    BY <1>3, <1>6 DEF Undisturbed, WorkInv, JobInv, LetterInv, Holding
  <2>2. ClientInv'
    <3>1. None \notin Request
      BY PipelineConstants
    <3>. QED  BY <1>2, <1>3, <1>4, <1>6, <3>1 DEF Undisturbed, ClientInv
  <2>. QED  BY <2>1, <2>2 DEF Undisturbed
<1>. QED  BY <1>3, <1>5, <1>6 DEF IInv

LEMMA ApiEnqueueStep ==
  ASSUME IInv, NEW c \in Client, ApiEnqueue(c)
  PROVE  IInv'
<1>1. PICK r \in Request :
        /\ Reserve(r, client[c].user)
        /\ Enqueue(client[c].user, r)
        /\ client' = [client EXCEPT ![c].phase = "enqueued", ![c].request = r]
  BY DEF ApiEnqueue
<1>. DEFINE x == [client[c] EXCEPT !.phase = "enqueued", !.request = r]
<1>2. TypeOK /\ client[c] \in Clients /\ client[c].user \in User \cup {None}
      /\ client[c].phase = "api" /\ UNCHANGED <<credits, letters, spends, work, crashes>>
  BY Typed DEF IInv, TypeInv, Clients, ApiEnqueue
<1>3. x \in Clients /\ x.phase = "enqueued" /\ x.request = r /\ client' = [client EXCEPT ![c] = x]
  BY <1>1, <1>2 DEF Clients
<1>. HIDE DEF x
<1>4. client' \in [Client -> Clients] /\ \A d \in Client : client'[d] = IF d = c THEN x ELSE client[d]
  BY <1>2, <1>3, ClientTo
<1>5. /\ requests' \in [Request -> Rows] /\ requests[r].status = "absent"
      /\ \A q \in Request : q # r => requests'[q] = requests[q]
      /\ requests'[r].status = "reserved"
  BY <1>1, <1>2, ReserveRows
<1>6. jobs' \in [Job -> Jobs] /\ queue' \in Seq(Job)
  BY <1>1, <1>2, EnqueueJobs
<1>7. PICK j \in Job :
        /\ jobs[j].state = "free"
        /\ jobs'[j].state = "queued" /\ jobs'[j].request = r /\ jobs'[j].result = "none"
        /\ \A i \in Job \ {j} : jobs'[i] = jobs[i]
  BY <1>1, <1>2, EnqueueJobs
<1>8. TypeInv'
  BY <1>2, <1>4, <1>5, <1>6, Typed
     DEF IInv, TypeInv, TypeOK, LetterIffCharge, Rows, Jobs, Clients, Works
<1>9. ASSUME Undisturbed PROVE Undisturbed'
  <2>. USE <1>9 DEF Undisturbed
  <2>1. None \notin Request /\ \A i \in Job : jobs[i].request \in Request \cup {None}
    BY <1>2, Typed, PipelineConstants DEF Jobs
  <2>2. \A i \in Job : jobs[i].request # r
    BY <1>5, <2>1 DEF JobInv
  <2>3. \A w \in Worker : work[w].phase # "idle" => work[w].job \in Job \ {j}
    BY <1>7 DEF WorkInv
  <2>4. \A w \in Worker : Holding(w) => work[w].request # r
    BY <1>5, <2>1, <2>3 DEF WorkInv, Holding
  <2>5. WorkInv'
    <3>1. ASSUME NEW w \in Worker, work[w].phase # "idle"
          PROVE  jobs'[work[w].job] = jobs[work[w].job]
      BY <1>7, <2>3, <3>1
    <3>2. ASSUME NEW w \in Worker, Holding(w), work[w].request # None
          PROVE  requests'[work[w].request] = requests[work[w].request]
      <4>1. work[w].request \in Request
        BY <1>2, <3>2, Typed DEF Works
      <4>. QED  BY <1>5, <2>4, <3>2, <4>1
    <3>. QED  BY <1>2, <1>7, <2>1, <2>4, <3>1, <3>2 DEF WorkInv, Holding
  <2>6. ClientInv'
    <3>1. ASSUME NEW d \in Client, client[d].phase = "enqueued"
          PROVE  d # c /\ client[d].request # r /\ requests'[client[d].request] = requests[client[d].request]
      BY <1>2, <1>5, <3>1 DEF ClientInv
    <3>2. ASSUME NEW d \in Client, client[d].phase = "enqueued"
          PROVE  \E i \in Job : jobs'[i].request = client[d].request
      <4>1. PICK i \in Job : jobs[i].request = client[d].request
        BY <3>2 DEF ClientInv
      <4>2. i # j
        BY <1>7, <2>1, <3>2, <4>1 DEF ClientInv, JobInv
      <4>. QED  BY <1>7, <4>1, <4>2
    <3>3. \A d \in Client : client[d].request # r
      BY <2>1, <3>1 DEF ClientInv
    <3>. QED  BY <1>3, <1>4, <1>5, <1>7, <3>1, <3>2, <3>3 DEF ClientInv
  <2>7. JobInv'
    <3>1. ASSUME NEW i \in Job \ {j}
          PROVE  /\ jobs'[i] = jobs[i]
                 /\ jobs[i].request # None => requests'[jobs[i].request] = requests[jobs[i].request]
      BY <1>5, <1>7, <2>1, <2>2
    <3>. QED  BY <1>5, <1>7, <2>2, <3>1 DEF JobInv
  <2>8. LetterInv'
    BY <1>2, <1>5 DEF LetterInv
  <2>. QED  BY <2>5, <2>6, <2>7, <2>8
<1>. QED  BY <1>2, <1>8, <1>9 DEF IInv

\* The reserved request of a client is in no slot, and no job that was run has it.
LEMMA ClientsOwn ==
  ASSUME TypeOK, Undisturbed, NEW c \in Client, client[c].phase = "enqueued"
  PROVE  /\ client[c].request \in Request /\ requests[client[c].request].status = "reserved"
         /\ \A w \in Worker : Holding(w) => work[w].request # client[c].request
         /\ \A d \in Client \ {c} : client[d].request # client[c].request
         /\ \A j \in Job : jobs[j].request = client[c].request => jobs[j].result # "hh_error"
<1>. USE DEF Undisturbed
<1>1. /\ client[c].request \in Request /\ requests[client[c].request].status = "reserved"
      /\ \A d \in Client \ {c} : client[d].request # client[c].request
      /\ \E j \in Job : jobs[j].request = client[c].request
  BY DEF ClientInv
<1>2. None \notin Request
  BY PipelineConstants
<1>3. ASSUME NEW w \in Worker, Holding(w) PROVE work[w].request # client[c].request
  BY <1>1, <1>2, <1>3 DEF WorkInv, Holding
<1>4. \A j \in Job : jobs[j].request = client[c].request => jobs[j].result # "hh_error"
  BY <1>1, <1>2 DEF JobInv
<1>. QED  BY <1>1, <1>3, <1>4

\* A client commits its request, or gives it up.
LEMMA ClientEnds ==
  ASSUME TypeInv, Undisturbed, NEW c \in Client, client[c].phase = "enqueued",
         client' = [client EXCEPT ![c] = NoClient],
         UNCHANGED <<credits, letters, spends, jobs, queue, work, crashes>>,
         NEW status \in {"pending", "unused"},
         \A q \in Request : q # client[c].request => requests'[q] = requests[q],
         requests'[client[c].request].status = status
  PROVE  Undisturbed'
<1>. USE DEF Undisturbed
<1>1. /\ client[c].request \in Request /\ requests[client[c].request].status = "reserved"
      /\ \A w \in Worker : Holding(w) => work[w].request # client[c].request
      /\ \A d \in Client \ {c} : client[d].request # client[c].request
      /\ \A j \in Job : jobs[j].request = client[c].request => jobs[j].result # "hh_error"
  BY ClientsOwn DEF TypeInv
<1>2. \A d \in Client : client'[d] = IF d = c THEN NoClient ELSE client[d]
  BY ClientTo, Nothing DEF TypeInv
<1>3. None \notin Request /\ (\A j \in Job : jobs[j].request \in Request \cup {None})
      /\ (\A w \in Worker : work[w].request \in Request \cup {None})
  BY Typed, PipelineConstants DEF TypeInv, Jobs, Works
<1>4. WorkInv'
  <2>1. ASSUME NEW w \in Worker, Holding(w), work[w].request # None
        PROVE  requests'[work[w].request] = requests[work[w].request]
    BY <1>1, <1>3, <2>1
  <2>. QED  BY <1>3, <2>1 DEF WorkInv, Holding
<1>5. ClientInv'
  <2>1. ASSUME NEW d \in Client \ {c}, client[d].phase = "enqueued"
        PROVE  requests'[client[d].request] = requests[client[d].request]
    BY <1>1, <2>1 DEF ClientInv
  <2>. QED  BY <1>2, <1>3, <2>1, Nothing DEF ClientInv
<1>6. JobInv'
  <2>1. ASSUME NEW j \in Job, jobs[j].request # None, jobs[j].request # client[c].request
        PROVE  requests'[jobs[j].request] = requests[jobs[j].request]
    BY <1>3, <2>1
  <2>. QED  BY <1>1, <1>3, <2>1 DEF JobInv
<1>7. LetterInv'
  BY <1>1 DEF LetterInv
<1>. QED  BY <1>4, <1>5, <1>6, <1>7

LEMMA ApiCommitStep ==
  ASSUME IInv, NEW c \in Client, ApiCommit(c)
  PROVE  IInv'
<1>1. TypeOK /\ client[c].phase = "enqueued" /\ SetStatus(client[c].request, "pending")
      /\ client' = [client EXCEPT ![c] = NoClient]
      /\ UNCHANGED <<credits, letters, spends, jobs, queue, work, crashes>>
  BY DEF ApiCommit, IInv, TypeInv, arq
<1>2. /\ requests' \in [Request -> Rows]
      /\ \A q \in Request : q # client[c].request => requests'[q] = requests[q]
      /\ \A q \in Request : requests'[q].status =
                              IF q = client[c].request THEN "pending" ELSE requests[q].status
  BY <1>1, SetStatusRows DEF Statuses, Committed
<1>3. client' \in [Client -> Clients]
  BY <1>1, ClientTo, Nothing
<1>4. TypeInv'
  BY <1>1, <1>2, <1>3, Typed DEF IInv, TypeInv, TypeOK, LetterIffCharge, Rows, Jobs, Clients, Works
<1>5. ASSUME Undisturbed PROVE Undisturbed'
  <2>1. requests'[client[c].request].status = "pending"
    BY <1>1, <1>2, <1>5, ClientsOwn
  <2>. QED  BY <1>1, <1>2, <1>5, <2>1, ClientEnds DEF IInv
<1>. QED  BY <1>1, <1>4, <1>5 DEF IInv

LEMMA ClientFailsStep ==
  ASSUME IInv, NEW c \in Client, ClientFails(c)
  PROVE  IInv'
<1>1. TypeOK /\ client[c].phase # "idle" /\ Rollback(client[c].request)
      /\ client' = [client EXCEPT ![c] = NoClient]
      /\ UNCHANGED <<credits, letters, spends, jobs, queue, work, crashes>>
  BY DEF ClientFails, IInv, TypeInv, arq
<1>2. /\ requests' \in [Request -> Rows]
      /\ \A q \in Request : q # client[c].request => requests'[q] = requests[q]
      /\ \A q \in Request : requests'[q].status =
           IF q = client[c].request /\ client[c].request # None /\ requests[q].status = "reserved"
           THEN "unused" ELSE requests[q].status
  BY <1>1, RollbackRows
<1>3. client' \in [Client -> Clients] /\ \A d \in Client : client'[d] = IF d = c THEN NoClient ELSE client[d]
  BY <1>1, ClientTo, Nothing
<1>4. TypeInv'
  BY <1>1, <1>2, <1>3, Typed DEF IInv, TypeInv, TypeOK, LetterIffCharge, Rows, Jobs, Clients, Works
<1>5. ASSUME Undisturbed PROVE Undisturbed'
  <2>1. CASE client[c].phase = "enqueued"
    <3>1. requests'[client[c].request].status = "unused"
      <4>1. client[c].request \in Request /\ client[c].request # None
            /\ requests[client[c].request].status = "reserved"
        BY <1>1, <1>5, <2>1, ClientsOwn, PipelineConstants
      <4>. QED  BY <1>2, <4>1
    <3>. QED  BY <1>1, <1>2, <1>5, <2>1, <3>1, ClientEnds DEF IInv
  <2>2. CASE client[c].phase # "enqueued"
    <3>1. client[c].request = None /\ None \notin Request
      BY <1>5, <2>2, PipelineConstants DEF Undisturbed, ClientInv
    <3>2. requests' = requests
      BY <1>1, <3>1 DEF Rollback
    <3>3. WorkInv' /\ JobInv' /\ LetterInv'
      BY <1>1, <1>5, <3>2 DEF Undisturbed, WorkInv, JobInv, LetterInv, Holding
    <3>4. ClientInv'
      BY <1>1, <1>3, <1>5, <3>1, <3>2, Nothing DEF Undisturbed, ClientInv
    <3>. QED  BY <3>3, <3>4 DEF Undisturbed
  <2>. QED  BY <2>1, <2>2
<1>. QED  BY <1>1, <1>4, <1>5 DEF IInv

LEMMA BotEnqueueStep ==
  ASSUME IInv, NEW c \in Client, BotEnqueue(c)
  PROVE  IInv'
<1>1. TypeOK /\ client[c].phase = "bot" /\ Enqueue(client[c].user, None)
      /\ client[c].user \in User \cup {None} /\ client' = [client EXCEPT ![c] = NoClient]
      /\ UNCHANGED <<credits, requests, letters, spends, work, crashes>>
  BY Typed DEF BotEnqueue, IInv, TypeInv, store, Clients
<1>2. client' \in [Client -> Clients] /\ \A d \in Client : client'[d] = IF d = c THEN NoClient ELSE client[d]
  BY <1>1, ClientTo, Nothing
<1>3. jobs' \in [Job -> Jobs] /\ queue' \in Seq(Job)
  BY <1>1, EnqueueJobs
<1>4. PICK j \in Job :
        /\ jobs[j].state = "free"
        /\ jobs'[j].state = "queued" /\ jobs'[j].request = None /\ jobs'[j].result = "none"
        /\ \A i \in Job \ {j} : jobs'[i] = jobs[i]
  BY <1>1, EnqueueJobs
<1>5. TypeInv'
  BY <1>1, <1>2, <1>3, Typed DEF IInv, TypeInv, TypeOK, LetterIffCharge, Rows, Jobs, Clients, Works
<1>6. ASSUME Undisturbed PROVE Undisturbed'
  <2>. USE <1>6 DEF Undisturbed
  <2>1. \A i \in Job : jobs'[i].request = jobs[i].request
    BY <1>4 DEF JobInv
  <2>2. \A w \in Worker : work[w].phase # "idle" => jobs'[work[w].job] = jobs[work[w].job]
    BY <1>4 DEF WorkInv
  <2>3. WorkInv'
    BY <1>1, <2>1, <2>2 DEF WorkInv, Holding
  <2>4. ClientInv'
    <3>1. None \notin Request
      BY PipelineConstants
    <3>. QED  BY <1>1, <1>2, <2>1, <3>1, Nothing DEF ClientInv
  <2>5. JobInv' /\ LetterInv'
    BY <1>1, <1>4, <2>1 DEF JobInv, LetterInv
  <2>. QED  BY <2>3, <2>4, <2>5
<1>. QED  BY <1>1, <1>5, <1>6 DEF IInv

-----------------------------------------------------------------------------
(* Worker slots. *)

\* Nobody else works on the request of an open transaction.
LEMMA WorkersOwn ==
  ASSUME TypeOK, Undisturbed, NEW w \in Worker, Holding(w), work[w].request # None
  PROVE  /\ work[w].request \in Request
         /\ requests[work[w].request].status \in {"pending", "reserved"}
         /\ \A v \in Worker \ {w} : Holding(v) => work[v].request # work[w].request
         /\ \A c \in Client : client[c].request # work[w].request
         /\ \A j \in Job : j # work[w].job => jobs[j].request # work[w].request
<1>. USE DEF Undisturbed
<1>1. work[w].request \in Request
  BY Typed DEF Works
<1>2. work[w].job \in Job /\ jobs[work[w].job].state = "running"
      /\ \A v \in Worker \ {w} : Holding(v) => work[v].job \in Job /\ work[v].job # work[w].job
  BY DEF WorkInv, Holding
<1>3. CASE jobs[work[w].job].request # None
  <2>1. work[w].request = jobs[work[w].job].request /\ requests[work[w].request].status = "pending"
    BY <1>3 DEF WorkInv
  <2>2. \A j \in Job : j # work[w].job => jobs[j].request # work[w].request
    BY <1>2, <1>3, <2>1 DEF JobInv
  <2>3. ASSUME NEW v \in Worker \ {w}, Holding(v) PROVE work[v].request # work[w].request
    <3>1. work[v].job \in Job /\ work[v].job # work[w].job
      BY <1>2, <2>3
    <3>2. CASE jobs[work[v].job].request # None
      BY <2>2, <2>3, <3>1, <3>2 DEF WorkInv
    <3>3. CASE jobs[work[v].job].request = None
      BY <1>2, <2>1, <2>3, <3>3 DEF WorkInv, Holding
    <3>. QED  BY <3>2, <3>3
  <2>4. \A c \in Client : client[c].request # work[w].request
    BY <2>1 DEF ClientInv
  <2>. QED  BY <1>1, <2>1, <2>2, <2>3, <2>4
<1>4. CASE jobs[work[w].job].request = None
  <2>1. /\ work[w].phase \in {"loaded", "saved"}
        /\ requests[work[w].request].status = "reserved"
        /\ \A j \in Job : jobs[j].request # work[w].request
        /\ \A v \in Worker \ {w} : Holding(v) => work[v].request # work[w].request
    BY <1>4 DEF WorkInv, Holding
  <2>2. \A c \in Client : client[c].request # work[w].request
    BY <2>1 DEF ClientInv
  <2>. QED  BY <1>1, <2>1, <2>2
<1>. QED  BY <1>3, <1>4

\* The transaction of w ends, or w is done with its job.
LEMMA WorkerEnds ==
  ASSUME TypeInv, Undisturbed, NEW w \in Worker, work[w].phase # "idle", UNCHANGED client,
         \A v \in Worker \ {w} : work'[v] = work[v],
         work'[w].phase = "idle" \/ (work'[w].phase = "committed" /\ work'[w].job = work[w].job
                                     /\ jobs'[work[w].job].state = "running"),
         \A j \in Job : jobs'[j].request = jobs[j].request /\ (j # work[w].job => jobs'[j] = jobs[j]),
         jobs'[work[w].job].state \in {"running", "done"},
         \A q \in Request : q # work[w].request => requests'[q] = requests[q],
         Holding(w) \/ requests' = requests,
         work[w].request # None => /\ requests'[work[w].request].status # "absent"
                                   /\ jobs'[work[w].job].result = "hh_error"
                                      /\ jobs[work[w].job].request = work[w].request =>
                                        requests'[work[w].request].status = "failed",
         jobs'[work[w].job].result = "hh_error" => Holding(w) \/ jobs[work[w].job].result = "hh_error",
         LetterInv'
  PROVE  Undisturbed'
<1>. USE DEF Undisturbed
<1>1. None \notin Request /\ (\A j \in Job : jobs[j].request \in Request \cup {None})
      /\ (\A v \in Worker : work[v].request \in Request \cup {None})
  BY Typed, PipelineConstants DEF TypeInv, Jobs, Works
<1>2. work[w].job \in Job /\ \A v \in Worker \ {w} : work[v].phase # "idle" => work[v].job # work[w].job
  BY DEF WorkInv
<1>3. ASSUME NEW q \in Request, requests'[q] # requests[q]
      PROVE  /\ q = work[w].request /\ q # None
             /\ \A v \in Worker \ {w} : Holding(v) => work[v].request # q
             /\ \A c \in Client : client[c].request # q
             /\ \A j \in Job : j # work[w].job => jobs[j].request # q
  <2>1. q = work[w].request /\ q # None /\ Holding(w)
    BY <1>1, <1>3
  <2>. QED  BY <2>1, WorkersOwn DEF TypeInv
<1>4. WorkInv'
  <2>1. ASSUME NEW v \in Worker \ {w}, work[v].phase # "idle"
        PROVE  work[v].job \in Job /\ jobs'[work[v].job] = jobs[work[v].job]
    BY <1>2, <2>1 DEF WorkInv
  <2>2. ASSUME NEW v \in Worker \ {w}, Holding(v), work[v].request # None
        PROVE  requests'[work[v].request] = requests[work[v].request]
    BY <1>1, <1>3, <2>2
  <2>3. ASSUME NEW v \in Worker \ {w}
        PROVE  /\ work'[v].phase # "idle" =>
                    /\ work'[v].job \in Job /\ jobs'[work'[v].job].state = "running"
                    /\ \A u \in Worker \ {v} : work'[u].phase # "idle" => work'[u].job # work'[v].job
               /\ Holding(v)' => jobs'[work'[v].job].result = "none"
               /\ Holding(v)' /\ jobs'[work'[v].job].request # None =>
                    /\ work'[v].request = jobs'[work'[v].job].request
                    /\ requests'[work'[v].request].status = "pending"
               /\ work'[v].phase = "begun" /\ jobs'[work'[v].job].request = None => work'[v].request = None
               /\ work'[v].phase \in {"loaded", "saved"} => work'[v].request \in Request
    BY <1>1, <1>2, <2>1, <2>2, <2>3 DEF WorkInv, Holding
  <2>4. ASSUME NEW v \in Worker \ {w}, work'[v].phase \in {"loaded", "saved"},
               jobs'[work'[v].job].request = None
        PROVE  /\ requests'[work'[v].request].status = "reserved"
               /\ \A j \in Job : jobs'[j].request # work'[v].request
               /\ \A u \in Worker \ {v} : Holding(u)' => work'[u].request # work'[v].request
    BY <1>1, <1>2, <2>1, <2>2, <2>4 DEF WorkInv, Holding
  <2>5. work'[w].phase # "idle" =>
          /\ work'[w].job \in Job /\ jobs'[work'[w].job].state = "running"
          /\ \A u \in Worker \ {w} : work'[u].phase # "idle" => work'[u].job # work'[w].job
    BY <1>2
  <2>6. ~Holding(w)' /\ work'[w].phase \notin {"begun", "loaded", "saved"}
    BY DEF Holding
  <2>. QED  BY <2>3, <2>4, <2>5, <2>6 DEF WorkInv
<1>5. ClientInv'
  <2>1. ASSUME NEW c \in Client, client[c].phase = "enqueued"
        PROVE  requests'[client[c].request] = requests[client[c].request]
    BY <1>3, <2>1 DEF ClientInv
  <2>. QED  BY <2>1 DEF ClientInv
<1>6. JobInv'
  <2>1. ASSUME NEW j \in Job, j # work[w].job, jobs[j].request # None
        PROVE  requests'[jobs[j].request] = requests[jobs[j].request] /\ jobs'[j] = jobs[j]
    BY <1>1, <1>3, <2>1
  <2>2. ASSUME jobs[work[w].job].request # None
        PROVE  /\ requests'[jobs[work[w].job].request].status # "absent"
               /\ jobs'[work[w].job].result = "hh_error" =>
                    requests'[jobs[work[w].job].request].status = "failed"
    <3>1. CASE Holding(w)
      BY <1>2, <2>2, <3>1 DEF WorkInv
    <3>2. CASE ~Holding(w)
      BY <1>2, <2>2, <3>2 DEF JobInv
    <3>. QED  BY <3>1, <3>2
  <2>3. ASSUME NEW j \in Job, j # work[w].job
        PROVE  /\ jobs'[j].state = "free" => jobs'[j].request = None
               /\ jobs'[j].request # None =>
                    /\ \A i \in Job \ {j} : jobs'[i].request # jobs'[j].request
                    /\ requests'[jobs'[j].request].status # "absent"
                    /\ jobs'[j].state = "queued" =>
                         requests'[jobs'[j].request].status \in {"reserved", "unused", "pending"}
                    /\ jobs'[j].result = "hh_error" => requests'[jobs'[j].request].status = "failed"
    BY <2>1, <2>3 DEF JobInv
  <2>. QED  BY <1>2, <2>2, <2>3 DEF JobInv
<1>. QED  BY <1>4, <1>5, <1>6

\* The transaction rolls back: closed vacancy, LLM, balance, deadlock, timeout.
LEMMA FailsStep ==
  ASSUME IInv, NEW w \in Worker, Holding(w), NEW result \in Results \ {"hh_error"}, Fails(w, result)
  PROVE  IInv'
<1>1. TypeOK /\ Finished(work[w].job, result) /\ Rollback(work[w].request)
      /\ work' = [work EXCEPT ![w] = NoWork] /\ UNCHANGED <<credits, letters, spends, client, crashes>>
  BY DEF Fails, IInv, TypeInv
<1>2. /\ requests' \in [Request -> Rows]
      /\ \A q \in Request : q # work[w].request => requests'[q] = requests[q]
      /\ \A q \in Request : requests'[q].status =
           IF q = work[w].request /\ work[w].request # None /\ requests[q].status = "reserved"
           THEN "unused" ELSE requests[q].status
  BY <1>1, RollbackRows
<1>3. /\ jobs' \in [Job -> Jobs] /\ queue' \in Seq(Job)
      /\ \A i \in Job : /\ jobs'[i].request = jobs[i].request
                        /\ i # work[w].job => jobs'[i] = jobs[i]
                        /\ i = work[w].job => jobs'[i].state = "done" /\ jobs'[i].result = result
  BY <1>1, FinishedJobs
<1>4. work' \in [Worker -> Works] /\ \A v \in Worker : work'[v] = IF v = w THEN NoWork ELSE work[v]
  BY <1>1, WorkTo, Nothing
<1>5. TypeInv'
  BY <1>1, <1>2, <1>3, <1>4, Typed
     DEF IInv, TypeInv, TypeOK, LetterIffCharge, Rows, Jobs, Clients, Works
<1>6. ASSUME Undisturbed PROVE Undisturbed'
  <2>1. work[w].job \in Job /\ work[w].phase # "idle"
    BY <1>6 DEF Undisturbed, WorkInv, Holding
  <2>2. work[w].request # None =>
          work[w].request \in Request /\ requests[work[w].request].status \in {"pending", "reserved"}
    BY <1>1, <1>6, WorkersOwn
  <2>3. LetterInv'
    BY <1>1, <1>2, <1>6, <2>2 DEF Undisturbed, LetterInv
  <2>4. work[w].request # None => requests'[work[w].request].status # "absent"
    BY <1>2, <2>2
  <2>5. jobs'[work[w].job].state = "done" /\ jobs'[work[w].job].result # "hh_error"
    BY <1>3, <2>1
  <2>6. work'[w].phase = "idle" /\ \A v \in Worker \ {w} : work'[v] = work[v]
    BY <1>4, Nothing
  <2>. QED  BY <1>1, <1>2, <1>3, <1>6, <2>1, <2>3, <2>4, <2>5, <2>6, WorkerEnds DEF IInv
<1>. QED  BY <1>1, <1>5, <1>6 DEF IInv

\* What Commits does to the slot and its job.
LEMMA CommitsJobs ==
  ASSUME TypeOK, NEW w \in Worker, NEW result \in Results, Commits(w, result)
  PROVE  /\ jobs' \in [Job -> Jobs] /\ queue' = queue
         /\ \A i \in Job : /\ jobs'[i].request = jobs[i].request /\ jobs'[i].state = jobs[i].state
                           /\ i # work[w].job => jobs'[i] = jobs[i]
                           /\ i = work[w].job => jobs'[i].result = result
         /\ work' \in [Worker -> Works]
         /\ work'[w].phase = "committed" /\ work'[w].job = work[w].job
         /\ \A v \in Worker \ {w} : work'[v] = work[v]
<1>1. jobs \in [Job -> Jobs] /\ work \in [Worker -> Works]
      /\ jobs' = [jobs EXCEPT ![work[w].job].result = result]
      /\ work' = [work EXCEPT ![w].phase = "committed"] /\ queue' = queue
  BY Typed DEF Commits
<1>2. ASSUME NEW i \in Job
      PROVE  /\ jobs'[i] \in Jobs
             /\ jobs'[i].request = jobs[i].request /\ jobs'[i].state = jobs[i].state
             /\ i # work[w].job => jobs'[i] = jobs[i]
             /\ i = work[w].job => jobs'[i].result = result
  BY <1>1 DEF Jobs
<1>. DEFINE x == [work[w] EXCEPT !.phase = "committed"]
<1>3. x \in Works /\ x.phase = "committed" /\ x.job = work[w].job
  BY <1>1 DEF Works
<1>. HIDE DEF x
<1>4. work' = [work EXCEPT ![w] = x]
  BY <1>1 DEF x
<1>. QED  BY <1>1, <1>2, <1>3, <1>4

LEMMA HHFailsStep ==
  ASSUME IInv, NEW w \in Worker, HHFails(w)
  PROVE  IInv'
<1>1. /\ TypeOK /\ work[w].phase = "begun" /\ Commits(w, "hh_error")
      /\ IF work[w].request = None THEN UNCHANGED requests ELSE SetStatus(work[w].request, "failed")
      /\ UNCHANGED <<credits, letters, spends, client, crashes>>
  BY DEF HHFails, Commits, IInv, TypeInv
<1>2. /\ requests' \in [Request -> Rows]
      /\ \A q \in Request : q # work[w].request => requests'[q] = requests[q]
      /\ work[w].request # None =>
           \A q \in Request : requests'[q].status =
             IF q = work[w].request THEN "failed" ELSE requests[q].status
      /\ work[w].request = None => requests' = requests
  BY <1>1, Typed, SetStatusRows DEF Statuses, Committed
<1>3. /\ jobs' \in [Job -> Jobs] /\ queue' = queue
      /\ \A i \in Job : /\ jobs'[i].request = jobs[i].request /\ jobs'[i].state = jobs[i].state
                        /\ i # work[w].job => jobs'[i] = jobs[i]
                        /\ i = work[w].job => jobs'[i].result = "hh_error"
      /\ work' \in [Worker -> Works]
      /\ work'[w].phase = "committed" /\ work'[w].job = work[w].job
      /\ \A v \in Worker \ {w} : work'[v] = work[v]
  BY <1>1, CommitsJobs DEF Results
<1>4. TypeInv'
  BY <1>1, <1>2, <1>3, Typed DEF IInv, TypeInv, TypeOK, LetterIffCharge, Rows, Jobs, Clients, Works
<1>5. ASSUME Undisturbed PROVE Undisturbed'
  <2>1. work[w].job \in Job /\ Holding(w) /\ jobs[work[w].job].state = "running"
    BY <1>1, <1>5 DEF Undisturbed, WorkInv, Holding
  <2>2. work[w].request # None =>
          work[w].request \in Request /\ requests[work[w].request].status \in {"pending", "reserved"}
    BY <1>1, <1>5, <2>1, WorkersOwn
  <2>3. LetterInv'
    BY <1>1, <1>2, <1>5, <2>2 DEF Undisturbed, LetterInv
  <2>4. work[w].request # None => requests'[work[w].request].status = "failed"
    BY <1>2, <2>2
  <2>5. jobs'[work[w].job].state = "running"
    BY <1>3, <2>1
  <2>. QED  BY <1>1, <1>2, <1>3, <1>5, <2>1, <2>3, <2>4, <2>5, WorkerEnds DEF IInv
<1>. QED  BY <1>1, <1>4, <1>5 DEF IInv

LEMMA DebitStep ==
  ASSUME IInv, NEW w \in Worker, Debit(w)
  PROVE  IInv'
<1>. DEFINE u == jobs[work[w].job].user
            r == work[w].request
<1>1. /\ TypeOK /\ work[w].phase = "saved" /\ Commits(w, "ok") /\ SetStatus(r, "succeeded")
      /\ credits[u] >= Cost /\ credits' = [credits EXCEPT ![u] = @ - Cost]
      /\ letters' = [letters EXCEPT ![r] = @ + 1] /\ spends' = [spends EXCEPT ![r] = @ + 1]
      /\ UNCHANGED <<client, crashes>>
  BY DEF Debit, Commits, IInv, TypeInv
<1>. HIDE DEF u, r
<1>2. /\ requests' \in [Request -> Rows]
      /\ \A q \in Request : q # r => requests'[q] = requests[q]
      /\ \A q \in Request : requests'[q].status = IF q = r THEN "succeeded" ELSE requests[q].status
  BY <1>1, SetStatusRows DEF Statuses, Committed
<1>3. /\ jobs' \in [Job -> Jobs] /\ queue' = queue
      /\ \A i \in Job : /\ jobs'[i].request = jobs[i].request /\ jobs'[i].state = jobs[i].state
                        /\ i # work[w].job => jobs'[i] = jobs[i]
                        /\ i = work[w].job => jobs'[i].result = "ok"
      /\ work' \in [Worker -> Works]
      /\ work'[w].phase = "committed" /\ work'[w].job = work[w].job
      /\ \A v \in Worker \ {w} : work'[v] = work[v]
  BY <1>1, CommitsJobs DEF Results
<1>4. /\ letters' \in [Request -> Nat] /\ spends' \in [Request -> Nat]
      /\ \A q \in Request : letters'[q] = IF q = r THEN letters[q] + 1 ELSE letters[q]
      /\ \A q \in Request : spends'[q] = IF q = r THEN spends[q] + 1 ELSE spends[q]
  <2>1. letters \in [Request -> Nat] /\ spends \in [Request -> Nat]
    BY <1>1, Typed
  <2>2. letters' = [letters EXCEPT ![r] = @ + 1] /\ spends' = [spends EXCEPT ![r] = @ + 1]
    BY <1>1
  <2>3. /\ \A q \in Request : letters'[q] = IF q = r THEN letters[q] + 1 ELSE letters[q]
        /\ \A q \in Request : spends'[q] = IF q = r THEN spends[q] + 1 ELSE spends[q]
    BY <2>1, <2>2
  <2>4. \A q \in Request : letters'[q] \in Nat /\ spends'[q] \in Nat
    BY <2>1, <2>3
  <2>. QED  BY <2>1, <2>2, <2>3, <2>4
<1>5. credits' \in [User -> Nat]
  <2>1. Cost \in Nat
    BY PipelineConstants
  <2>2. credits \in [User -> Nat]
    BY <1>1, Typed
  <2>3. u \in User => credits[u] - Cost \in Nat
    BY <1>1, <2>1, <2>2
  <2>. QED  BY <1>1, <2>2, <2>3
<1>6. TypeInv'
  <2>1. LetterIffCharge'
    BY <1>4 DEF IInv, TypeInv, LetterIffCharge
  <2>. QED  BY <1>1, <1>2, <1>3, <1>4, <1>5, <2>1, Typed DEF TypeInv, TypeOK, Rows, Jobs, Clients, Works
<1>7. ASSUME Undisturbed PROVE Undisturbed'
  <2>1. work[w].job \in Job /\ Holding(w) /\ jobs[work[w].job].state = "running"
        /\ r \in Request /\ r # None
    BY <1>1, <1>7, PipelineConstants DEF Undisturbed, WorkInv, Holding, r
  <2>2. requests[r].status \in {"pending", "reserved"}
    BY <1>1, <1>7, <2>1, WorkersOwn DEF r
  <2>3. LetterInv'
    BY <1>2, <1>4, <1>7, <2>2 DEF Undisturbed, LetterInv
  <2>4. requests'[r].status = "succeeded"
    BY <1>2, <2>1
  <2>5. jobs'[work[w].job].state = "running" /\ jobs'[work[w].job].result = "ok"
    BY <1>3, <2>1
  <2>. QED  BY <1>1, <1>2, <1>3, <1>7, <2>1, <2>3, <2>4, <2>5, WorkerEnds DEF IInv, r
<1>. QED  BY <1>1, <1>6, <1>7 DEF IInv

LEMMA ReportStep ==
  ASSUME IInv, NEW w \in Worker, Report(w)
  PROVE  IInv'
<1>. DEFINE j == work[w].job
<1>1. /\ TypeOK /\ work[w].phase = "committed" /\ work' = [work EXCEPT ![w] = NoWork]
      /\ UNCHANGED <<credits, requests, letters, spends, client, crashes>>
      /\ \/ Finished(j, jobs[j].result)
         \/ jobs[j].request = None /\ Finished(j, "send_failed")
  BY DEF Report, store, IInv, TypeInv
<1>2. work' \in [Worker -> Works] /\ \A v \in Worker : work'[v] = IF v = w THEN NoWork ELSE work[v]
  BY <1>1, WorkTo, Nothing
<1>3. jobs' \in [Job -> Jobs] /\ queue' \in Seq(Job)
      /\ \A i \in Job : /\ jobs'[i].request = jobs[i].request
                        /\ i # j => jobs'[i] = jobs[i]
                        /\ i = j => jobs'[i].state = "done"
                                    /\ jobs'[i].result \in {jobs[j].result, "send_failed"}
  <2>1. CASE j \in Job
    <3>1. jobs[j].result \in Results /\ "send_failed" \in Results
      BY <2>1, <1>1, Typed DEF Jobs, Results
    <3>. QED  BY <1>1, <3>1, FinishedJobs
  <2>2. CASE j \notin Job
    <3>1. ~ \E n \in DOMAIN queue : queue[n] = j
      BY <1>1, <2>2, Typed
    <3>. QED  BY <1>1, <3>1 DEF Finished
  <2>. QED  BY <2>1, <2>2
<1>4. TypeInv'
  BY <1>1, <1>2, <1>3, Typed DEF IInv, TypeInv, TypeOK, LetterIffCharge, Rows, Jobs, Clients, Works
<1>5. ASSUME Undisturbed PROVE Undisturbed'
  <2>1. j \in Job /\ work[w].phase # "idle"
    BY <1>1, <1>5 DEF Undisturbed, WorkInv
  <2>2. LetterInv'
    BY <1>1, <1>5 DEF Undisturbed, LetterInv
  <2>3. work'[w].phase = "idle" /\ \A v \in Worker \ {w} : work'[v] = work[v]
    BY <1>2, Nothing
  <2>4. jobs'[j].state = "done" /\ jobs'[j].result \in {jobs[j].result, "send_failed"}
    BY <1>3, <2>1
  <2>5. jobs'[j].result = "hh_error" => jobs[j].result = "hh_error"
    BY <2>4
  <2>6. WorkInv' /\ ClientInv' /\ JobInv'
    <3>1. \A v \in Worker \ {w} : work[v].phase # "idle" => work[v].job # j
      BY <1>5, <2>1 DEF Undisturbed, WorkInv
    <3>2. \A v \in Worker \ {w} : work[v].phase # "idle" => jobs'[work[v].job] = jobs[work[v].job]
      BY <1>3, <1>5, <3>1 DEF Undisturbed, WorkInv
    <3>3. WorkInv'
      BY <1>1, <1>3, <1>5, <2>3, <3>1, <3>2 DEF Undisturbed, WorkInv, Holding
    <3>4. ClientInv'
      BY <1>1, <1>3, <1>5 DEF Undisturbed, ClientInv
    <3>5. JobInv'
      BY <1>1, <1>3, <1>5, <2>1, <2>4, <2>5 DEF Undisturbed, JobInv
    <3>. QED  BY <3>3, <3>4, <3>5
  <2>. QED  BY <2>2, <2>6 DEF Undisturbed
<1>. QED  BY <1>1, <1>4, <1>5 DEF IInv

LEMMA StartStep ==
  ASSUME IInv, NEW w \in Worker, Start(w)
  PROVE  IInv'
<1>1. PICK j \in Job :
        /\ work[w].phase = "idle" /\ jobs[j].state = "queued"
        /\ IF Refusal(j) \in {"none", "quota"}
           THEN /\ jobs' = [jobs EXCEPT ![j].state = "running", ![j].tries = @ + 1,
                                        ![j].result = Refusal(j)]
                /\ work' = [work EXCEPT ![w] =
                     [phase |-> IF Refusal(j) = "none" THEN "begun" ELSE "committed",
                      job |-> j, request |-> jobs[j].request]]
                /\ UNCHANGED queue
           ELSE Finished(j, Refusal(j)) /\ UNCHANGED work
  BY DEF Start
<1>2. TypeOK /\ UNCHANGED <<credits, requests, letters, spends, client, crashes>>
  BY DEF Start, store, IInv, TypeInv
<1>3. CASE Refusal(j) \in {"none", "quota"}
  <2>. DEFINE x == [phase |-> IF Refusal(j) = "none" THEN "begun" ELSE "committed",
                    job |-> j, request |-> jobs[j].request]
              y == [jobs[j] EXCEPT !.state = "running", !.tries = @ + 1, !.result = Refusal(j)]
  <2>1. jobs \in [Job -> Jobs] /\ jobs[j] \in Jobs /\ jobs[j].tries # MaxTries
    BY <1>2, <1>3, Typed DEF Refusal
  <2>2. jobs[j].tries + 1 \in 0..MaxTries
    BY <2>1, PipelineConstants DEF Jobs
  <2>3. y \in Jobs /\ y.state = "running" /\ y.result = Refusal(j) /\ y.request = jobs[j].request
    BY <1>3, <2>1, <2>2 DEF Jobs, Results
  <2>4. x \in Works /\ x.job = j /\ x.request = jobs[j].request
        /\ x.phase = (IF Refusal(j) = "none" THEN "begun" ELSE "committed")
    BY <2>1 DEF Works, Jobs
  <2>5. jobs' = [jobs EXCEPT ![j] = y] /\ work' = [work EXCEPT ![w] = x] /\ queue' = queue
    BY <1>1, <1>3
  <2>. HIDE DEF x, y
  <2>6. work' \in [Worker -> Works] /\ \A v \in Worker : work'[v] = IF v = w THEN x ELSE work[v]
    BY <1>2, <2>4, <2>5, WorkTo
  <2>7. jobs' \in [Job -> Jobs] /\ \A i \in Job : jobs'[i] = IF i = j THEN y ELSE jobs[i]
    BY <2>1, <2>3, <2>5
  <2>8. TypeInv'
    BY <1>2, <2>5, <2>6, <2>7, Typed
       DEF IInv, TypeInv, TypeOK, LetterIffCharge, Rows, Jobs, Clients, Works
  <2>9. ASSUME Undisturbed PROVE Undisturbed'
    <3>. USE <2>9 DEF Undisturbed
    <3>1. \A v \in Worker \ {w} : work[v].phase # "idle" => work[v].job \in Job /\ work[v].job # j
      BY <1>1 DEF WorkInv
    <3>2. \A i \in Job : jobs'[i].request = jobs[i].request
      BY <2>3, <2>7
    <3>3. Refusal(j) = "none" /\ jobs[j].request # None => requests[jobs[j].request].status = "pending"
      <4>1. jobs[j].request # None => requests[jobs[j].request].status \in {"reserved", "unused", "pending"}
        BY <1>1 DEF JobInv
      <4>2. Refusal(j) = "none" /\ jobs[j].request # None => requests[jobs[j].request].status \in Committed
        BY DEF Refusal
      <4>. QED  BY <4>1, <4>2 DEF Committed
    <3>4. WorkInv'
      <4>1. ASSUME NEW v \in Worker \ {w}, work[v].phase # "idle"
            PROVE  /\ work'[v] = work[v] /\ jobs'[work[v].job] = jobs[work[v].job]
                   /\ work[v].job \in Job /\ work[v].job # j
        BY <2>6, <2>7, <3>1, <4>1
      <4>2. work'[w] = x /\ jobs'[j] = y
        BY <2>6, <2>7
      <4>3. ASSUME NEW v \in Worker, work'[v].phase # "idle"
            PROVE  /\ work'[v].job \in Job /\ jobs'[work'[v].job].state = "running"
                   /\ \A u \in Worker \ {v} : work'[u].phase # "idle" => work'[u].job # work'[v].job
        BY <2>3, <2>4, <2>6, <4>1, <4>2, <4>3 DEF WorkInv
      <4>4. ASSUME NEW v \in Worker, Holding(v)'
            PROVE  /\ jobs'[work'[v].job].result = "none"
                   /\ jobs'[work'[v].job].request # None =>
                        /\ work'[v].request = jobs'[work'[v].job].request
                        /\ requests'[work'[v].request].status = "pending"
                   /\ work'[v].phase = "begun" /\ jobs'[work'[v].job].request = None =>
                        work'[v].request = None
        <5>1. CASE v = w
          BY <1>2, <1>3, <2>3, <2>4, <3>3, <4>2, <4>4, <5>1 DEF Holding
        <5>2. CASE v # w
          BY <1>2, <2>6, <4>1, <4>4, <5>2 DEF WorkInv, Holding
        <5>. QED  BY <5>1, <5>2
      <4>5. ASSUME NEW v \in Worker, work'[v].phase \in {"loaded", "saved"}
            PROVE  /\ work'[v].request \in Request
                   /\ jobs'[work'[v].job].request = None =>
                        /\ requests'[work'[v].request].status = "reserved"
                        /\ \A i \in Job : jobs'[i].request # work'[v].request
                        /\ \A u \in Worker \ {v} : Holding(u)' => work'[u].request # work'[v].request
        <5>1. v # w
          BY <2>4, <4>2, <4>5
        <5>2. work'[v] = work[v] /\ jobs'[work[v].job] = jobs[work[v].job]
          BY <2>6, <4>1, <4>5, <5>1
        <5>3. x.request = jobs[j].request /\ \A u \in Worker \ {w} : work'[u] = work[u]
          BY <2>4, <2>6
        <5>. QED  BY <1>2, <3>2, <4>2, <4>5, <5>1, <5>2, <5>3 DEF WorkInv, Holding
      <4>6. \A v \in Worker : work'[v].phase = "begun" => Holding(v)'
        BY DEF Holding
      <4>. QED  BY <4>3, <4>4, <4>5, <4>6 DEF WorkInv
    <3>5. ClientInv' /\ LetterInv'
      BY <1>2, <3>2 DEF ClientInv, LetterInv
    <3>6. JobInv'
      BY <1>2, <1>3, <2>3, <2>7, <3>2 DEF JobInv
    <3>. QED  BY <3>4, <3>5, <3>6
  <2>. QED  BY <1>2, <2>8, <2>9 DEF IInv
<1>4. CASE Refusal(j) \notin {"none", "quota"}
  <2>1. Refusal(j) \in {"max_tries", "insufficient", "not_found"}
    BY <1>4 DEF Refusal
  <2>2. /\ jobs' \in [Job -> Jobs] /\ queue' \in Seq(Job)
        /\ \A i \in Job : /\ jobs'[i].request = jobs[i].request
                          /\ i # j => jobs'[i] = jobs[i]
                          /\ i = j => jobs'[i].state = "done" /\ jobs'[i].result = Refusal(j)
    BY <1>1, <1>2, <1>4, <2>1, FinishedJobs DEF Results
  <2>3. TypeInv'
    BY <1>1, <1>2, <1>4, <2>2, Typed
       DEF IInv, TypeInv, TypeOK, LetterIffCharge, Rows, Jobs, Clients, Works
  <2>4. ASSUME Undisturbed PROVE Undisturbed'
    <3>. USE <2>4 DEF Undisturbed
    <3>1. \A v \in Worker : work[v].phase # "idle" => jobs'[work[v].job] = jobs[work[v].job]
      BY <1>1, <2>2 DEF WorkInv
    <3>2. WorkInv'
      BY <1>1, <1>2, <1>4, <2>2, <3>1 DEF WorkInv, Holding
    <3>3. ClientInv' /\ LetterInv'
      BY <1>2, <2>2 DEF ClientInv, LetterInv
    <3>4. JobInv'
      BY <1>2, <2>1, <2>2 DEF JobInv
    <3>. QED  BY <3>2, <3>3, <3>4
  <2>. QED  BY <1>2, <2>3, <2>4 DEF IInv
<1>. QED  BY <1>3, <1>4

\* Crashes or not, a busy slot has a job.
Busy == \A w \in Worker : work[w].phase # "idle" => work[w].job \in Job

LEMMA LoadVacancyStep ==
  ASSUME IInv, Busy, NEW w \in Worker, LoadVacancy(w)
  PROVE  IInv'
<1>. DEFINE j == work[w].job
<1>1. /\ TypeOK /\ work[w] \in Works /\ work[w].phase = "begun"
      /\ UNCHANGED <<credits, letters, spends, jobs, queue, client, crashes>>
  BY Typed DEF LoadVacancy, arq, IInv, TypeInv
<1>2. CASE work[w].request # None
  <2>. DEFINE x == [work[w] EXCEPT !.phase = "loaded"]
  <2>1. work' = [work EXCEPT ![w] = x] /\ requests' = requests
    BY <1>2 DEF LoadVacancy
  <2>2. x \in Works /\ x.phase = "loaded" /\ x.job = j /\ x.request = work[w].request
    BY <1>1 DEF Works
  <2>. HIDE DEF x
  <2>3. work' \in [Worker -> Works] /\ \A v \in Worker : work'[v] = IF v = w THEN x ELSE work[v]
    BY <1>1, <2>1, <2>2, WorkTo
  <2>4. TypeInv'
    BY <1>1, <2>1, <2>3, Typed DEF IInv, TypeInv, TypeOK, LetterIffCharge, Rows, Jobs, Clients, Works
  <2>5. ASSUME Undisturbed PROVE Undisturbed'
    <3>. USE <2>5 DEF Undisturbed
    <3>1. jobs[j].request # None /\ work[w].request \in Request
      BY <1>1, <1>2 DEF WorkInv, Works
    <3>2. WorkInv'
      BY <1>1, <2>1, <2>2, <2>3, <3>1 DEF WorkInv, Holding
    <3>3. ClientInv' /\ JobInv' /\ LetterInv'
      BY <1>1, <2>1 DEF ClientInv, JobInv, LetterInv
    <3>. QED  BY <3>2, <3>3
  <2>. QED  BY <1>1, <2>4, <2>5 DEF IInv
<1>3. CASE work[w].request = None
  <2>1. PICK r \in Request :
          /\ Reserve(r, jobs[j].user)
          /\ work' = [work EXCEPT ![w].phase = "loaded", ![w].request = r]
    BY <1>3 DEF LoadVacancy
  <2>. DEFINE x == [work[w] EXCEPT !.phase = "loaded", !.request = r]
  <2>2. work' = [work EXCEPT ![w] = x]
    BY <2>1
  <2>3. x \in Works /\ x.phase = "loaded" /\ x.job = j /\ x.request = r
    BY <1>1 DEF Works
  <2>. HIDE DEF x
  <2>4. work' \in [Worker -> Works] /\ \A v \in Worker : work'[v] = IF v = w THEN x ELSE work[v]
    BY <1>1, <2>2, <2>3, WorkTo
  <2>5. /\ requests[r].status = "absent"
        /\ requests' = [requests EXCEPT ![r] = [owner |-> jobs[j].user, status |-> "reserved"]]
        /\ \A q \in Request : q # r => requests'[q] = requests[q]
        /\ requests'[r].status = "reserved"
    BY <1>1, <2>1, Typed DEF Reserve
  <2>6. ASSUME Undisturbed PROVE Undisturbed'
    <3>. USE <2>6 DEF Undisturbed
    <3>1. None \notin Request /\ (\A i \in Job : jobs[i].request \in Request \cup {None})
          /\ (\A v \in Worker : work[v].request \in Request \cup {None})
      BY <1>1, Typed, PipelineConstants DEF Jobs, Works
    <3>2. j \in Job /\ jobs[j].state = "running" /\ jobs[j].request = None /\ jobs[j].result = "none"
      BY <1>1, <1>3 DEF WorkInv, Holding
    <3>3. \A i \in Job : jobs[i].request # r
      BY <2>5, <3>1 DEF JobInv
    <3>4. ASSUME NEW v \in Worker, Holding(v)
          PROVE  work[v].request # r
      <4>1. work[v].request # None => requests[work[v].request].status \in {"pending", "reserved"}
        BY <1>1, <3>4, WorkersOwn
      <4>. QED  BY <2>5, <3>1, <4>1
    <3>5. WorkInv'
      <4>1. ASSUME NEW v \in Worker \ {w}, Holding(v), work[v].request # None
            PROVE  requests'[work[v].request] = requests[work[v].request]
        BY <2>5, <3>1, <3>4, <4>1
      <4>2. ASSUME NEW v \in Worker \ {w}
            PROVE  /\ work'[v].phase # "idle" =>
                        /\ work'[v].job \in Job /\ jobs'[work'[v].job].state = "running"
                        /\ \A u \in Worker \ {v} : work'[u].phase # "idle" => work'[u].job # work'[v].job
                   /\ Holding(v)' => jobs'[work'[v].job].result = "none"
                   /\ Holding(v)' /\ jobs'[work'[v].job].request # None =>
                        /\ work'[v].request = jobs'[work'[v].job].request
                        /\ requests'[work'[v].request].status = "pending"
                   /\ work'[v].phase = "begun" /\ jobs'[work'[v].job].request = None => work'[v].request = None
                   /\ work'[v].phase \in {"loaded", "saved"} => work'[v].request \in Request
        BY <1>1, <2>3, <2>4, <3>1, <4>1, <4>2 DEF WorkInv, Holding
      <4>3. ASSUME NEW v \in Worker \ {w}, work'[v].phase \in {"loaded", "saved"},
                   jobs'[work'[v].job].request = None
            PROVE  /\ requests'[work'[v].request].status = "reserved"
                   /\ \A i \in Job : jobs'[i].request # work'[v].request
                   /\ \A u \in Worker \ {v} : Holding(u)' => work'[u].request # work'[v].request
        <5>1. work'[v] = work[v] /\ Holding(v) /\ work[v].request \in Request /\ work[v].request # r
          BY <2>4, <3>4, <4>3 DEF WorkInv, Holding
        <5>. QED  BY <1>1, <2>3, <2>4, <3>1, <4>1, <4>3, <5>1 DEF WorkInv, Holding
      <4>4. /\ work'[w].job \in Job /\ jobs'[work'[w].job].state = "running"
            /\ \A u \in Worker \ {w} : work'[u].phase # "idle" => work'[u].job # work'[w].job
        BY <1>1, <2>3, <2>4, <3>2 DEF WorkInv
      <4>5. /\ jobs'[work'[w].job].result = "none" /\ jobs'[work'[w].job].request = None
            /\ work'[w].phase = "loaded" /\ work'[w].request \in Request
            /\ requests'[work'[w].request].status = "reserved"
            /\ \A i \in Job : jobs'[i].request # work'[w].request
        BY <1>1, <2>3, <2>4, <2>5, <3>2, <3>3
      <4>6. \A u \in Worker \ {w} : Holding(u)' => work'[u].request # work'[w].request
        BY <2>3, <2>4, <3>4 DEF Holding
      <4>. QED  BY <4>2, <4>3, <4>4, <4>5, <4>6 DEF WorkInv
    <3>6. ClientInv'
      <4>1. ASSUME NEW c \in Client, client[c].phase = "enqueued"
            PROVE  requests'[client[c].request] = requests[client[c].request]
        BY <2>5, <4>1 DEF ClientInv
      <4>. QED  BY <1>1, <4>1 DEF ClientInv
    <3>7. JobInv' /\ LetterInv'
      <4>1. ASSUME NEW i \in Job, jobs[i].request # None
            PROVE  requests'[jobs[i].request] = requests[jobs[i].request]
        BY <2>5, <3>1, <3>3, <4>1
      <4>. QED  BY <1>1, <2>5, <4>1 DEF JobInv, LetterInv
    <3>. QED  BY <3>5, <3>6, <3>7
  <2>7. requests' \in [Request -> Rows]
    <3>1. jobs[j].user \in User \cup {None}
      BY <1>1, Typed DEF Busy, Jobs
    <3>. QED  BY <1>1, <2>1, <3>1, ReserveRows
  <2>8. TypeInv'
    BY <1>1, <2>4, <2>7, Typed DEF IInv, TypeInv, TypeOK, LetterIffCharge, Rows, Jobs, Clients, Works
  <2>. QED  BY <1>1, <2>6, <2>8 DEF IInv
<1>. QED  BY <1>2, <1>3

LEMMA SaveLetterStep ==
  ASSUME IInv, NEW w \in Worker, SaveLetter(w)
  PROVE  IInv'
<1>. DEFINE x == [work[w] EXCEPT !.phase = "saved"]
<1>1. /\ TypeOK /\ work[w] \in Works /\ work[w].phase = "loaded" /\ work' = [work EXCEPT ![w] = x]
      /\ UNCHANGED <<credits, requests, letters, spends, jobs, queue, client, crashes>>
  BY Typed DEF SaveLetter, store, arq, IInv, TypeInv
<1>2. x \in Works /\ x.phase = "saved" /\ x.job = work[w].job /\ x.request = work[w].request
  BY <1>1 DEF Works
<1>. HIDE DEF x
<1>3. work' \in [Worker -> Works] /\ \A v \in Worker : work'[v] = IF v = w THEN x ELSE work[v]
  BY <1>1, <1>2, WorkTo
<1>4. TypeInv'
  BY <1>1, <1>3, Typed DEF IInv, TypeInv, TypeOK, LetterIffCharge, Rows, Jobs, Clients, Works
<1>5. ASSUME Undisturbed PROVE Undisturbed'
  <2>1. WorkInv'
    BY <1>1, <1>2, <1>3, <1>5 DEF Undisturbed, WorkInv, Holding
  <2>2. ClientInv' /\ JobInv' /\ LetterInv'
    BY <1>1, <1>5 DEF Undisturbed, ClientInv, JobInv, LetterInv
  <2>. QED  BY <2>1, <2>2 DEF Undisturbed
<1>. QED  BY <1>1, <1>4, <1>5 DEF IInv

LEMMA CrashStep ==
  ASSUME IInv, NEW w \in Worker, Crash(w)
  PROVE  IInv'
<1>1. /\ TypeOK /\ crashes < MaxCrashes /\ crashes' = crashes + 1 /\ Rollback(work[w].request)
      /\ jobs' = [jobs EXCEPT ![work[w].job].state = "queued", ![work[w].job].result = "none"]
      /\ work' = [work EXCEPT ![w] = NoWork]
      /\ UNCHANGED <<credits, letters, spends, queue, client>>
  BY DEF Crash, IInv, TypeInv
<1>2. requests' \in [Request -> Rows]
  BY <1>1, RollbackRows
<1>3. jobs' \in [Job -> Jobs]
  <2>1. jobs \in [Job -> Jobs]
    BY <1>1, Typed
  <2>2. \A i \in Job : jobs'[i] \in Jobs
    BY <1>1, <2>1 DEF Jobs, Results
  <2>. QED  BY <1>1, <2>1, <2>2
<1>4. work' \in [Worker -> Works]
  BY <1>1, WorkTo, Nothing
<1>5. crashes' \in 0..MaxCrashes /\ crashes' # 0
  BY <1>1, Typed, PipelineConstants
<1>6. TypeInv'
  BY <1>1, <1>2, <1>3, <1>4, <1>5, Typed
     DEF IInv, TypeInv, TypeOK, LetterIffCharge, Rows, Jobs, Clients, Works
<1>. QED  BY <1>5, <1>6 DEF IInv

-----------------------------------------------------------------------------
(* Theorems. *)

LEMMA BusyStep ==
  ASSUME TypeOK, Busy, Next
  PROVE  Busy'
<1>1. work \in [Worker -> Works]
  BY Typed
<1>2. ASSUME NEW w \in Worker, work' = [work EXCEPT ![w] = NoWork]
      PROVE  Busy'
  BY <1>1, <1>2, Nothing DEF Busy
<1>3. ASSUME NEW w \in Worker, NEW x, work' = [work EXCEPT ![w] = x], x.job \in Job
      PROVE  Busy'
  BY <1>1, <1>3 DEF Busy
<1>4. ASSUME NEW w \in Worker, work[w].phase # "idle", NEW phase,
             work' = [work EXCEPT ![w].phase = phase]
      PROVE  Busy'
  BY <1>1, <1>4 DEF Busy, Works
<1>5. ASSUME NEW c \in Client, Serve(c)
      PROVE  Busy'
  <2>1. UNCHANGED work
    BY <1>5 DEF Serve, Check, ApiEnqueue, ApiCommit, BotEnqueue, ClientFails
  <2>. QED  BY <2>1 DEF Busy
<1>6. ASSUME NEW w \in Worker, Start(w)
      PROVE  Busy'
  <2>1. PICK j \in Job :
          \/ UNCHANGED work
          \/ work' = [work EXCEPT ![w] =
               [phase |-> IF Refusal(j) = "none" THEN "begun" ELSE "committed",
                job |-> j, request |-> jobs[j].request]]
    BY <1>6 DEF Start
  <2>. DEFINE x == [phase |-> IF Refusal(j) = "none" THEN "begun" ELSE "committed",
                    job |-> j, request |-> jobs[j].request]
  <2>2. x.job \in Job
    OBVIOUS
  <2>. QED  BY <1>3, <2>1, <2>2 DEF Busy
<1>7. ASSUME NEW w \in Worker, HHFails(w) \/ Debit(w) \/ SaveLetter(w)
      PROVE  Busy'
  BY <1>4, <1>7 DEF HHFails, Debit, SaveLetter, Commits
<1>8. ASSUME NEW w \in Worker,
             VacancyClosed(w) \/ LLMFails(w) \/ DebitRefused(w) \/ Deadlock(w) \/ Timeout(w)
             \/ Report(w) \/ Crash(w)
      PROVE  Busy'
  BY <1>2, <1>8 DEF VacancyClosed, LLMFails, DebitRefused, Deadlock, Timeout, Report, Crash, Fails
<1>9. ASSUME NEW w \in Worker, LoadVacancy(w)
      PROVE  Busy'
  <2>1. work[w].phase = "begun" /\ work[w] \in Works
    BY <1>1, <1>9 DEF LoadVacancy
  <2>2. CASE work' = [work EXCEPT ![w].phase = "loaded"]
    BY <1>4, <2>1, <2>2
  <2>3. ASSUME NEW r \in Request, work' = [work EXCEPT ![w].phase = "loaded", ![w].request = r]
        PROVE  Busy'
    <3>. DEFINE x == [work[w] EXCEPT !.phase = "loaded", !.request = r]
    <3>1. x.job = work[w].job /\ work' = [work EXCEPT ![w] = x]
      BY <2>1, <2>3 DEF Works
    <3>2. x.job \in Job
      BY <2>1, <3>1 DEF Busy
    <3>. QED  BY <1>3, <3>1, <3>2
  <2>. QED  BY <1>9, <2>2, <2>3 DEF LoadVacancy
<1>. QED  BY <1>5, <1>6, <1>7, <1>8, <1>9 DEF Next, Run

LEMMA Step == IInv /\ Busy /\ [Next]_vars => IInv' /\ Busy'
<1>. SUFFICES ASSUME IInv, Busy, [Next]_vars PROVE IInv' /\ Busy'
  OBVIOUS
<1>1. CASE UNCHANGED vars
  <2>1. UNCHANGED <<credits, requests, letters, spends, jobs, queue, client, work, crashes>>
    BY <1>1 DEF vars, store, arq
  <2>2. TypeInv' /\ Busy'
    BY <2>1 DEF IInv, TypeInv, TypeOK, LetterIffCharge, Busy
  <2>3. Undisturbed => Undisturbed'
    BY <2>1 DEF Undisturbed, WorkInv, ClientInv, JobInv, LetterInv, Holding
  <2>. QED  BY <2>1, <2>2, <2>3 DEF IInv
<1>2. ASSUME NEW c \in Client, Serve(c)
      PROVE  IInv'
  BY <1>2, CheckStep, ApiEnqueueStep, ApiCommitStep, BotEnqueueStep, ClientFailsStep DEF Serve
<1>3. ASSUME NEW w \in Worker,
             VacancyClosed(w) \/ LLMFails(w) \/ DebitRefused(w) \/ Deadlock(w) \/ Timeout(w)
      PROVE  IInv'
  <2>1. PICK result \in {"vacancy_closed", "llm_error", "no_credits", "deadlock", "timeout"} :
          Fails(w, result)
    BY <1>3 DEF VacancyClosed, LLMFails, DebitRefused, Deadlock, Timeout
  <2>2. result \in Results \ {"hh_error"}
    BY DEF Results
  <2>3. Holding(w)
    BY <1>3 DEF VacancyClosed, LLMFails, DebitRefused, Deadlock, Timeout, Holding
  <2>. QED  BY <2>1, <2>2, <2>3, FailsStep
<1>4. ASSUME NEW w \in Worker, Run(w) \/ Timeout(w) \/ Crash(w)
      PROVE  IInv'
  BY <1>3, <1>4, StartStep, HHFailsStep, LoadVacancyStep, SaveLetterStep, DebitStep, ReportStep, CrashStep
     DEF Run
<1>5. ASSUME Next PROVE Busy'
  BY <1>5, BusyStep DEF IInv, TypeInv
<1>. QED  BY <1>1, <1>2, <1>4, <1>5 DEF Next

LEMMA Inductive == Spec => [](IInv /\ Busy)
<1>1. Init => IInv /\ Busy
  BY InitTypes DEF Init, Busy, NoWork
<1>. QED  BY <1>1, Step, PTL DEF Spec

\* Every state is well typed; no balance falls below zero.
THEOREM TypeCorrect == Spec => []TypeOK
<1>1. IInv => TypeOK
  BY DEF IInv, TypeInv
<1>. QED  BY <1>1, Inductive, PTL

\* While no worker has crashed, a request has its one letter if and only if it
\* succeeded: no two runs of the queue work on one request (process_generation).
THEOREM OneLetter == Spec => []OneLetterPerSuccess
<1>1. IInv => OneLetterPerSuccess
  BY DEF IInv, Undisturbed, LetterInv, OneLetterPerSuccess
<1>. QED  BY <1>1, Inductive, PTL

\* While no worker has crashed, a request whose job ended with an error of hh.ru is
\* failed and not charged (the handler of HHClientError in the worker).
THEOREM HHErrorsRecorded == Spec => []HHErrorRecorded
<1>1. ASSUME IInv, crashes = 0, NEW r \in Request, Ended(r, {"hh_error"})
      PROVE  requests[r].status = "failed" /\ spends[r] = 0
  <2>1. PICK j \in Job : jobs[j].request = r /\ jobs[j].result = "hh_error"
    BY <1>1 DEF Ended
  <2>2. r # None
    BY PipelineConstants
  <2>3. requests[r].status = "failed" /\ letters[r] = spends[r]
    BY <1>1, <2>1, <2>2 DEF IInv, TypeInv, LetterIffCharge, Undisturbed, JobInv
  <2>. QED  BY <1>1, <2>3 DEF IInv, Undisturbed, LetterInv
<1>2. IInv => HHErrorRecorded
  BY <1>1 DEF HHErrorRecorded
<1>. QED  BY <1>2, Inductive, PTL

=============================================================================

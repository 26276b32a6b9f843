-------------------------- MODULE PaidLettersProofs --------------------------
(***************************************************************************)
(* GenerationPipeline implements PaidLetters, for any number of users,     *)
(* clients, worker slots, jobs and requests, any balance, cost and limit,  *)
(* and any number of crashes.                                              *)
(***************************************************************************)
EXTENDS GenerationPipelineProofs, FiniteSetTheorems, WellFoundedInduction

\* The row of the request that the open transaction of a client, or of a run of the
\* bot, has inserted.
ClientClaims(x) == IF x.phase = "enqueued" THEN {x.request} ELSE {}

WorkClaims(x, js) ==
  IF x.phase \in {"loaded", "saved"} /\ js[x.job].request = None THEN {x.request} ELSE {}

\* Such a row belongs to the user the transaction is for, and nobody else sees it.
ClientOwns(x, rows) ==
  /\ x.phase # "idle" => x.user \in User
  /\ x.phase # "enqueued" => x.request = None
  /\ x.phase = "enqueued" =>
       x.request \in Request /\ rows[x.request] = [owner |-> x.user, status |-> "reserved"]

\* What is not its own a run has found committed, and it is the request of its job.
WorkOwns(x, js, rows) ==
  /\ x.phase # "idle" => x.job \in Job /\ js[x.job].state # "free"
  /\ x.phase \in {"begun", "loaded", "saved"} => x.request = js[x.job].request \/ js[x.job].request = None
  /\ x.phase = "begun" /\ js[x.job].request = None => x.request = None
  /\ \A r \in WorkClaims(x, js) :
       r \in Request /\ rows[r] = [owner |-> js[x.job].user, status |-> "reserved"]
  /\ WorkClaims(x, js) = {} /\ x.request # None => rows[x.request].status \in Committed

\* A job is for the owner of its request.
JobOwns(y, rows) ==
  y.state # "free" =>
    /\ y.user \in User
    /\ y.request # None => /\ rows[y.request].owner = y.user
                           /\ rows[y.request].status # "absent"

\* No two transactions have inserted the same row.
Exclusive(cs, ws, js) ==
  /\ \A c, d \in Client : c # d => ClientClaims(cs[c]) \cap ClientClaims(cs[d]) = {}
  /\ \A w, v \in Worker : w # v => WorkClaims(ws[w], js) \cap WorkClaims(ws[v], js) = {}
  /\ \A c \in Client, w \in Worker : ClientClaims(cs[c]) \cap WorkClaims(ws[w], js) = {}

OwnInv ==
  /\ \A c \in Client : ClientOwns(client[c], requests)
  /\ \A w \in Worker : WorkOwns(work[w], jobs, requests)
  /\ \A j \in Job : JobOwns(jobs[j], requests)
  /\ Exclusive(client, work, jobs)

\* No row changes its owner, and what others can see they can see for ever.
RowsGrow(rows, after) ==
  \A q \in Request :
    /\ rows[q].status # "absent" =>
         after[q].owner = rows[q].owner /\ after[q].status # "absent"
    /\ rows[q].status \in Committed => after[q].status \in Committed

\* No job changes its user or its request.
JobsKept(js, after) ==
  \A j \in Job :
    js[j].state # "free" =>
      after[j].state # "free" /\ after[j].user = js[j].user /\ after[j].request = js[j].request

-----------------------------------------------------------------------------
(* What the steps do to the rows. *)

LEMMA StatusSet ==
  ASSUME TypeOK, NEW r \in Request, NEW status \in Statuses, SetStatus(r, status)
  PROVE  /\ requests'[r] = [owner |-> requests[r].owner, status |-> status]
         /\ \A q \in Request \ {r} : requests'[q] = requests[q]
BY Typed DEF SetStatus, Rows

LEMMA RolledBack ==
  ASSUME TypeOK, NEW r \in Request \cup {None}, Rollback(r)
  PROVE  /\ \A q \in Request : q # r \/ requests[q].status # "reserved" => requests'[q] = requests[q]
         /\ r \in Request /\ requests[r].status = "reserved" =>
              requests'[r] = [owner |-> requests[r].owner, status |-> "unused"]
<1>1. CASE r # None /\ requests[r].status = "reserved"
  <2>1. r \in Request /\ SetStatus(r, "unused") /\ "unused" \in Statuses
    BY <1>1 DEF Rollback, Statuses
  <2>. QED  BY <1>1, <2>1, StatusSet
<1>2. CASE ~ (r # None /\ requests[r].status = "reserved")
  <2>1. requests' = requests
    BY <1>2 DEF Rollback
  <2>2. ~ (r \in Request /\ requests[r].status = "reserved")
    BY <1>2, PipelineConstants
  <2>. QED  BY <2>1, <2>2
<1>. QED  BY <1>1, <1>2

LEMMA Inserted ==
  ASSUME TypeOK, NEW r \in Request, NEW u, Reserve(r, u)
  PROVE  /\ requests[r].status = "absent"
         /\ requests'[r] = [owner |-> u, status |-> "reserved"]
         /\ \A q \in Request \ {r} : requests'[q] = requests[q]
BY Typed DEF Reserve, Rows

\* A step that changes one row, keeps its owner and does not take it from the
\* eyes of others, lets the rows grow.
LEMMA OneRowGrows ==
  ASSUME NEW r, \A q \in Request \ {r} : requests'[q] = requests[q],
         r \in Request => \/ requests[r].status = "absent"
                          \/ /\ requests'[r].owner = requests[r].owner
                             /\ requests'[r].status # "absent"
                             /\ requests[r].status \notin Committed \/ requests'[r].status \in Committed,
         "absent" \notin Committed
  PROVE  RowsGrow(requests, requests')
BY DEF RowsGrow

-----------------------------------------------------------------------------
(* Whoever does nothing keeps what it has. *)

LEMMA JobStays ==
  ASSUME NEW y, NEW rows, NEW after, y.request \in Request \cup {None},
         RowsGrow(rows, after), JobOwns(y, rows)
  PROVE  JobOwns(y, after)
BY DEF JobOwns, RowsGrow

LEMMA WorkStays ==
  ASSUME NEW x, NEW js, NEW jsafter, NEW rows, NEW after, x.request \in Request \cup {None},
         WorkOwns(x, js, rows), JobsKept(js, jsafter), RowsGrow(rows, after),
         \A r \in WorkClaims(x, js) : after[r] = rows[r]
  PROVE  WorkOwns(x, jsafter, after) /\ WorkClaims(x, jsafter) = WorkClaims(x, js)
<1>1. x.phase # "idle" =>
        /\ x.job \in Job /\ jsafter[x.job].state # "free"
        /\ jsafter[x.job].user = js[x.job].user /\ jsafter[x.job].request = js[x.job].request
  BY DEF WorkOwns, JobsKept
<1>2. WorkClaims(x, jsafter) = WorkClaims(x, js)
  BY <1>1 DEF WorkClaims
<1>3. WorkClaims(x, js) # {} => x.phase # "idle"
  BY DEF WorkClaims
<1>4. WorkClaims(x, js) = {} /\ x.request # None => after[x.request].status \in Committed
  BY DEF WorkOwns, RowsGrow
<1>5. \A r \in WorkClaims(x, js) :
        r \in Request /\ after[r] = [owner |-> jsafter[x.job].user, status |-> "reserved"]
  BY <1>1, <1>3 DEF WorkOwns
<1>6. x.phase \in {"begun", "loaded", "saved"} => x.phase # "idle"
  OBVIOUS
<1>. HIDE DEF WorkClaims
<1>. QED  BY <1>1, <1>2, <1>4, <1>5, <1>6 DEF WorkOwns

\* What is claimed is reserved.
LEMMA ClaimsReserved ==
  ASSUME OwnInv
  PROVE  /\ \A c \in Client : \A r \in ClientClaims(client[c]) :
              r \in Request /\ requests[r].status = "reserved"
         /\ \A w \in Worker : \A r \in WorkClaims(work[w], jobs) :
              r \in Request /\ requests[r].status = "reserved"
<1>1. ASSUME NEW c \in Client, NEW r \in ClientClaims(client[c])
      PROVE  r \in Request /\ requests[r].status = "reserved"
  <2>1. client[c].phase = "enqueued" /\ r = client[c].request
    BY <1>1 DEF ClientClaims
  <2>2. ClientOwns(client[c], requests)
    BY DEF OwnInv
  <2>3. r \in Request /\ requests[r] = [owner |-> client[c].user, status |-> "reserved"]
    BY <2>1, <2>2 DEF ClientOwns
  <2>. QED  BY <2>3
<1>2. ASSUME NEW w \in Worker, NEW r \in WorkClaims(work[w], jobs)
      PROVE  r \in Request /\ requests[r].status = "reserved"
  <2>1. WorkOwns(work[w], jobs, requests)
    BY DEF OwnInv
  <2>2. r \in Request /\ requests[r] = [owner |-> jobs[work[w].job].user, status |-> "reserved"]
    BY <1>2, <2>1 DEF WorkOwns
  <2>. QED  BY <2>2
<1>. QED  BY <1>1, <1>2

\* A step of client b that touches nothing but what it claims, or a row that is new.
LEMMA ClientMoves ==
  ASSUME TypeOK, OwnInv, NEW b \in Client, UNCHANGED work,
         \A c \in Client \ {b} : client'[c] = client[c],
         JobsKept(jobs, jobs'), RowsGrow(requests, requests'),
         \A j \in Job : JobOwns(jobs'[j], requests'),
         \A q \in Request : \/ requests'[q] = requests[q]
                            \/ requests[q].status = "absent"
                            \/ q \in ClientClaims(client[b]),
         ClientOwns(client'[b], requests'),
         \A q \in ClientClaims(client'[b]) :
           q \in ClientClaims(client[b]) \/ (q \in Request /\ requests[q].status = "absent")
  PROVE  OwnInv'
<1>1. /\ \A c \in Client : \A r \in ClientClaims(client[c]) :
           r \in Request /\ requests[r].status = "reserved"
      /\ \A w \in Worker : \A r \in WorkClaims(work[w], jobs) :
           r \in Request /\ requests[r].status = "reserved"
  BY ClaimsReserved
<1>2. Exclusive(client, work, jobs)
  BY DEF OwnInv
<1>3. ASSUME NEW c \in Client \ {b} PROVE ClientOwns(client'[c], requests')
  <2>1. ClientOwns(client[c], requests) /\ client'[c] = client[c]
    BY DEF OwnInv
  <2>2. client[c].phase = "enqueued" => client[c].request \in ClientClaims(client[c])
    BY DEF ClientClaims
  <2>3. \A q \in ClientClaims(client[c]) : q \notin ClientClaims(client[b])
    BY <1>2 DEF Exclusive
  <2>4. \A q \in ClientClaims(client[c]) : requests'[q] = requests[q]
    BY <1>1, <2>3
  <2>. QED  BY <2>1, <2>2, <2>4 DEF ClientOwns
<1>4. ASSUME NEW w \in Worker
      PROVE  /\ WorkOwns(work'[w], jobs', requests')
             /\ WorkClaims(work'[w], jobs') = WorkClaims(work[w], jobs)
  <2>1. \A q \in WorkClaims(work[w], jobs) : requests'[q] = requests[q]
    BY <1>1, <1>2 DEF Exclusive
  <2>2. work[w].request \in Request \cup {None} /\ work'[w] = work[w]
    BY Typed DEF Works
  <2>3. WorkOwns(work[w], jobs, requests)
    BY DEF OwnInv
  <2>. QED  BY <2>1, <2>2, <2>3, WorkStays
<1>5. ASSUME NEW q \in ClientClaims(client'[b])
      PROVE  /\ \A c \in Client \ {b} : q \notin ClientClaims(client'[c])
             /\ \A w \in Worker : q \notin WorkClaims(work'[w], jobs')
  <2>1. CASE q \in ClientClaims(client[b])
    BY <1>2, <1>4, <2>1 DEF Exclusive
  <2>2. CASE q \in Request /\ requests[q].status = "absent"
    BY <1>1, <1>4, <2>2
  <2>. QED  BY <2>1, <2>2
<1>6. Exclusive(client', work', jobs')
  <2>1. \A c, d \in Client : c # d => ClientClaims(client'[c]) \cap ClientClaims(client'[d]) = {}
    <3>. SUFFICES ASSUME NEW c \in Client, NEW d \in Client, c # d
                  PROVE  ClientClaims(client'[c]) \cap ClientClaims(client'[d]) = {}
      OBVIOUS
    <3>1. CASE c = b \/ d = b
      BY <1>5, <3>1
    <3>2. CASE c # b /\ d # b
      <4>1. client'[c] = client[c] /\ client'[d] = client[d]
        BY <3>2
      <4>. QED  BY <1>2, <4>1 DEF Exclusive
    <3>. QED  BY <3>1, <3>2
  <2>2. \A w, v \in Worker : w # v => WorkClaims(work'[w], jobs') \cap WorkClaims(work'[v], jobs') = {}
    BY <1>2, <1>4 DEF Exclusive
  <2>3. ASSUME NEW c \in Client, NEW w \in Worker
        PROVE  ClientClaims(client'[c]) \cap WorkClaims(work'[w], jobs') = {}
    <3>1. CASE c = b
      BY <1>5, <3>1
    <3>2. CASE c # b
      BY <1>2, <1>4, <3>2 DEF Exclusive
    <3>. QED  BY <3>1, <3>2
  <2>. QED  BY <2>1, <2>2, <2>3 DEF Exclusive
<1>. QED  BY <1>3, <1>4, <1>6 DEF OwnInv

\* A step of slot k that touches nothing but what it claims, a row that is new or one
\* that all can see.
LEMMA WorkerMoves ==
  ASSUME TypeOK, OwnInv, NEW k \in Worker, UNCHANGED client,
         \A w \in Worker \ {k} : work'[w] = work[w],
         JobsKept(jobs, jobs'), RowsGrow(requests, requests'),
         \A j \in Job : JobOwns(jobs'[j], requests'),
         \A q \in Request : \/ requests'[q] = requests[q]
                            \/ requests[q].status # "reserved"
                            \/ q \in WorkClaims(work[k], jobs),
         WorkOwns(work'[k], jobs', requests'),
         \A q \in WorkClaims(work'[k], jobs') :
           q \in WorkClaims(work[k], jobs) \/ (q \in Request /\ requests[q].status = "absent")
  PROVE  OwnInv'
<1>1. /\ \A c \in Client : \A r \in ClientClaims(client[c]) :
           r \in Request /\ requests[r].status = "reserved"
      /\ \A w \in Worker : \A r \in WorkClaims(work[w], jobs) :
           r \in Request /\ requests[r].status = "reserved"
  BY ClaimsReserved
<1>2. Exclusive(client, work, jobs)
  BY DEF OwnInv
<1>3. ASSUME NEW c \in Client PROVE ClientOwns(client'[c], requests')
  <2>1. ClientOwns(client[c], requests) /\ client'[c] = client[c]
    BY DEF OwnInv
  <2>2. client[c].phase = "enqueued" => client[c].request \in ClientClaims(client[c])
    BY DEF ClientClaims
  <2>3. \A q \in ClientClaims(client[c]) : q \notin WorkClaims(work[k], jobs)
    BY <1>2 DEF Exclusive
  <2>4. \A q \in ClientClaims(client[c]) : requests'[q] = requests[q]
    BY <1>1, <2>3
  <2>. QED  BY <2>1, <2>2, <2>4 DEF ClientOwns
<1>4. ASSUME NEW w \in Worker \ {k}
      PROVE  /\ WorkOwns(work'[w], jobs', requests')
             /\ WorkClaims(work'[w], jobs') = WorkClaims(work[w], jobs)
  <2>1. \A q \in WorkClaims(work[w], jobs) : q \notin WorkClaims(work[k], jobs)
    BY <1>2 DEF Exclusive
  <2>2. \A q \in WorkClaims(work[w], jobs) : requests'[q] = requests[q]
    BY <1>1, <2>1
  <2>3. work[w].request \in Request \cup {None} /\ work'[w] = work[w]
    BY Typed DEF Works
  <2>4. WorkOwns(work[w], jobs, requests)
    BY DEF OwnInv
  <2>. QED  BY <2>2, <2>3, <2>4, WorkStays
<1>5. ASSUME NEW q \in WorkClaims(work'[k], jobs')
      PROVE  /\ \A c \in Client : q \notin ClientClaims(client'[c])
             /\ \A w \in Worker \ {k} : q \notin WorkClaims(work'[w], jobs')
  <2>1. CASE q \in WorkClaims(work[k], jobs)
    BY <1>2, <1>4, <2>1 DEF Exclusive
  <2>2. CASE q \in Request /\ requests[q].status = "absent"
    BY <1>1, <1>4, <2>2
  <2>. QED  BY <2>1, <2>2
<1>6. Exclusive(client', work', jobs')
  <2>1. \A w, v \in Worker : w # v => WorkClaims(work'[w], jobs') \cap WorkClaims(work'[v], jobs') = {}
    <3>. SUFFICES ASSUME NEW w \in Worker, NEW v \in Worker, w # v
                  PROVE  WorkClaims(work'[w], jobs') \cap WorkClaims(work'[v], jobs') = {}
      OBVIOUS
    <3>1. CASE w = k \/ v = k
      BY <1>5, <3>1
    <3>2. CASE w # k /\ v # k
      BY <1>2, <1>4, <3>2 DEF Exclusive
    <3>. QED  BY <3>1, <3>2
  <2>2. \A c, d \in Client : c # d => ClientClaims(client'[c]) \cap ClientClaims(client'[d]) = {}
    BY <1>2 DEF Exclusive
  <2>3. ASSUME NEW c \in Client, NEW w \in Worker
        PROVE  ClientClaims(client'[c]) \cap WorkClaims(work'[w], jobs') = {}
    <3>1. CASE w = k
      BY <1>5, <3>1
    <3>2. CASE w # k
      BY <1>2, <1>4, <3>2 DEF Exclusive
    <3>. QED  BY <3>1, <3>2
  <2>. QED  BY <2>1, <2>2, <2>3 DEF Exclusive
<1>. QED  BY <1>3, <1>4, <1>6 DEF OwnInv

-----------------------------------------------------------------------------
(* Jobs. *)

LEMMA JobsGoOn ==
  ASSUME TypeOK, OwnInv, RowsGrow(requests, requests'),
         \A j \in Job : /\ jobs'[j].user = jobs[j].user /\ jobs'[j].request = jobs[j].request
                        /\ jobs'[j].state = "free" <=> jobs[j].state = "free"
  PROVE  JobsKept(jobs, jobs') /\ \A j \in Job : JobOwns(jobs'[j], requests')
<1>1. JobsKept(jobs, jobs')
  BY DEF JobsKept
<1>2. ASSUME NEW j \in Job PROVE JobOwns(jobs'[j], requests')
  <2>1. jobs[j].request \in Request \cup {None} /\ JobOwns(jobs[j], requests)
    BY Typed DEF Jobs, OwnInv
  <2>2. JobOwns(jobs[j], requests')
    BY <2>1, JobStays
  <2>. QED  BY <2>2 DEF JobOwns
<1>. QED  BY <1>1, <1>2

LEMMA JobAdded ==
  ASSUME TypeOK, OwnInv, RowsGrow(requests, requests'),
         NEW u \in User, NEW r \in Request \cup {None}, Enqueue(u, r),
         r # None => requests'[r].owner = u /\ requests'[r].status # "absent"
  PROVE  JobsKept(jobs, jobs') /\ \A j \in Job : JobOwns(jobs'[j], requests')
<1>. DEFINE y == [NoJob EXCEPT !.state = "queued", !.user = u, !.request = r]
<1>1. PICK i \in Job : jobs[i].state = "free" /\ jobs' = [jobs EXCEPT ![i] = y]
  BY DEF Enqueue
<1>2. y.state = "queued" /\ y.user = u /\ y.request = r
  BY DEF NoJob
<1>3. \A j \in Job : jobs'[j] = IF j = i THEN y ELSE jobs[j]
  BY <1>1, Typed
<1>. HIDE DEF y
<1>4. JobsKept(jobs, jobs')
  BY <1>1, <1>3 DEF JobsKept
<1>5. JobOwns(y, requests')
  BY <1>2 DEF JobOwns
<1>6. ASSUME NEW j \in Job \ {i} PROVE JobOwns(jobs'[j], requests')
  <2>1. jobs[j].request \in Request \cup {None} /\ JobOwns(jobs[j], requests)
    BY Typed DEF Jobs, OwnInv
  <2>. QED  BY <1>3, <2>1, JobStays
<1>. QED  BY <1>3, <1>4, <1>5, <1>6

\* A job of which the state, the tries and the result change, and no more.
LEMMA JobRuns ==
  ASSUME TypeOK, OwnInv, RowsGrow(requests, requests'), NEW i \in Job, jobs[i].state # "free",
         NEW y, jobs' = [jobs EXCEPT ![i] = y],
         y.user = jobs[i].user, y.request = jobs[i].request, y.state # "free"
  PROVE  JobsKept(jobs, jobs') /\ \A j \in Job : JobOwns(jobs'[j], requests')
<1>1. \A j \in Job : jobs'[j] = IF j = i THEN y ELSE jobs[j]
  BY Typed
<1>. QED  BY <1>1, JobsGoOn

LEMMA JobFinished ==
  ASSUME TypeOK, OwnInv, RowsGrow(requests, requests'), NEW i \in Job, jobs[i].state # "free",
         NEW result, Finished(i, result)
  PROVE  JobsKept(jobs, jobs') /\ \A j \in Job : JobOwns(jobs'[j], requests')
<1>. DEFINE y == [jobs[i] EXCEPT !.state = "done", !.result = result]
<1>1. jobs' = [jobs EXCEPT ![i] = y]
  BY Typed DEF Finished
<1>2. y.user = jobs[i].user /\ y.request = jobs[i].request /\ y.state = "done"
  BY Typed DEF Jobs
<1>. HIDE DEF y
<1>. QED  BY <1>1, <1>2, JobRuns

-----------------------------------------------------------------------------
(* Clients. *)

LEMMA OwnClient ==
  ASSUME TypeOK, OwnInv, NEW c \in Client, Serve(c)
  PROVE  OwnInv'
<1>1. client[c] \in Clients /\ ClientOwns(client[c], requests) /\ "absent" \notin Committed
      /\ UNCHANGED work
  BY Typed DEF OwnInv, Committed, Serve, Check, ApiEnqueue, ApiCommit, BotEnqueue, ClientFails
<1>2. NoClient.phase = "idle" /\ NoClient.request = None
  BY Nothing
<1>3. ASSUME NEW x, client' = [client EXCEPT ![c] = x]
      PROVE  client'[c] = x /\ \A d \in Client \ {c} : client'[d] = client[d]
  BY <1>3, Typed
<1>4. ASSUME UNCHANGED requests PROVE RowsGrow(requests, requests')
  BY <1>4 DEF RowsGrow
<1>5. CASE Check(c)
  <2>1. PICK u \in User, ch \in Channels :
          client' = [client EXCEPT ![c] = [NoClient EXCEPT !.phase = ch, !.user = u]]
    BY <1>5 DEF Check
  <2>. DEFINE x == [NoClient EXCEPT !.phase = ch, !.user = u]
  <2>2. x.phase \in {"api", "bot"} /\ x.user = u /\ x.request = None
    BY PipelineConstants DEF NoClient
  <2>3. UNCHANGED <<requests, jobs>>
    BY <1>5 DEF Check, store, arq
  <2>4. client' = [client EXCEPT ![c] = x]
    BY <2>1
  <2>. HIDE DEF x
  <2>5. ClientOwns(x, requests') /\ ClientClaims(x) = {}
    BY <2>2 DEF ClientOwns, ClientClaims
  <2>6. JobsKept(jobs, jobs') /\ \A j \in Job : JobOwns(jobs'[j], requests')
    BY <1>4, <2>3, JobsGoOn
  <2>7. client'[c] = x /\ \A d \in Client \ {c} : client'[d] = client[d]
    BY <1>3, <2>4
  <2>. QED  BY <1>1, <1>4, <2>3, <2>5, <2>6, <2>7, ClientMoves
<1>6. CASE ApiEnqueue(c)
  <2>. DEFINE u == client[c].user
  <2>1. PICK r \in Request :
          /\ Reserve(r, u) /\ Enqueue(u, r)
          /\ client' = [client EXCEPT ![c].phase = "enqueued", ![c].request = r]
    BY <1>6 DEF ApiEnqueue
  <2>. DEFINE x == [client[c] EXCEPT !.phase = "enqueued", !.request = r]
  <2>2. u \in User
    BY <1>1, <1>6 DEF ApiEnqueue, ClientOwns
  <2>3. /\ requests[r].status = "absent" /\ requests'[r] = [owner |-> u, status |-> "reserved"]
        /\ \A q \in Request \ {r} : requests'[q] = requests[q]
    BY <2>1, Inserted
  <2>4. RowsGrow(requests, requests')
    BY <1>1, <2>3, OneRowGrows
  <2>5. requests'[r].owner = u /\ requests'[r].status # "absent"
    BY <2>3
  <2>6. JobsKept(jobs, jobs') /\ \A j \in Job : JobOwns(jobs'[j], requests')
    BY <2>1, <2>2, <2>4, <2>5, JobAdded
  <2>7. x.phase = "enqueued" /\ x.request = r /\ x.user = u
    BY <1>1 DEF Clients
  <2>8. client' = [client EXCEPT ![c] = x]
    BY <2>1, Typed
  <2>. HIDE DEF x, u
  <2>9. ClientOwns(x, requests') /\ ClientClaims(x) = {r}
    BY <2>2, <2>3, <2>7 DEF ClientOwns, ClientClaims
  <2>10. client'[c] = x /\ \A d \in Client \ {c} : client'[d] = client[d]
    BY <1>3, <2>8
  <2>. QED  BY <1>1, <2>3, <2>4, <2>6, <2>9, <2>10, ClientMoves
<1>7. ASSUME client' = [client EXCEPT ![c] = NoClient], UNCHANGED jobs, NEW status \in Statuses \ {"absent"},
             client[c].phase = "enqueued",
             \A q \in Request \ {client[c].request} : requests'[q] = requests[q],
             requests'[client[c].request] = [owner |-> requests[client[c].request].owner, status |-> status]
      PROVE  OwnInv'
  <2>. DEFINE r == client[c].request
  <2>1. r \in Request /\ requests[r] = [owner |-> client[c].user, status |-> "reserved"]
        /\ "reserved" \notin Committed /\ ClientClaims(client[c]) = {r}
    BY <1>1, <1>7 DEF ClientOwns, ClientClaims, Committed
  <2>2. requests[r].status \notin Committed /\ requests'[r].owner = requests[r].owner
        /\ requests'[r].status # "absent"
    BY <1>7, <2>1
  <2>3. RowsGrow(requests, requests')
    BY <1>1, <1>7, <2>2, OneRowGrows
  <2>4. JobsKept(jobs, jobs') /\ \A j \in Job : JobOwns(jobs'[j], requests')
    BY <1>7, <2>3, JobsGoOn
  <2>5. client'[c] = NoClient /\ \A d \in Client \ {c} : client'[d] = client[d]
    BY <1>3, <1>7
  <2>6. ClientOwns(NoClient, requests') /\ ClientClaims(NoClient) = {}
    BY <1>2 DEF ClientOwns, ClientClaims
  <2>. QED  BY <1>1, <1>7, <2>1, <2>3, <2>4, <2>5, <2>6, ClientMoves
<1>8. CASE ApiCommit(c)
  <2>1. /\ client[c].phase = "enqueued" /\ SetStatus(client[c].request, "pending")
        /\ client' = [client EXCEPT ![c] = NoClient] /\ UNCHANGED jobs
    BY <1>8 DEF ApiCommit, arq
  <2>2. client[c].request \in Request /\ "pending" \in Statuses \ {"absent"}
    BY <1>1, <2>1 DEF ClientOwns, Statuses, Committed
  <2>3. /\ requests'[client[c].request] =
             [owner |-> requests[client[c].request].owner, status |-> "pending"]
        /\ \A q \in Request \ {client[c].request} : requests'[q] = requests[q]
    BY <2>1, <2>2, StatusSet
  <2>. QED  BY <1>7, <2>1, <2>2, <2>3
<1>9. CASE BotEnqueue(c)
  <2>1. /\ client[c].phase = "bot" /\ Enqueue(client[c].user, None)
        /\ client' = [client EXCEPT ![c] = NoClient] /\ UNCHANGED requests
    BY <1>9 DEF BotEnqueue, store
  <2>2. client[c].user \in User
    BY <1>1, <2>1 DEF ClientOwns
  <2>3. JobsKept(jobs, jobs') /\ \A j \in Job : JobOwns(jobs'[j], requests')
    BY <1>4, <2>1, <2>2, JobAdded
  <2>4. client'[c] = NoClient /\ \A d \in Client \ {c} : client'[d] = client[d]
    BY <1>3, <2>1
  <2>5. ClientOwns(NoClient, requests') /\ ClientClaims(NoClient) = {}
    BY <1>2 DEF ClientOwns, ClientClaims
  <2>. QED  BY <1>1, <1>4, <2>1, <2>3, <2>4, <2>5, ClientMoves
<1>10. CASE ClientFails(c)
  <2>1. /\ client[c].phase # "idle" /\ Rollback(client[c].request)
        /\ client' = [client EXCEPT ![c] = NoClient] /\ UNCHANGED jobs
    BY <1>10 DEF ClientFails, arq
  <2>2. CASE client[c].phase = "enqueued"
    <3>1. /\ client[c].request \in Request
          /\ requests[client[c].request] = [owner |-> client[c].user, status |-> "reserved"]
      BY <1>1, <2>2 DEF ClientOwns
    <3>2. requests[client[c].request].status = "reserved" /\ "unused" \in Statuses \ {"absent"}
      BY <3>1 DEF Statuses
    <3>3. /\ requests'[client[c].request] =
               [owner |-> requests[client[c].request].owner, status |-> "unused"]
          /\ \A q \in Request \ {client[c].request} : requests'[q] = requests[q]
      BY <2>1, <3>1, <3>2, RolledBack
    <3>. QED  BY <1>7, <2>1, <2>2, <3>2, <3>3
  <2>3. CASE client[c].phase # "enqueued"
    <3>1. requests' = requests
      BY <1>1, <2>1, <2>3 DEF ClientOwns, Rollback
    <3>2. JobsKept(jobs, jobs') /\ \A j \in Job : JobOwns(jobs'[j], requests')
      BY <1>4, <2>1, <3>1, JobsGoOn
    <3>3. client'[c] = NoClient /\ \A d \in Client \ {c} : client'[d] = client[d]
      BY <1>3, <2>1
    <3>4. ClientOwns(NoClient, requests') /\ ClientClaims(NoClient) = {}
      BY <1>2 DEF ClientOwns, ClientClaims
    <3>. QED  BY <1>1, <1>4, <3>1, <3>2, <3>3, <3>4, ClientMoves
  <2>. QED  BY <2>2, <2>3
<1>. QED  BY <1>5, <1>6, <1>8, <1>9, <1>10 DEF Serve

-----------------------------------------------------------------------------
(* Workers. *)

\* What a run works on: a row of its own, or one that all can see, of the user of its job.
LEMMA Working ==
  ASSUME TypeOK, OwnInv, NEW w \in Worker, work[w].phase # "idle"
  PROVE  /\ work[w].job \in Job /\ jobs[work[w].job] \in Jobs /\ jobs[work[w].job].state # "free"
         /\ work[w].phase \in {"begun", "loaded", "saved"} /\ work[w].request # None =>
              /\ work[w].request \in Request
              /\ jobs[work[w].job].user \in User
              /\ requests[work[w].request].owner = jobs[work[w].job].user
              /\ \/ requests[work[w].request].status \in Committed
                 \/ /\ work[w].request \in WorkClaims(work[w], jobs)
                    /\ requests[work[w].request].status = "reserved"
         /\ work[w].phase \in {"loaded", "saved"} => work[w].request \in Request
<1>. DEFINE x == work[w]
            y == jobs[x.job]
<1>1. x \in Works /\ WorkOwns(x, jobs, requests)
  BY Typed DEF OwnInv
<1>2. x.job \in Job /\ y.state # "free" /\ y \in Jobs
  BY <1>1, Typed DEF WorkOwns
<1>3. JobOwns(y, requests)
  BY <1>2 DEF OwnInv
<1>4. ASSUME x.phase \in {"begun", "loaded", "saved"}, x.request # None
      PROVE  /\ x.request \in Request /\ y.user \in User
             /\ requests[x.request].owner = y.user
             /\ \/ requests[x.request].status \in Committed
                \/ x.request \in WorkClaims(x, jobs) /\ requests[x.request].status = "reserved"
  <2>1. x.request \in Request /\ y.user \in User
    BY <1>1, <1>2, <1>3, <1>4 DEF Works, JobOwns
  <2>2. CASE WorkClaims(x, jobs) = {}
    <3>1. y.request # None
      BY <1>1, <1>4, <2>2 DEF WorkOwns, WorkClaims
    <3>2. x.request = y.request
      BY <1>1, <1>4, <3>1 DEF WorkOwns
    <3>3. requests[x.request].status \in Committed
      BY <1>1, <1>4, <2>2 DEF WorkOwns
    <3>4. requests[y.request].owner = y.user
      BY <1>2, <1>3, <3>1 DEF JobOwns
    <3>. QED  BY <2>1, <3>2, <3>3, <3>4
  <2>3. CASE WorkClaims(x, jobs) # {}
    <3>1. x.request \in WorkClaims(x, jobs)
      BY <2>3 DEF WorkClaims
    <3>2. requests[x.request] = [owner |-> y.user, status |-> "reserved"]
      BY <1>1, <3>1 DEF WorkOwns
    <3>3. requests[x.request].owner = y.user /\ requests[x.request].status = "reserved"
      BY <3>2
    <3>. QED  BY <2>1, <3>1, <3>3
  <2>. QED  BY <2>2, <2>3
<1>5. ASSUME x.phase \in {"loaded", "saved"} PROVE x.request \in Request
  <2>1. CASE y.request = None
    <3>1. x.request \in WorkClaims(x, jobs)
      BY <1>5, <2>1 DEF WorkClaims
    <3>. QED  BY <1>1, <3>1 DEF WorkOwns
  <2>2. CASE y.request # None
    BY <1>1, <1>2, <1>5, <2>2 DEF WorkOwns, Jobs
  <2>. QED  BY <2>1, <2>2
<1>. QED  BY <1>2, <1>4, <1>5

\* The rollback of a run undoes what it has inserted, and nothing else.
LEMMA WorkerRollsBack ==
  ASSUME TypeOK, OwnInv, NEW w \in Worker, Rollback(work[w].request)
  PROVE  /\ RowsGrow(requests, requests')
         /\ \A q \in Request : requests'[q] = requests[q] \/ q \in WorkClaims(work[w], jobs)
<1>. DEFINE r == work[w].request
<1>1. r \in Request \cup {None} /\ WorkOwns(work[w], jobs, requests) /\ "absent" \notin Committed
      /\ "reserved" \notin Committed
  BY Typed DEF Works, OwnInv, Committed
<1>2. /\ \A q \in Request : q # r \/ requests[q].status # "reserved" => requests'[q] = requests[q]
      /\ r \in Request /\ requests[r].status = "reserved" =>
           requests'[r] = [owner |-> requests[r].owner, status |-> "unused"]
  BY <1>1, RolledBack
<1>3. ASSUME NEW q \in Request, requests'[q] # requests[q]
      PROVE  q = r /\ requests[q].status = "reserved" /\ q \in WorkClaims(work[w], jobs)
  <2>1. q = r /\ requests[q].status = "reserved" /\ q # None
    BY <1>2, <1>3, PipelineConstants
  <2>2. WorkClaims(work[w], jobs) # {}
    BY <1>1, <2>1 DEF WorkOwns
  <2>. QED  BY <2>1, <2>2 DEF WorkClaims
<1>4. r \in Request => \/ requests'[r] = requests[r]
                       \/ /\ requests'[r].owner = requests[r].owner /\ requests'[r].status = "unused"
                          /\ requests[r].status = "reserved"
  BY <1>2, <1>3
<1>5. RowsGrow(requests, requests')
  BY <1>1, <1>2, <1>4 DEF RowsGrow
<1>. QED  BY <1>3, <1>5

\* A slot whose run is over has nothing.
LEMMA WorkerStops ==
  ASSUME TypeOK, OwnInv, NEW w \in Worker, work' = [work EXCEPT ![w] = NoWork], UNCHANGED client,
         RowsGrow(requests, requests'),
         \A q \in Request : requests'[q] = requests[q] \/ q \in WorkClaims(work[w], jobs),
         JobsKept(jobs, jobs'), \A j \in Job : JobOwns(jobs'[j], requests')
  PROVE  OwnInv'
<1>1. work'[w] = NoWork /\ \A v \in Worker \ {w} : work'[v] = work[v]
  BY Typed
<1>2. NoWork.phase = "idle" /\ NoWork.request = None
  BY Nothing
<1>3. WorkClaims(NoWork, jobs') = {}
  BY <1>2 DEF WorkClaims
<1>4. WorkOwns(NoWork, jobs', requests')
  BY <1>2, <1>3 DEF WorkOwns
<1>. QED  BY <1>1, <1>3, <1>4, WorkerMoves

LEMMA OwnFails ==
  ASSUME TypeOK, OwnInv, NEW w \in Worker, work[w].phase # "idle", NEW result, Fails(w, result)
  PROVE  OwnInv'
<1>1. /\ Finished(work[w].job, result) /\ Rollback(work[w].request)
      /\ work' = [work EXCEPT ![w] = NoWork] /\ UNCHANGED client
  BY DEF Fails
<1>2. /\ RowsGrow(requests, requests')
      /\ \A q \in Request : requests'[q] = requests[q] \/ q \in WorkClaims(work[w], jobs)
  BY <1>1, WorkerRollsBack
<1>3. work[w].job \in Job /\ jobs[work[w].job].state # "free"
  BY Working
<1>4. JobsKept(jobs, jobs') /\ \A j \in Job : JobOwns(jobs'[j], requests')
  BY <1>1, <1>2, <1>3, JobFinished
<1>. QED  BY <1>1, <1>2, <1>4, WorkerStops

LEMMA OwnCrash ==
  ASSUME TypeOK, OwnInv, NEW w \in Worker, Crash(w)
  PROVE  OwnInv'
<1>1. /\ work[w].phase # "idle" /\ Rollback(work[w].request)
      /\ jobs' = [jobs EXCEPT ![work[w].job].state = "queued", ![work[w].job].result = "none"]
      /\ work' = [work EXCEPT ![w] = NoWork] /\ UNCHANGED client
  BY DEF Crash
<1>2. /\ RowsGrow(requests, requests')
      /\ \A q \in Request : requests'[q] = requests[q] \/ q \in WorkClaims(work[w], jobs)
  BY <1>1, WorkerRollsBack
<1>. DEFINE i == work[w].job
            y == [jobs[i] EXCEPT !.state = "queued", !.result = "none"]
<1>3. i \in Job /\ jobs[i].state # "free" /\ jobs[i] \in Jobs
  BY <1>1, Working
<1>4. y.user = jobs[i].user /\ y.request = jobs[i].request /\ y.state = "queued"
  BY <1>3 DEF Jobs
<1>5. jobs' = [jobs EXCEPT ![i] = y]
  BY <1>1, <1>3, Typed
<1>. HIDE DEF i, y
<1>6. JobsKept(jobs, jobs') /\ \A j \in Job : JobOwns(jobs'[j], requests')
  BY <1>2, <1>3, <1>4, <1>5, JobRuns
<1>. QED  BY <1>1, <1>2, <1>6, WorkerStops

\* A run commits: nothing is its own any more, and what it worked on can be seen.
LEMMA OwnCommits ==
  ASSUME TypeOK, OwnInv, NEW w \in Worker, work[w].phase # "idle", NEW result, Commits(w, result),
         RowsGrow(requests, requests'),
         work[w].request # None => requests'[work[w].request].status \in Committed,
         \A q \in Request : \/ requests'[q] = requests[q]
                            \/ requests[q].status # "reserved"
                            \/ q \in WorkClaims(work[w], jobs)
  PROVE  OwnInv'
<1>. DEFINE i == work[w].job
            y == [jobs[i] EXCEPT !.result = result]
            x == [work[w] EXCEPT !.phase = "committed"]
<1>1. /\ work' = [work EXCEPT ![w] = x] /\ jobs' = [jobs EXCEPT ![i] = y] /\ UNCHANGED client
  BY Typed DEF Commits
<1>2. i \in Job /\ jobs[i].state # "free" /\ jobs[i] \in Jobs
  BY Working
<1>3. y.user = jobs[i].user /\ y.request = jobs[i].request /\ y.state = jobs[i].state
  BY <1>2 DEF Jobs
<1>4. x.phase = "committed" /\ x.job = i /\ x.request = work[w].request
  BY Typed DEF Works
<1>5. work'[w] = x /\ \A v \in Worker \ {w} : work'[v] = work[v]
  BY <1>1, Typed
<1>. HIDE DEF y
<1>6. JobsKept(jobs, jobs') /\ \A j \in Job : JobOwns(jobs'[j], requests')
  BY <1>1, <1>2, <1>3, JobRuns
<1>. HIDE DEF x
<1>7. WorkClaims(x, jobs') = {}
  BY <1>4 DEF WorkClaims
<1>8. WorkOwns(x, jobs', requests')
  BY <1>2, <1>4, <1>6, <1>7 DEF WorkOwns, JobsKept
<1>. QED  BY <1>1, <1>5, <1>6, <1>7, <1>8, WorkerMoves

LEMMA OwnStart ==
  ASSUME TypeOK, OwnInv, NEW w \in Worker, Start(w)
  PROVE  OwnInv'
<1>1. PICK j \in Job :
        /\ work[w].phase = "idle" /\ jobs[j].state = "queued"
        /\ IF Refusal(j) \in {"none", "quota"}
           THEN /\ jobs' = [jobs EXCEPT ![j].state = "running", ![j].tries = @ + 1,
                                        ![j].result = Refusal(j)]
                /\ work' = [work EXCEPT ![w] =
                     [phase |-> IF Refusal(j) = "none" THEN "begun" ELSE "committed",
                      job |-> j, request |-> jobs[j].request]]
           ELSE Finished(j, Refusal(j)) /\ UNCHANGED work
        /\ UNCHANGED <<requests, client>>
  BY DEF Start, store
<1>2. RowsGrow(requests, requests') /\ jobs[j].state # "free" /\ jobs[j] \in Jobs
  BY <1>1, Typed DEF RowsGrow
<1>3. CASE Refusal(j) \in {"none", "quota"}
  <2>. DEFINE y == [jobs[j] EXCEPT !.state = "running", !.tries = @ + 1, !.result = Refusal(j)]
              x == [phase |-> IF Refusal(j) = "none" THEN "begun" ELSE "committed",
                    job |-> j, request |-> jobs[j].request]
  <2>1. jobs' = [jobs EXCEPT ![j] = y] /\ work' = [work EXCEPT ![w] = x]
    BY <1>1, <1>3, Typed
  <2>2. y.user = jobs[j].user /\ y.request = jobs[j].request /\ y.state = "running"
    BY <1>2 DEF Jobs
  <2>3. /\ x.phase = IF Refusal(j) = "none" THEN "begun" ELSE "committed"
        /\ x.job = j /\ x.request = jobs[j].request
    OBVIOUS
  <2>4. work'[w] = x /\ \A v \in Worker \ {w} : work'[v] = work[v]
    BY <2>1, Typed
  <2>5. jobs'[j] = y
    BY <2>1, Typed
  <2>6. x.request # None => requests[x.request].status \in Committed
    BY <1>3, <2>3 DEF Refusal
  <2>. HIDE DEF x, y
  <2>7. JobsKept(jobs, jobs') /\ \A i \in Job : JobOwns(jobs'[i], requests')
    BY <1>2, <2>1, <2>2, JobRuns
  <2>8. WorkClaims(x, jobs') = {}
    BY <2>3 DEF WorkClaims
  <2>9. WorkOwns(x, jobs', requests')
    BY <1>1, <2>2, <2>3, <2>5, <2>6, <2>8 DEF WorkOwns
  <2>. QED  BY <1>1, <1>2, <2>4, <2>7, <2>8, <2>9, WorkerMoves
<1>4. CASE Refusal(j) \notin {"none", "quota"}
  <2>1. Finished(j, Refusal(j)) /\ work' = work
    BY <1>1, <1>4
  <2>2. JobsKept(jobs, jobs') /\ \A i \in Job : JobOwns(jobs'[i], requests')
    BY <1>2, <2>1, JobFinished
  <2>3. /\ WorkOwns(work[w], jobs', requests')
        /\ WorkClaims(work[w], jobs') = WorkClaims(work[w], jobs)
    <3>1. work[w].request \in Request \cup {None} /\ WorkOwns(work[w], jobs, requests)
      BY Typed DEF Works, OwnInv
    <3>. QED  BY <1>1, <1>2, <2>2, <3>1, WorkStays
  <2>. QED  BY <1>1, <1>2, <2>1, <2>2, <2>3, WorkerMoves
<1>. QED  BY <1>3, <1>4

LEMMA OwnLoads ==
  ASSUME TypeOK, OwnInv, NEW w \in Worker, LoadVacancy(w)
  PROVE  OwnInv'
<1>. DEFINE y == jobs[work[w].job]
<1>1. /\ work[w].phase = "begun" /\ UNCHANGED <<jobs, client>>
      /\ work[w] \in Works /\ WorkOwns(work[w], jobs, requests)
  BY Typed DEF LoadVacancy, arq, OwnInv
<1>2. work[w].job \in Job /\ y.state # "free" /\ "absent" \notin Committed
  BY <1>1, Working DEF Committed
<1>3. ASSUME NEW x, work' = [work EXCEPT ![w] = x]
      PROVE  work'[w] = x /\ \A v \in Worker \ {w} : work'[v] = work[v]
  BY <1>3, Typed
<1>4. CASE work[w].request # None
  <2>. DEFINE x == [work[w] EXCEPT !.phase = "loaded"]
  <2>1. work' = [work EXCEPT ![w] = x] /\ UNCHANGED requests
    BY <1>4, Typed DEF LoadVacancy
  <2>2. x.phase = "loaded" /\ x.job = work[w].job /\ x.request = work[w].request
    BY <1>1 DEF Works
  <2>3. RowsGrow(requests, requests')
    BY <2>1 DEF RowsGrow
  <2>4. JobsKept(jobs, jobs') /\ \A i \in Job : JobOwns(jobs'[i], requests')
    BY <1>1, <2>3, JobsGoOn
  <2>5. work'[w] = x /\ \A v \in Worker \ {w} : work'[v] = work[v]
    BY <1>3, <2>1
  <2>. HIDE DEF x
  <2>6. y.request # None /\ WorkClaims(work[w], jobs) = {}
    BY <1>1, <1>4 DEF WorkOwns, WorkClaims
  <2>7. WorkClaims(x, jobs') = {}
    BY <1>1, <2>2, <2>6 DEF WorkClaims
  <2>8. WorkOwns(x, jobs', requests')
    BY <1>1, <1>2, <2>1, <2>2, <2>6, <2>7 DEF WorkOwns
  <2>. QED  BY <1>1, <2>1, <2>3, <2>4, <2>5, <2>7, <2>8, WorkerMoves
<1>5. CASE work[w].request = None
  <2>1. PICK r \in Request :
          /\ Reserve(r, y.user)
          /\ work' = [work EXCEPT ![w].phase = "loaded", ![w].request = r]
    BY <1>5 DEF LoadVacancy
  <2>. DEFINE x == [work[w] EXCEPT !.phase = "loaded", !.request = r]
  <2>2. x.phase = "loaded" /\ x.job = work[w].job /\ x.request = r
    BY <1>1 DEF Works
  <2>3. work' = [work EXCEPT ![w] = x]
    BY <2>1, Typed
  <2>4. /\ requests[r].status = "absent" /\ requests'[r] = [owner |-> y.user, status |-> "reserved"]
        /\ \A q \in Request \ {r} : requests'[q] = requests[q]
    BY <2>1, Inserted
  <2>5. RowsGrow(requests, requests')
    BY <1>2, <2>4, OneRowGrows
  <2>6. JobsKept(jobs, jobs') /\ \A i \in Job : JobOwns(jobs'[i], requests')
    BY <1>1, <2>5, JobsGoOn
  <2>7. work'[w] = x /\ \A v \in Worker \ {w} : work'[v] = work[v]
    BY <1>3, <2>3
  <2>8. y.request = None
    BY <1>1, <1>5 DEF WorkOwns
  <2>. HIDE DEF x
  <2>9. WorkClaims(x, jobs') = {r}
    BY <1>1, <2>2, <2>8 DEF WorkClaims
  <2>10. WorkOwns(x, jobs', requests')
    BY <1>1, <1>2, <2>2, <2>4, <2>8, <2>9 DEF WorkOwns
  <2>11. \A q \in Request : requests'[q] = requests[q] \/ requests[q].status # "reserved"
    BY <2>4
  <2>. QED  BY <1>1, <2>4, <2>5, <2>6, <2>7, <2>9, <2>10, <2>11, WorkerMoves
<1>. QED  BY <1>4, <1>5

LEMMA OwnSaves ==
  ASSUME TypeOK, OwnInv, NEW w \in Worker, SaveLetter(w)
  PROVE  OwnInv'
<1>. DEFINE x == [work[w] EXCEPT !.phase = "saved"]
            y == jobs[work[w].job]
<1>1. /\ work[w].phase = "loaded" /\ work' = [work EXCEPT ![w] = x] /\ UNCHANGED <<requests, jobs, client>>
      /\ work[w] \in Works /\ WorkOwns(work[w], jobs, requests)
  BY Typed DEF SaveLetter, store, arq, OwnInv
<1>2. x.phase = "saved" /\ x.job = work[w].job /\ x.request = work[w].request
  BY <1>1 DEF Works
<1>3. RowsGrow(requests, requests')
  BY <1>1 DEF RowsGrow
<1>4. JobsKept(jobs, jobs') /\ \A i \in Job : JobOwns(jobs'[i], requests')
  BY <1>1, <1>3, JobsGoOn
<1>5. work'[w] = x /\ \A v \in Worker \ {w} : work'[v] = work[v]
  BY <1>1, Typed
<1>. HIDE DEF x
<1>6. WorkClaims(x, jobs') = WorkClaims(work[w], jobs)
  BY <1>1, <1>2 DEF WorkClaims
<1>7. WorkOwns(x, jobs', requests')
  <2>1. \A r \in WorkClaims(x, jobs') :
          r \in Request /\ requests'[r] = [owner |-> jobs'[x.job].user, status |-> "reserved"]
    BY <1>1, <1>2, <1>6 DEF WorkOwns
  <2>2. WorkClaims(x, jobs') = {} /\ x.request # None => requests'[x.request].status \in Committed
    BY <1>1, <1>2, <1>6 DEF WorkOwns
  <2>. QED  BY <1>1, <1>2, <2>1, <2>2 DEF WorkOwns
<1>. QED  BY <1>1, <1>3, <1>4, <1>5, <1>6, <1>7, WorkerMoves

LEMMA OwnHHFails ==
  ASSUME TypeOK, OwnInv, NEW w \in Worker, HHFails(w)
  PROVE  OwnInv'
<1>. DEFINE r == work[w].request
<1>1. /\ work[w].phase = "begun" /\ Commits(w, "hh_error")
      /\ IF r = None THEN UNCHANGED requests ELSE SetStatus(r, "failed")
  BY DEF HHFails
<1>2. "failed" \in Statuses /\ "failed" \in Committed /\ "absent" \notin Committed
      /\ "reserved" \notin Committed
  BY DEF Statuses, Committed
<1>3. CASE r = None
  <2>1. requests' = requests
    BY <1>1, <1>3
  <2>2. RowsGrow(requests, requests')
    BY <2>1 DEF RowsGrow
  <2>. QED  BY <1>1, <1>3, <2>1, <2>2, OwnCommits
<1>4. CASE r # None
  <2>1. r \in Request /\ (requests[r].status \in Committed \/ r \in WorkClaims(work[w], jobs))
    BY <1>1, <1>4, Working
  <2>2. requests[r].status \in Committed
    BY <1>1, <2>1 DEF WorkClaims
  <2>3. /\ requests'[r] = [owner |-> requests[r].owner, status |-> "failed"]
        /\ \A q \in Request \ {r} : requests'[q] = requests[q]
    BY <1>1, <1>2, <1>4, <2>1, StatusSet
  <2>4. requests'[r].status = "failed" /\ requests'[r].owner = requests[r].owner
    BY <2>3
  <2>. HIDE DEF r
  <2>5. RowsGrow(requests, requests')
    BY <1>2, <2>3, <2>4, OneRowGrows
  <2>6. \A q \in Request : requests'[q] = requests[q] \/ requests[q].status # "reserved"
    BY <1>2, <2>2, <2>3
  <2>7. r # None => requests'[r].status \in Committed
    BY <1>2, <2>4
  <2>. QED  BY <1>1, <2>5, <2>6, <2>7, OwnCommits DEF r
<1>. QED  BY <1>3, <1>4

\* What a debit does to the request it is for.
LEMMA DebitedRow ==
  ASSUME TypeOK, OwnInv, NEW w \in Worker, Debit(w)
  PROVE  /\ work[w].request \in Request /\ jobs[work[w].job].user \in User
         /\ \/ requests[work[w].request].status \in Committed
            \/ /\ work[w].request \in WorkClaims(work[w], jobs)
               /\ requests[work[w].request].status = "reserved"
         /\ requests[work[w].request].owner = jobs[work[w].job].user
         /\ requests'[work[w].request] = [owner |-> jobs[work[w].job].user, status |-> "succeeded"]
         /\ \A q \in Request \ {work[w].request} : requests'[q] = requests[q]
<1>1. work[w].phase = "saved" /\ SetStatus(work[w].request, "succeeded") /\ "succeeded" \in Statuses
  BY DEF Debit, Statuses, Committed
<1>2. work[w].request \in Request /\ work[w].request # None
  BY <1>1, Working, PipelineConstants
<1>3. /\ jobs[work[w].job].user \in User
      /\ requests[work[w].request].owner = jobs[work[w].job].user
      /\ \/ requests[work[w].request].status \in Committed
         \/ /\ work[w].request \in WorkClaims(work[w], jobs)
            /\ requests[work[w].request].status = "reserved"
  BY <1>1, <1>2, Working
<1>. QED  BY <1>1, <1>2, <1>3, StatusSet

LEMMA OwnDebit ==
  ASSUME TypeOK, OwnInv, NEW w \in Worker, Debit(w)
  PROVE  OwnInv'
<1>. DEFINE r == work[w].request
            u == jobs[work[w].job].user
<1>1. work[w].phase = "saved" /\ Commits(w, "ok")
  BY DEF Debit
<1>2. /\ r \in Request
      /\ \/ requests[r].status \in Committed
         \/ r \in WorkClaims(work[w], jobs) /\ requests[r].status = "reserved"
      /\ requests[r].owner = u
      /\ requests'[r] = [owner |-> u, status |-> "succeeded"]
      /\ \A q \in Request \ {r} : requests'[q] = requests[q]
  BY DebitedRow
<1>3. "succeeded" \in Committed /\ "absent" \notin Committed /\ "reserved" \notin Committed
  BY DEF Committed
<1>. HIDE DEF r, u
<1>4. requests'[r].status = "succeeded" /\ requests'[r].owner = requests[r].owner
  BY <1>2
<1>5. RowsGrow(requests, requests')
  BY <1>2, <1>3, <1>4, OneRowGrows
<1>6. \A q \in Request : \/ requests'[q] = requests[q]
                         \/ requests[q].status # "reserved"
                         \/ q \in WorkClaims(work[w], jobs)
  BY <1>2, <1>3
<1>7. r # None => requests'[r].status \in Committed
  BY <1>3, <1>4
<1>. QED  BY <1>1, <1>5, <1>6, <1>7, OwnCommits DEF r

LEMMA OwnReport ==
  ASSUME TypeOK, OwnInv, NEW w \in Worker, Report(w)
  PROVE  OwnInv'
<1>1. PICK result :
        /\ work[w].phase = "committed" /\ Finished(work[w].job, result)
        /\ work' = [work EXCEPT ![w] = NoWork] /\ UNCHANGED <<requests, client>>
  BY DEF Report, store
<1>2. RowsGrow(requests, requests')
  BY <1>1 DEF RowsGrow
<1>3. work[w].job \in Job /\ jobs[work[w].job].state # "free"
  BY <1>1, Working
<1>4. JobsKept(jobs, jobs') /\ \A j \in Job : JobOwns(jobs'[j], requests')
  BY <1>1, <1>2, <1>3, JobFinished
<1>. QED  BY <1>1, <1>2, <1>4, WorkerStops

-----------------------------------------------------------------------------
(* The invariant, and the refinement. *)

LEMMA InitOwns == Init => OwnInv
<1>. SUFFICES ASSUME Init PROVE OwnInv
  OBVIOUS
<1>1. NoClient.phase = "idle" /\ NoClient.request = None /\ NoWork.phase = "idle" /\ NoWork.request = None
  BY Nothing
<1>2. ASSUME NEW c \in Client
      PROVE  ClientOwns(client[c], requests) /\ ClientClaims(client[c]) = {}
  BY <1>1 DEF Init, ClientOwns, ClientClaims
<1>3. ASSUME NEW w \in Worker
      PROVE  WorkOwns(work[w], jobs, requests) /\ WorkClaims(work[w], jobs) = {}
  <2>1. WorkClaims(NoWork, jobs) = {}
    BY <1>1 DEF WorkClaims
  <2>. QED  BY <1>1, <2>1 DEF Init, WorkOwns
<1>4. ASSUME NEW j \in Job PROVE JobOwns(jobs[j], requests)
  BY DEF Init, NoJob, JobOwns
<1>. QED  BY <1>2, <1>3, <1>4 DEF OwnInv, Exclusive

LEMMA NextOwns == TypeOK /\ OwnInv /\ [Next]_vars => OwnInv'
<1>. SUFFICES ASSUME TypeOK, OwnInv, [Next]_vars PROVE OwnInv'
  OBVIOUS
<1>1. CASE UNCHANGED vars
  <2>1. UNCHANGED <<requests, jobs, client, work>>
    BY <1>1 DEF vars, store, arq
  <2>. QED  BY <2>1 DEF OwnInv
<1>2. ASSUME NEW w \in Worker, Run(w) PROVE OwnInv'
  <2>1. CASE VacancyClosed(w) \/ LLMFails(w) \/ DebitRefused(w) \/ Deadlock(w)
    <3>1. work[w].phase # "idle" /\ \E result : Fails(w, result)
      BY <2>1 DEF VacancyClosed, LLMFails, DebitRefused, Deadlock
    <3>. QED  BY <3>1, OwnFails
  <2>. QED  BY <1>2, <2>1, OwnStart, OwnHHFails, OwnLoads, OwnSaves, OwnDebit, OwnReport DEF Run
<1>3. ASSUME NEW w \in Worker, Timeout(w) PROVE OwnInv'
  <2>1. work[w].phase # "idle" /\ Fails(w, "timeout")
    BY <1>3 DEF Timeout
  <2>. QED  BY <2>1, OwnFails
<1>. QED  BY <1>1, <1>2, <1>3, OwnClient, OwnCrash DEF Next

\* What others see of a request.
Seen(row) == IF row.status \in Committed THEN row ELSE [owner |-> None, status |-> "absent"]

LEMMA VisibleRows ==
  /\ Visible = [r \in Request |-> Seen(requests[r])]
  /\ Visible' = [r \in Request |-> Seen(requests'[r])]
BY DEF Visible, Seen

\* Nobody sees what happens to rows that are not committed.
LEMMA Unseen ==
  ASSUME \A q \in Request : \/ requests'[q] = requests[q]
                            \/ /\ requests[q].status \notin Committed
                               /\ requests'[q].status \notin Committed
  PROVE  Visible' = Visible
<1>1. ASSUME NEW q \in Request PROVE Seen(requests'[q]) = Seen(requests[q])
  BY DEF Seen
<1>. QED  BY <1>1, VisibleRows

LEMMA RolledBackUnseen ==
  ASSUME TypeOK, NEW r \in Request \cup {None}, Rollback(r)
  PROVE  Visible' = Visible
<1>1. "reserved" \notin Committed /\ "unused" \notin Committed
  BY DEF Committed
<1>2. ASSUME NEW q \in Request, requests'[q] # requests[q]
      PROVE  requests[q].status \notin Committed /\ requests'[q].status \notin Committed
  <2>1. q = r /\ requests[q].status = "reserved"
    BY <1>2, RolledBack
  <2>2. requests'[q] = [owner |-> requests[q].owner, status |-> "unused"]
    BY <2>1, RolledBack
  <2>. QED  BY <1>1, <2>1, <2>2
<1>. QED  BY <1>2, Unseen

LEMMA InsertedUnseen ==
  ASSUME TypeOK, NEW r \in Request, NEW u, Reserve(r, u)
  PROVE  Visible' = Visible
<1>1. "reserved" \notin Committed /\ "absent" \notin Committed
  BY DEF Committed
<1>2. /\ requests[r].status = "absent" /\ requests'[r] = [owner |-> u, status |-> "reserved"]
      /\ \A q \in Request \ {r} : requests'[q] = requests[q]
  BY Inserted
<1>3. requests'[r].status = "reserved"
  BY <1>2
<1>. QED  BY <1>1, <1>2, <1>3, Unseen

\* A row that is committed is seen to change as it does.
LEMMA SeenChange ==
  ASSUME NEW r \in Request, \A q \in Request \ {r} : requests'[q] = requests[q],
         requests'[r].status \in Committed
  PROVE  Visible' = [Visible EXCEPT ![r] = requests'[r]]
<1>1. \A q \in Request : Seen(requests'[q]) = IF q = r THEN requests'[r] ELSE Seen(requests[q])
  BY DEF Seen
<1>. QED  BY <1>1, VisibleRows

PromiseVars == <<credits, Visible, letters, spends>>

LEMMA ClientPromises ==
  ASSUME TypeOK, OwnInv, NEW c \in Client, Serve(c)
  PROVE  [Promise!Next]_PromiseVars
<1>1. client[c] \in Clients /\ ClientOwns(client[c], requests)
      /\ UNCHANGED <<credits, letters, spends>>
  BY Typed DEF OwnInv, Serve, Check, ApiEnqueue, ApiCommit, BotEnqueue, ClientFails, store
<1>2. CASE Check(c) \/ BotEnqueue(c)
  <2>1. requests' = requests
    BY <1>2 DEF Check, BotEnqueue, store
  <2>2. Visible' = Visible
    BY <2>1, Unseen
  <2>. QED  BY <1>1, <2>2 DEF PromiseVars
<1>3. CASE ApiEnqueue(c)
  <2>1. PICK r \in Request : Reserve(r, client[c].user)
    BY <1>3 DEF ApiEnqueue
  <2>2. Visible' = Visible
    BY <2>1, InsertedUnseen
  <2>. QED  BY <1>1, <2>2 DEF PromiseVars
<1>4. CASE ClientFails(c)
  <2>1. Rollback(client[c].request) /\ client[c].request \in Request \cup {None}
    BY <1>1, <1>4 DEF ClientFails, Clients
  <2>2. Visible' = Visible
    BY <2>1, RolledBackUnseen
  <2>. QED  BY <1>1, <2>2 DEF PromiseVars
<1>5. CASE ApiCommit(c)
  <2>. DEFINE r == client[c].request
              u == client[c].user
  <2>1. client[c].phase = "enqueued" /\ SetStatus(r, "pending") /\ "pending" \in Statuses
        /\ "pending" \in Committed /\ "reserved" \notin Committed
    BY <1>5 DEF ApiCommit, Statuses, Committed
  <2>2. u \in User /\ r \in Request /\ requests[r] = [owner |-> u, status |-> "reserved"]
    BY <1>1, <2>1 DEF ClientOwns
  <2>3. /\ requests'[r] = [owner |-> requests[r].owner, status |-> "pending"]
        /\ \A q \in Request \ {r} : requests'[q] = requests[q]
    BY <2>1, <2>2, StatusSet
  <2>. HIDE DEF r, u
  <2>4. requests[r].owner = u /\ requests[r].status = "reserved"
    BY <2>2
  <2>5. requests'[r] = [owner |-> u, status |-> "pending"] /\ requests'[r].status = "pending"
    BY <2>3, <2>4
  <2>6. Visible[r] = Promise!NoRow
    BY <2>1, <2>2, <2>4, VisibleRows DEF Seen, Promise!NoRow
  <2>7. Visible' = [Visible EXCEPT ![r] = [owner |-> u, status |-> "pending"]]
    BY <2>1, <2>2, <2>3, <2>5, SeenChange
  <2>8. Promise!Accept(r, u)
    BY <1>1, <2>6, <2>7 DEF Promise!Accept
  <2>. QED  BY <2>2, <2>8 DEF Promise!Next
<1>. QED  BY <1>2, <1>3, <1>4, <1>5 DEF Serve

LEMMA HHFailsPromises ==
  ASSUME TypeOK, OwnInv, NEW w \in Worker, HHFails(w)
  PROVE  [Promise!Next]_PromiseVars
<1>. DEFINE r == work[w].request
<1>1. /\ work[w].phase = "begun" /\ UNCHANGED <<credits, letters, spends>>
      /\ IF r = None THEN UNCHANGED requests ELSE SetStatus(r, "failed")
  BY DEF HHFails
<1>2. CASE r = None
  <2>1. Visible' = Visible
    BY <1>1, <1>2, Unseen
  <2>. QED  BY <1>1, <2>1 DEF PromiseVars
<1>3. CASE r # None
  <2>1. r \in Request /\ (requests[r].status \in Committed \/ r \in WorkClaims(work[w], jobs))
    BY <1>1, <1>3, Working
  <2>2. requests[r].status \in Committed /\ requests[r] \in Rows
    BY <1>1, <2>1, Typed DEF WorkClaims
  <2>3. "failed" \in Statuses /\ "failed" \in Committed /\ "absent" \notin Committed
    BY DEF Statuses, Committed
  <2>4. /\ requests'[r] = [owner |-> requests[r].owner, status |-> "failed"]
        /\ \A q \in Request \ {r} : requests'[q] = requests[q]
    BY <1>1, <1>3, <2>1, <2>3, StatusSet
  <2>. HIDE DEF r
  <2>5. requests'[r].status = "failed"
    BY <2>4
  <2>6. Visible[r] = requests[r] /\ DOMAIN Visible = Request
    BY <2>1, <2>2, VisibleRows DEF Seen
  <2>7. Visible[r] # Promise!NoRow
    <3>1. Promise!NoRow.status = "absent"
      BY DEF Promise!NoRow
    <3>. QED  BY <2>2, <2>3, <2>6, <3>1
  <2>8. Visible' = [Visible EXCEPT ![r] = requests'[r]]
    BY <2>1, <2>3, <2>4, <2>5, SeenChange
  <2>9. requests'[r] = [requests[r] EXCEPT !.status = "failed"]
    BY <2>2, <2>4 DEF Rows
  <2>10. Visible' = [Visible EXCEPT ![r].status = "failed"]
    BY <2>1, <2>6, <2>8, <2>9
  <2>11. Promise!Fail(r)
    BY <1>1, <2>7, <2>10 DEF Promise!Fail
  <2>. QED  BY <2>1, <2>11 DEF Promise!Next
<1>. QED  BY <1>2, <1>3

LEMMA DebitPromises ==
  ASSUME TypeOK, OwnInv, NEW w \in Worker, Debit(w)
  PROVE  Promise!Next
<1>. DEFINE r == work[w].request
            u == jobs[work[w].job].user
<1>1. /\ credits[u] >= Cost /\ credits' = [credits EXCEPT ![u] = @ - Cost]
      /\ letters' = [letters EXCEPT ![r] = @ + 1] /\ spends' = [spends EXCEPT ![r] = @ + 1]
  BY DEF Debit
<1>2. /\ r \in Request /\ u \in User
      /\ requests[r].owner = u
      /\ requests'[r] = [owner |-> u, status |-> "succeeded"]
      /\ \A q \in Request \ {r} : requests'[q] = requests[q]
  BY DebitedRow
<1>. HIDE DEF r, u
<1>3. requests'[r].status = "succeeded" /\ "succeeded" \in Committed
  BY <1>2 DEF Committed
<1>4. Visible[r] = Promise!NoRow \/ Visible[r].owner = u
  <2>1. Visible[r] = Seen(requests[r])
    BY <1>2, VisibleRows
  <2>2. CASE requests[r].status \in Committed
    BY <1>2, <2>1, <2>2 DEF Seen
  <2>3. CASE requests[r].status \notin Committed
    BY <2>1, <2>3 DEF Seen, Promise!NoRow
  <2>. QED  BY <2>2, <2>3
<1>5. Visible' = [Visible EXCEPT ![r] = [owner |-> u, status |-> "succeeded"]]
  BY <1>2, <1>3, SeenChange
<1>6. Promise!Deliver(r, u)
  BY <1>1, <1>4, <1>5 DEF Promise!Deliver
<1>. QED  BY <1>2, <1>6 DEF Promise!Next

LEMMA WorkerPromises ==
  ASSUME TypeOK, OwnInv, NEW w \in Worker, Run(w) \/ Timeout(w) \/ Crash(w)
  PROVE  [Promise!Next]_PromiseVars
<1>1. ASSUME Rollback(work[w].request), UNCHANGED <<credits, letters, spends>>
      PROVE  [Promise!Next]_PromiseVars
  <2>1. work[w].request \in Request \cup {None}
    BY Typed DEF Works
  <2>2. Visible' = Visible
    BY <1>1, <2>1, RolledBackUnseen
  <2>. QED  BY <1>1, <2>2 DEF PromiseVars
<1>2. CASE \/ VacancyClosed(w) \/ LLMFails(w) \/ DebitRefused(w) \/ Deadlock(w) \/ Timeout(w)
           \/ Crash(w)
  BY <1>1, <1>2 DEF VacancyClosed, LLMFails, DebitRefused, Deadlock, Timeout, Fails, Crash
<1>3. CASE Start(w) \/ SaveLetter(w) \/ Report(w)
  <2>1. UNCHANGED <<credits, requests, letters, spends>>
    BY <1>3 DEF Start, SaveLetter, Report, store
  <2>2. Visible' = Visible
    BY <2>1, Unseen
  <2>. QED  BY <2>1, <2>2 DEF PromiseVars
<1>4. CASE LoadVacancy(w)
  <2>1. UNCHANGED <<credits, letters, spends>>
    BY <1>4 DEF LoadVacancy
  <2>2. requests' = requests \/ \E r \in Request : Reserve(r, jobs[work[w].job].user)
    BY <1>4 DEF LoadVacancy
  <2>3. Visible' = Visible
    BY <2>2, Unseen, InsertedUnseen
  <2>. QED  BY <2>1, <2>3 DEF PromiseVars
<1>. QED  BY <1>2, <1>3, <1>4, HHFailsPromises, DebitPromises DEF Run

LEMMA StepPromises == TypeOK /\ OwnInv /\ [Next]_vars => [Promise!Next]_PromiseVars
<1>. SUFFICES ASSUME TypeOK, OwnInv, [Next]_vars PROVE [Promise!Next]_PromiseVars
  OBVIOUS
<1>1. CASE UNCHANGED vars
  <2>1. UNCHANGED <<credits, requests, letters, spends>>
    BY <1>1 DEF vars, store
  <2>2. Visible' = Visible
    BY <2>1, Unseen
  <2>. QED  BY <2>1, <2>2 DEF PromiseVars
<1>. QED  BY <1>1, ClientPromises, WorkerPromises DEF Next

\* The pipeline keeps its promise: each step accepts a request, fails one, or delivers
\* one letter that the owner of its request pays for out of a balance that covers it
\* (generate_cover_letter and debit_generation_credits), or others see nothing of it.
THEOREM ImplementsPaidLetters == Spec => RefinesPaidLetters
<1>1. Init => Promise!Init
  <2>. SUFFICES ASSUME Init PROVE Promise!Init
    OBVIOUS
  <2>1. "absent" \notin Committed
    BY DEF Committed
  <2>2. ASSUME NEW r \in Request PROVE Seen(requests[r]) = Promise!NoRow
    BY <2>1 DEF Init, Seen, Promise!NoRow
  <2>3. Visible = [r \in Request |-> Promise!NoRow]
    BY <2>2, VisibleRows
  <2>. QED  BY <2>3 DEF Init, Promise!Init
<1>2. Spec => []TypeOK
  BY TypeCorrect
<1>. QED  BY <1>1, <1>2, InitOwns, NextOwns, StepPromises, PTL
          DEF Spec, RefinesPaidLetters, Promise!Spec, Promise!vars, PromiseVars

-----------------------------------------------------------------------------
(* Sums over finite sets, whichever element MapThenSumSet takes first. *)

\* A set of subsets of a finite set has a smallest one.
LEMMA SmallestSet ==
  ASSUME NEW S, IsFiniteSet(S), NEW Sets \in SUBSET (SUBSET S), Sets # {}
  PROVE  \E T \in Sets : \A U \in Sets : U \subseteq T => U = T
<1>1. IsWellFoundedOn(StrictSubsetOrdering(S), FiniteSubsetsOf(S))
  BY FS_StrictSubsetOrderingWellFounded
<1>2. Sets \subseteq FiniteSubsetsOf(S)
  BY FS_Subset DEF FiniteSubsetsOf
<1>3. PICK T \in Sets : \A U \in Sets : ~ (<<U, T>> \in StrictSubsetOrdering(S))
  BY <1>1, <1>2, WFMin
<1>. QED  BY <1>3 DEF StrictSubsetOrdering

\* The fold of MapThenSumSet: one element is taken out of a set at a time.
Taken(s) == CHOOSE x \in s : TRUE

Charged(f, it, s) == IF s = {} THEN 0 ELSE f[Taken(s)] + it[s \ {Taken(s)}]

Adds(f, S, it) == it = [s \in SUBSET S |-> Charged(f, it, s)]

Total(f, S) == MapThenSumSet(LAMBDA r : f[r], S)

LEMMA TotalIs ==
  ASSUME NEW S, NEW f
  PROVE  Total(f, S) = (CHOOSE it : Adds(f, S, it))[S]
BY DEF Total, MapThenSumSet, MapThenFoldSet, Adds, Charged, Taken

LEMMA TakenIn == ASSUME NEW s, s # {} PROVE Taken(s) \in s
BY DEF Taken

\* Two such folds agree on the sets both have.
LEMMA AddsOnce ==
  ASSUME NEW f, NEW S, IsFiniteSet(S), NEW T \in SUBSET S, NEW it, NEW other,
         Adds(f, S, it), Adds(f, T, other)
  PROVE  \A s \in SUBSET T : it[s] = other[s]
<1>. DEFINE Differ == { s \in SUBSET T : it[s] # other[s] }
<1>1. SUFFICES ASSUME Differ # {} PROVE FALSE
  OBVIOUS
<1>2. IsFiniteSet(T)
  BY FS_Subset
<1>3. PICK s \in Differ : \A u \in Differ : u \subseteq s => u = s
  <2>. HIDE DEF Differ
  <2>1. Differ \in SUBSET (SUBSET T)
    BY DEF Differ
  <2>. QED  BY <1>1, <1>2, <2>1, SmallestSet
<1>4. it[s] = Charged(f, it, s) /\ other[s] = Charged(f, other, s)
  BY DEF Adds
<1>5. CASE s = {}
  BY <1>3, <1>4, <1>5 DEF Charged
<1>6. CASE s # {}
  <2>. DEFINE u == s \ {Taken(s)}
  <2>1. Taken(s) \in s /\ u \subseteq s /\ u # s /\ u \in SUBSET T
    BY <1>3, <1>6, TakenIn
  <2>2. it[u] = other[u]
    BY <1>3, <2>1
  <2>. QED  BY <1>3, <1>4, <1>6, <2>2 DEF Charged
<1>. QED  BY <1>5, <1>6

LEMMA AddsExists ==
  ASSUME NEW f, NEW S, IsFiniteSet(S)
  PROVE  \E it : Adds(f, S, it)
<1>. DEFINE Without == { s \in SUBSET S : ~ \E it : Adds(f, s, it) }
<1>1. SUFFICES ASSUME Without # {} PROVE FALSE
  OBVIOUS
<1>2. PICK T \in Without : \A u \in Without : u \subseteq T => u = T
  <2>. HIDE DEF Without
  <2>1. Without \in SUBSET (SUBSET S)
    BY DEF Without
  <2>. QED  BY <1>1, <2>1, SmallestSet
<1>. DEFINE Fold(s) == CHOOSE it : Adds(f, s, it)
            Below == [s \in SUBSET T |-> IF s = T THEN 0 ELSE Fold(s)[s]]
            It == [s \in SUBSET T |-> Charged(f, Below, s)]
<1>3. \A s \in SUBSET T : s # T => Adds(f, s, Fold(s))
  BY <1>2
<1>. HIDE DEF Fold
<1>4. ASSUME NEW s \in SUBSET T, s # T
      PROVE  Below[s] = Charged(f, Below, s)
  <2>1. Below[s] = Fold(s)[s] /\ Fold(s)[s] = Charged(f, Fold(s), s)
    BY <1>3, <1>4 DEF Adds
  <2>2. CASE s = {}
    BY <2>1, <2>2 DEF Charged
  <2>3. CASE s # {}
    <3>. DEFINE u == s \ {Taken(s)}
    <3>1. u \in SUBSET s /\ u \in SUBSET T /\ u # T
      BY <1>4
    <3>2. IsFiniteSet(s)
      BY FS_Subset
    <3>3. Fold(s)[u] = Fold(u)[u]
      BY <1>3, <1>4, <3>1, <3>2, AddsOnce
    <3>. QED  BY <2>1, <2>3, <3>1, <3>3 DEF Charged
  <2>. QED  BY <2>2, <2>3
<1>5. ASSUME NEW s \in SUBSET T
      PROVE  Charged(f, Below, s) = Charged(f, It, s)
  <2>1. CASE s = {}
    BY <2>1 DEF Charged
  <2>2. CASE s # {}
    <3>. DEFINE u == s \ {Taken(s)}
    <3>1. u \in SUBSET T /\ u # T
      BY <2>2, TakenIn
    <3>2. It[u] = Below[u]
      BY <1>4, <3>1
    <3>. QED  BY <2>2, <3>2 DEF Charged
  <2>. QED  BY <2>1, <2>2
<1>6. Adds(f, T, It)
  <2>1. It = [s \in SUBSET T |-> Charged(f, It, s)]
    <3>. HIDE DEF Below
    <3>. QED  BY <1>5
  <2>. HIDE DEF It
  <2>. QED  BY <2>1 DEF Adds
<1>. QED  BY <1>2, <1>6

LEMMA TotalEmpty == ASSUME NEW f PROVE Total(f, {}) = 0
<1>1. \E it : Adds(f, {}, it)
  BY AddsExists, FS_EmptySet
<1>2. Adds(f, {}, CHOOSE it : Adds(f, {}, it))
  BY <1>1
<1>. DEFINE g == CHOOSE it : Adds(f, {}, it)
<1>. HIDE DEF g
<1>3. Adds(f, {}, g) /\ Total(f, {}) = g[{}]
  BY <1>2, TotalIs DEF g
<1>4. g[{}] = Charged(f, g, {})
  BY <1>3 DEF Adds
<1>. QED  BY <1>3, <1>4 DEF Charged

LEMMA TotalTaken ==
  ASSUME NEW f, NEW S, IsFiniteSet(S), S # {}
  PROVE  Total(f, S) = f[Taken(S)] + Total(f, S \ {Taken(S)})
<1>. DEFINE T == S \ {Taken(S)}
            it == CHOOSE g : Adds(f, S, g)
            below == CHOOSE g : Adds(f, T, g)
<1>1. Adds(f, S, it)
  BY AddsExists
<1>2. T \in SUBSET S /\ IsFiniteSet(T)
  BY FS_Subset
<1>3. Adds(f, T, below)
  BY <1>2, AddsExists
<1>4. Total(f, S) = it[S] /\ Total(f, T) = below[T]
  BY TotalIs
<1>. HIDE DEF it, below
<1>5. it[T] = below[T]
  <2>. HIDE DEF T
  <2>. QED  BY <1>1, <1>2, <1>3, AddsOnce
<1>6. it[S] = f[Taken(S)] + it[T]
  BY <1>1 DEF Adds, Charged
<1>. QED  BY <1>4, <1>5, <1>6
LEMMA TotalNat ==
  ASSUME NEW f, NEW S, IsFiniteSet(S), \A x \in S : f[x] \in Nat
  PROVE  Total(f, S) \in Nat
<1>. DEFINE Other == { s \in SUBSET S : Total(f, s) \notin Nat }
<1>1. SUFFICES ASSUME Other # {} PROVE FALSE
  OBVIOUS
<1>2. PICK T \in Other : \A u \in Other : u \subseteq T => u = T
  <2>. HIDE DEF Other
  <2>1. Other \in SUBSET (SUBSET S)
    BY DEF Other
  <2>. QED  BY <1>1, <2>1, SmallestSet
<1>3. T # {} /\ IsFiniteSet(T)
  <2>1. Total(f, {}) \in Nat
    BY TotalEmpty
  <2>2. T # {}
    BY <1>2, <2>1
  <2>. QED  BY <1>2, <2>2, FS_Subset
<1>4. Taken(T) \in T
  BY <1>3, TakenIn
<1>5. Total(f, T \ {Taken(T)}) \in Nat
  BY <1>2, <1>4
<1>6. Total(f, T) = f[Taken(T)] + Total(f, T \ {Taken(T)})
  BY <1>3, TotalTaken
<1>7. Total(f, T) \in Nat
  BY <1>4, <1>5, <1>6
<1>. QED  BY <1>2, <1>7

\* Whichever element is taken out first, the sum is the same.
LEMMA TotalWithout ==
  ASSUME NEW f, NEW S, IsFiniteSet(S), \A x \in S : f[x] \in Nat, NEW x \in S
  PROVE  Total(f, S) = f[x] + Total(f, S \ {x})
<1>. DEFINE Splits(s) == \A y \in s : Total(f, s) = f[y] + Total(f, s \ {y})
            Other == { s \in SUBSET S : ~ Splits(s) }
<1>1. SUFFICES ASSUME Other # {} PROVE FALSE
  OBVIOUS
<1>2. PICK T \in Other : \A u \in Other : u \subseteq T => u = T
  <2>. HIDE DEF Other
  <2>1. Other \in SUBSET (SUBSET S)
    BY DEF Other
  <2>. QED  BY <1>1, <2>1, SmallestSet
<1>3. PICK y \in T : Total(f, T) # f[y] + Total(f, T \ {y})
  BY <1>2
<1>. DEFINE c == Taken(T)
            W == T \ {y}
            V == T \ {c}
<1>4. c \in T /\ IsFiniteSet(T) /\ T # {} /\ T \in SUBSET S
  BY <1>2, <1>3, TakenIn, FS_Subset
<1>5. Total(f, T) = f[c] + Total(f, V)
  BY <1>4, TotalTaken
<1>. HIDE DEF c
<1>6. c # y
  BY <1>3, <1>5
<1>7. Splits(W) /\ Splits(V)
  BY <1>2, <1>4
<1>8. /\ Total(f, W) = f[c] + Total(f, W \ {c})
      /\ Total(f, V) = f[y] + Total(f, V \ {y})
  BY <1>4, <1>6, <1>7
<1>9. Total(f, V) = f[y] + Total(f, W \ {c})
  <2>1. W \ {c} = V \ {y}
    OBVIOUS
  <2>. QED  BY <1>8, <2>1
<1>10. Total(f, W) \in Nat /\ Total(f, V) \in Nat /\ Total(f, W \ {c}) \in Nat
  <2>1. \A s \in SUBSET S : Total(f, s) \in Nat
    BY FS_Subset, TotalNat
  <2>. QED  BY <1>4, <2>1
<1>11. f[c] \in Nat /\ f[y] \in Nat
  BY <1>4
<1>12. Total(f, T) = f[y] + Total(f, W)
  <2>. DEFINE m == Total(f, V)
              n == Total(f, W)
              k == Total(f, W \ {c})
  <2>1. /\ Total(f, T) = f[c] + m /\ n = f[c] + k /\ m = f[y] + k
        /\ m \in Nat /\ n \in Nat /\ k \in Nat
    BY <1>5, <1>8, <1>9, <1>10
  <2>. HIDE DEF m, n, k
  <2>2. Total(f, T) = f[y] + n
    BY <1>11, <2>1
  <2>. QED  BY <2>2 DEF n
<1>. QED  BY <1>3, <1>12

LEMMA TotalSame ==
  ASSUME NEW f, NEW g, NEW S, IsFiniteSet(S), \A x \in S : f[x] = g[x]
  PROVE  Total(f, S) = Total(g, S)
<1>. DEFINE Other == { s \in SUBSET S : Total(f, s) # Total(g, s) }
<1>1. SUFFICES ASSUME Other # {} PROVE FALSE
  OBVIOUS
<1>2. PICK T \in Other : \A u \in Other : u \subseteq T => u = T
  <2>. HIDE DEF Other
  <2>1. Other \in SUBSET (SUBSET S)
    BY DEF Other
  <2>. QED  BY <1>1, <2>1, SmallestSet
<1>3. T # {} /\ IsFiniteSet(T)
  BY <1>2, TotalEmpty, FS_Subset
<1>4. Taken(T) \in T
  BY <1>3, TakenIn
<1>5. Total(f, T \ {Taken(T)}) = Total(g, T \ {Taken(T)})
  BY <1>2, <1>4
<1>6. /\ Total(f, T) = f[Taken(T)] + Total(f, T \ {Taken(T)})
      /\ Total(g, T) = g[Taken(T)] + Total(g, T \ {Taken(T)})
  BY <1>3, TotalTaken
<1>7. f[Taken(T)] = g[Taken(T)]
  BY <1>2, <1>4
<1>. QED  BY <1>2, <1>5, <1>6, <1>7

\* A set that grows by one element.
LEMMA TotalWith ==
  ASSUME NEW f, NEW S, IsFiniteSet(S), NEW x, x \notin S, \A y \in S \cup {x} : f[y] \in Nat
  PROVE  Total(f, S \cup {x}) = f[x] + Total(f, S)
<1>1. IsFiniteSet(S \cup {x}) /\ x \in S \cup {x} /\ (S \cup {x}) \ {x} = S
  BY FS_AddElement
<1>. HIDE DEF Total
<1>2. Total(f, S \cup {x}) = f[x] + Total(f, (S \cup {x}) \ {x})
  BY <1>1, TotalWithout
<1>. QED  BY <1>1, <1>2

\* One of the summands grows by one.
LEMMA TotalMore ==
  ASSUME NEW f, NEW S, IsFiniteSet(S), \A y \in S : f[y] \in Nat,
         NEW x \in S, NEW g, g[x] = f[x] + 1, \A y \in S \ {x} : g[y] = f[y]
  PROVE  Total(g, S) = Total(f, S) + 1
<1>. DEFINE T == S \ {x}
<1>1. IsFiniteSet(T) /\ \A y \in T : f[y] \in Nat
  BY FS_Subset
<1>2. Total(f, T) = Total(g, T)
  BY <1>1, TotalSame
<1>3. Total(f, S) = f[x] + Total(f, T)
  BY TotalWithout
<1>4. \A y \in S : g[y] \in Nat
  OBVIOUS
<1>5. Total(g, S) = g[x] + Total(g, T)
  BY <1>4, TotalWithout
<1>6. Total(f, T) \in Nat
  BY <1>1, TotalNat
<1>7. f[x] \in Nat
  OBVIOUS
<1>. QED  BY <1>2, <1>3, <1>5, <1>6, <1>7

-----------------------------------------------------------------------------
(* Balances pay for charges, because each step keeps the promise. *)

\* The requests of u that others see.
Mine(u, seen) == { r \in Request : seen[r].owner = u }

\* The balance of u and what the charges of its requests cost add up.
PaidUp(u, cs, seen, sp) ==
  /\ IsFiniteSet(Mine(u, seen))
  /\ cs[u] + Cost * Total(sp, Mine(u, seen)) = InitialCredits

\* What nobody sees has not been charged.
Uncharged(seen, sp) == \A r \in Request : seen[r].status = "absent" => sp[r] = 0

BalanceInv == Uncharged(Visible, spends) /\ \A u \in User : PaidUp(u, credits, Visible, spends)

LEMMA OwnedIsMine ==
  ASSUME NEW u \in User
  PROVE  Owned(u, Committed) = Mine(u, Visible)
<1>1. u # None
  BY PipelineConstants
<1>2. \A r \in Request : Visible[r].owner = u <=> requests[r].owner = u /\ requests[r].status \in Committed
  BY <1>1 DEF Visible
<1>. QED  BY <1>2 DEF Owned, Mine

\* A row that shows, or is shown again, is one more of its owner or the same ones.
LEMMA MineAfter ==
  ASSUME NEW seen, NEW after, NEW r \in Request, NEW u \in User,
         seen[r].owner \in {None, u}, after[r].owner = u,
         \A q \in Request \ {r} : after[q] = seen[q]
  PROVE  /\ Mine(u, after) = Mine(u, seen) \cup {r}
         /\ seen[r].owner = u => Mine(u, after) = Mine(u, seen)
         /\ \A v \in User \ {u} : Mine(v, after) = Mine(v, seen) /\ r \notin Mine(v, seen)
<1>1. None \notin User
  BY PipelineConstants
<1>. QED  BY <1>1 DEF Mine

LEMMA AcceptPays ==
  ASSUME TypeOK, BalanceInv, NEW r \in Request, NEW u \in User, Promise!Accept(r, u)
  PROVE  BalanceInv'
<1>. DEFINE seen == Visible
            after == Visible'
<1>1. /\ Visible[r] = Promise!NoRow
      /\ after = [seen EXCEPT ![r] = [owner |-> u, status |-> "pending"]]
      /\ credits' = credits /\ spends' = spends
  BY DEF Promise!Accept
<1>2. DOMAIN seen = Request
  BY DEF Visible
<1>. HIDE DEF seen, after
<1>3. /\ seen[r].owner = None /\ seen[r].status = "absent"
  BY <1>1 DEF Promise!NoRow, seen
<1>4. /\ after[r].owner = u /\ after[r].status = "pending"
      /\ \A q \in Request \ {r} : after[q] = seen[q]
  BY <1>1, <1>2
<1>5. Uncharged(seen, spends) /\ \A v \in User : PaidUp(v, credits, seen, spends)
  BY DEF BalanceInv, seen
<1>6. spends[r] = 0 /\ Uncharged(after, spends)
  BY <1>3, <1>4, <1>5 DEF Uncharged
<1>7. /\ Mine(u, after) = Mine(u, seen) \cup {r}
      /\ \A v \in User \ {u} : Mine(v, after) = Mine(v, seen)
  BY <1>3, <1>4, MineAfter
<1>8. PaidUp(u, credits, after, spends)
  <2>1. IsFiniteSet(Mine(u, seen)) /\ r \notin Mine(u, seen)
    BY <1>3, <1>5, PipelineConstants DEF PaidUp, Mine
  <2>2. \A q \in Mine(u, seen) \cup {r} : spends[q] \in Nat
    BY Typed DEF Mine
  <2>3. Total(spends, Mine(u, after)) = spends[r] + Total(spends, Mine(u, seen))
    BY <1>7, <2>1, <2>2, TotalWith
  <2>4. Total(spends, Mine(u, seen)) \in Nat
    BY <2>1, <2>2, TotalNat
  <2>5. Total(spends, Mine(u, after)) = Total(spends, Mine(u, seen))
    BY <1>6, <2>3, <2>4
  <2>6. IsFiniteSet(Mine(u, after))
    BY <1>7, <2>1, FS_AddElement
  <2>. QED  BY <1>5, <2>5, <2>6 DEF PaidUp
<1>9. \A v \in User : PaidUp(v, credits, after, spends)
  BY <1>5, <1>7, <1>8 DEF PaidUp
<1>. QED  BY <1>1, <1>6, <1>9 DEF BalanceInv, after

LEMMA FailPays ==
  ASSUME TypeOK, BalanceInv, NEW r \in Request, Promise!Fail(r)
  PROVE  BalanceInv'
<1>. DEFINE seen == Visible
            after == Visible'
<1>1. /\ seen[r] # Promise!NoRow
      /\ after = [seen EXCEPT ![r].status = "failed"]
      /\ credits' = credits /\ spends' = spends
  BY DEF Promise!Fail
<1>2. \A q \in Request : after[q].owner = seen[q].owner
                       /\ (after[q].status = "absent" => seen[q].status = "absent")
  <2>1. seen \in [Request -> Rows]
    <3>1. [owner |-> None, status |-> "absent"] \in Rows
      BY DEF Rows, Statuses
    <3>. QED  BY <3>1, Typed DEF Visible
  <2>. HIDE DEF seen, after
  <2>. QED  BY <1>1, <2>1 DEF Rows
<1>. HIDE DEF seen, after
<1>3. Uncharged(seen, spends) /\ \A v \in User : PaidUp(v, credits, seen, spends)
  BY DEF BalanceInv, seen
<1>4. Uncharged(after, spends)
  BY <1>2, <1>3 DEF Uncharged
<1>5. \A v \in User : Mine(v, after) = Mine(v, seen)
  BY <1>2 DEF Mine
<1>6. \A v \in User : PaidUp(v, credits, after, spends)
  BY <1>3, <1>5 DEF PaidUp
<1>. QED  BY <1>1, <1>4, <1>6 DEF BalanceInv, after

LEMMA DeliverPays ==
  ASSUME TypeOK, BalanceInv, NEW r \in Request, NEW u \in User, Promise!Deliver(r, u)
  PROVE  BalanceInv'
<1>. DEFINE seen == Visible
            after == Visible'
<1>1. /\ seen[r] = Promise!NoRow \/ seen[r].owner = u
      /\ credits' = [credits EXCEPT ![u] = @ - Cost]
      /\ after = [seen EXCEPT ![r] = [owner |-> u, status |-> "succeeded"]]
      /\ spends' = [spends EXCEPT ![r] = @ + 1]
  BY DEF Promise!Deliver
<1>2. DOMAIN seen = Request
  BY DEF Visible
<1>. HIDE DEF seen, after
<1>3. seen[r].owner \in {None, u} /\ (seen[r].owner # u => seen[r].status = "absent")
  BY <1>1 DEF Promise!NoRow
<1>4. /\ after[r].owner = u /\ after[r].status = "succeeded"
      /\ \A q \in Request \ {r} : after[q] = seen[q]
  BY <1>1, <1>2
<1>5. Uncharged(seen, spends) /\ \A v \in User : PaidUp(v, credits, seen, spends)
  BY DEF BalanceInv, seen
<1>6. /\ spends[r] \in Nat /\ spends'[r] = spends[r] + 1
      /\ \A q \in Request \ {r} : spends'[q] = spends[q]
      /\ \A q \in Request : spends[q] \in Nat
  BY <1>1, Typed
<1>7. /\ credits'[u] = credits[u] - Cost /\ credits[u] \in Nat
      /\ \A v \in User \ {u} : credits'[v] = credits[v]
  BY <1>1, Typed
<1>8. Uncharged(after, spends')
  BY <1>4, <1>5, <1>6 DEF Uncharged
<1>9. /\ Mine(u, after) = Mine(u, seen) \cup {r}
      /\ seen[r].owner = u => Mine(u, after) = Mine(u, seen)
      /\ \A v \in User \ {u} : Mine(v, after) = Mine(v, seen) /\ r \notin Mine(v, seen)
  BY <1>3, <1>4, MineAfter
<1>10. IsFiniteSet(Mine(u, seen)) /\ \A q \in Mine(u, seen) \cup {r} : spends[q] \in Nat
  BY <1>5, <1>6 DEF PaidUp, Mine
<1>11. Total(spends, Mine(u, after)) = Total(spends, Mine(u, seen))
  <2>1. CASE seen[r].owner = u
    BY <1>9, <2>1
  <2>2. CASE seen[r].owner # u
    <3>1. spends[r] = 0 /\ r \notin Mine(u, seen)
      BY <1>3, <1>5, <2>2 DEF Uncharged, Mine
    <3>2. Total(spends, Mine(u, after)) = spends[r] + Total(spends, Mine(u, seen))
      BY <1>9, <1>10, <3>1, TotalWith
    <3>3. Total(spends, Mine(u, seen)) \in Nat
      BY <1>10, TotalNat
    <3>. QED  BY <3>1, <3>2, <3>3
  <2>. QED  BY <2>1, <2>2
<1>12. IsFiniteSet(Mine(u, after))
  BY <1>9, <1>10, FS_AddElement
<1>13. Total(spends', Mine(u, after)) = Total(spends, Mine(u, after)) + 1
  <2>1. r \in Mine(u, after) /\ \A q \in Mine(u, after) : q \in Request
    BY <1>4 DEF Mine
  <2>2. /\ \A q \in Mine(u, after) : spends[q] \in Nat
        /\ \A q \in Mine(u, after) \ {r} : spends'[q] = spends[q]
    BY <1>6, <2>1
  <2>. QED  BY <1>6, <1>12, <2>1, <2>2, TotalMore
<1>14. PaidUp(u, credits', after, spends')
  <2>. DEFINE n == Total(spends, Mine(u, seen))
  <2>1. n \in Nat /\ Cost \in Nat /\ InitialCredits \in Nat
    BY <1>10, TotalNat, PipelineConstants
  <2>2. credits[u] + Cost * n = InitialCredits
    BY <1>5 DEF PaidUp
  <2>3. Total(spends', Mine(u, after)) = n + 1
    BY <1>11, <1>13
  <2>. HIDE DEF n
  <2>4. credits'[u] + Cost * (n + 1) = InitialCredits
    BY <1>7, <2>1, <2>2
  <2>. QED  BY <1>12, <2>3, <2>4 DEF PaidUp
<1>15. ASSUME NEW v \in User \ {u} PROVE PaidUp(v, credits', after, spends')
  <2>1. IsFiniteSet(Mine(v, seen)) /\ \A q \in Mine(v, seen) : spends'[q] = spends[q]
    BY <1>5, <1>6, <1>9 DEF PaidUp, Mine
  <2>2. Total(spends', Mine(v, seen)) = Total(spends, Mine(v, seen))
    BY <2>1, TotalSame
  <2>. QED  BY <1>5, <1>7, <1>9, <2>2 DEF PaidUp
<1>. QED  BY <1>8, <1>14, <1>15 DEF BalanceInv, after

LEMMA PromisePays ==
  ASSUME TypeOK, BalanceInv, [Promise!Next]_PromiseVars
  PROVE  BalanceInv'
<1>1. CASE UNCHANGED PromiseVars
  <2>1. UNCHANGED <<credits, Visible, spends>>
    BY <1>1 DEF PromiseVars
  <2>. QED  BY <2>1 DEF BalanceInv
<1>2. CASE Promise!Next
  BY <1>2, AcceptPays, FailPays, DeliverPays DEF Promise!Next
<1>. QED  BY <1>1, <1>2

LEMMA InitPays == Init => BalanceInv
<1>. SUFFICES ASSUME Init PROVE BalanceInv
  OBVIOUS
<1>1. Uncharged(Visible, spends)
  BY DEF Init, Uncharged
<1>2. ASSUME NEW u \in User PROVE PaidUp(u, credits, Visible, spends)
  <2>1. u # None /\ InitialCredits \in Nat /\ Cost \in Nat
    BY PipelineConstants
  <2>2. Mine(u, Visible) = {}
    BY <2>1 DEF Init, Mine, Visible, Committed
  <2>3. credits[u] = InitialCredits
    BY DEF Init
  <2>. QED  BY <2>1, <2>2, <2>3, TotalEmpty, FS_EmptySet DEF PaidUp
<1>. QED  BY <1>1, <1>2 DEF BalanceInv

\* A balance pays exactly for the charges of its user (debit_generation_credits): no
\* charge is written without its debit, none is debited twice or from another user,
\* after any number of crashes, retries, timeouts and deadlocks.
THEOREM BalancesPay == Spec => []BalancePaysCharges
<1>1. BalanceInv => BalancePaysCharges
  BY OwnedIsMine DEF BalanceInv, PaidUp, BalancePaysCharges, Total
<1>2. Spec => []TypeOK
  BY TypeCorrect
<1>. QED  BY <1>1, <1>2, InitPays, PromisePays, InitOwns, NextOwns, StepPromises, PTL DEF Spec

=============================================================================

------------------------- MODULE GenerationPipeline -------------------------
(***************************************************************************)
(* How a cover letter comes about: the API and the bot put jobs on the arq *)
(* queue, worker slots run them, and each run loads the vacancy, asks the  *)
(* LLM, saves the letter and charges its user in one transaction.          *)
(*                                                                         *)
(* The API inserts a PENDING generation_request and enqueues its job in a  *)
(* transaction that commits afterwards; a job of the bot creates its       *)
(* request itself.  Rows of an open transaction are "reserved" here: other *)
(* transactions do not see them, and a rollback leaves the id unused.      *)
(*                                                                         *)
(* Inserting a row that references users takes FOR KEY SHARE on the user's *)
(* row until the transaction ends, and the debit waits for SELECT ... FOR  *)
(* UPDATE of that row, which no other transaction may share.  Debit and    *)
(* commit are one step: nobody can act on the row between them.            *)
(***************************************************************************)
EXTENDS Integers, Sequences, SequencesExt

CONSTANTS
  User,            \* users, with a profile each
  ProUser,         \* the users on the plan without a limit; the others are Free
  Client,          \* requests to the API and messages to the bot served at once
  Worker,          \* slots of the arq workers
  Job,             \* jobs that may come to exist
  Request,         \* ids of generation_requests
  Channels,        \* the channels this instance has: "api", "bot"
  InitialCredits,  \* credits of each user
  Cost,            \* prediction_cost_credits
  Limit,           \* generations of a Free user in the period
  MaxTries,        \* how often arq runs a job
  MaxCrashes,      \* bound: crashes of workers in a behaviour
  None

ASSUME PipelineConstants ==
  /\ ProUser \subseteq User
  /\ Channels \subseteq {"api", "bot"}
  /\ InitialCredits \in Nat
  /\ Cost \in Nat \ {0}
  /\ Limit \in Nat \ {0}
  /\ MaxTries \in Nat \ {0}
  /\ MaxCrashes \in Nat
  /\ None \notin User \cup Job \cup Request

VARIABLES
  credits,   \* users.credits
  requests,  \* generation_requests: owner and status
  letters,   \* number of cover_letters of each request
  spends,    \* number of credit_transactions of type spend of each request
  jobs,      \* arq jobs
  queue,     \* the queued and running jobs, in the order they were enqueued
  client,    \* what each API request or bot message is doing
  work,      \* what each worker slot is doing
  crashes    \* crashes so far

store == <<credits, requests, letters, spends>>
arq   == <<jobs, queue>>
vars  == <<store, arq, client, work, crashes>>

NoJob    == [state |-> "free", user |-> None, request |-> None, tries |-> 0, result |-> "none"]
NoClient == [phase |-> "idle", user |-> None, request |-> None]
NoWork   == [phase |-> "idle", job |-> None, request |-> None]

Committed == {"pending", "succeeded", "failed"}
Statuses  == {"absent", "reserved", "unused"} \cup Committed
Results   == {"none", "ok", "send_failed", "hh_error", "quota", "insufficient", "not_found",
              "vacancy_closed", "llm_error", "no_credits", "deadlock", "max_tries", "timeout"}

Init ==
  /\ credits  = [u \in User |-> InitialCredits]
  /\ requests = [r \in Request |-> [owner |-> None, status |-> "absent"]]
  /\ letters  = [r \in Request |-> 0]
  /\ spends   = [r \in Request |-> 0]
  /\ jobs     = [j \in Job |-> NoJob]
  /\ queue    = <<>>
  /\ client   = [c \in Client |-> NoClient]
  /\ work     = [w \in Worker |-> NoWork]
  /\ crashes  = 0

-----------------------------------------------------------------------------
(* Rows. *)

\* Requests of u with one of these statuses, as another transaction sees them.
Owned(u, statuses) == { r \in Request : requests[r].owner = u /\ requests[r].status \in statuses }

\* ensure_can_generate: a count, not a reservation.
WithinQuota(u) == u \in ProUser \/ Cardinality(Owned(u, {"pending", "succeeded"})) < Limit

SetStatus(r, status) == requests' = [requests EXCEPT ![r].status = status]

Reserve(r, u) ==
  /\ requests[r].status = "absent"
  /\ requests' = [requests EXCEPT ![r] = [owner |-> u, status |-> "reserved"]]

\* A transaction that has inserted r, or nothing, rolls back.
Rollback(r) ==
  IF r # None /\ requests[r].status = "reserved" THEN SetStatus(r, "unused") ELSE UNCHANGED requests

\* Transactions that hold FOR KEY SHARE on the row of u.
Sharers(u) ==
  { c \in Client : client[c].phase = "enqueued" /\ client[c].user = u } \cup
  { w \in Worker : /\ work[w].job # None /\ jobs[work[w].job].user = u
                   /\ \/ work[w].phase = "saved"
                      \/ work[w].phase = "loaded" /\ jobs[work[w].job].request = None }

-----------------------------------------------------------------------------
(* Putting a job on the queue. *)

Enqueue(u, r) ==
  \E j \in Job :
    /\ jobs[j].state = "free"
    /\ jobs'  = [jobs EXCEPT ![j] = [NoJob EXCEPT !.state = "queued", !.user = u, !.request = r]]
    /\ queue' = Append(queue, j)

\* enqueue_generation, of the API or of the bot, up to its last check.
Check(c) ==
  /\ client[c].phase = "idle"
  /\ \E u \in User, ch \in Channels :
       /\ credits[u] >= Cost
       /\ WithinQuota(u)
       /\ client' = [client EXCEPT ![c] = [NoClient EXCEPT !.phase = ch, !.user = u]]
  /\ UNCHANGED <<store, arq, work, crashes>>

\* The API inserts the request and enqueues its job, all before it commits.
ApiEnqueue(c) ==
  /\ client[c].phase = "api"
  /\ \E r \in Request :
       /\ Reserve(r, client[c].user)
       /\ Enqueue(client[c].user, r)
       /\ client' = [client EXCEPT ![c].phase = "enqueued", ![c].request = r]
  /\ UNCHANGED <<credits, letters, spends, work, crashes>>

ApiCommit(c) ==
  /\ client[c].phase = "enqueued"
  /\ SetStatus(client[c].request, "pending")
  /\ client' = [client EXCEPT ![c] = NoClient]
  /\ UNCHANGED <<credits, letters, spends, arq, work, crashes>>

\* The bot's transaction has ended when it enqueues the job.
BotEnqueue(c) ==
  /\ client[c].phase = "bot"
  /\ Enqueue(client[c].user, None)
  /\ client' = [client EXCEPT ![c] = NoClient]
  /\ UNCHANGED <<store, work, crashes>>

\* The request or the message fails, or the commit does; the job stays queued.
ClientFails(c) ==
  /\ client[c].phase # "idle"
  /\ Rollback(client[c].request)
  /\ client' = [client EXCEPT ![c] = NoClient]
  /\ UNCHANGED <<credits, letters, spends, arq, work, crashes>>

-----------------------------------------------------------------------------
(* Running a job. *)

Finished(j, result) ==
  /\ jobs'  = [jobs EXCEPT ![j].state = "done", ![j].result = result]
  /\ \E n \in DOMAIN queue : queue[n] = j /\ queue' = RemoveAt(queue, n)

\* The job of w ends with an exception that rolls its transaction back.
Fails(w, result) ==
  /\ Finished(work[w].job, result)
  /\ Rollback(work[w].request)
  /\ work' = [work EXCEPT ![w] = NoWork]
  /\ UNCHANGED <<credits, letters, spends, client, crashes>>

\* What w has done is committed; the job is reported with this result.
Commits(w, result) ==
  /\ work' = [work EXCEPT ![w].phase = "committed"]
  /\ jobs' = [jobs EXCEPT ![work[w].job].result = result]
  /\ UNCHANGED <<queue, client, crashes>>

\* The job arq gives to a free slot: the first that nobody runs.
FirstWaiting(j) ==
  \E n \in 1..Len(queue) : queue[n] = j /\ \A m \in 1..(n - 1) : jobs[queue[m]].state = "running"

\* Mutant: that the request of the job is there is not looked at.
RefusalUnseen(j) ==
  LET u == jobs[j].user
      r == jobs[j].request IN
  IF jobs[j].tries = MaxTries THEN "max_tries"
  ELSE IF credits[u] < 1 THEN "insufficient"
  ELSE IF r = None /\ ~WithinQuota(u) THEN "quota"
  ELSE "none"

\* Why a run of job j ends before it loads the vacancy, in the order of the checks.
Refusal(j) ==
  LET u == jobs[j].user
      r == jobs[j].request IN
  IF jobs[j].tries = MaxTries THEN "max_tries"
  ELSE IF credits[u] < 1 THEN "insufficient"
  ELSE IF r # None /\ requests[r].status \notin Committed THEN "not_found"
  ELSE IF r = None /\ ~WithinQuota(u) THEN "quota"
  ELSE "none"

Start(w) ==
  \E j \in Job :
    /\ work[w].phase = "idle"
    /\ jobs[j].state = "queued"
    /\ FirstWaiting(j)
    /\ IF Refusal(j) \in {"none", "quota"}
       THEN /\ jobs' = [jobs EXCEPT ![j].state = "running", ![j].tries = @ + 1,
                                    ![j].result = Refusal(j)]
            /\ work' = [work EXCEPT ![w] =
                 [phase |-> IF Refusal(j) = "none" THEN "begun" ELSE "committed",
                  job |-> j, request |-> jobs[j].request]]
            /\ UNCHANGED queue
       ELSE Finished(j, Refusal(j)) /\ UNCHANGED work
    /\ UNCHANGED <<store, client, crashes>>

\* Mutant: the failed status is written and then rolled back.
HHFailsUnrecorded(w) ==
  /\ work[w].phase = "begun"
  /\ UNCHANGED requests
  /\ Commits(w, "hh_error")
  /\ UNCHANGED <<credits, letters, spends>>

\* hh.ru fails: a request that exists is marked failed, and that is committed.
HHFails(w) ==
  /\ work[w].phase = "begun"
  /\ IF work[w].request = None THEN UNCHANGED requests ELSE SetStatus(work[w].request, "failed")
  /\ Commits(w, "hh_error")
  /\ UNCHANGED <<credits, letters, spends>>

\* hh.ru answers that the vacancy is closed: VacancyClosedError, which
\* nobody catches.
VacancyClosed(w) == work[w].phase = "begun" /\ Fails(w, "vacancy_closed")

\* The vacancy is there; a job of the bot creates its request only now.
LoadVacancy(w) ==
  LET j == work[w].job IN
  /\ work[w].phase = "begun"
  /\ \/ /\ work[w].request # None
        /\ work' = [work EXCEPT ![w].phase = "loaded"]
        /\ UNCHANGED requests
     \/ /\ work[w].request = None
        /\ \E r \in Request :
             /\ Reserve(r, jobs[j].user)
             /\ work' = [work EXCEPT ![w].phase = "loaded", ![w].request = r]
  /\ UNCHANGED <<credits, letters, spends, arq, client, crashes>>

\* The LLM fails or returns nothing: the request is marked failed, but the
\* exception leaves the transaction, which rolls back.
LLMFails(w) == work[w].phase = "loaded" /\ Fails(w, "llm_error")

\* The LLM answers; letter and status are written, not yet committed.
SaveLetter(w) ==
  /\ work[w].phase = "loaded"
  /\ work' = [work EXCEPT ![w].phase = "saved"]
  /\ UNCHANGED <<store, arq, client, crashes>>

\* Mutant: the debit runs in a session of its own, beside the open transaction.
DebitApart(w) ==
  LET u == jobs[work[w].job].user
      r == work[w].request IN
  /\ work[w].phase = "saved"
  /\ Sharers(u) = {}
  /\ credits' = [credits EXCEPT ![u] = @ - Cost]
  /\ letters' = [letters EXCEPT ![r] = @ + 1]
  /\ spends'  = [spends EXCEPT ![r] = @ + 1]
  /\ SetStatus(r, "succeeded")
  /\ Commits(w, "ok")

\* Mutant: the balance checked when the job was enqueued is not checked again.
DebitUnchecked(w) ==
  LET u == jobs[work[w].job].user
      r == work[w].request IN
  /\ work[w].phase = "saved"
  /\ Sharers(u) \subseteq {w}
  /\ credits' = [credits EXCEPT ![u] = @ - Cost]
  /\ letters' = [letters EXCEPT ![r] = @ + 1]
  /\ spends'  = [spends EXCEPT ![r] = @ + 1]
  /\ SetStatus(r, "succeeded")
  /\ Commits(w, "ok")

\* Mutant: the cost is written as the constant of the first check.
DebitOne(w) ==
  LET u == jobs[work[w].job].user
      r == work[w].request IN
  /\ work[w].phase = "saved"
  /\ Sharers(u) \subseteq {w}
  /\ credits[u] >= Cost
  /\ credits' = [credits EXCEPT ![u] = @ - 1]
  /\ letters' = [letters EXCEPT ![r] = @ + 1]
  /\ spends'  = [spends EXCEPT ![r] = @ + 1]
  /\ SetStatus(r, "succeeded")
  /\ Commits(w, "ok")

\* Mutant: the request is marked in another transaction, after this one.
DebitUnmarked(w) ==
  LET u == jobs[work[w].job].user
      r == work[w].request IN
  /\ work[w].phase = "saved"
  /\ Sharers(u) \subseteq {w}
  /\ credits[u] >= Cost
  /\ credits' = [credits EXCEPT ![u] = @ - Cost]
  /\ letters' = [letters EXCEPT ![r] = @ + 1]
  /\ spends'  = [spends EXCEPT ![r] = @ + 1]
  /\ SetStatus(r, "pending")
  /\ Commits(w, "ok")

\* debit_generation_credits gets the user's row, and everything is committed.
Debit(w) ==
  LET u == jobs[work[w].job].user
      r == work[w].request IN
  /\ work[w].phase = "saved"
  /\ Sharers(u) \subseteq {w}
  /\ credits[u] >= Cost
  /\ credits' = [credits EXCEPT ![u] = @ - Cost]
  /\ letters' = [letters EXCEPT ![r] = @ + 1]
  /\ spends'  = [spends EXCEPT ![r] = @ + 1]
  /\ SetStatus(r, "succeeded")
  /\ Commits(w, "ok")

\* The balance no longer covers the letter: QuotaExceededError, not caught here.
DebitRefused(w) ==
  LET u == jobs[work[w].job].user IN
  /\ work[w].phase = "saved"
  /\ Sharers(u) \subseteq {w}
  /\ credits[u] < Cost
  /\ Fails(w, "no_credits")

\* Two runs hold the row in share mode and both wait to lock it: Postgres
\* aborts one of them.
Deadlock(w) ==
  /\ work[w].phase = "saved"
  /\ \E v \in Worker \ {w} :
       work[v].phase = "saved" /\ jobs[work[v].job].user = jobs[work[w].job].user
  /\ Fails(w, "deadlock")

\* After the commit: a message to the user of the bot, then the job is over.
Report(w) ==
  LET j == work[w].job IN
  /\ work[w].phase = "committed"
  /\ \/ Finished(j, jobs[j].result)
     \/ jobs[j].request = None /\ jobs[j].result = "ok" /\ Finished(j, "send_failed")
  /\ work' = [work EXCEPT ![w] = NoWork]
  /\ UNCHANGED <<store, client, crashes>>

\* job_timeout, or any other exception inside the transaction.
Timeout(w) == work[w].phase \in {"begun", "loaded", "saved"} /\ Fails(w, "timeout")

\* The worker dies or is shut down.  Its transaction rolls back unless it was
\* committed, and either way the job is run again.
Crash(w) ==
  /\ crashes < MaxCrashes
  /\ work[w].phase # "idle"
  /\ crashes' = crashes + 1
  /\ Rollback(work[w].request)
  /\ jobs' = [jobs EXCEPT ![work[w].job].state = "queued", ![work[w].job].result = "none"]
  /\ work' = [work EXCEPT ![w] = NoWork]
  /\ UNCHANGED <<credits, letters, spends, queue, client>>

-----------------------------------------------------------------------------
Serve(c) == Check(c) \/ ApiEnqueue(c) \/ ApiCommit(c) \/ BotEnqueue(c) \/ ClientFails(c)

Run(w) ==
  \/ Start(w) \/ HHFails(w) \/ VacancyClosed(w) \/ LoadVacancy(w) \/ LLMFails(w)
  \/ SaveLetter(w) \/ Debit(w) \/ DebitRefused(w) \/ Deadlock(w) \/ Report(w)

Next ==
  \/ \E c \in Client : Serve(c)
  \/ \E w \in Worker : Run(w) \/ Timeout(w) \/ Crash(w)

Spec == Init /\ [][Next]_vars

\* A worker polls the queue, its calls to hh.ru and the LLM have timeouts, and
\* Postgres finds deadlocks; an API request that has enqueued its job goes on to
\* commit.  Nobody has to ask for a letter, and nothing has to time out or crash.
FairSpec ==
  /\ Spec
  /\ \A w \in Worker : WF_vars(Run(w))
  /\ \A c \in Client : WF_vars(ApiCommit(c))

-----------------------------------------------------------------------------
(* Properties. *)

TypeOK ==
  /\ credits \in [User -> Nat]
  /\ requests \in [Request -> [owner: User \cup {None}, status: Statuses]]
  /\ letters \in [Request -> Nat]
  /\ spends \in [Request -> Nat]
  /\ jobs \in [Job -> [state: {"free", "queued", "running", "done"}, user: User \cup {None},
                       request: Request \cup {None}, tries: 0..MaxTries, result: Results]]
  /\ queue \in Seq(Job)
  /\ client \in [Client -> [phase: {"idle", "api", "bot", "enqueued"}, user: User \cup {None},
                            request: Request \cup {None}]]
  /\ work \in [Worker -> [phase: {"idle", "begun", "loaded", "saved", "committed"},
                          job: Job \cup {None}, request: Request \cup {None}]]
  /\ crashes \in 0..MaxCrashes

\* A balance pays exactly for the charges of its user, whatever runs are cut off.
BalancePaysCharges ==
  \A u \in User :
    credits[u] + Cost * MapThenSumSet(LAMBDA r : spends[r], Owned(u, Committed)) = InitialCredits

\* Without crashes a request has its one letter if and only if it succeeded.
OneLetterPerSuccess ==
  crashes = 0 => \A r \in Request : letters[r] = IF requests[r].status = "succeeded" THEN 1 ELSE 0

\* Done with this result, for a request of the API that was committed.
Ended(r, results) ==
  \E j \in Job : jobs[j].state = "done" /\ jobs[j].request = r /\ jobs[j].result \in results

\* Without crashes, a request whose job ended because hh.ru failed is failed and
\* not charged.
HHErrorRecorded ==
  crashes = 0 =>
    \A r \in Request : Ended(r, {"hh_error"}) => requests[r].status = "failed" /\ spends[r] = 0

\* Every job that is enqueued is over some day: no run waits for ever for a row
\* that another one shares, and crashes only delay it.
EveryJobEnds == \A j \in Job : jobs[j].state = "queued" ~> jobs[j].state = "done"

\* A request as other transactions see it.
Visible ==
  [r \in Request |-> IF requests[r].status \in Committed THEN requests[r]
                     ELSE [owner |-> None, status |-> "absent"]]

Promise == INSTANCE PaidLetters WITH balance <- credits, rows <- Visible, charges <- spends

\* Each step of the pipeline accepts a request, fails one, or delivers one letter
\* that the owner of its request pays for, or others see nothing of it.
RefinesPaidLetters == Promise!Spec

\* A request whose job found nothing to work on never becomes a pending one.
PendingIsServed ==
  \A r \in Request : Ended(r, {"not_found"}) => requests[r].status # "pending"

=============================================================================

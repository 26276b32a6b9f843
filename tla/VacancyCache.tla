----------------------------- MODULE VacancyCache -----------------------------
(***************************************************************************)
(* The tables vacancies and employers as a cache of hh.ru.                 *)
(*                                                                         *)
(* A worker run looks a vacancy up, asks hh.ru when the cached rows are    *)
(* not fresh, and upserts the employer, then the vacancy, in a transaction *)
(* that stays open while the LLM writes the letter.  The API inserts a     *)
(* placeholder for a vacancy nobody has asked for.                         *)
(*                                                                         *)
(* A row is known by its hh_id, which is unique: an INSERT waits for an    *)
(* uncommitted row of that hh_id and fails if it is then there.  An UPDATE *)
(* waits for the row lock and writes only the columns that differ from the *)
(* row as it was read before the wait.  What hh.ru returns is abstracted   *)
(* to its version, the time it was last edited there.                      *)
(***************************************************************************)
EXTENDS Integers

CONSTANTS
  Vacancy,      \* vacancies of hh.ru
  Employer,     \* employers of hh.ru
  EmployerOf,   \* EmployerOf[v]: the employer hh.ru names for vacancy v
  Worker,       \* worker runs served at once
  Client,       \* API requests served at once
  Editable,     \* the vacancies and employers that change at hh.ru
  Closable,     \* the vacancies hh.ru may close
  CACHE_TTL,    \* lifetime of a cached row, in ticks of the clock
  MaxTime,      \* bound: ticks of a behaviour
  None

ASSUME CacheConstants ==
  /\ EmployerOf \in [Vacancy -> Employer]
  /\ CACHE_TTL \in Nat
  /\ MaxTime \in Nat \ {0}
  /\ Editable \subseteq Vacancy \cup Employer
  /\ Closable \subseteq Vacancy
  /\ Worker \cap Client = {}
  /\ Vacancy \cap Employer = {}
  /\ None \notin Vacancy \cup Employer \cup Worker \cup Client \cup Nat

VARIABLES
  now,     \* the clock
  edits,   \* edits[x]: when hh.ru changed vacancy or employer x
  closed,  \* closed[v]: when hh.ru closed vacancy v, or None
  row,     \* the committed rows of vacancies and employers
  lock,    \* the run whose open transaction has written row x
  draft,   \* draft[w][x]: what the transaction of w has written to row x
  run      \* what each transaction is doing

vars == <<now, edits, closed, row, lock, draft, run>>

Entity == Vacancy \cup Employer
Run    == Worker \cup Client
NoRow  == [exists |-> FALSE, version |-> 0, cached_at |-> None, employer |-> None]

\* Mutant: the placeholder is stamped as expired long ago, instead of never cached.
PlaceholderExpired == [NoRow EXCEPT !.exists = TRUE, !.cached_at = -1 - CACHE_TTL]

\* The row the API inserts for a vacancy nobody has loaded.
Placeholder == [NoRow EXCEPT !.exists = TRUE]

NoRun  == [phase |-> "idle", vacancy |-> None, began |-> 0, seen |-> NoRow,
           fetched |-> [x \in Entity |-> 0], cached |-> FALSE]

\* The latest edit: what hh.ru shows of x.
Version(x) == CHOOSE t \in edits[x] : \A e \in edits[x] : e <= t

Init ==
  /\ now    = 1
  /\ edits  = [x \in Entity |-> {0}]
  /\ closed = [v \in Vacancy |-> None]
  /\ row    = [x \in Entity |-> NoRow]
  /\ lock   = [x \in Entity |-> None]
  /\ draft  = [w \in Run |-> [x \in Entity |-> NoRow]]
  /\ run    = [w \in Run |-> NoRun]

-----------------------------------------------------------------------------
(* Time and hh.ru. *)

Tick == now < MaxTime /\ now' = now + 1 /\ UNCHANGED <<edits, closed, row, lock, draft, run>>

Edit(x) == edits' = [edits EXCEPT ![x] = @ \cup {now}]
           /\ UNCHANGED <<now, closed, row, lock, draft, run>>

Close(v) == /\ closed[v] = None
            /\ closed' = [closed EXCEPT ![v] = now]
            /\ UNCHANGED <<now, edits, row, lock, draft, run>>

-----------------------------------------------------------------------------
(* Transactions. *)

\* Mutant: the age of a row is not looked at.
IsCacheFreshOnceCached(cached_at, at) == cached_at # None

\* Fresh for one lifetime, the last instant included.
IsCacheFresh(cached_at, at) == cached_at # None /\ cached_at >= at - CACHE_TTL

\* The run is done with the row it has seen.
Goto(w, phase) == run' = [run EXCEPT ![w].phase = phase, ![w].seen = NoRow]

\* The transaction of w ends, with these rows stored; the others never were.
End(w, rows) ==
  /\ row'   = rows
  /\ lock'  = [x \in Entity |-> IF lock[x] = w THEN None ELSE lock[x]]
  /\ draft' = [draft EXCEPT ![w] = [x \in Entity |-> NoRow]]
  /\ run'   = [run EXCEPT ![w] = NoRun]
  /\ UNCHANGED <<now, edits, closed>>

Commit(w) ==
  /\ run[w].phase = "loaded"
  /\ End(w, [x \in Entity |-> IF lock[x] = w THEN draft[w][x] ELSE row[x]])

\* Any exception, of this part of the work or a later one.
Rollback(w) == run[w].phase # "idle" /\ End(w, row)

-----------------------------------------------------------------------------
(* get_or_load_vacancy. *)

\* The clock is read first, and the vacancy is looked up.
LookUp(w) ==
  /\ run[w].phase = "idle"
  /\ \E v \in Vacancy :
       run' = [run EXCEPT ![w] = [NoRun EXCEPT
                 !.phase = IF IsCacheFresh(row[v].cached_at, now) THEN "cached" ELSE "missed",
                 !.seen = IF IsCacheFresh(row[v].cached_at, now) THEN row[v] ELSE NoRow,
                 !.vacancy = v, !.began = now]]
  /\ UNCHANGED <<now, edits, closed, row, lock, draft>>

\* A fresh vacancy is used if its employer is fresh too.
LookUpEmployer(w) ==
  LET e == run[w].seen.employer IN
  /\ run[w].phase = "cached"
  /\ \/ /\ IsCacheFresh(row[e].cached_at, run[w].began)
        /\ run' = [run EXCEPT ![w].phase = "loaded", ![w].cached = TRUE, ![w].seen = NoRow,
                              ![w].fetched = [@ EXCEPT ![run[w].vacancy] = run[w].seen.version,
                                                       ![e] = row[e].version]]
     \/ ~IsCacheFresh(row[e].cached_at, run[w].began) /\ Goto(w, "missed")
  /\ UNCHANGED <<now, edits, closed, row, lock, draft>>

\* hh.ru is asked for the vacancy; a closed one ends the run (Rollback).
GetVacancy(w) ==
  LET v == run[w].vacancy IN
  /\ run[w].phase = "missed"
  /\ closed[v] = None
  /\ run' = [run EXCEPT ![w].phase = "vacancy", ![w].fetched[v] = Version(v)]
  /\ UNCHANGED <<now, edits, closed, row, lock, draft>>

\* Mutant: the clock is read after hh.ru has answered.
GetEmployerThenClock(w) ==
  LET e == EmployerOf[run[w].vacancy] IN
  /\ run[w].phase = "vacancy"
  /\ run' = [run EXCEPT ![w].phase = "employer", ![w].fetched[e] = Version(e), ![w].began = now]
  /\ UNCHANGED <<now, edits, closed, row, lock, draft>>

GetEmployer(w) ==
  LET e == EmployerOf[run[w].vacancy] IN
  /\ run[w].phase = "vacancy"
  /\ run' = [run EXCEPT ![w].phase = "employer", ![w].fetched[e] = Version(e)]
  /\ UNCHANGED <<now, edits, closed, row, lock, draft>>

\* The row as the upsert reads it before it writes.
Select(w) ==
  \/ /\ run[w].phase = "employer"
     /\ run' = [run EXCEPT ![w].phase = "write_employer",
                           ![w].seen = row[EmployerOf[run[w].vacancy]]]
     /\ UNCHANGED <<now, edits, closed, row, lock, draft>>
  \/ /\ run[w].phase = "upserted"
     /\ run' = [run EXCEPT ![w].phase = "write_vacancy", ![w].seen = row[run[w].vacancy]]
     /\ UNCHANGED <<now, edits, closed, row, lock, draft>>

\* The unit of work writes a column only when it differs from what was read.
Column(stored, seen, new) == IF new = seen THEN stored ELSE new

\* Row x is written: inserted if none was seen, else updated column by column.
Write(w, x, new) ==
  LET seen == run[w].seen IN
  /\ lock[x] = None
  /\ seen.exists \/ ~row[x].exists
  /\ lock' = [lock EXCEPT ![x] = w]
  /\ draft' = [draft EXCEPT ![w][x] =
       [exists    |-> TRUE,
        version   |-> Column(row[x].version, seen.version, new.version),
        cached_at |-> Column(row[x].cached_at, seen.cached_at, new.cached_at),
        employer  |-> Column(row[x].employer, seen.employer, new.employer)]]
  /\ UNCHANGED <<now, edits, closed, row>>

\* Mutant: an employer that is in the cache is left as it is.
WriteNewEmployer(w) ==
  LET e == EmployerOf[run[w].vacancy] IN
  /\ run[w].phase = "write_employer"
  /\ IF run[w].seen.exists
     THEN UNCHANGED <<now, edits, closed, row, lock, draft>>
     ELSE Write(w, e, [version |-> run[w].fetched[e], cached_at |-> run[w].began, employer |-> None])
  /\ Goto(w, "upserted")

WriteEmployer(w) ==
  LET e == EmployerOf[run[w].vacancy] IN
  /\ run[w].phase = "write_employer"
  /\ Write(w, e, [version |-> run[w].fetched[e], cached_at |-> run[w].began, employer |-> None])
  /\ Goto(w, "upserted")

\* Mutant: update_vacancy_cache is not given the employer.
WriteVacancyAlone(w) ==
  LET v == run[w].vacancy IN
  /\ run[w].phase = "write_vacancy"
  /\ Write(w, v, [version |-> run[w].fetched[v], cached_at |-> run[w].began,
                  employer |-> IF run[w].seen.exists THEN run[w].seen.employer ELSE EmployerOf[v]])
  /\ run' = [run EXCEPT ![w].phase = "loaded", ![w].seen = NoRow,
                        ![w].fetched[v] = draft'[w][v].version]

\* What the run goes on with is the row read back after the write.
WriteVacancy(w) ==
  LET v == run[w].vacancy IN
  /\ run[w].phase = "write_vacancy"
  /\ Write(w, v, [version |-> run[w].fetched[v], cached_at |-> run[w].began,
                  employer |-> EmployerOf[v]])
  /\ run' = [run EXCEPT ![w].phase = "loaded", ![w].seen = NoRow,
                        ![w].fetched[v] = draft'[w][v].version]

-----------------------------------------------------------------------------
(* _get_or_create_placeholder_vacancy of the API. *)

\* An API request finds no row of the vacancy it is asked for.
FindNone(w) ==
  /\ run[w].phase = "idle"
  /\ \E v \in Vacancy :
       /\ ~row[v].exists
       /\ run' = [run EXCEPT ![w] = [NoRun EXCEPT !.phase = "placeholder", !.vacancy = v]]
  /\ UNCHANGED <<now, edits, closed, row, lock, draft>>

\* Its placeholder employer is a row of its own, which no other row collides
\* with unless their vacancies do, and is left out.
CreatePlaceholder(w) ==
  LET v == run[w].vacancy IN
  /\ run[w].phase = "placeholder"
  /\ Write(w, v, Placeholder)
  /\ Goto(w, "inserted")

\* The request and its job are made, and the API commits.
CommitPlaceholder(w) ==
  /\ run[w].phase = "inserted"
  /\ End(w, [row EXCEPT ![run[w].vacancy] = draft[w][run[w].vacancy]])

-----------------------------------------------------------------------------
Load(w) ==
  \/ LookUp(w) \/ LookUpEmployer(w) \/ GetVacancy(w) \/ GetEmployer(w)
  \/ Select(w) \/ WriteEmployer(w) \/ WriteVacancy(w) \/ Commit(w)

Api(w) == FindNone(w) \/ CreatePlaceholder(w) \/ CommitPlaceholder(w)

Next ==
  \/ Tick
  \/ \E x \in Editable : Edit(x)
  \/ \E v \in Closable : Close(v)
  \/ \E w \in Worker : Load(w)
  \/ \E c \in Client : Api(c)
  \/ \E w \in Run : Rollback(w)

Spec == Init /\ [][Next]_vars

-----------------------------------------------------------------------------
(* Properties. *)

Time == 0..MaxTime
Rows == [exists: BOOLEAN, version: Time, cached_at: Time \cup {None},
         employer: Employer \cup {None}]

TypeOK ==
  /\ now \in Time
  /\ edits \in [Entity -> SUBSET Time]
  /\ closed \in [Vacancy -> Time \cup {None}]
  /\ row \in [Entity -> Rows]
  /\ lock \in [Entity -> Run \cup {None}]
  /\ draft \in [Run -> [Entity -> Rows]]
  /\ run \in [Run -> [phase: {"idle", "cached", "missed", "vacancy", "employer", "write_employer",
                              "upserted", "write_vacancy", "loaded", "placeholder", "inserted"},
                      vacancy: Vacancy \cup {None}, began: Time, seen: Rows,
                      fetched: [Entity -> Time], cached: BOOLEAN]]

\* A run that takes a vacancy from the cache takes one that hh.ru showed as open
\* within the last lifetime: a closing is known when the lifetime has passed, also
\* when runs overlap and the later one writes what it read earlier.
ClosingIsLearned ==
  \A w \in Run : run[w].phase = "loaded" /\ run[w].cached =>
    LET c == closed[run[w].vacancy] IN c = None \/ c >= run[w].began - CACHE_TTL

\* A vacancy with content of hh.ru is joined to the employer hh.ru names, never
\* to the placeholder the API made or an employer that is not in the cache.
EmployerJoined ==
  \A v \in Vacancy : row[v].cached_at # None =>
    row[v].employer = EmployerOf[v] /\ row[EmployerOf[v]].cached_at # None

\* What a run writes a letter about is not older than the cache allows: it has
\* every edit hh.ru made before the run began, or a lifetime before if it was
\* cached.  The write of the vacancy alone would not give that: with a third run
\* it can skip a column another one sets back.  The lock on the employer's row,
\* taken before the vacancy is read again, keeps the others out.
LetterIsCurrent ==
  \A w \in Worker : run[w].phase = "loaded" =>
    LET age == IF run[w].cached THEN CACHE_TTL ELSE 0
        v   == run[w].vacancy IN
    \A t \in edits[v] : t < run[w].began - age => run[w].fetched[v] >= t

=============================================================================

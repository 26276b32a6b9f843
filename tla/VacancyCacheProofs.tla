-------------------------- MODULE VacancyCacheProofs --------------------------
(***************************************************************************)
(* Theorems about VacancyCache, for any number of vacancies, employers,    *)
(* runs and ticks, and any lifetime of a cached row.                       *)
(***************************************************************************)
EXTENDS VacancyCache, WellFoundedInduction, TLAPS

RunStates == [phase: {"idle", "cached", "missed", "vacancy", "employer", "write_employer",
                      "upserted", "write_vacancy", "loaded", "placeholder", "inserted"},
              vacancy: Vacancy \cup {None}, began: Time, seen: Rows,
              fetched: [Entity -> Time], cached: BOOLEAN]

\* hh.ru showed v as open at some time from t on.
OpenAt(v, t) == closed[v] = None \/ closed[v] >= t

\* b may replace a as the row of x: it is not missing again, not uncached, and
\* a vacancy keeps its employer.
Replaces(x, a, b) ==
  /\ a.exists => b.exists
  /\ a.cached_at # None => b.cached_at # None
  /\ x \in Vacancy /\ a.employer # None => b.employer = a.employer

\* A vacancy that was cached has its employer and was open when it was cached.
Stored(x, r) ==
  /\ r.cached_at # None => r.exists /\ r.cached_at <= now
  /\ x \in Vacancy => r.employer \in {None, EmployerOf[x]}
  /\ x \in Vacancy /\ r.cached_at # None => r.employer = EmployerOf[x] /\ OpenAt(x, r.cached_at)

RowInv ==
  /\ \A x \in Entity : Stored(x, row[x]) /\ edits[x] # {}
  /\ \A v \in Vacancy : row[v].cached_at # None => row[EmployerOf[v]].cached_at # None

\* What a transaction has written may replace the row; a cached vacancy has its
\* employer in the cache or in the same transaction.
DraftInv ==
  \A w \in Run, x \in Entity : lock[x] = w =>
    /\ Stored(x, draft[w][x])
    /\ Replaces(x, row[x], draft[w][x])
    /\ x \in Employer => draft[w][x].cached_at # None
    /\ x \in Vacancy /\ draft[w][x].cached_at # None =>
         row[EmployerOf[x]].cached_at # None \/ lock[EmployerOf[x]] = w

\* What the run w, being in state r, knows of the rows and of hh.ru.
Knows(w, r) ==
  /\ r.phase # "idle" => r.vacancy \in Vacancy
  /\ r.began <= now
  /\ r.phase = "cached" =>
       /\ r.seen.cached_at # None /\ r.seen.cached_at >= r.began - CACHE_TTL
       /\ r.seen.cached_at <= now
       /\ r.seen.employer = EmployerOf[r.vacancy]
       /\ OpenAt(r.vacancy, r.seen.cached_at)
  /\ r.phase \in {"vacancy", "employer", "write_employer", "upserted", "write_vacancy"} =>
       OpenAt(r.vacancy, r.began)
  /\ r.phase = "loaded" /\ r.cached => OpenAt(r.vacancy, r.began - CACHE_TTL)
  /\ r.phase = "write_employer" => Replaces(EmployerOf[r.vacancy], r.seen, row[EmployerOf[r.vacancy]])
  /\ r.phase = "write_vacancy" => Replaces(r.vacancy, r.seen, row[r.vacancy])
  /\ r.phase = "placeholder" => r.seen = NoRow
  /\ r.phase \in {"upserted", "write_vacancy"} => lock[EmployerOf[r.vacancy]] = w
  /\ r.phase = "inserted" => lock[r.vacancy] = w /\ draft[w][r.vacancy].cached_at = None

RunInv == \A w \in Run : Knows(w, run[w])

IInv == TypeOK /\ RowInv /\ DraftInv /\ RunInv

-----------------------------------------------------------------------------
(* Types. *)

LEMMA Constants ==
  /\ Time \subseteq Nat /\ 0 \in Time /\ 1 \in Time /\ None \notin Time /\ None \notin Entity
  /\ None \notin Run /\ CACHE_TTL \in Nat
  /\ \A v \in Vacancy : v \in Entity /\ EmployerOf[v] \in Employer /\ EmployerOf[v] \in Entity
                        /\ EmployerOf[v] # v /\ EmployerOf[v] \notin Vacancy
BY CacheConstants DEF Time, Entity, Run

LEMMA TimeIsInt ==
  ASSUME NEW t \in Time \cup {None}, t # None
  PROVE  t \in Int
BY CacheConstants DEF Time

LEMMA NothingTypes ==
  NoRow \in Rows /\ Placeholder \in Rows /\ NoRun \in RunStates
<1>1. NoRow \in Rows
  BY Constants DEF NoRow, Rows
<1>2. Placeholder \in Rows
  BY <1>1 DEF Placeholder, Rows
<1>3. NoRun \in RunStates
  <2>1. [x \in Entity |-> 0] \in [Entity -> Time]
    BY Constants
  <2>. QED  BY <1>1, <2>1, Constants DEF NoRun, RunStates
<1>. QED  BY <1>1, <1>2, <1>3

LEMMA Typed ==
  ASSUME TypeOK
  PROVE  /\ now \in Time /\ edits \in [Entity -> SUBSET Time]
         /\ closed \in [Vacancy -> Time \cup {None}]
         /\ row \in [Entity -> Rows] /\ lock \in [Entity -> Run \cup {None}]
         /\ draft \in [Run -> [Entity -> Rows]] /\ run \in [Run -> RunStates]
BY DEF TypeOK, RunStates

LEMMA InitTypes == Init => IInv
<1>. SUFFICES ASSUME Init PROVE IInv
  OBVIOUS
<1>1. TypeOK
  BY NothingTypes, Constants DEF Init, TypeOK, RunStates
<1>2. RowInv /\ DraftInv
  BY Constants DEF Init, RowInv, DraftInv, Stored, NoRow
<1>3. RunInv
  BY Constants DEF Init, RunInv, Knows, NoRun
<1>. QED  BY <1>1, <1>2, <1>3 DEF IInv

\* A set of naturals with an upper bound has a greatest member if it has one at all.
LEMMA GreatestNatural ==
  ASSUME NEW B \in Nat, NEW S \in SUBSET (0..B), S # {}
  PROVE  \E x \in S : \A y \in S : y <= x
<1>. DEFINE R == OpToRel(<, Nat)
            T == { B - y : y \in S }
<1>1. IsWellFoundedOn(R, Nat)
  BY NatLessThanWellFounded
<1>2. \A x, y \in Nat : y < x => <<y, x>> \in R
  BY DEF OpToRel
<1>3. T \subseteq Nat /\ T # {}
  <2>1. \A y \in S : y \in 0..B
    OBVIOUS
  <2>2. \A y \in S : B - y \in Nat
    BY <2>1
  <2>. QED  BY <2>2
<1>. HIDE DEF R
<1>4. PICK z \in T : \A y \in T : ~(<<y, z>> \in R)
  BY <1>1, <1>3, WFMin
<1>5. PICK x \in S : z = B - x
  BY <1>4
<1>6. ASSUME NEW y \in S PROVE y <= x
  <2>1. B - y \in T /\ B - y \in Nat /\ z \in Nat
    BY <1>3, <1>4
  <2>2. ~(B - y < z)
    BY <1>2, <1>4, <2>1
  <2>. QED  BY <1>5, <2>1, <2>2
<1>. QED  BY <1>6

\* What hh.ru shows has a version.
LEMMA VersionTypes ==
  ASSUME IInv, NEW x \in Entity
  PROVE  Version(x) \in Time
<1>1. edits[x] \in SUBSET Time /\ edits[x] # {}
  BY Typed DEF IInv, RowInv
<1>2. \E t \in edits[x] : \A e \in edits[x] : e <= t
  BY <1>1, GreatestNatural, CacheConstants DEF Time
<1>. QED  BY <1>1, <1>2 DEF Version

-----------------------------------------------------------------------------
(* Steps of a run that leave the rows alone. *)

LEMMA RunStep ==
  ASSUME IInv, NEW w \in Run, NEW r \in RunStates, run' = [run EXCEPT ![w] = r],
         UNCHANGED <<now, edits, closed, row, lock, draft>>, Knows(w, r)
  PROVE  IInv'
<1>1. run' \in [Run -> RunStates] /\ \A u \in Run : run'[u] = IF u = w THEN r ELSE run[u]
  BY Typed DEF IInv
<1>2. TypeOK'
  BY <1>1 DEF IInv, TypeOK, RunStates
<1>3. RowInv' /\ DraftInv'
  BY DEF IInv, RowInv, DraftInv, Stored, Replaces, OpenAt
<1>4. RunInv'
  <2>1. ASSUME NEW u \in Run PROVE Knows(u, run'[u])
    BY <1>1 DEF IInv, RunInv
  <2>. QED  BY <2>1 DEF RunInv, Knows, Replaces, OpenAt
<1>. QED  BY <1>2, <1>3, <1>4 DEF IInv

LEMMA Known ==
  ASSUME IInv, NEW w \in Run
  PROVE  run[w] \in RunStates /\ Knows(w, run[w]) /\ now \in Time
BY Typed DEF IInv, RunInv

LEMMA LookUpStep ==
  ASSUME IInv, NEW w \in Run, LookUp(w)
  PROVE  IInv'
<1>1. PICK v \in Vacancy :
        run' = [run EXCEPT ![w] = [NoRun EXCEPT
                  !.phase = IF IsCacheFresh(row[v].cached_at, now) THEN "cached" ELSE "missed",
                  !.seen = IF IsCacheFresh(row[v].cached_at, now) THEN row[v] ELSE NoRow,
                  !.vacancy = v, !.began = now]]
  BY DEF LookUp
<1>. DEFINE fresh == IsCacheFresh(row[v].cached_at, now)
            found == IF fresh THEN row[v] ELSE NoRow
            phase == IF fresh THEN "cached" ELSE "missed"
            r == [NoRun EXCEPT !.phase = phase, !.seen = found, !.vacancy = v, !.began = now]
<1>2. run' = [run EXCEPT ![w] = r] /\ UNCHANGED <<now, edits, closed, row, lock, draft>>
  BY <1>1 DEF LookUp
<1>3. found \in Rows /\ now \in Time /\ phase \in {"cached", "missed"}
  BY Typed, Constants, NothingTypes DEF IInv
<1>. HIDE DEF found, phase
<1>4. /\ r \in RunStates
      /\ r.phase = phase /\ r.seen = found /\ r.vacancy = v /\ r.began = now
  BY <1>3, NothingTypes DEF NoRun, RunStates
<1>. HIDE DEF r
<1>5. phase = "cached" => /\ found = row[v] /\ row[v].cached_at # None
                          /\ row[v].cached_at >= now - CACHE_TTL
  BY DEF found, phase, IsCacheFresh
<1>6. now <= now /\ (row[v].cached_at # None => Stored(v, row[v]) /\ row[v].employer = EmployerOf[v])
  BY <1>3, Constants DEF IInv, RowInv, Stored
<1>7. Knows(w, r)
  BY <1>3, <1>4, <1>5, <1>6 DEF Knows, Stored
<1>. QED  BY <1>2, <1>4, <1>7, RunStep

LEMMA LookUpEmployerStep ==
  ASSUME IInv, NEW w \in Run, LookUpEmployer(w)
  PROVE  IInv'
<1>. DEFINE v == run[w].vacancy
            e == run[w].seen.employer
<1>1. /\ run[w] \in RunStates /\ run[w].phase = "cached" /\ v \in Vacancy /\ e = EmployerOf[v]
      /\ run[w].began <= now /\ run[w].seen.cached_at # None
      /\ run[w].seen.cached_at >= run[w].began - CACHE_TTL
      /\ OpenAt(v, run[w].seen.cached_at)
      /\ UNCHANGED <<now, edits, closed, row, lock, draft>>
  BY Known DEF LookUpEmployer, Knows
<1>2. CASE run' = [run EXCEPT ![w].phase = "loaded", ![w].cached = TRUE, ![w].seen = NoRow,
                              ![w].fetched = [@ EXCEPT ![run[w].vacancy] = run[w].seen.version,
                                                       ![e] = row[e].version]]
  <2>. DEFINE f == [run[w].fetched EXCEPT ![run[w].vacancy] = run[w].seen.version,
                                          ![e] = row[e].version]
              r == [run[w] EXCEPT !.phase = "loaded", !.cached = TRUE, !.seen = NoRow, !.fetched = f]
  <2>1. f \in [Entity -> Time]
    <3>1. run[w].seen.version \in Time /\ row[e].version \in Time /\ run[w].fetched \in [Entity -> Time]
      BY <1>1, Typed, Constants DEF IInv, RunStates, Rows
    <3>. QED  BY <3>1
  <2>. HIDE DEF f
  <2>2. /\ r \in RunStates /\ r.phase = "loaded" /\ r.cached /\ r.vacancy = v
        /\ r.began = run[w].began
    BY <1>1, <2>1, NothingTypes DEF RunStates
  <2>3. run' = [run EXCEPT ![w] = r]
    BY <1>2 DEF f
  <2>. HIDE DEF r
  <2>4. OpenAt(v, run[w].began - CACHE_TTL)
    <3>1. run[w].seen \in Rows /\ run[w].began \in Time /\ closed[v] \in Time \cup {None}
      BY <1>1, Typed DEF IInv, RunStates
    <3>2. run[w].seen.cached_at \in Time
      BY <1>1, <3>1 DEF Rows
    <3>3. /\ run[w].seen.cached_at \in Nat /\ run[w].began \in Nat /\ CACHE_TTL \in Nat
          /\ closed[v] = None \/ closed[v] \in Nat
      BY <3>1, <3>2, Constants
    <3>4. run[w].seen.cached_at >= run[w].began - CACHE_TTL /\ OpenAt(v, run[w].seen.cached_at)
      BY <1>1
    <3>. QED  BY <3>3, <3>4 DEF OpenAt
  <2>5. Knows(w, r)
    BY <1>1, <2>2, <2>4 DEF Knows
  <2>. QED  BY <1>1, <2>2, <2>3, <2>5, RunStep
<1>3. CASE Goto(w, "missed")
  <2>. DEFINE r == [run[w] EXCEPT !.phase = "missed", !.seen = NoRow]
  <2>1. r \in RunStates /\ r.phase = "missed" /\ r.vacancy = v /\ r.began = run[w].began
    BY <1>1, NothingTypes DEF RunStates
  <2>2. run' = [run EXCEPT ![w] = r]
    BY <1>3 DEF Goto
  <2>. HIDE DEF r
  <2>3. Knows(w, r)
    BY <1>1, <2>1 DEF Knows
  <2>. QED  BY <1>1, <2>1, <2>2, <2>3, RunStep
<1>. QED  BY <1>2, <1>3 DEF LookUpEmployer

LEMMA GetVacancyStep ==
  ASSUME IInv, NEW w \in Run, GetVacancy(w)
  PROVE  IInv'
<1>. DEFINE v == run[w].vacancy
            f == [run[w].fetched EXCEPT ![v] = Version(v)]
            r == [run[w] EXCEPT !.phase = "vacancy", !.fetched = f]
<1>1. /\ run[w] \in RunStates /\ run[w].phase = "missed" /\ v \in Vacancy /\ closed[v] = None
      /\ run[w].began <= now /\ UNCHANGED <<now, edits, closed, row, lock, draft>>
      /\ run' = [run EXCEPT ![w] = r]
  <2>1. run[w] \in RunStates /\ Knows(w, run[w])
    BY Known
  <2>. QED  BY <2>1 DEF GetVacancy, Knows
<1>2. f \in [Entity -> Time]
  BY <1>1, VersionTypes, Constants DEF RunStates
<1>. HIDE DEF f
<1>3. r \in RunStates /\ r.phase = "vacancy" /\ r.vacancy = v /\ r.began = run[w].began
  BY <1>1, <1>2 DEF RunStates
<1>. HIDE DEF r
<1>4. Knows(w, r)
  BY <1>1, <1>3 DEF Knows, OpenAt
<1>. QED  BY <1>1, <1>3, <1>4, RunStep

LEMMA GetEmployerStep ==
  ASSUME IInv, NEW w \in Run, GetEmployer(w)
  PROVE  IInv'
<1>. DEFINE v == run[w].vacancy
            e == EmployerOf[v]
            f == [run[w].fetched EXCEPT ![e] = Version(e)]
            r == [run[w] EXCEPT !.phase = "employer", !.fetched = f]
<1>1. /\ run[w] \in RunStates /\ run[w].phase = "vacancy" /\ v \in Vacancy
      /\ run[w].began <= now /\ OpenAt(v, run[w].began)
      /\ UNCHANGED <<now, edits, closed, row, lock, draft>> /\ run' = [run EXCEPT ![w] = r]
  <2>1. run[w] \in RunStates /\ Knows(w, run[w])
    BY Known
  <2>. QED  BY <2>1 DEF GetEmployer, Knows
<1>2. f \in [Entity -> Time]
  BY <1>1, VersionTypes, Constants DEF RunStates
<1>. HIDE DEF f
<1>3. r \in RunStates /\ r.phase = "employer" /\ r.vacancy = v /\ r.began = run[w].began
  BY <1>1, <1>2 DEF RunStates
<1>. HIDE DEF r
<1>4. Knows(w, r)
  BY <1>1, <1>3 DEF Knows
<1>. QED  BY <1>1, <1>3, <1>4, RunStep

LEMMA SelectStep ==
  ASSUME IInv, NEW w \in Run, Select(w)
  PROVE  IInv'
<1>. DEFINE v == run[w].vacancy
            e == EmployerOf[v]
<1>1. /\ run[w] \in RunStates /\ v \in Vacancy /\ run[w].began <= now /\ OpenAt(v, run[w].began)
      /\ UNCHANGED <<now, edits, closed, row, lock, draft>>
      /\ row[e] \in Rows /\ row[v] \in Rows
  BY Known, Typed, Constants DEF Select, Knows, IInv
<1>2. CASE run[w].phase = "employer" /\ run' = [run EXCEPT ![w].phase = "write_employer", ![w].seen = row[e]]
  <2>. DEFINE r == [run[w] EXCEPT !.phase = "write_employer", !.seen = row[e]]
  <2>1. /\ r \in RunStates /\ r.phase = "write_employer" /\ r.vacancy = v /\ r.began = run[w].began
        /\ r.seen = row[e]
    BY <1>1 DEF RunStates
  <2>2. run' = [run EXCEPT ![w] = r]
    BY <1>2
  <2>. HIDE DEF r
  <2>3. Knows(w, r)
    BY <1>1, <2>1 DEF Knows, Replaces
  <2>. QED  BY <1>1, <2>1, <2>2, <2>3, RunStep
<1>3. CASE run[w].phase = "upserted" /\ run' = [run EXCEPT ![w].phase = "write_vacancy", ![w].seen = row[v]]
  <2>. DEFINE r == [run[w] EXCEPT !.phase = "write_vacancy", !.seen = row[v]]
  <2>1. /\ r \in RunStates /\ r.phase = "write_vacancy" /\ r.vacancy = v /\ r.began = run[w].began
        /\ r.seen = row[v]
    BY <1>1 DEF RunStates
  <2>2. run' = [run EXCEPT ![w] = r]
    BY <1>3
  <2>. HIDE DEF r
  <2>3. lock[e] = w
    BY <1>3, Known DEF Knows
  <2>4. Knows(w, r)
    BY <1>1, <2>1, <2>3 DEF Knows, Replaces
  <2>. QED  BY <1>1, <2>1, <2>2, <2>4, RunStep
<1>. QED  BY <1>2, <1>3 DEF Select

LEMMA FindNoneStep ==
  ASSUME IInv, NEW w \in Run, FindNone(w)
  PROVE  IInv'
<1>1. PICK v \in Vacancy :
        run' = [run EXCEPT ![w] = [NoRun EXCEPT !.phase = "placeholder", !.vacancy = v]]
  BY DEF FindNone
<1>. DEFINE r == [NoRun EXCEPT !.phase = "placeholder", !.vacancy = v]
<1>2. run' = [run EXCEPT ![w] = r] /\ UNCHANGED <<now, edits, closed, row, lock, draft>>
  BY <1>1 DEF FindNone
<1>3. r \in RunStates /\ r.phase = "placeholder" /\ r.vacancy = v /\ r.began = 0 /\ r.seen = NoRow
  BY NothingTypes DEF NoRun, RunStates
<1>. HIDE DEF r
<1>4. 0 <= now
  <2>1. now \in Nat
    BY Known, Constants
  <2>. QED  BY <2>1
<1>5. Knows(w, r)
  BY <1>3, <1>4 DEF Knows
<1>. QED  BY <1>2, <1>3, <1>5, RunStep

-----------------------------------------------------------------------------
(* Steps that write a row. *)

LEMMA StoredStays ==
  ASSUME NEW x, NEW r, UNCHANGED <<now, closed>>, Stored(x, r)
  PROVE  Stored(x, r)'
BY DEF Stored, OpenAt

LEMMA ReplacesStays ==
  ASSUME NEW x, NEW r, Replaces(x, row[x], r), row'[x] = row[x]
  PROVE  Replaces(x, row[x], r)'
BY DEF Replaces

LEMMA WriteStep ==
  ASSUME IInv, NEW w \in Run, NEW x \in Entity, NEW d \in Rows, NEW r \in RunStates,
         lock[x] = None, lock' = [lock EXCEPT ![x] = w], draft' = [draft EXCEPT ![w][x] = d],
         run' = [run EXCEPT ![w] = r], UNCHANGED <<now, edits, closed, row>>,
         Stored(x, d), Replaces(x, row[x], d), x \in Employer => d.cached_at # None,
         x \in Vacancy /\ d.cached_at # None =>
           row[EmployerOf[x]].cached_at # None \/ lock[EmployerOf[x]] = w,
         r.vacancy \in Vacancy, r.phase \in {"upserted", "loaded", "inserted"}, r.began <= now,
         r.phase = "upserted" => x = EmployerOf[r.vacancy] /\ OpenAt(r.vacancy, r.began),
         r.phase = "loaded" => OpenAt(r.vacancy, r.began - CACHE_TTL),
         r.phase = "inserted" => x = r.vacancy /\ d.cached_at = None
  PROVE  IInv'
<1>1. /\ run' \in [Run -> RunStates] /\ \A u \in Run : run'[u] = IF u = w THEN r ELSE run[u]
      /\ lock' \in [Entity -> Run \cup {None}]
      /\ \A y \in Entity : lock'[y] = IF y = x THEN w ELSE lock[y]
      /\ draft' \in [Run -> [Entity -> Rows]]
      /\ \A u \in Run, y \in Entity :
           draft'[u][y] = IF u = w /\ y = x THEN d ELSE draft[u][y]
  BY Typed DEF IInv
<1>2. TypeOK'
  BY <1>1 DEF IInv, TypeOK, RunStates
<1>3. RowInv'
  BY DEF IInv, RowInv, Stored, OpenAt
<1>4. \A u \in Run, y \in Entity : lock[y] = u => lock'[y] = u
  BY <1>1, Constants
<1>5. DraftInv'
  <2>. SUFFICES ASSUME NEW u \in Run, NEW y \in Entity, (lock[y] = u)'
                PROVE  (/\ Stored(y, draft[u][y])
                        /\ Replaces(y, row[y], draft[u][y])
                        /\ y \in Employer => draft[u][y].cached_at # None
                        /\ y \in Vacancy /\ draft[u][y].cached_at # None =>
                             row[EmployerOf[y]].cached_at # None \/ lock[EmployerOf[y]] = u)'
    BY DEF DraftInv
  <2>1. PICK q \in Rows : q = draft'[u][y]
    BY <1>1
  <2>2. /\ Stored(y, q) /\ Replaces(y, row[y], q) /\ (y \in Employer => q.cached_at # None)
        /\ y \in Vacancy /\ q.cached_at # None =>
             row[EmployerOf[y]].cached_at # None \/ lock[EmployerOf[y]] = u
    <3>1. CASE y = x
      <4>1. u = w /\ q = d
        BY <1>1, <2>1, <3>1
      <4>. QED  BY <3>1, <4>1
    <3>2. CASE y # x
      <4>1. lock[y] = u /\ q = draft[u][y]
        BY <1>1, <2>1, <3>2
      <4>. QED  BY <4>1 DEF IInv, DraftInv
    <3>. QED  BY <3>1, <3>2
  <2>3. Stored(y, q)'
    BY <2>2, StoredStays
  <2>5. Replaces(y, row[y], q)'
    BY <2>2, ReplacesStays
  <2>4. y \in Vacancy /\ q.cached_at # None =>
          row'[EmployerOf[y]].cached_at # None \/ lock'[EmployerOf[y]] = u
    BY <1>4, <2>2, Constants
  <2>. QED  BY <2>1, <2>2, <2>3, <2>4, <2>5
<1>6. RunInv'
  <2>1. ASSUME NEW u \in Run, u # w PROVE Knows(u, run[u])'
    <3>1. run'[u] = run[u] /\ Knows(u, run[u])
      BY <1>1, <2>1 DEF IInv, RunInv
    <3>2. run[u].phase # "idle" => run[u].vacancy \in Entity /\ EmployerOf[run[u].vacancy] \in Entity
      BY <3>1, Constants DEF Knows
    <3>3. draft'[u] = draft[u]
      BY <1>1, <2>1, Typed DEF IInv
    <3>. QED  BY <1>4, <3>1, <3>2, <3>3 DEF Knows, Replaces, OpenAt
  <2>2. Knows(w, run[w])'
    BY <1>1, Constants DEF Knows, OpenAt
  <2>. QED  BY <2>1, <2>2 DEF RunInv
<1>. QED  BY <1>2, <1>3, <1>5, <1>6 DEF IInv

LEMMA WriteEmployerStep ==
  ASSUME IInv, NEW w \in Run, WriteEmployer(w)
  PROVE  IInv'
<1>. DEFINE v == run[w].vacancy
            e == EmployerOf[v]
            seen == run[w].seen
            version == Column(row[e].version, seen.version, run[w].fetched[e])
            cached == Column(row[e].cached_at, seen.cached_at, run[w].began)
            employer == Column(row[e].employer, seen.employer, None)
            d == [exists |-> TRUE, version |-> version, cached_at |-> cached, employer |-> employer]
            r == [run[w] EXCEPT !.phase = "upserted", !.seen = NoRow]
<1>1. /\ run[w] \in RunStates /\ run[w].phase = "write_employer" /\ v \in Vacancy
      /\ run[w].began <= now /\ OpenAt(v, run[w].began) /\ Replaces(e, seen, row[e])
      /\ lock[e] = None /\ UNCHANGED <<now, edits, closed, row>>
      /\ lock' = [lock EXCEPT ![e] = w] /\ draft' = [draft EXCEPT ![w][e] = d]
      /\ run' = [run EXCEPT ![w] = r]
  BY Known DEF WriteEmployer, Write, Goto, Knows
<1>2. /\ e \in Entity /\ e \in Employer /\ e \notin Vacancy /\ row[e] \in Rows /\ Stored(e, row[e])
      /\ seen \in Rows /\ run[w].began \in Time /\ run[w].fetched[e] \in Time
  BY <1>1, Typed, Constants DEF IInv, RunStates, RowInv
<1>3. version \in Time /\ employer \in Employer \cup {None}
  BY <1>2 DEF Column, Rows
<1>4. cached \in Time /\ cached <= now
  <2>1. CASE run[w].began = seen.cached_at
    <3>1. row[e].cached_at # None /\ cached = row[e].cached_at
      BY <1>1, <1>2, <2>1, Constants DEF Replaces, Column
    <3>. QED  BY <1>2, <3>1 DEF Stored, Rows
  <2>2. CASE run[w].began # seen.cached_at
    BY <1>1, <1>2, <2>2 DEF Column
  <2>. QED  BY <2>1, <2>2
<1>. HIDE DEF version, cached, employer
<1>5. d \in Rows /\ d.exists /\ d.cached_at = cached /\ cached # None
  BY <1>3, <1>4, Constants DEF Rows
<1>. HIDE DEF d
<1>6. Stored(e, d) /\ Replaces(e, row[e], d)
  BY <1>2, <1>4, <1>5 DEF Stored, Replaces
<1>7. r \in RunStates /\ r.phase = "upserted" /\ r.vacancy = v /\ r.began = run[w].began
  BY <1>1, NothingTypes DEF RunStates
<1>. HIDE DEF r
<1>. QED  BY <1>1, <1>2, <1>5, <1>6, <1>7, WriteStep

LEMMA WriteVacancyStep ==
  ASSUME IInv, NEW w \in Run, WriteVacancy(w)
  PROVE  IInv'
<1>. DEFINE v == run[w].vacancy
            e == EmployerOf[v]
            seen == run[w].seen
            version == Column(row[v].version, seen.version, run[w].fetched[v])
            cached == Column(row[v].cached_at, seen.cached_at, run[w].began)
            employer == Column(row[v].employer, seen.employer, e)
            d == [exists |-> TRUE, version |-> version, cached_at |-> cached, employer |-> employer]
<1>1. /\ run[w] \in RunStates /\ run[w].phase = "write_vacancy" /\ v \in Vacancy
      /\ run[w].began <= now /\ OpenAt(v, run[w].began) /\ Replaces(v, seen, row[v])
      /\ lock[e] = w /\ lock[v] = None /\ UNCHANGED <<now, edits, closed, row>>
      /\ lock' = [lock EXCEPT ![v] = w] /\ draft' = [draft EXCEPT ![w][v] = d]
      /\ run' = [run EXCEPT ![w].phase = "loaded", ![w].seen = NoRow,
                            ![w].fetched[v] = draft'[w][v].version]
  BY Known DEF WriteVacancy, Write, Knows
<1>2. /\ v \in Entity /\ e \in Employer /\ v \notin Employer /\ row[v] \in Rows /\ Stored(v, row[v])
      /\ seen \in Rows /\ run[w].began \in Time /\ run[w].fetched \in [Entity -> Time]
      /\ closed[v] \in Time \cup {None} /\ e # None
  BY <1>1, Typed, Constants, CacheConstants DEF IInv, RunStates, RowInv
<1>3. version \in Time
  BY <1>2 DEF Column, Rows
<1>4. employer = e
  BY <1>1, <1>2 DEF Column, Replaces
<1>5. cached \in Time /\ cached <= now /\ OpenAt(v, cached)
  <2>1. CASE run[w].began = seen.cached_at
    <3>1. row[v].cached_at # None /\ cached = row[v].cached_at
      BY <1>1, <1>2, <2>1, Constants DEF Replaces, Column
    <3>. QED  BY <1>1, <1>2, <3>1 DEF Stored, Rows
  <2>2. CASE run[w].began # seen.cached_at
    BY <1>1, <1>2, <2>2 DEF Column
  <2>. QED  BY <2>1, <2>2
<1>. HIDE DEF version, cached, employer
<1>6. /\ d \in Rows /\ d.exists /\ d.version = version /\ d.cached_at = cached /\ d.employer = e
      /\ cached # None
  BY <1>2, <1>3, <1>4, <1>5, Constants DEF Rows
<1>. HIDE DEF d
<1>7. Stored(v, d) /\ Replaces(v, row[v], d)
  BY <1>2, <1>5, <1>6 DEF Stored, Replaces
<1>. DEFINE f == [run[w].fetched EXCEPT ![v] = version]
            r == [run[w] EXCEPT !.phase = "loaded", !.seen = NoRow, !.fetched = f]
<1>8. draft'[w][v].version = version
  BY <1>1, <1>2, <1>6, Typed DEF IInv
<1>9. run' = [run EXCEPT ![w] = r]
  <2>1. run' = [run EXCEPT ![w].phase = "loaded", ![w].seen = NoRow, ![w].fetched[v] = version]
    BY <1>1, <1>8
  <2>. QED  BY <2>1
<1>10. f \in [Entity -> Time]
  BY <1>2, <1>3
<1>. HIDE DEF f
<1>11. r \in RunStates /\ r.phase = "loaded" /\ r.vacancy = v /\ r.began = run[w].began
  BY <1>1, <1>10, NothingTypes DEF RunStates
<1>. HIDE DEF r
<1>12. OpenAt(v, run[w].began - CACHE_TTL)
  BY <1>1, <1>2, Constants DEF OpenAt
<1>. QED  BY <1>1, <1>2, <1>6, <1>7, <1>9, <1>11, <1>12, WriteStep

LEMMA CreatePlaceholderStep ==
  ASSUME IInv, NEW w \in Run, CreatePlaceholder(w)
  PROVE  IInv'
<1>. DEFINE v == run[w].vacancy
            d == [exists |-> TRUE, version |-> row[v].version, cached_at |-> row[v].cached_at,
                  employer |-> row[v].employer]
            r == [run[w] EXCEPT !.phase = "inserted", !.seen = NoRow]
<1>1. /\ run[w] \in RunStates /\ run[w].phase = "placeholder" /\ v \in Vacancy
      /\ run[w].seen = NoRow /\ run[w].began <= now
      /\ Write(w, v, Placeholder) /\ run' = [run EXCEPT ![w] = r]
  BY Known DEF CreatePlaceholder, Goto, Knows
<1>2. /\ v \in Entity /\ v \notin Employer /\ row[v] \in Rows /\ Stored(v, row[v])
  BY <1>1, Typed, Constants, CacheConstants DEF IInv, RowInv
<1>3. /\ Placeholder.version = NoRow.version /\ Placeholder.cached_at = NoRow.cached_at
      /\ Placeholder.employer = NoRow.employer /\ ~NoRow.exists
  BY DEF Placeholder, NoRow
<1>4. /\ lock[v] = None /\ UNCHANGED <<now, edits, closed, row>> /\ ~row[v].exists
      /\ lock' = [lock EXCEPT ![v] = w] /\ draft' = [draft EXCEPT ![w][v] = d]
  BY <1>1, <1>3 DEF Write, Column
<1>5. d \in Rows /\ d.exists /\ d.cached_at = None /\ d.employer = row[v].employer
  BY <1>2, <1>4 DEF Rows, Stored
<1>. HIDE DEF d
<1>6. Stored(v, d) /\ Replaces(v, row[v], d)
  BY <1>2, <1>4, <1>5 DEF Stored, Replaces
<1>7. r \in RunStates /\ r.phase = "inserted" /\ r.vacancy = v /\ r.began = run[w].began
  BY <1>1, NothingTypes DEF RunStates
<1>. HIDE DEF r
<1>. QED  BY <1>1, <1>2, <1>4, <1>5, <1>6, <1>7, WriteStep

-----------------------------------------------------------------------------
(* Steps that end a transaction. *)

\* The rows stored are drafts of w, and no vacancy loses its employer by them.
LEMMA EndStep ==
  ASSUME IInv, NEW w \in Run, NEW rows \in [Entity -> Rows], End(w, rows),
         \A x \in Entity : rows[x] = row[x] \/ (lock[x] = w /\ rows[x] = draft[w][x]),
         \A v \in Vacancy : rows[v].cached_at # None => rows[EmployerOf[v]].cached_at # None
  PROVE  IInv'
<1>1. /\ row' = rows /\ UNCHANGED <<now, edits, closed>>
      /\ lock' \in [Entity -> Run \cup {None}]
      /\ \A y \in Entity : lock'[y] = IF lock[y] = w THEN None ELSE lock[y]
      /\ draft' \in [Run -> [Entity -> Rows]]
      /\ \A u \in Run : u # w => draft'[u] = draft[u]
      /\ run' \in [Run -> RunStates]
      /\ \A u \in Run : run'[u] = IF u = w THEN NoRun ELSE run[u]
  BY Typed, NothingTypes DEF IInv, End
<1>2. TypeOK'
  BY <1>1 DEF IInv, TypeOK, RunStates
<1>3. \A x \in Entity : Stored(x, rows[x]) /\ Replaces(x, row[x], rows[x])
  <2>. SUFFICES ASSUME NEW x \in Entity PROVE Stored(x, rows[x]) /\ Replaces(x, row[x], rows[x])
    OBVIOUS
  <2>1. CASE rows[x] = row[x]
    BY <2>1 DEF IInv, RowInv, Replaces
  <2>2. CASE lock[x] = w /\ rows[x] = draft[w][x]
    BY <2>2 DEF IInv, DraftInv
  <2>. QED  BY <2>1, <2>2
<1>4. RowInv'
  BY <1>1, <1>3 DEF IInv, RowInv, Stored, OpenAt
<1>5. \A u \in Run, y \in Entity : u # w /\ lock[y] = u => lock'[y] = u /\ rows[y] = row[y]
  BY <1>1
<1>6. \A u \in Run, y \in Entity : lock'[y] = u => u # w /\ lock[y] = u
  BY <1>1, Constants
<1>7. DraftInv'
  <2>. SUFFICES ASSUME NEW u \in Run, NEW y \in Entity, (lock[y] = u)'
                PROVE  (/\ Stored(y, draft[u][y])
                        /\ Replaces(y, row[y], draft[u][y])
                        /\ y \in Employer => draft[u][y].cached_at # None
                        /\ y \in Vacancy /\ draft[u][y].cached_at # None =>
                             row[EmployerOf[y]].cached_at # None \/ lock[EmployerOf[y]] = u)'
    BY DEF DraftInv
  <2>1. PICK q \in Rows : q = draft'[u][y]
    BY <1>1
  <2>2. u # w /\ lock[y] = u /\ rows[y] = row[y] /\ q = draft[u][y]
    BY <1>1, <1>5, <1>6, <2>1
  <2>3. /\ Stored(y, q) /\ Replaces(y, row[y], q) /\ (y \in Employer => q.cached_at # None)
        /\ y \in Vacancy /\ q.cached_at # None =>
             row[EmployerOf[y]].cached_at # None \/ lock[EmployerOf[y]] = u
    BY <2>2 DEF IInv, DraftInv
  <2>4. Stored(y, q)'
    BY <1>1, <2>3, StoredStays
  <2>5. Replaces(y, row[y], q)'
    BY <1>1, <2>2, <2>3, ReplacesStays
  <2>6. y \in Vacancy /\ q.cached_at # None =>
          row'[EmployerOf[y]].cached_at # None \/ lock'[EmployerOf[y]] = u
    BY <1>1, <1>3, <1>5, <2>2, <2>3, Constants DEF Replaces
  <2>. QED  BY <2>1, <2>3, <2>4, <2>5, <2>6
<1>8. RunInv'
  <2>1. ASSUME NEW u \in Run, u # w PROVE Knows(u, run[u])'
    <3>1. run'[u] = run[u] /\ Knows(u, run[u])
      BY <1>1, <2>1 DEF IInv, RunInv
    <3>2. run[u].phase # "idle" => run[u].vacancy \in Entity /\ EmployerOf[run[u].vacancy] \in Entity
      BY <3>1, Constants DEF Knows
    <3>3. \A x \in Entity : \A a : Replaces(x, a, row[x]) => Replaces(x, a, row'[x])
      BY <1>1, <1>3 DEF Replaces
    <3>. QED  BY <1>1, <1>5, <2>1, <3>1, <3>2, <3>3 DEF Knows, OpenAt, Replaces
  <2>2. Knows(w, run[w])'
    <3>1. now \in Nat
      BY Known, Constants
    <3>2. 0 <= now
      BY <3>1
    <3>3. NoRun.phase = "idle" /\ NoRun.began = 0
      BY DEF NoRun
    <3>. QED  BY <1>1, <3>2, <3>3 DEF Knows
  <2>. QED  BY <2>1, <2>2 DEF RunInv
<1>. QED  BY <1>2, <1>4, <1>7, <1>8 DEF IInv

LEMMA CommitStep ==
  ASSUME IInv, NEW w \in Run, Commit(w)
  PROVE  IInv'
<1>. DEFINE rows == [x \in Entity |-> IF lock[x] = w THEN draft[w][x] ELSE row[x]]
<1>1. rows \in [Entity -> Rows]
  BY Typed DEF IInv
<1>2. \A x \in Entity : rows[x] = row[x] \/ (lock[x] = w /\ rows[x] = draft[w][x])
  OBVIOUS
<1>3. ASSUME NEW v \in Vacancy, rows[v].cached_at # None
      PROVE  rows[EmployerOf[v]].cached_at # None
  <2>1. row[EmployerOf[v]].cached_at # None \/ lock[EmployerOf[v]] = w
    BY <1>3, Constants DEF IInv, RowInv, DraftInv
  <2>2. lock[EmployerOf[v]] = w => draft[w][EmployerOf[v]].cached_at # None
    BY Constants DEF IInv, DraftInv
  <2>. QED  BY <2>1, <2>2, Constants
<1>4. End(w, rows)
  BY DEF Commit
<1>. HIDE DEF rows
<1>. QED  BY <1>1, <1>2, <1>3, <1>4, EndStep

LEMMA CommitPlaceholderStep ==
  ASSUME IInv, NEW w \in Run, CommitPlaceholder(w)
  PROVE  IInv'
<1>. DEFINE v == run[w].vacancy
            rows == [row EXCEPT ![v] = draft[w][v]]
<1>1. v \in Vacancy /\ v \in Entity /\ lock[v] = w /\ draft[w][v].cached_at = None
  BY Known, Constants DEF CommitPlaceholder, Knows
<1>2. rows \in [Entity -> Rows]
  BY <1>1, Typed DEF IInv
<1>3. \A x \in Entity : rows[x] = IF x = v THEN draft[w][v] ELSE row[x]
  BY <1>1, Typed DEF IInv
<1>4. End(w, rows)
  BY DEF CommitPlaceholder
<1>. HIDE DEF rows
<1>5. \A x \in Entity : rows[x] = row[x] \/ (lock[x] = w /\ rows[x] = draft[w][x])
  BY <1>1, <1>3
<1>6. ASSUME NEW u \in Vacancy, rows[u].cached_at # None
      PROVE  rows[EmployerOf[u]].cached_at # None
  <2>1. rows[EmployerOf[u]] = row[EmployerOf[u]]
    BY <1>1, <1>3, Constants
  <2>2. CASE u = v
    BY <1>1, <1>3, <1>6, <2>2
  <2>3. CASE u # v
    BY <1>3, <1>6, <2>1, <2>3, Constants DEF IInv, RowInv
  <2>. QED  BY <2>2, <2>3
<1>. QED  BY <1>2, <1>4, <1>5, <1>6, EndStep

LEMMA RollbackStep ==
  ASSUME IInv, NEW w \in Run, Rollback(w)
  PROVE  IInv'
<1>1. row \in [Entity -> Rows] /\ End(w, row)
  BY Typed DEF IInv, Rollback
<1>2. \A v \in Vacancy : row[v].cached_at # None => row[EmployerOf[v]].cached_at # None
  BY DEF IInv, RowInv
<1>. QED  BY <1>1, <1>2, EndStep

-----------------------------------------------------------------------------
(* Time and hh.ru. *)

LEMMA TickStep ==
  ASSUME IInv, Tick
  PROVE  IInv'
<1>1. /\ now \in Nat /\ now < MaxTime /\ now' = now + 1 /\ MaxTime \in Nat
      /\ UNCHANGED <<edits, closed, row, lock, draft, run>>
  BY Typed, Constants, CacheConstants DEF Tick, IInv
<1>2. now' \in Time /\ \A t \in Time : t <= now => t <= now'
  BY <1>1 DEF Time
<1>3. TypeOK'
  BY <1>1, <1>2 DEF IInv, TypeOK
<1>4. ASSUME NEW x \in Entity, NEW r \in Rows, Stored(x, r) PROVE Stored(x, r)'
  <2>1. r.cached_at \in Time \cup {None}
    BY DEF Rows
  <2>. QED  BY <1>1, <1>2, <1>4, <2>1 DEF Stored, OpenAt
<1>5. RowInv'
  <2>1. ASSUME NEW x \in Entity PROVE Stored(x, row[x])' /\ edits'[x] # {}
    <3>1. row[x] \in Rows /\ Stored(x, row[x]) /\ edits[x] # {}
      BY Typed DEF IInv, RowInv
    <3>2. PICK r \in Rows : r = row[x]
      BY <3>1
    <3>3. Stored(x, r)'
      BY <1>4, <3>1, <3>2
    <3>. QED  BY <1>1, <3>1, <3>2, <3>3 DEF Stored, OpenAt
  <2>. QED  BY <1>1, <2>1 DEF IInv, RowInv
<1>6. DraftInv'
  <2>. SUFFICES ASSUME NEW u \in Run, NEW y \in Entity, (lock[y] = u)'
                PROVE  (/\ Stored(y, draft[u][y])
                        /\ Replaces(y, row[y], draft[u][y])
                        /\ y \in Employer => draft[u][y].cached_at # None
                        /\ y \in Vacancy /\ draft[u][y].cached_at # None =>
                             row[EmployerOf[y]].cached_at # None \/ lock[EmployerOf[y]] = u)'
    BY DEF DraftInv
  <2>1. draft[u][y] \in Rows /\ lock[y] = u
    BY <1>1, Typed DEF IInv
  <2>2. PICK q \in Rows : q = draft[u][y]
    BY <2>1
  <2>3. Stored(y, q)'
    BY <1>4, <2>1, <2>2 DEF IInv, DraftInv
  <2>4. Stored(y, draft[u][y])'
    BY <1>1, <2>2, <2>3 DEF Stored, OpenAt
  <2>. QED  BY <1>1, <2>1, <2>4 DEF IInv, DraftInv, Replaces
<1>7. RunInv'
  <2>1. ASSUME NEW u \in Run PROVE Knows(u, run[u])'
    <3>1. run[u] \in RunStates /\ Knows(u, run[u])
      BY Known
    <3>2. run[u].began \in Time /\ run[u].seen.cached_at \in Time \cup {None}
      <4>1. run[u].began \in Time /\ run[u].seen \in Rows
        BY <3>1 DEF RunStates
      <4>. QED  BY <4>1 DEF Rows
    <3>3. run[u].began <= now' /\ (run[u].phase = "cached" => run[u].seen.cached_at <= now')
      BY <1>2, <3>1, <3>2 DEF Knows
    <3>. QED  BY <1>1, <3>1, <3>3 DEF Knows, OpenAt, Replaces
  <2>. QED  BY <2>1 DEF RunInv
<1>. QED  BY <1>3, <1>5, <1>6, <1>7 DEF IInv

LEMMA EditStep ==
  ASSUME IInv, NEW x \in Entity, Edit(x)
  PROVE  IInv'
<1>1. /\ edits' \in [Entity -> SUBSET Time] /\ \A y \in Entity : edits[y] # {} => edits'[y] # {}
      /\ UNCHANGED <<now, closed, row, lock, draft, run>>
  BY Typed DEF IInv, Edit
<1>2. TypeOK'
  BY <1>1 DEF IInv, TypeOK
<1>3. RowInv'
  BY <1>1 DEF IInv, RowInv, Stored, OpenAt
<1>4. DraftInv'
  BY <1>1 DEF IInv, DraftInv, Stored, OpenAt, Replaces
<1>5. RunInv'
  BY <1>1 DEF IInv, RunInv, Knows, OpenAt, Replaces
<1>. QED  BY <1>2, <1>3, <1>4, <1>5 DEF IInv

\* What was open at some time up to now still was when a vacancy is closed now.
LEMMA CloseStep ==
  ASSUME IInv, NEW v \in Vacancy, Close(v)
  PROVE  IInv'
<1>1. /\ closed[v] = None /\ closed' = [closed EXCEPT ![v] = now]
      /\ UNCHANGED <<now, edits, row, lock, draft, run>>
      /\ closed \in [Vacancy -> Time \cup {None}] /\ now \in Time /\ now \in Nat
  BY Typed, Constants DEF Close, IInv
<1>2. TypeOK'
  BY <1>1 DEF IInv, TypeOK
<1>3. \A u \in Vacancy, t \in Int : t <= now /\ OpenAt(u, t) => closed'[u] = None \/ closed'[u] >= t
  BY <1>1 DEF OpenAt
<1>4. ASSUME NEW x \in Entity, NEW r \in Rows, Stored(x, r) PROVE Stored(x, r)'
  <2>1. r.cached_at # None => r.cached_at \in Int
    <3>1. r.cached_at \in Time \cup {None}
      BY DEF Rows
    <3>. QED  BY <3>1, TimeIsInt
  <2>. QED  BY <1>1, <1>3, <1>4, <2>1 DEF Stored, OpenAt
<1>5. RowInv'
  <2>1. ASSUME NEW x \in Entity PROVE Stored(x, row[x])' /\ edits'[x] # {}
    <3>1. row[x] \in Rows /\ Stored(x, row[x]) /\ edits[x] # {}
      BY Typed DEF IInv, RowInv
    <3>2. PICK r \in Rows : r = row[x]
      BY <3>1
    <3>3. Stored(x, r)'
      BY <1>4, <3>1, <3>2
    <3>. QED  BY <1>1, <3>1, <3>2, <3>3 DEF Stored, OpenAt
  <2>. QED  BY <1>1, <2>1 DEF IInv, RowInv
<1>6. DraftInv'
  <2>. SUFFICES ASSUME NEW u \in Run, NEW y \in Entity, (lock[y] = u)'
                PROVE  (/\ Stored(y, draft[u][y])
                        /\ Replaces(y, row[y], draft[u][y])
                        /\ y \in Employer => draft[u][y].cached_at # None
                        /\ y \in Vacancy /\ draft[u][y].cached_at # None =>
                             row[EmployerOf[y]].cached_at # None \/ lock[EmployerOf[y]] = u)'
    BY DEF DraftInv
  <2>1. draft[u][y] \in Rows /\ lock[y] = u
    BY <1>1, Typed DEF IInv
  <2>2. PICK q \in Rows : q = draft[u][y]
    BY <2>1
  <2>3. Stored(y, q)'
    BY <1>4, <2>1, <2>2 DEF IInv, DraftInv
  <2>4. Stored(y, draft[u][y])'
    BY <1>1, <2>2, <2>3 DEF Stored, OpenAt
  <2>. QED  BY <1>1, <2>1, <2>4 DEF IInv, DraftInv, Replaces
<1>7. RunInv'
  <2>1. ASSUME NEW u \in Run PROVE Knows(u, run[u])'
    <3>1. run[u] \in RunStates /\ Knows(u, run[u])
      BY Known
    <3>2. /\ run[u].began \in Int /\ (run[u].seen.cached_at # None => run[u].seen.cached_at \in Int)
      <4>1. run[u].began \in Time /\ run[u].seen \in Rows
        BY <3>1 DEF RunStates
      <4>2. run[u].seen.cached_at \in Time \cup {None}
        BY <4>1 DEF Rows
      <4>3. run[u].began # None
        BY <4>1, Constants
      <4>. QED  BY <4>1, <4>2, <4>3, TimeIsInt
    <3>3. run[u].began - CACHE_TTL \in Int /\ run[u].began - CACHE_TTL <= now
      BY <1>1, <3>1, <3>2, Constants DEF Knows
    <3>. QED  BY <1>1, <1>3, <3>1, <3>2, <3>3 DEF Knows, OpenAt, Replaces
  <2>. QED  BY <2>1 DEF RunInv
<1>. QED  BY <1>2, <1>5, <1>6, <1>7 DEF IInv

-----------------------------------------------------------------------------
(* The theorems on the rows and on closings. *)

LEMMA Step ==
  ASSUME IInv, [Next]_vars
  PROVE  IInv'
<1>1. CASE Tick
  BY <1>1, TickStep
<1>2. ASSUME NEW x \in Editable, Edit(x) PROVE IInv'
  BY <1>2, EditStep, CacheConstants DEF Entity
<1>3. ASSUME NEW v \in Closable, Close(v) PROVE IInv'
  BY <1>3, CloseStep, CacheConstants
<1>4. ASSUME NEW w \in Worker, Load(w) PROVE IInv'
  BY <1>4, LookUpStep, LookUpEmployerStep, GetVacancyStep, GetEmployerStep, SelectStep,
     WriteEmployerStep, WriteVacancyStep, CommitStep DEF Load, Run
<1>5. ASSUME NEW c \in Client, Api(c) PROVE IInv'
  BY <1>5, FindNoneStep, CreatePlaceholderStep, CommitPlaceholderStep DEF Api, Run
<1>6. ASSUME NEW w \in Run, Rollback(w) PROVE IInv'
  BY <1>6, RollbackStep
<1>7. CASE UNCHANGED vars
  <2>1. UNCHANGED <<now, edits, closed, row, lock, draft, run>>
    BY <1>7 DEF vars
  <2>2. TypeOK'
    BY <2>1 DEF IInv, TypeOK
  <2>3. RowInv' /\ DraftInv'
    BY <2>1 DEF IInv, RowInv, DraftInv, Stored, OpenAt, Replaces
  <2>4. RunInv'
    BY <2>1 DEF IInv, RunInv, Knows, OpenAt, Replaces
  <2>. QED  BY <2>2, <2>3, <2>4 DEF IInv
<1>. QED  BY <1>1, <1>2, <1>3, <1>4, <1>5, <1>6, <1>7 DEF Next

LEMMA Inductive == Spec => []IInv
BY InitTypes, Step, PTL DEF Spec

\* The variables keep their types: what a run takes from hh.ru or from a row has
\* a version and a time of the clock, whatever runs overlap.
THEOREM TypeCorrect == Spec => []TypeOK
BY Inductive, PTL DEF IInv

\* A cached vacancy is joined to the employer hh.ru names, and that employer is
\* cached: upserts of overlapping runs and placeholders of the API, each writing
\* some columns of a row read earlier, never separate the two.
THEOREM EmployersJoined == Spec => []EmployerJoined
<1>1. IInv => EmployerJoined
  BY Constants DEF IInv, RowInv, Stored, EmployerJoined
<1>. QED  BY <1>1, Inductive, PTL

\* A vacancy taken from the cache was open at hh.ru within one lifetime before the
\* run began, for every lifetime and any number of runs that write late.
THEOREM ClosingsLearned == Spec => []ClosingIsLearned
<1>1. IInv => ClosingIsLearned
  BY DEF IInv, RunInv, Knows, OpenAt, ClosingIsLearned
<1>. QED  BY <1>1, Inductive, PTL

-----------------------------------------------------------------------------
(* What is read is not older than the cache allows. *)

\* The version has every edit hh.ru made of v before the time at.
UpToDate(v, version, at) == \A t \in edits[v] : t < at => version >= t

RowsCurrent ==
  \A v \in Vacancy : row[v].cached_at # None => UpToDate(v, row[v].version, row[v].cached_at)

\* A run that writes a vacancy holds its employer, or the vacancy is a new row.
DraftsCurrent ==
  \A w \in Run, v \in Vacancy : lock[v] = w =>
    /\ draft[w][v].exists
    /\ draft[w][v].cached_at # None => UpToDate(v, draft[w][v].version, draft[w][v].cached_at)
    /\ lock[EmployerOf[v]] = w \/ ~row[v].exists

\* While a run holds the employer, the row of the vacancy it has seen stays,
\* unless it has seen none and a placeholder came in.
Current(w, r) ==
  /\ r.phase = "cached" => UpToDate(r.vacancy, r.seen.version, r.seen.cached_at)
  /\ r.phase \in {"vacancy", "employer", "write_employer", "upserted", "write_vacancy"} =>
       UpToDate(r.vacancy, r.fetched[r.vacancy], r.began)
  /\ r.phase = "loaded" =>
       UpToDate(r.vacancy, r.fetched[r.vacancy], r.began - (IF r.cached THEN CACHE_TTL ELSE 0))
  /\ r.phase = "write_vacancy" =>
       row[r.vacancy] = r.seen \/ (~r.seen.exists /\ row[r.vacancy].exists)
  /\ r.phase # "loaded" => ~r.cached

CurrentInv == RowsCurrent /\ DraftsCurrent /\ \A w \in Run : Current(w, run[w])

LEMMA Started ==
  Init => CurrentInv
<1>. SUFFICES ASSUME Init PROVE CurrentInv
  OBVIOUS
<1>1. RowsCurrent /\ DraftsCurrent
  BY Constants DEF Init, RowsCurrent, DraftsCurrent, NoRow
<1>2. \A w \in Run : Current(w, run[w])
  BY DEF Init, Current, NoRun
<1>. QED  BY <1>1, <1>2 DEF CurrentInv

LEMMA CurrentRun ==
  ASSUME IInv, CurrentInv, NEW w \in Run, NEW r \in RunStates, run' = [run EXCEPT ![w] = r],
         UNCHANGED <<now, edits, closed, row, lock, draft>>, Current(w, r)
  PROVE  CurrentInv'
<1>1. \A u \in Run : run'[u] = IF u = w THEN r ELSE run[u]
  BY Typed DEF IInv
<1>2. RowsCurrent' /\ DraftsCurrent'
  BY DEF CurrentInv, RowsCurrent, DraftsCurrent, UpToDate
<1>3. ASSUME NEW u \in Run PROVE Current(u, run[u])'
  <2>1. Current(u, run'[u])
    BY <1>1 DEF CurrentInv
  <2>. QED  BY <2>1 DEF Current, UpToDate
<1>. QED  BY <1>2, <1>3 DEF CurrentInv

LEMMA CurrentWrite ==
  ASSUME IInv, CurrentInv, NEW w \in Run, NEW x \in Entity, NEW d \in Rows, NEW r \in RunStates,
         lock[x] = None, lock' = [lock EXCEPT ![x] = w], draft' = [draft EXCEPT ![w][x] = d],
         run' = [run EXCEPT ![w] = r], UNCHANGED <<now, edits, closed, row>>, Current(w, r),
         x \in Vacancy => /\ d.exists
                          /\ d.cached_at # None => UpToDate(x, d.version, d.cached_at)
                          /\ lock[EmployerOf[x]] = w \/ ~row[x].exists
  PROVE  CurrentInv'
<1>1. /\ \A u \in Run : run'[u] = IF u = w THEN r ELSE run[u]
      /\ \A y \in Entity : lock'[y] = IF y = x THEN w ELSE lock[y]
      /\ \A u \in Run, y \in Entity :
           draft'[u][y] = IF u = w /\ y = x THEN d ELSE draft[u][y]
  BY Typed DEF IInv
<1>2. \A u \in Run, y \in Entity : lock[y] = u => lock'[y] = u
  BY <1>1, Constants
<1>3. RowsCurrent'
  BY DEF CurrentInv, RowsCurrent, UpToDate
<1>4. DraftsCurrent'
  <2>. SUFFICES ASSUME NEW u \in Run, NEW v \in Vacancy, (lock[v] = u)'
                PROVE  (/\ draft[u][v].exists
                        /\ draft[u][v].cached_at # None =>
                             UpToDate(v, draft[u][v].version, draft[u][v].cached_at)
                        /\ lock[EmployerOf[v]] = u \/ ~row[v].exists)'
    BY DEF DraftsCurrent
  <2>1. v \in Entity /\ EmployerOf[v] \in Entity
    BY Constants
  <2>2. CASE v = x
    <3>1. u = w /\ draft'[u][v] = d
      BY <1>1, <2>1, <2>2
    <3>2. lock'[EmployerOf[v]] = w \/ ~row'[v].exists
      BY <1>2, <2>1, <2>2
    <3>. QED  BY <2>2, <3>1, <3>2 DEF UpToDate
  <2>3. CASE v # x
    <3>1. lock[v] = u /\ draft'[u][v] = draft[u][v]
      BY <1>1, <2>1, <2>3
    <3>2. /\ draft[u][v].exists
          /\ draft[u][v].cached_at # None =>
               UpToDate(v, draft[u][v].version, draft[u][v].cached_at)
          /\ lock[EmployerOf[v]] = u \/ ~row[v].exists
      BY <3>1 DEF CurrentInv, DraftsCurrent
    <3>3. lock'[EmployerOf[v]] = u \/ ~row'[v].exists
      BY <1>2, <2>1, <3>2
    <3>. QED  BY <3>1, <3>2, <3>3 DEF UpToDate
  <2>. QED  BY <2>2, <2>3
<1>5. ASSUME NEW u \in Run PROVE Current(u, run[u])'
  <2>1. Current(u, run'[u])
    BY <1>1 DEF CurrentInv
  <2>. QED  BY <2>1 DEF Current, UpToDate
<1>. QED  BY <1>3, <1>4, <1>5 DEF CurrentInv

LEMMA CurrentEnd ==
  ASSUME IInv, CurrentInv, NEW w \in Run, NEW rows \in [Entity -> Rows], End(w, rows),
         \A x \in Entity : rows[x] = row[x] \/ (lock[x] = w /\ rows[x] = draft[w][x])
  PROVE  CurrentInv'
<1>1. /\ row' = rows /\ UNCHANGED <<now, edits, closed>>
      /\ \A y \in Entity : lock'[y] = IF lock[y] = w THEN None ELSE lock[y]
      /\ \A u \in Run : u # w => draft'[u] = draft[u]
      /\ \A u \in Run : run'[u] = IF u = w THEN NoRun ELSE run[u]
  BY Typed DEF IInv, End
<1>2. RowsCurrent'
  <2>1. ASSUME NEW v \in Vacancy, rows[v].cached_at # None
        PROVE  UpToDate(v, rows[v].version, rows[v].cached_at)
    BY <2>1, Constants DEF CurrentInv, RowsCurrent, DraftsCurrent
  <2>. QED  BY <1>1, <2>1 DEF RowsCurrent, UpToDate
<1>3. DraftsCurrent'
  <2>. SUFFICES ASSUME NEW u \in Run, NEW v \in Vacancy, (lock[v] = u)'
                PROVE  (/\ draft[u][v].exists
                        /\ draft[u][v].cached_at # None =>
                             UpToDate(v, draft[u][v].version, draft[u][v].cached_at)
                        /\ lock[EmployerOf[v]] = u \/ ~row[v].exists)'
    BY DEF DraftsCurrent
  <2>1. v \in Entity /\ EmployerOf[v] \in Entity
    BY Constants
  <2>2. u # w /\ lock[v] = u
    BY <1>1, <2>1, Constants
  <2>3. draft'[u] = draft[u] /\ row'[v] = row[v]
    BY <1>1, <2>1, <2>2
  <2>4. lock[EmployerOf[v]] = u => lock'[EmployerOf[v]] = u
    BY <1>1, <2>1, <2>2
  <2>5. /\ draft[u][v].exists
        /\ draft[u][v].cached_at # None =>
             UpToDate(v, draft[u][v].version, draft[u][v].cached_at)
        /\ lock[EmployerOf[v]] = u \/ ~row[v].exists
    BY <2>2 DEF CurrentInv, DraftsCurrent
  <2>. QED  BY <1>1, <2>3, <2>4, <2>5 DEF UpToDate
<1>4. ASSUME NEW u \in Run, u # w PROVE Current(u, run[u])'
  <2>. DEFINE v == run[u].vacancy
  <2>1. run'[u] = run[u] /\ Current(u, run[u]) /\ Knows(u, run[u])
    BY <1>1, <1>4, Known DEF CurrentInv
  <2>2. ASSUME run[u].phase = "write_vacancy"
        PROVE  rows[v] = run[u].seen \/ (~run[u].seen.exists /\ rows[v].exists)
    <3>1. v \in Vacancy /\ v \in Entity /\ lock[EmployerOf[v]] = u
      BY <2>1, <2>2, Constants DEF Knows
    <3>2. row[v] = run[u].seen \/ (~run[u].seen.exists /\ row[v].exists)
      BY <2>1, <2>2 DEF Current
    <3>3. CASE rows[v] = row[v]
      BY <3>2, <3>3
    <3>4. CASE lock[v] = w /\ rows[v] = draft[w][v]
      <4>1. rows[v].exists /\ ~row[v].exists
        BY <1>4, <3>1, <3>4 DEF CurrentInv, DraftsCurrent
      <4>. QED  BY <3>2, <4>1
    <3>. QED  BY <3>1, <3>3, <3>4
  <2>. HIDE DEF v
  <2>3. row'[v] = rows[v] /\ edits' = edits
    BY <1>1
  <2>. QED  BY <2>1, <2>2, <2>3 DEF Current, UpToDate, v
<1>5. Current(w, run[w])'
  <2>1. run'[w].phase = "idle" /\ ~run'[w].cached
    BY <1>1 DEF NoRun
  <2>. QED  BY <2>1 DEF Current
<1>. QED  BY <1>2, <1>3, <1>4, <1>5 DEF CurrentInv

\* Version(x) is an edit of x, and the latest.
LEMMA LatestVersion ==
  ASSUME IInv, NEW x \in Entity
  PROVE  \A t \in edits[x] : t \in Int /\ t <= Version(x)
<1>1. edits[x] \in SUBSET Time /\ edits[x] # {}
  BY Typed DEF IInv, RowInv
<1>2. \E t \in edits[x] : \A e \in edits[x] : e <= t
  BY <1>1, GreatestNatural, CacheConstants DEF Time
<1>3. \A e \in edits[x] : e <= Version(x)
  BY <1>2 DEF Version
<1>4. \A t \in edits[x] : t \in Time /\ t # None
  BY <1>1, Constants
<1>. QED  BY <1>3, <1>4, TimeIsInt

LEMMA Now ==
  ASSUME IInv, CurrentInv, NEW w \in Run
  PROVE  /\ run[w] \in RunStates /\ Knows(w, run[w]) /\ Current(w, run[w])
         /\ run[w].fetched \in [Entity -> Time] /\ run[w].began \in Int
         /\ run[w].began \in Time /\ run[w].seen \in Rows
<1>1. run[w] \in RunStates /\ Knows(w, run[w]) /\ Current(w, run[w])
  BY Known DEF CurrentInv
<1>2. run[w].began \in Time /\ run[w].fetched \in [Entity -> Time] /\ run[w].seen \in Rows
  BY <1>1 DEF RunStates
<1>3. run[w].began # None
  BY <1>2, Constants
<1>. QED  BY <1>1, <1>2, <1>3, TimeIsInt

LEMMA LookUpCurrent ==
  ASSUME IInv, CurrentInv, NEW w \in Run, LookUp(w)
  PROVE  CurrentInv'
<1>1. PICK v \in Vacancy :
        run' = [run EXCEPT ![w] = [NoRun EXCEPT
                  !.phase = IF IsCacheFresh(row[v].cached_at, now) THEN "cached" ELSE "missed",
                  !.seen = IF IsCacheFresh(row[v].cached_at, now) THEN row[v] ELSE NoRow,
                  !.vacancy = v, !.began = now]]
  BY DEF LookUp
<1>. DEFINE fresh == IsCacheFresh(row[v].cached_at, now)
            found == IF fresh THEN row[v] ELSE NoRow
            phase == IF fresh THEN "cached" ELSE "missed"
            r == [NoRun EXCEPT !.phase = phase, !.seen = found, !.vacancy = v, !.began = now]
<1>2. run' = [run EXCEPT ![w] = r] /\ UNCHANGED <<now, edits, closed, row, lock, draft>>
  BY <1>1 DEF LookUp
<1>3. found \in Rows /\ now \in Time /\ phase \in {"cached", "missed"}
  BY Typed, Constants, NothingTypes DEF IInv
<1>. HIDE DEF found, phase
<1>4. r \in RunStates /\ r.phase = phase /\ r.seen = found /\ r.vacancy = v /\ ~r.cached
  BY <1>3, NothingTypes DEF NoRun, RunStates
<1>. HIDE DEF r
<1>5. phase = "cached" => found = row[v] /\ row[v].cached_at # None
  BY DEF found, phase, IsCacheFresh
<1>6. Current(w, r)
  BY <1>3, <1>4, <1>5 DEF Current, CurrentInv, RowsCurrent
<1>. QED  BY <1>2, <1>4, <1>6, CurrentRun

LEMMA LookUpEmployerCurrent ==
  ASSUME IInv, CurrentInv, NEW w \in Run, LookUpEmployer(w)
  PROVE  CurrentInv'
<1>. DEFINE v == run[w].vacancy
            e == run[w].seen.employer
<1>1. /\ run[w] \in RunStates /\ run[w].phase = "cached" /\ v \in Vacancy /\ e = EmployerOf[v]
      /\ run[w].seen.cached_at # None /\ run[w].seen.cached_at >= run[w].began - CACHE_TTL
      /\ UpToDate(v, run[w].seen.version, run[w].seen.cached_at) /\ ~run[w].cached
      /\ UNCHANGED <<now, edits, closed, row, lock, draft>>
  BY Now DEF LookUpEmployer, Knows, Current
<1>2. /\ run[w].seen.version \in Time /\ row[e].version \in Time /\ run[w].fetched \in [Entity -> Time]
      /\ v \in Entity /\ e \in Entity /\ e # v
  BY <1>1, Now, Typed, Constants DEF IInv, Rows
<1>3. CASE run' = [run EXCEPT ![w].phase = "loaded", ![w].cached = TRUE, ![w].seen = NoRow,
                              ![w].fetched = [@ EXCEPT ![run[w].vacancy] = run[w].seen.version,
                                                       ![e] = row[e].version]]
  <2>. DEFINE f == [run[w].fetched EXCEPT ![run[w].vacancy] = run[w].seen.version,
                                          ![e] = row[e].version]
              r == [run[w] EXCEPT !.phase = "loaded", !.cached = TRUE, !.seen = NoRow, !.fetched = f]
  <2>1. f \in [Entity -> Time] /\ f[v] = run[w].seen.version
    BY <1>2
  <2>2. run' = [run EXCEPT ![w] = r]
    BY <1>3
  <2>. HIDE DEF f
  <2>3. /\ r \in RunStates /\ r.phase = "loaded" /\ r.cached /\ r.vacancy = v
        /\ r.began = run[w].began /\ r.fetched = f
    BY <1>1, <2>1, NothingTypes DEF RunStates
  <2>. HIDE DEF r
  <2>4. UpToDate(v, run[w].seen.version, run[w].began - CACHE_TTL)
    <3>1. \A t \in edits[v] : t \in Int
      BY <1>2, LatestVersion
    <3>2. run[w].began \in Int /\ CACHE_TTL \in Int /\ run[w].seen.cached_at \in Time \cup {None}
      BY Now, Constants DEF Rows
    <3>3. run[w].seen.cached_at \in Int
      BY <1>1, <3>2, TimeIsInt
    <3>. QED  BY <1>1, <3>1, <3>2, <3>3 DEF UpToDate
  <2>5. Current(w, r)
    BY <2>1, <2>3, <2>4 DEF Current
  <2>. QED  BY <1>1, <2>2, <2>3, <2>5, CurrentRun
<1>4. CASE Goto(w, "missed")
  <2>. DEFINE r == [run[w] EXCEPT !.phase = "missed", !.seen = NoRow]
  <2>1. r \in RunStates /\ r.phase = "missed" /\ ~r.cached
    BY <1>1, NothingTypes DEF RunStates
  <2>2. run' = [run EXCEPT ![w] = r]
    BY <1>4 DEF Goto
  <2>. HIDE DEF r
  <2>3. Current(w, r)
    BY <2>1 DEF Current
  <2>. QED  BY <1>1, <2>1, <2>2, <2>3, CurrentRun
<1>. QED  BY <1>3, <1>4 DEF LookUpEmployer

LEMMA GetVacancyCurrent ==
  ASSUME IInv, CurrentInv, NEW w \in Run, GetVacancy(w)
  PROVE  CurrentInv'
<1>. DEFINE v == run[w].vacancy
            f == [run[w].fetched EXCEPT ![v] = Version(v)]
            r == [run[w] EXCEPT !.phase = "vacancy", !.fetched = f]
<1>1. /\ run[w] \in RunStates /\ run[w].phase = "missed" /\ v \in Vacancy /\ v \in Entity
      /\ run[w].fetched \in [Entity -> Time] /\ ~run[w].cached
      /\ UNCHANGED <<now, edits, closed, row, lock, draft>> /\ run' = [run EXCEPT ![w] = r]
  <2>1. /\ run[w] \in RunStates /\ Knows(w, run[w]) /\ Current(w, run[w])
        /\ run[w].fetched \in [Entity -> Time]
    BY Now
  <2>2. v \in Vacancy /\ v \in Entity
    BY <2>1, Constants DEF GetVacancy, Knows
  <2>. QED  BY <2>1, <2>2 DEF GetVacancy, Current
<1>2. f \in [Entity -> Time] /\ f[v] = Version(v)
  BY <1>1, VersionTypes
<1>. HIDE DEF f
<1>3. r \in RunStates /\ r.phase = "vacancy" /\ r.vacancy = v /\ r.fetched = f /\ ~r.cached
  BY <1>1, <1>2 DEF RunStates
<1>. HIDE DEF r
<1>4. UpToDate(v, f[v], r.began)
  <2>1. \A t \in edits[v] : t \in Int /\ t <= Version(v)
    BY <1>1, LatestVersion
  <2>2. Version(v) \in Int
    <3>1. Version(v) \in Time /\ Version(v) # None
      BY <1>1, VersionTypes, Constants
    <3>. QED  BY <3>1, TimeIsInt
  <2>. QED  BY <1>2, <2>1, <2>2 DEF UpToDate
<1>5. Current(w, r)
  BY <1>3, <1>4 DEF Current
<1>. QED  BY <1>1, <1>3, <1>5, CurrentRun

LEMMA GetEmployerCurrent ==
  ASSUME IInv, CurrentInv, NEW w \in Run, GetEmployer(w)
  PROVE  CurrentInv'
<1>. DEFINE v == run[w].vacancy
            e == EmployerOf[v]
            f == [run[w].fetched EXCEPT ![e] = Version(e)]
            r == [run[w] EXCEPT !.phase = "employer", !.fetched = f]
<1>1. /\ run[w] \in RunStates /\ run[w].phase = "vacancy" /\ v \in Vacancy /\ v \in Entity
      /\ run[w].fetched \in [Entity -> Time] /\ ~run[w].cached
      /\ UpToDate(v, run[w].fetched[v], run[w].began)
      /\ UNCHANGED <<now, edits, closed, row, lock, draft>> /\ run' = [run EXCEPT ![w] = r]
  <2>1. /\ run[w] \in RunStates /\ Knows(w, run[w]) /\ Current(w, run[w])
        /\ run[w].fetched \in [Entity -> Time]
    BY Now
  <2>2. v \in Vacancy /\ v \in Entity
    BY <2>1, Constants DEF GetEmployer, Knows
  <2>. QED  BY <2>1, <2>2 DEF GetEmployer, Current
<1>2. f \in [Entity -> Time] /\ f[v] = run[w].fetched[v]
  BY <1>1, VersionTypes, Constants
<1>. HIDE DEF f
<1>3. /\ r \in RunStates /\ r.phase = "employer" /\ r.vacancy = v /\ r.fetched = f /\ ~r.cached
      /\ r.began = run[w].began
  BY <1>1, <1>2 DEF RunStates
<1>. HIDE DEF r
<1>4. Current(w, r)
  BY <1>1, <1>2, <1>3 DEF Current
<1>. QED  BY <1>1, <1>3, <1>4, CurrentRun

LEMMA SelectCurrent ==
  ASSUME IInv, CurrentInv, NEW w \in Run, Select(w)
  PROVE  CurrentInv'
<1>. DEFINE v == run[w].vacancy
            e == EmployerOf[v]
<1>1. /\ run[w] \in RunStates /\ v \in Vacancy /\ ~run[w].cached
      /\ UpToDate(v, run[w].fetched[v], run[w].began)
      /\ UNCHANGED <<now, edits, closed, row, lock, draft>>
  BY Now DEF Select, Knows, Current
<1>2. row[e] \in Rows /\ row[v] \in Rows
  BY <1>1, Typed, Constants DEF IInv
<1>3. CASE run' = [run EXCEPT ![w].phase = "write_employer", ![w].seen = row[e]]
  <2>. DEFINE r == [run[w] EXCEPT !.phase = "write_employer", !.seen = row[e]]
  <2>1. /\ r \in RunStates /\ r.phase = "write_employer" /\ r.vacancy = v /\ r.began = run[w].began
        /\ r.fetched = run[w].fetched /\ ~r.cached
    BY <1>1, <1>2 DEF RunStates
  <2>2. run' = [run EXCEPT ![w] = r]
    BY <1>3
  <2>. HIDE DEF r
  <2>3. Current(w, r)
    BY <1>1, <2>1 DEF Current
  <2>. QED  BY <1>1, <2>1, <2>2, <2>3, CurrentRun
<1>4. CASE run' = [run EXCEPT ![w].phase = "write_vacancy", ![w].seen = row[v]]
  <2>. DEFINE r == [run[w] EXCEPT !.phase = "write_vacancy", !.seen = row[v]]
  <2>1. /\ r \in RunStates /\ r.phase = "write_vacancy" /\ r.vacancy = v /\ r.began = run[w].began
        /\ r.fetched = run[w].fetched /\ r.seen = row[v] /\ ~r.cached
    BY <1>1, <1>2 DEF RunStates
  <2>2. run' = [run EXCEPT ![w] = r]
    BY <1>4
  <2>. HIDE DEF r
  <2>3. Current(w, r)
    BY <1>1, <2>1 DEF Current
  <2>. QED  BY <1>1, <2>1, <2>2, <2>3, CurrentRun
<1>. QED  BY <1>3, <1>4 DEF Select

LEMMA FindNoneCurrent ==
  ASSUME IInv, CurrentInv, NEW w \in Run, FindNone(w)
  PROVE  CurrentInv'
<1>1. PICK v \in Vacancy :
        run' = [run EXCEPT ![w] = [NoRun EXCEPT !.phase = "placeholder", !.vacancy = v]]
  BY DEF FindNone
<1>. DEFINE r == [NoRun EXCEPT !.phase = "placeholder", !.vacancy = v]
<1>2. run' = [run EXCEPT ![w] = r] /\ UNCHANGED <<now, edits, closed, row, lock, draft>>
  BY <1>1 DEF FindNone
<1>3. r \in RunStates /\ r.phase = "placeholder" /\ ~r.cached
  BY NothingTypes DEF NoRun, RunStates
<1>. HIDE DEF r
<1>4. Current(w, r)
  BY <1>3 DEF Current
<1>. QED  BY <1>2, <1>3, <1>4, CurrentRun

LEMMA WriteEmployerCurrent ==
  ASSUME IInv, CurrentInv, NEW w \in Run, WriteEmployer(w)
  PROVE  CurrentInv'
<1>. DEFINE v == run[w].vacancy
            e == EmployerOf[v]
            seen == run[w].seen
            version == Column(row[e].version, seen.version, run[w].fetched[e])
            cached == Column(row[e].cached_at, seen.cached_at, run[w].began)
            employer == Column(row[e].employer, seen.employer, None)
            d == [exists |-> TRUE, version |-> version, cached_at |-> cached, employer |-> employer]
            r == [run[w] EXCEPT !.phase = "upserted", !.seen = NoRow]
<1>1. /\ run[w] \in RunStates /\ v \in Vacancy /\ ~run[w].cached
      /\ UpToDate(v, run[w].fetched[v], run[w].began)
      /\ lock[e] = None /\ UNCHANGED <<now, edits, closed, row>>
      /\ lock' = [lock EXCEPT ![e] = w] /\ draft' = [draft EXCEPT ![w][e] = d]
      /\ run' = [run EXCEPT ![w] = r]
  BY Now DEF WriteEmployer, Write, Goto, Knows, Current
<1>2. /\ e \in Entity /\ e \notin Vacancy /\ row[e] \in Rows /\ seen \in Rows
      /\ run[w].began \in Time /\ run[w].fetched[e] \in Time
  BY <1>1, Now, Typed, Constants DEF IInv
<1>3. version \in Time /\ employer \in Employer \cup {None} /\ cached \in Time \cup {None}
  BY <1>2 DEF Column, Rows
<1>. HIDE DEF version, cached, employer
<1>4. d \in Rows
  BY <1>3 DEF Rows
<1>. HIDE DEF d
<1>5. /\ r \in RunStates /\ r.phase = "upserted" /\ r.vacancy = v /\ r.began = run[w].began
      /\ r.fetched = run[w].fetched /\ ~r.cached
  BY <1>1, NothingTypes DEF RunStates
<1>. HIDE DEF r
<1>6. Current(w, r)
  BY <1>1, <1>5 DEF Current
<1>. QED  BY <1>1, <1>2, <1>4, <1>5, <1>6, CurrentWrite

\* The row is as it was read, or is not there yet: what is written is what hh.ru
\* has shown, stamped with the time before hh.ru was asked.
LEMMA WriteVacancyCurrent ==
  ASSUME IInv, CurrentInv, NEW w \in Run, WriteVacancy(w)
  PROVE  CurrentInv'
<1>. DEFINE v == run[w].vacancy
            e == EmployerOf[v]
            seen == run[w].seen
            version == Column(row[v].version, seen.version, run[w].fetched[v])
            cached == Column(row[v].cached_at, seen.cached_at, run[w].began)
            employer == Column(row[v].employer, seen.employer, e)
            d == [exists |-> TRUE, version |-> version, cached_at |-> cached, employer |-> employer]
<1>1. /\ run[w] \in RunStates /\ v \in Vacancy /\ v \in Entity /\ ~run[w].cached /\ lock[e] = w
      /\ UpToDate(v, run[w].fetched[v], run[w].began)
      /\ row[v] = seen \/ (~seen.exists /\ row[v].exists)
      /\ seen.exists \/ ~row[v].exists
      /\ lock[v] = None /\ UNCHANGED <<now, edits, closed, row>>
      /\ lock' = [lock EXCEPT ![v] = w] /\ draft' = [draft EXCEPT ![w][v] = d]
      /\ run' = [run EXCEPT ![w].phase = "loaded", ![w].seen = NoRow,
                            ![w].fetched[v] = draft'[w][v].version]
  <2>1. /\ run[w] \in RunStates /\ Knows(w, run[w]) /\ Current(w, run[w])
        /\ run[w].phase = "write_vacancy"
    BY Now DEF WriteVacancy
  <2>2. v \in Vacancy /\ v \in Entity /\ lock[e] = w
    BY <2>1, Constants DEF Knows
  <2>. QED  BY <2>1, <2>2 DEF WriteVacancy, Write, Current
<1>2. /\ row[v] \in Rows /\ run[w].began \in Time /\ run[w].fetched \in [Entity -> Time]
      /\ e \in Employer
  BY <1>1, Now, Typed, Constants DEF IInv
<1>3. row[v] = seen
  BY <1>1
<1>4. version = run[w].fetched[v] /\ cached = run[w].began /\ employer = e
  BY <1>3 DEF Column
<1>. HIDE DEF version, cached, employer
<1>5. d \in Rows /\ d.exists /\ d.version = run[w].fetched[v] /\ d.cached_at = run[w].began
  BY <1>1, <1>2, <1>4 DEF Rows
<1>. HIDE DEF d
<1>. DEFINE r == [run[w] EXCEPT !.phase = "loaded", !.seen = NoRow]
<1>6. run' = [run EXCEPT ![w] = r]
  <2>1. draft'[w][v].version = run[w].fetched[v]
    BY <1>1, <1>5, Typed DEF IInv
  <2>2. run[w].fetched = [run[w].fetched EXCEPT ![v] = run[w].fetched[v]]
    BY <1>2
  <2>3. run' = [run EXCEPT ![w].phase = "loaded", ![w].seen = NoRow,
                           ![w].fetched[v] = run[w].fetched[v]]
    BY <1>1, <2>1
  <2>4. [run[w] EXCEPT !.phase = "loaded", !.seen = NoRow, !.fetched[v] = run[w].fetched[v]] = r
    BY <1>1, <2>2 DEF RunStates
  <2>. QED  BY <2>3, <2>4
<1>7. /\ r \in RunStates /\ r.phase = "loaded" /\ r.vacancy = v /\ r.began = run[w].began
      /\ r.fetched = run[w].fetched /\ ~r.cached
  BY <1>1, NothingTypes DEF RunStates
<1>. HIDE DEF r
<1>8. Current(w, r)
  <2>1. r.began - (IF r.cached THEN CACHE_TTL ELSE 0) = run[w].began
    BY <1>7, Now
  <2>. QED  BY <1>1, <1>7, <2>1 DEF Current
<1>9. v \in Vacancy => /\ d.exists
                       /\ d.cached_at # None => UpToDate(v, d.version, d.cached_at)
                       /\ lock[EmployerOf[v]] = w \/ ~row[v].exists
  BY <1>1, <1>5
<1>. QED  BY <1>1, <1>5, <1>6, <1>7, <1>8, <1>9, CurrentWrite

LEMMA CreatePlaceholderCurrent ==
  ASSUME IInv, CurrentInv, NEW w \in Run, CreatePlaceholder(w)
  PROVE  CurrentInv'
<1>. DEFINE v == run[w].vacancy
            d == [exists |-> TRUE, version |-> row[v].version, cached_at |-> row[v].cached_at,
                  employer |-> row[v].employer]
            r == [run[w] EXCEPT !.phase = "inserted", !.seen = NoRow]
<1>1. /\ run[w] \in RunStates /\ v \in Vacancy /\ v \in Entity /\ run[w].seen = NoRow
      /\ ~run[w].cached /\ Write(w, v, Placeholder) /\ run' = [run EXCEPT ![w] = r]
  <2>1. run[w] \in RunStates /\ Knows(w, run[w]) /\ Current(w, run[w])
    BY Now
  <2>2. v \in Vacancy /\ v \in Entity /\ run[w].seen = NoRow
    BY <2>1, Constants DEF CreatePlaceholder, Knows
  <2>. QED  BY <2>1, <2>2 DEF CreatePlaceholder, Goto, Current
<1>2. row[v] \in Rows /\ Stored(v, row[v])
  BY <1>1, Typed DEF IInv, RowInv
<1>3. /\ Placeholder.version = NoRow.version /\ Placeholder.cached_at = NoRow.cached_at
      /\ Placeholder.employer = NoRow.employer /\ ~NoRow.exists
  BY DEF Placeholder, NoRow
<1>4. /\ lock[v] = None /\ UNCHANGED <<now, edits, closed, row>> /\ ~row[v].exists
      /\ lock' = [lock EXCEPT ![v] = w] /\ draft' = [draft EXCEPT ![w][v] = d]
  BY <1>1, <1>3 DEF Write, Column
<1>5. d \in Rows /\ d.exists /\ d.cached_at = None
  BY <1>2, <1>4 DEF Rows, Stored
<1>. HIDE DEF d
<1>6. r \in RunStates /\ r.phase = "inserted" /\ ~r.cached
  BY <1>1, NothingTypes DEF RunStates
<1>. HIDE DEF r
<1>7. Current(w, r)
  BY <1>6 DEF Current
<1>. QED  BY <1>1, <1>4, <1>5, <1>6, <1>7, CurrentWrite

LEMMA EndCurrent ==
  ASSUME IInv, CurrentInv, NEW w \in Run, Commit(w) \/ CommitPlaceholder(w) \/ Rollback(w)
  PROVE  CurrentInv'
<1>1. CASE Commit(w)
  <2>. DEFINE rows == [x \in Entity |-> IF lock[x] = w THEN draft[w][x] ELSE row[x]]
  <2>1. rows \in [Entity -> Rows]
    BY Typed DEF IInv
  <2>2. \A x \in Entity : rows[x] = row[x] \/ (lock[x] = w /\ rows[x] = draft[w][x])
    OBVIOUS
  <2>3. End(w, rows)
    BY <1>1 DEF Commit
  <2>. HIDE DEF rows
  <2>. QED  BY <2>1, <2>2, <2>3, CurrentEnd
<1>2. CASE CommitPlaceholder(w)
  <2>. DEFINE v == run[w].vacancy
              rows == [row EXCEPT ![v] = draft[w][v]]
  <2>1. v \in Entity /\ lock[v] = w
    BY <1>2, Known, Constants DEF CommitPlaceholder, Knows
  <2>2. rows \in [Entity -> Rows]
    BY <2>1, Typed DEF IInv
  <2>3. \A x \in Entity : rows[x] = row[x] \/ (lock[x] = w /\ rows[x] = draft[w][x])
    BY <2>1, Typed DEF IInv
  <2>4. End(w, rows)
    BY <1>2 DEF CommitPlaceholder
  <2>. HIDE DEF rows
  <2>. QED  BY <2>2, <2>3, <2>4, CurrentEnd
<1>3. CASE Rollback(w)
  <2>1. row \in [Entity -> Rows] /\ End(w, row)
    BY <1>3, Typed DEF IInv, Rollback
  <2>. QED  BY <2>1, CurrentEnd
<1>. QED  BY <1>1, <1>2, <1>3

\* An edit made now is not before any time a row or a run has been stamped with.
LEMMA EditCurrent ==
  ASSUME IInv, CurrentInv, NEW x \in Entity, Edit(x)
  PROVE  CurrentInv'
<1>1. /\ \A y \in Entity : edits'[y] = IF y = x THEN edits[y] \cup {now} ELSE edits[y]
      /\ UNCHANGED <<now, closed, row, lock, draft, run>>
  BY Typed DEF IInv, Edit
<1>2. now \in Int
  <2>1. now \in Time /\ now # None
    BY Typed, Constants DEF IInv
  <2>. QED  BY <2>1, TimeIsInt
<1>3. ASSUME NEW v \in Vacancy, NEW version, NEW at \in Int, at <= now, UpToDate(v, version, at)
      PROVE  UpToDate(v, version, at)'
  <2>1. edits'[v] \subseteq edits[v] \cup {now}
    BY <1>1, Constants
  <2>2. ~(now < at)
    BY <1>2, <1>3
  <2>. QED  BY <1>3, <2>1, <2>2 DEF UpToDate
<1>4. ASSUME NEW q \in Rows, q.cached_at # None PROVE q.cached_at \in Int
  <2>1. q.cached_at \in Time \cup {None}
    BY DEF Rows
  <2>. QED  BY <1>4, <2>1, TimeIsInt
<1>5. RowsCurrent'
  <2>. SUFFICES ASSUME NEW v \in Vacancy, (row[v].cached_at # None)'
                PROVE  UpToDate(v, row[v].version, row[v].cached_at)'
    BY DEF RowsCurrent
  <2>1. PICK q \in Rows : q = row[v]
    BY Typed, Constants DEF IInv
  <2>2. q.cached_at # None /\ q.cached_at <= now /\ UpToDate(v, q.version, q.cached_at)
    BY <1>1, <2>1, Constants DEF IInv, RowInv, Stored, CurrentInv, RowsCurrent
  <2>3. UpToDate(v, q.version, q.cached_at)'
    BY <1>3, <1>4, <2>2
  <2>. QED  BY <1>1, <2>1, <2>3 DEF UpToDate
<1>6. DraftsCurrent'
  <2>. SUFFICES ASSUME NEW u \in Run, NEW v \in Vacancy, (lock[v] = u)'
                PROVE  (/\ draft[u][v].exists
                        /\ draft[u][v].cached_at # None =>
                             UpToDate(v, draft[u][v].version, draft[u][v].cached_at)
                        /\ lock[EmployerOf[v]] = u \/ ~row[v].exists)'
    BY DEF DraftsCurrent
  <2>1. PICK q \in Rows : q = draft[u][v]
    <3>1. draft[u] \in [Entity -> Rows] /\ v \in Entity
      BY Typed, Constants DEF IInv
    <3>. QED  BY <3>1
  <2>2. /\ q.cached_at # None => q.cached_at <= now /\ UpToDate(v, q.version, q.cached_at)
        /\ q.exists /\ (lock[EmployerOf[v]] = u \/ ~row[v].exists)
    BY <1>1, <2>1, Constants DEF IInv, DraftInv, Stored, CurrentInv, DraftsCurrent
  <2>3. q.cached_at # None => UpToDate(v, q.version, q.cached_at)'
    BY <1>3, <1>4, <2>2
  <2>. QED  BY <1>1, <2>1, <2>2, <2>3 DEF UpToDate
<1>7. ASSUME NEW u \in Run PROVE Current(u, run[u])'
  <2>1. PICK r \in RunStates : r = run[u]
    BY Known
  <2>2. Knows(u, r) /\ Current(u, r) /\ r.began \in Int /\ r.seen \in Rows
    BY <2>1, Now
  <2>3. ASSUME r.phase # "idle" PROVE r.vacancy \in Vacancy /\ r.began <= now
    BY <2>2, <2>3 DEF Knows
  <2>4. r.phase = "cached" => UpToDate(r.vacancy, r.seen.version, r.seen.cached_at)'
    BY <1>3, <1>4, <2>2, <2>3 DEF Knows, Current
  <2>5. r.phase \in {"vacancy", "employer", "write_employer", "upserted", "write_vacancy"} =>
          UpToDate(r.vacancy, r.fetched[r.vacancy], r.began)'
    BY <1>3, <2>2, <2>3 DEF Current
  <2>6. r.phase = "loaded" =>
          UpToDate(r.vacancy, r.fetched[r.vacancy], r.began - (IF r.cached THEN CACHE_TTL ELSE 0))'
    <3>. DEFINE at == r.began - (IF r.cached THEN CACHE_TTL ELSE 0)
    <3>1. at \in Int /\ at <= r.began
      BY <2>2, Constants
    <3>2. r.phase = "loaded" => at <= now /\ UpToDate(r.vacancy, r.fetched[r.vacancy], at)
      BY <1>2, <2>2, <2>3, <3>1 DEF Current
    <3>. HIDE DEF at
    <3>3. r.phase = "loaded" => UpToDate(r.vacancy, r.fetched[r.vacancy], at)'
      BY <1>3, <2>3, <3>1, <3>2
    <3>. QED  BY <3>3 DEF at
  <2>7. Current(u, r)'
    BY <1>1, <2>2, <2>4, <2>5, <2>6 DEF Current
  <2>. QED  BY <1>1, <2>1, <2>7 DEF Current, UpToDate
<1>. QED  BY <1>5, <1>6, <1>7 DEF CurrentInv

LEMMA StillCurrent ==
  ASSUME CurrentInv, UNCHANGED <<edits, row, lock, draft, run>>
  PROVE  CurrentInv'
BY DEF CurrentInv, RowsCurrent, DraftsCurrent, Current, UpToDate

LEMMA CurrentStep ==
  ASSUME IInv, CurrentInv, [Next]_vars
  PROVE  CurrentInv'
<1>1. CASE Tick \/ UNCHANGED vars
  BY <1>1, StillCurrent DEF Tick, vars
<1>2. ASSUME NEW x \in Editable, Edit(x) PROVE CurrentInv'
  BY <1>2, EditCurrent, CacheConstants DEF Entity
<1>3. ASSUME NEW v \in Closable, Close(v) PROVE CurrentInv'
  BY <1>3, StillCurrent DEF Close
<1>4. ASSUME NEW w \in Worker, Load(w) PROVE CurrentInv'
  BY <1>4, LookUpCurrent, LookUpEmployerCurrent, GetVacancyCurrent, GetEmployerCurrent,
     SelectCurrent, WriteEmployerCurrent, WriteVacancyCurrent, EndCurrent DEF Load, Run
<1>5. ASSUME NEW c \in Client, Api(c) PROVE CurrentInv'
  BY <1>5, FindNoneCurrent, CreatePlaceholderCurrent, EndCurrent DEF Api, Run
<1>6. ASSUME NEW w \in Run, Rollback(w) PROVE CurrentInv'
  BY <1>6, EndCurrent
<1>. QED  BY <1>1, <1>2, <1>3, <1>4, <1>5, <1>6 DEF Next

-----------------------------------------------------------------------------
(* The theorem on the age of what a letter is written about. *)

\* What a run goes on with has every edit hh.ru made before the run began, or a
\* lifetime before if it was cached: for any number of runs, because the lock on
\* the employer's row keeps two of them from writing one vacancy at once.
THEOREM LettersAreCurrent == Spec => []LetterIsCurrent
<1>1. Init => IInv /\ CurrentInv
  BY InitTypes, Started
<1>2. IInv /\ CurrentInv /\ [Next]_vars => (IInv /\ CurrentInv)'
  BY Step, CurrentStep
<1>3. IInv /\ CurrentInv => LetterIsCurrent
  <2>. SUFFICES ASSUME IInv, CurrentInv, NEW w \in Worker, run[w].phase = "loaded",
                       NEW t \in edits[run[w].vacancy],
                       t < run[w].began - (IF run[w].cached THEN CACHE_TTL ELSE 0)
                PROVE  run[w].fetched[run[w].vacancy] >= t
    BY DEF LetterIsCurrent
  <2>. QED  BY DEF CurrentInv, Current, UpToDate, Run
<1>. QED  BY <1>1, <1>2, <1>3, PTL DEF Spec

=============================================================================

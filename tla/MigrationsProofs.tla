--------------------------- MODULE MigrationsProofs ---------------------------
(***************************************************************************)
(* Theorems about Migrations, for any number of alembic commands with any  *)
(* targets, and whatever rows the program writes beside them.              *)
(***************************************************************************)
EXTENDS Migrations, SequenceTheorems, WellFoundedInduction, TLAPS

-----------------------------------------------------------------------------
(* Replaying a list of operations, one at a time. *)

\* What holds of 0 and passes from each number to the next holds up to any N.
LEMMA UpTo ==
  ASSUME NEW N \in Nat, NEW Good, 0 \in Good, \A n \in 0..(N - 1) : n \in Good => n + 1 \in Good
  PROVE  0..N \subseteq Good
<1>. DEFINE R == OpToRel(<, Nat)
            Bad == (0..N) \ Good
<1>. SUFFICES ASSUME Bad # {} PROVE FALSE
  OBVIOUS
<1>1. IsWellFoundedOn(R, Nat)
  BY NatLessThanWellFounded
<1>2. \A x, y \in Nat : y < x => <<y, x>> \in R
  BY DEF OpToRel
<1>. HIDE DEF R
<1>3. PICK x \in Bad : \A y \in Bad : ~(<<y, x>> \in R)
  <2>1. Bad \subseteq Nat
    OBVIOUS
  <2>. HIDE DEF Bad
  <2>. QED  BY <1>1, <2>1, WFMin
<1>4. x \in Nat /\ x # 0 /\ x - 1 \in 0..(N - 1) /\ x - 1 < x
  OBVIOUS
<1>5. x - 1 \in Bad
  BY <1>4
<1>6. x - 1 \in Nat
  BY <1>4
<1>. HIDE DEF Bad
<1>7. <<x - 1, x>> \in R
  BY <1>2, <1>4, <1>6
<1>. QED  BY <1>3, <1>5, <1>7

\* All tables after the operation op.
Applied(op, defs) == [t \in Tables |-> IF t = op.table THEN Altered(op, defs[t]) ELSE defs[t]]

Traced(ops, before, d, n) == IF n = 0 THEN before ELSE Applied(ops[n], d[n - 1])

\* The schema after each operation of ops.
Trail(ops, before) ==
  CHOOSE d : d = [n \in 0..Len(ops) |-> Traced(ops, before, d, n)]

LEMMA ReplayTrail ==
  ASSUME NEW ops, NEW before
  PROVE  Replay(ops, before) = Trail(ops, before)[Len(ops)]
BY DEF Replay, Trail, Traced, Applied

LEMMA TrailExists ==
  ASSUME NEW ops, NEW before, NEW N \in Nat
  PROVE  \E d : d = [n \in 0..N |-> Traced(ops, before, d, n)]
<1>. DEFINE Good == { m \in 0..N : \E d : d = [n \in 0..m |-> Traced(ops, before, d, n)] }
<1>1. 0 \in Good
  <2>. DEFINE d == [n \in 0..0 |-> before]
  <2>1. d = [n \in 0..0 |-> Traced(ops, before, d, n)]
    BY DEF Traced
  <2>. QED  BY <2>1
<1>2. ASSUME NEW m \in 0..(N - 1), m \in Good
      PROVE  m + 1 \in Good
  <2>1. PICK d : d = [n \in 0..m |-> Traced(ops, before, d, n)]
    BY <1>2
  <2>. DEFINE e == [n \in 0..(m + 1) |-> IF n = m + 1 THEN Applied(ops[n], d[m]) ELSE d[n]]
  <2>2. \A n \in 0..m : e[n] = d[n]
    OBVIOUS
  <2>3. \A n \in 0..(m + 1) : e[n] = Traced(ops, before, e, n)
    <3>1. CASE m + 1 = 0
      BY <3>1
    <3>2. e[m + 1] = Traced(ops, before, e, m + 1)
      <4>1. e[m] = d[m] /\ m + 1 - 1 = m /\ m + 1 # 0
        BY <2>2
      <4>2. e[m + 1] = Applied(ops[m + 1], d[m])
        OBVIOUS
      <4>. HIDE DEF e
      <4>. QED  BY <4>1, <4>2 DEF Traced
    <3>3. ASSUME NEW n \in 0..m PROVE e[n] = Traced(ops, before, e, n)
      <4>1. e[n] = Traced(ops, before, d, n)
        BY <2>1, <2>2
      <4>2. n # 0 => n - 1 \in 0..m /\ e[n - 1] = d[n - 1]
        BY <2>2
      <4>. HIDE DEF e
      <4>. QED  BY <4>1, <4>2 DEF Traced
    <3>. QED  BY <3>2, <3>3
  <2>4. e = [n \in 0..(m + 1) |-> Traced(ops, before, e, n)]
    <3>1. e = [n \in 0..(m + 1) |-> e[n]]
      OBVIOUS
    <3>. HIDE DEF e
    <3>. QED  BY <2>3, <3>1
  <2>. HIDE DEF e
  <2>. QED  BY <2>4
<1>3. 0..N \subseteq Good
  <2>. HIDE DEF Good
  <2>. QED  BY <1>1, <1>2, UpTo
<1>4. N \in Good
  <2>1. N \in 0..N
    OBVIOUS
  <2>. HIDE DEF Good
  <2>. QED  BY <1>3, <2>1
<1>. QED  BY <1>4

LEMMA TrailSteps ==
  ASSUME NEW ops, Len(ops) \in Nat, NEW before
  PROVE  /\ Trail(ops, before)[0] = before
         /\ \A n \in 1..Len(ops) :
              Trail(ops, before)[n] = Applied(ops[n], Trail(ops, before)[n - 1])
<1>. DEFINE d == Trail(ops, before)
<1>1. d = [n \in 0..Len(ops) |-> Traced(ops, before, d, n)]
  <2>1. \E e : e = [n \in 0..Len(ops) |-> Traced(ops, before, e, n)]
    BY TrailExists
  <2>. QED  BY <2>1 DEF Trail
<1>. HIDE DEF d
<1>2. \A n \in 0..Len(ops) : d[n] = Traced(ops, before, d, n)
  BY <1>1
<1>3. d[0] = before
  BY <1>2 DEF Traced
<1>4. ASSUME NEW n \in 1..Len(ops) PROVE d[n] = Applied(ops[n], d[n - 1])
  BY <1>2 DEF Traced
<1>. QED  BY <1>3, <1>4 DEF d

\* The schema of each revision is made from that of the one before.
LEMMA SchemaSteps ==
  /\ SchemaAt[0] = [t \in Tables |-> NoTable]
  /\ \A r \in 1..HEAD : SchemaAt[r] = Replay(upgrade[r], SchemaAt[r - 1])
<1>. DEFINE Empty == [t \in Tables |-> NoTable]
            Made(d, r) == IF r = 0 THEN Empty ELSE Replay(upgrade[r], d[r - 1])
            S1 == Replay(upgrade[1], Empty)
            S2 == Replay(upgrade[2], S1)
            S3 == Replay(upgrade[3], S2)
            S4 == Replay(upgrade[4], S3)
            S5 == Replay(upgrade[5], S4)
            e == [r \in 0..5 |-> CASE r = 0 -> Empty [] r = 1 -> S1 [] r = 2 -> S2
                                   [] r = 3 -> S3 [] r = 4 -> S4 [] OTHER -> S5]
<1>. HIDE DEF Empty
<1>1. e[0] = Empty /\ e[1] = S1 /\ e[2] = S2 /\ e[3] = S3 /\ e[4] = S4 /\ e[5] = S5
  <2>. HIDE DEF S1, S2, S3, S4, S5
  <2>. QED  OBVIOUS
<1>2. e = [r \in 0..5 |-> e[r]]
  OBVIOUS
<1>. HIDE DEF e
<1>3. \A r \in 0..5 : e[r] = Made(e, r)
  <2>1. Made(e, 1) = S1 /\ Made(e, 2) = S2 /\ Made(e, 3) = S3 /\ Made(e, 4) = S4 /\ Made(e, 5) = S5
    BY <1>1
  <2>2. Made(e, 0) = Empty
    OBVIOUS
  <2>. HIDE DEF Made, S1, S2, S3, S4, S5
  <2>3. \A r \in 0..5 : r = 0 \/ r = 1 \/ r = 2 \/ r = 3 \/ r = 4 \/ r = 5
    OBVIOUS
  <2>. QED  BY <1>1, <2>1, <2>2, <2>3
<1>4. e = [r \in 0..5 |-> Made(e, r)]
  <2>. HIDE DEF Made
  <2>. QED  BY <1>2, <1>3
<1>5. SchemaAt = [r \in 0..5 |-> Made(SchemaAt, r)]
  <2>1. SchemaAt = CHOOSE d : d = [r \in 0..5 |-> Made(d, r)]
    BY DEF SchemaAt, HEAD, Empty
  <2>2. \E d : d = [r \in 0..5 |-> Made(d, r)]
    BY <1>4
  <2>. HIDE DEF Made
  <2>. QED  BY <2>1, <2>2
<1>6. \A r \in 0..5 : SchemaAt[r] = Made(SchemaAt, r)
  <2>. HIDE DEF Made
  <2>. QED  BY <1>5
<1>. QED  BY <1>6 DEF HEAD, Empty

-----------------------------------------------------------------------------
(* Operations and what takes them back. *)

IsTable(d) == d = [exists |-> d.exists, columns |-> d.columns, checks |-> d.checks,
                   uniques |-> d.uniques, refs |-> d.refs, indexes |-> d.indexes]
Refers(d) == IsTable(d) /\ \A r \in d.refs : r.to \in Tables
Doings == {"create_table", "drop_table", "add_column", "drop_column", "set_null", "set_not_null",
           "add_check", "drop_check", "add_unique", "drop_unique", "add_ref", "drop_ref",
           "create_index", "drop_index"}
Sound(op) ==
  /\ op.do \in Doings
  /\ op.table \in Tables
  /\ op.do = "create_table" => Refers(op.item)
  /\ op.do = "add_ref" => op.item.to \in Tables

LEMMA AlteredRefers ==
  ASSUME NEW op, Sound(op), NEW d, Refers(d)
  PROVE  Refers(Altered(op, d))
<1>1. Refers(NoTable)
  BY DEF Refers, IsTable, NoTable
<1>2. CASE op.do = "create_table"
  BY <1>2 DEF Sound, Altered
<1>3. CASE op.do = "drop_table"
  BY <1>1, <1>3 DEF Altered
<1>4. CASE op.do = "add_column"
  BY <1>4 DEF Altered, Refers, IsTable
<1>5. CASE op.do = "drop_column"
  BY <1>5 DEF Altered, Refers, IsTable
<1>6. CASE op.do = "set_null"
  BY <1>6 DEF Altered, Refers, IsTable, Nullable
<1>7. CASE op.do = "set_not_null"
  BY <1>7 DEF Altered, Refers, IsTable, Nullable
<1>8. CASE op.do = "add_check"
  BY <1>8 DEF Altered, Refers, IsTable
<1>9. CASE op.do = "drop_check"
  BY <1>9 DEF Altered, Refers, IsTable
<1>10. CASE op.do = "add_unique"
  BY <1>10 DEF Altered, Refers, IsTable
<1>11. CASE op.do = "drop_unique"
  BY <1>11 DEF Altered, Refers, IsTable
<1>12. CASE op.do = "add_ref"
  BY <1>12 DEF Altered, Refers, IsTable, Sound
<1>13. CASE op.do = "drop_ref"
  BY <1>13 DEF Altered, Refers, IsTable
<1>14. CASE op.do = "create_index"
  BY <1>14 DEF Altered, Refers, IsTable
<1>15. CASE op.do = "drop_index"
  BY <1>15 DEF Altered, Refers, IsTable
<1>. QED
  BY <1>2, <1>3, <1>4, <1>5, <1>6, <1>7, <1>8, <1>9, <1>10, <1>11, <1>12, <1>13, <1>14, <1>15
  DEF Sound, Doings

\* What an operation wants to find in the tables, rows aside.
Takes(op, defs) ==
  LET d == defs[op.table] IN
  CASE op.do = "create_table" -> ~ d.exists
    [] op.do = "drop_table" ->
         d.exists /\ \A t \in Tables \ {op.table} : \A r \in defs[t].refs : r.to # op.table
    [] op.do = "add_column" -> op.item.name \notin Columns(d)
    [] op.do \in {"drop_column", "set_null"} -> op.item \in Columns(d)
    [] op.do = "set_not_null" -> TRUE
    [] op.do = "add_check" -> \A c \in d.checks : c.column # op.item.column
    [] op.do = "drop_check" -> \E c \in d.checks : c.column = op.item
    [] op.do = "add_unique" -> op.item \notin d.uniques
    [] op.do = "drop_unique" -> op.item \in d.uniques
    [] op.do = "add_ref" -> op.item \notin d.refs /\ defs[op.item.to].exists
    [] op.do = "drop_ref" -> \E r \in d.refs : r.column = op.item
    [] op.do = "create_index" -> op.item \notin d.indexes
    [] op.do = "drop_index" -> op.item \in d.indexes

\* Every reference is to a table there is.
Closed(defs) == \A t \in Tables : \A r \in defs[t].refs : defs[r.to].exists

\* The tables of a database, with references to tables there are.
Fine(defs) == Closed(defs) /\ \A t \in Tables : Refers(defs[t])

\* The operations that take others back.
Reversing == {"drop_table", "drop_column", "set_not_null", "add_check", "drop_check", "drop_unique",
              "drop_ref", "drop_index"}

\* The operations u and v are found where they can be done, v takes back what u does.
Undoes(v, u, defs) ==
  /\ Sound(u) /\ Sound(v) /\ v.table = u.table /\ v.do \in Reversing
  /\ Takes(u, defs) /\ Takes(v, Applied(u, defs))
  /\ Altered(v, Altered(u, defs[u.table])) = defs[u.table]
  /\ Fine(Applied(u, defs))

Creates(op, t) == op.do = "create_table" /\ op.table = t /\ t \in Tables /\ Refers(op.item)
                  /\ op.item.exists = TRUE
IsColumn(c) == c = Col(c.name, c.null, c.default)

\* The reverse of each kind of operation of an upgrade.
LEMMA DropCreated ==
  ASSUME NEW defs, Fine(defs), NEW t, t \in Tables, NEW u, Creates(u, t), defs[t] = NoTable,
         \A r \in u.item.refs : defs[r.to].exists
  PROVE  Undoes(Op("drop_table", t, None), u, defs)
<1>. DEFINE v == Op("drop_table", t, None)
<1>1. v.do = "drop_table" /\ v.table = t /\ u.do = "create_table" /\ u.table = t
      /\ u.item.exists = TRUE /\ ~ NoTable.exists /\ Refers(u.item)
  BY DEF Op, Creates, NoTable
<1>. HIDE DEF v
<1>2. Sound(u) /\ Sound(v)
  BY <1>1 DEF Sound, Doings
<1>3. Applied(u, defs) = [s \in Tables |-> IF s = t THEN u.item ELSE defs[s]]
  BY <1>1 DEF Applied, Altered
<1>4. Altered(v, Altered(u, defs[t])) = defs[t]
  BY <1>1 DEF Altered
<1>5. Takes(u, defs)
  BY <1>1 DEF Takes
<1>6. \A s \in Tables : \A r \in defs[s].refs : r.to # t
  BY <1>1 DEF Fine, Closed
<1>7. Takes(v, Applied(u, defs))
  BY <1>1, <1>3, <1>6 DEF Takes
<1>8. Fine(Applied(u, defs))
  <2>1. Closed(Applied(u, defs))
    BY <1>1, <1>3 DEF Fine, Closed, Refers
  <2>2. \A s \in Tables : Refers(Applied(u, defs)[s])
    BY <1>1, <1>3 DEF Fine
  <2>. QED  BY <2>1, <2>2 DEF Fine
<1>. QED  BY <1>1, <1>2, <1>4, <1>5, <1>7, <1>8 DEF Undoes, Reversing, v

\* An operation that leaves a table where it is and what it refers to.
LEMMA StaysFine ==
  ASSUME NEW defs, Fine(defs), NEW u, Sound(u),
         Altered(u, defs[u.table]).exists = defs[u.table].exists,
         Altered(u, defs[u.table]).refs = defs[u.table].refs
  PROVE  Fine(Applied(u, defs))
<1>1. \A s \in Tables : Applied(u, defs)[s].exists = defs[s].exists
                        /\ Applied(u, defs)[s].refs = defs[s].refs
  BY DEF Applied
<1>2. Closed(Applied(u, defs))
  BY <1>1 DEF Fine, Closed, Refers
<1>3. \A s \in Tables : Refers(Applied(u, defs)[s])
  BY AlteredRefers DEF Fine, Applied
<1>. QED  BY <1>2, <1>3 DEF Fine

LEMMA DropIndexed ==
  ASSUME NEW defs, Fine(defs), NEW t, t \in Tables, NEW x,
         x \notin defs[t].indexes
  PROVE  Undoes(Op("drop_index", t, x), Op("create_index", t, x), defs)
<1>. DEFINE u == Op("create_index", t, x)
            v == Op("drop_index", t, x)
            d == defs[t]
            e == [d EXCEPT !.indexes = @ \cup {x}]
<1>1. u.do = "create_index" /\ v.do = "drop_index" /\ u.table = t /\ v.table = t /\ u.item = x /\ v.item = x
  BY DEF Op
<1>. HIDE DEF u, v
<1>2. Sound(u) /\ Sound(v)
  BY <1>1 DEF Sound, Doings
<1>3. IsTable(d)
  BY DEF Fine, Refers
<1>4. Altered(u, d) = e
  BY <1>1 DEF Altered
<1>5. e.exists = d.exists /\ e.refs = d.refs /\ e.indexes = d.indexes \cup {x}
  BY <1>3 DEF IsTable
<1>6. Altered(v, e) = d
  <2>1. Altered(v, e) = [e EXCEPT !.indexes = @ \ {x}]
    BY <1>1 DEF Altered
  <2>2. (d.indexes \cup {x}) \ {x} = d.indexes
    OBVIOUS
  <2>. QED  BY <1>3, <2>1, <2>2 DEF IsTable
<1>7. Applied(u, defs)[t] = e
  BY <1>1, <1>4 DEF Applied
<1>. HIDE DEF e
<1>8. Takes(u, defs) /\ Takes(v, Applied(u, defs))
  BY <1>1, <1>5, <1>7 DEF Takes
<1>9. Fine(Applied(u, defs))
  BY <1>1, <1>2, <1>4, <1>5, StaysFine
<1>. QED  BY <1>1, <1>2, <1>4, <1>6, <1>8, <1>9 DEF Undoes, Reversing, u, v

LEMMA DropUniqued ==
  ASSUME NEW defs, Fine(defs), NEW t, t \in Tables, NEW x,
         x \notin defs[t].uniques
  PROVE  Undoes(Op("drop_unique", t, x), Op("add_unique", t, x), defs)
<1>. DEFINE u == Op("add_unique", t, x)
            v == Op("drop_unique", t, x)
            d == defs[t]
            e == [d EXCEPT !.uniques = @ \cup {x}]
<1>1. u.do = "add_unique" /\ v.do = "drop_unique" /\ u.table = t /\ v.table = t /\ u.item = x /\ v.item = x
  BY DEF Op
<1>. HIDE DEF u, v
<1>2. Sound(u) /\ Sound(v)
  BY <1>1 DEF Sound, Doings
<1>3. IsTable(d)
  BY DEF Fine, Refers
<1>4. Altered(u, d) = e
  BY <1>1 DEF Altered
<1>5. e.exists = d.exists /\ e.refs = d.refs /\ e.uniques = d.uniques \cup {x}
  BY <1>3 DEF IsTable
<1>6. Altered(v, e) = d
  <2>1. Altered(v, e) = [e EXCEPT !.uniques = @ \ {x}]
    BY <1>1 DEF Altered
  <2>2. (d.uniques \cup {x}) \ {x} = d.uniques
    OBVIOUS
  <2>. QED  BY <1>3, <2>1, <2>2 DEF IsTable
<1>7. Applied(u, defs)[t] = e
  BY <1>1, <1>4 DEF Applied
<1>. HIDE DEF e
<1>8. Takes(u, defs) /\ Takes(v, Applied(u, defs))
  BY <1>1, <1>5, <1>7 DEF Takes
<1>9. Fine(Applied(u, defs))
  BY <1>1, <1>2, <1>4, <1>5, StaysFine
<1>. QED  BY <1>1, <1>2, <1>4, <1>6, <1>8, <1>9 DEF Undoes, Reversing, u, v

LEMMA DropAdded ==
  ASSUME NEW defs, Fine(defs), NEW t, t \in Tables, NEW x,
         x.name \notin Columns(defs[t])
  PROVE  Undoes(Op("drop_column", t, x.name), Op("add_column", t, x), defs)
<1>. DEFINE u == Op("add_column", t, x)
            v == Op("drop_column", t, x.name)
            d == defs[t]
            e == [d EXCEPT !.columns = @ \cup {x}]
<1>1. u.do = "add_column" /\ v.do = "drop_column" /\ u.table = t /\ v.table = t /\ u.item = x
      /\ v.item = x.name
  BY DEF Op
<1>. HIDE DEF u, v
<1>2. Sound(u) /\ Sound(v)
  BY <1>1 DEF Sound, Doings
<1>3. IsTable(d)
  BY DEF Fine, Refers
<1>4. Altered(u, d) = e
  BY <1>1 DEF Altered
<1>5. e.exists = d.exists /\ e.refs = d.refs /\ e.columns = d.columns \cup {x}
  BY <1>3 DEF IsTable
<1>6. Altered(v, e) = d
  <2>1. Altered(v, e) = [e EXCEPT !.columns = { c \in @ : c.name # x.name }]
    BY <1>1 DEF Altered
  <2>2. { c \in d.columns \cup {x} : c.name # x.name } = d.columns
    BY DEF Columns
  <2>. QED  BY <1>3, <2>1, <2>2 DEF IsTable
<1>7. Applied(u, defs)[t] = e
  BY <1>1, <1>4 DEF Applied
<1>. HIDE DEF e
<1>8. Takes(u, defs) /\ Takes(v, Applied(u, defs))
  BY <1>1, <1>5, <1>7 DEF Takes, Columns
<1>9. Fine(Applied(u, defs))
  BY <1>1, <1>2, <1>4, <1>5, StaysFine
<1>. QED  BY <1>1, <1>2, <1>4, <1>6, <1>8, <1>9 DEF Undoes, Reversing, u, v

LEMMA DropChecked ==
  ASSUME NEW defs, Fine(defs), NEW t, t \in Tables, NEW x,
         \A c \in defs[t].checks : c.column # x.column
  PROVE  Undoes(Op("drop_check", t, x.column), Op("add_check", t, x), defs)
<1>. DEFINE u == Op("add_check", t, x)
            v == Op("drop_check", t, x.column)
            d == defs[t]
            e == [d EXCEPT !.checks = @ \cup {x}]
<1>1. u.do = "add_check" /\ v.do = "drop_check" /\ u.table = t /\ v.table = t /\ u.item = x
      /\ v.item = x.column
  BY DEF Op
<1>. HIDE DEF u, v
<1>2. Sound(u) /\ Sound(v)
  BY <1>1 DEF Sound, Doings
<1>3. IsTable(d)
  BY DEF Fine, Refers
<1>4. Altered(u, d) = e
  BY <1>1 DEF Altered
<1>5. e.exists = d.exists /\ e.refs = d.refs /\ e.checks = d.checks \cup {x}
  BY <1>3 DEF IsTable
<1>6. Altered(v, e) = d
  <2>1. Altered(v, e) = [e EXCEPT !.checks = { c \in @ : c.column # x.column }]
    BY <1>1 DEF Altered
  <2>2. { c \in d.checks \cup {x} : c.column # x.column } = d.checks
    OBVIOUS
  <2>. QED  BY <1>3, <2>1, <2>2 DEF IsTable
<1>7. Applied(u, defs)[t] = e
  BY <1>1, <1>4 DEF Applied
<1>. HIDE DEF e
<1>8. Takes(u, defs) /\ Takes(v, Applied(u, defs))
  BY <1>1, <1>5, <1>7 DEF Takes
<1>9. Fine(Applied(u, defs))
  BY <1>1, <1>2, <1>4, <1>5, StaysFine
<1>. QED  BY <1>1, <1>2, <1>4, <1>6, <1>8, <1>9 DEF Undoes, Reversing, u, v

LEMMA CheckDropped ==
  ASSUME NEW defs, Fine(defs), NEW t, t \in Tables, NEW x,
         \A c \in defs[t].checks : c.column = x.column => c = x, x \in defs[t].checks
  PROVE  Undoes(Op("add_check", t, x), Op("drop_check", t, x.column), defs)
<1>. DEFINE u == Op("drop_check", t, x.column)
            v == Op("add_check", t, x)
            d == defs[t]
            e == [d EXCEPT !.checks = { c \in @ : c.column # x.column }]
<1>1. u.do = "drop_check" /\ v.do = "add_check" /\ u.table = t /\ v.table = t /\ v.item = x
      /\ u.item = x.column
  BY DEF Op
<1>. HIDE DEF u, v
<1>2. Sound(u) /\ Sound(v)
  BY <1>1 DEF Sound, Doings
<1>3. IsTable(d)
  BY DEF Fine, Refers
<1>4. Altered(u, d) = e
  BY <1>1 DEF Altered
<1>5. e.exists = d.exists /\ e.refs = d.refs /\ e.checks = { c \in d.checks : c.column # x.column }
  BY <1>3 DEF IsTable
<1>6. Altered(v, e) = d
  <2>1. Altered(v, e) = [e EXCEPT !.checks = @ \cup {x}]
    BY <1>1 DEF Altered
  <2>2. { c \in d.checks : c.column # x.column } \cup {x} = d.checks
    OBVIOUS
  <2>. QED  BY <1>3, <2>1, <2>2 DEF IsTable
<1>7. Applied(u, defs)[t] = e
  BY <1>1, <1>4 DEF Applied
<1>. HIDE DEF e
<1>8. Takes(u, defs) /\ Takes(v, Applied(u, defs))
  BY <1>1, <1>5, <1>7 DEF Takes
<1>9. Fine(Applied(u, defs))
  BY <1>1, <1>2, <1>4, <1>5, StaysFine
<1>. QED  BY <1>1, <1>2, <1>4, <1>6, <1>8, <1>9 DEF Undoes, Reversing, u, v

LEMMA DropReferred ==
  ASSUME NEW defs, Fine(defs), NEW t, t \in Tables, NEW x,
         \A r \in defs[t].refs : r.column # x.column, x.to \in Tables, defs[x.to].exists
  PROVE  Undoes(Op("drop_ref", t, x.column), Op("add_ref", t, x), defs)
<1>. DEFINE u == Op("add_ref", t, x)
            v == Op("drop_ref", t, x.column)
            d == defs[t]
            e == [d EXCEPT !.refs = @ \cup {x}]
<1>1. u.do = "add_ref" /\ v.do = "drop_ref" /\ u.table = t /\ v.table = t /\ u.item = x
      /\ v.item = x.column
  BY DEF Op
<1>. HIDE DEF u, v
<1>2. Sound(u) /\ Sound(v)
  BY <1>1 DEF Sound, Doings
<1>3. IsTable(d)
  BY DEF Fine, Refers
<1>4. Altered(u, d) = e
  BY <1>1 DEF Altered
<1>5. e.exists = d.exists /\ e.refs = d.refs \cup {x}
  BY <1>3 DEF IsTable
<1>6. Altered(v, e) = d
  <2>1. Altered(v, e) = [e EXCEPT !.refs = { r \in @ : r.column # x.column }]
    BY <1>1 DEF Altered
  <2>2. { r \in e.refs : r.column # x.column } = d.refs
    BY <1>5
  <2>3. [e EXCEPT !.refs = d.refs] = d
    BY <1>3 DEF IsTable
  <2>. HIDE DEF d, e
  <2>. QED  BY <2>1, <2>2, <2>3
<1>7. Applied(u, defs) = [s \in Tables |-> IF s = t THEN e ELSE defs[s]]
  BY <1>1, <1>4 DEF Applied
<1>. HIDE DEF e
<1>8. Takes(u, defs) /\ Takes(v, Applied(u, defs))
  BY <1>1, <1>5, <1>7 DEF Takes
<1>9. Fine(Applied(u, defs))
  <2>1. Closed(Applied(u, defs))
    BY <1>5, <1>7 DEF Fine, Closed, Refers
  <2>2. \A s \in Tables : Refers(Applied(u, defs)[s])
    BY <1>1, <1>2, AlteredRefers DEF Fine, Applied
  <2>. QED  BY <2>1, <2>2 DEF Fine
<1>. QED  BY <1>1, <1>2, <1>4, <1>6, <1>8, <1>9 DEF Undoes, Reversing, u, v

LEMMA RequireFreed ==
  ASSUME NEW defs, Fine(defs), NEW t, t \in Tables, NEW x,
         \A c \in defs[t].columns : IsColumn(c) /\ (c.name = x => c.null = FALSE),
         x \in Columns(defs[t])
  PROVE  Undoes(Op("set_not_null", t, x), Op("set_null", t, x), defs)
<1>. DEFINE u == Op("set_null", t, x)
            v == Op("set_not_null", t, x)
            d == defs[t]
            free(c) == IF c.name = x THEN [c EXCEPT !.null = TRUE] ELSE c
            back(c) == IF c.name = x THEN [c EXCEPT !.null = FALSE] ELSE c
            e == [d EXCEPT !.columns = { free(c) : c \in @ }]
<1>1. u.do = "set_null" /\ v.do = "set_not_null" /\ u.table = t /\ v.table = t /\ u.item = x
      /\ v.item = x
  BY DEF Op
<1>. HIDE DEF u, v
<1>2. Sound(u) /\ Sound(v)
  BY <1>1 DEF Sound, Doings
<1>3. IsTable(d)
  BY DEF Fine, Refers
<1>4. Altered(u, d) = e
  BY <1>1 DEF Altered, Nullable
<1>5. e.exists = d.exists /\ e.refs = d.refs /\ e.columns = { free(c) : c \in d.columns }
  <2>. HIDE DEF free
  <2>. QED  BY <1>3 DEF IsTable
<1>6. Altered(v, e) = d
  <2>1. Altered(v, e) = [e EXCEPT !.columns = { back(c) : c \in @ }]
    BY <1>1 DEF Altered, Nullable
  <2>2. \A c \in d.columns : back(free(c)) = c
    BY DEF IsColumn, Col
  <2>. HIDE DEF free, back
  <2>3. { back(c) : c \in { free(c) : c \in d.columns } } = d.columns
    BY <2>2
  <2>. QED  BY <1>3, <2>1, <2>3 DEF IsTable
<1>7. Applied(u, defs)[t] = e
  BY <1>1, <1>4 DEF Applied
<1>. HIDE DEF e
<1>8. Takes(u, defs) /\ Takes(v, Applied(u, defs))
  BY <1>1, <1>5, <1>7 DEF Takes
<1>9. Fine(Applied(u, defs))
  BY <1>1, <1>2, <1>4, <1>5, StaysFine
<1>. QED  BY <1>1, <1>2, <1>4, <1>6, <1>8, <1>9 DEF Undoes, Reversing, u, v

\* The list D takes back, from its last operation to its first, what the list U does to S.
Reversed(U, D, S) ==
  /\ Len(U) \in Nat /\ Len(D) = Len(U)
  /\ Fine(S) /\ S = [t \in Tables |-> S[t]]
  /\ \A i \in 1..Len(U) : Undoes(D[Len(U) + 1 - i], U[i], Trail(U, S)[i - 1])

LEMMA WayBack ==
  ASSUME NEW U, NEW D, NEW S, Reversed(U, D, S)
  PROVE  \A m \in 0..Len(U) : Trail(D, Replay(U, S))[m] = Trail(U, S)[Len(U) - m]
<1>. DEFINE n == Len(U)
            T == Trail(U, S)
            B == Trail(D, Replay(U, S))
            Good == { m \in 0..n : B[m] = T[n - m] }
<1>1. n \in Nat /\ Len(D) = n /\ S = [t \in Tables |-> S[t]]
      /\ \A i \in 1..n : Undoes(D[n + 1 - i], U[i], T[i - 1])
  BY DEF Reversed
<1>2. T[0] = S /\ \A i \in 1..n : T[i] = Applied(U[i], T[i - 1])
  BY <1>1, TrailSteps
<1>3. B[0] = T[n] /\ \A i \in 1..n : B[i] = Applied(D[i], B[i - 1])
  BY <1>1, TrailSteps, ReplayTrail
<1>. HIDE DEF n, T, B
<1>4. \A i \in 0..n : T[i] = [t \in Tables |-> T[i][t]]
  <2>1. \A i \in 1..n : T[i] = [t \in Tables |-> T[i][t]]
    BY <1>2 DEF Applied
  <2>2. T[0] = [t \in Tables |-> T[0][t]]
    BY <1>1, <1>2
  <2>3. n \in Nat
    BY <1>1
  <2>4. \A i \in 0..n : i = 0 \/ i \in 1..n
    BY <2>3
  <2>. QED  BY <2>1, <2>2, <2>4
<1>5. 0 \in Good
  BY <1>1, <1>3
<1>6. ASSUME NEW m \in 0..(n - 1), m \in Good PROVE m + 1 \in Good
  <2>. DEFINE i == n - m
  <2>1. i \in 1..n /\ i - 1 \in 0..n /\ n + 1 - i = m + 1 /\ m + 1 \in 1..n /\ m + 1 - 1 = m
        /\ n - (m + 1) = i - 1
    BY <1>1
  <2>2. B[m] = T[i] /\ B[m + 1] = Applied(D[m + 1], B[m])
    <3>1. B[m + 1] = Applied(D[m + 1], B[m + 1 - 1])
      BY <1>3, <2>1
    <3>. QED  BY <1>6, <2>1, <3>1
  <2>. HIDE DEF i
  <2>3. Undoes(D[m + 1], U[i], T[i - 1]) /\ T[i] = Applied(U[i], T[i - 1])
    <3>1. Undoes(D[n + 1 - i], U[i], T[i - 1])
      BY <1>1, <2>1
    <3>. QED  BY <1>2, <2>1, <3>1
  <2>4. T[i - 1] = [t \in Tables |-> T[i - 1][t]]
    BY <1>4, <2>1
  <2>5. Applied(D[m + 1], T[i]) = T[i - 1]
    <3>. DEFINE v == D[m + 1]
                u == U[i]
                before == T[i - 1]
    <3>1. v.table = u.table /\ u.table \in Tables
          /\ Altered(v, Altered(u, before[u.table])) = before[u.table]
      BY <2>3 DEF Undoes, Sound
    <3>2. T[i] = Applied(u, before) /\ before = [t \in Tables |-> before[t]]
      BY <2>3, <2>4
    <3>. HIDE DEF v, u, before
    <3>3. ASSUME NEW t \in Tables PROVE Applied(v, Applied(u, before))[t] = before[t]
      <4>1. CASE t = u.table
        BY <3>1, <4>1 DEF Applied
      <4>2. CASE t # u.table
        BY <3>1, <4>2 DEF Applied
      <4>. QED  BY <4>1, <4>2
    <3>4. Applied(v, Applied(u, before)) = [t \in Tables |-> before[t]]
      BY <3>3 DEF Applied
    <3>. QED  BY <3>2, <3>4 DEF v, before
  <2>6. B[m + 1] = T[i - 1] /\ m + 1 \in 0..n
    BY <1>1, <2>1, <2>2, <2>5
  <2>. QED  BY <2>1, <2>6
<1>7. 0..n \subseteq Good
  <2>. HIDE DEF Good
  <2>. QED  BY <1>1, <1>5, <1>6, UpTo
<1>. QED  BY <1>7 DEF n, T, B

LEMMA ReversedReplay ==
  ASSUME NEW U, NEW D, NEW S, Reversed(U, D, S)
  PROVE  Replay(D, Replay(U, S)) = S /\ Fine(Replay(U, S))
         /\ Replay(U, S) = [t \in Tables |-> Replay(U, S)[t]]
<1>. DEFINE n == Len(U)
            T == Trail(U, S)
<1>1. n \in Nat /\ Len(D) = n /\ Fine(S) /\ S = [t \in Tables |-> S[t]]
      /\ \A i \in 1..n : Undoes(D[n + 1 - i], U[i], T[i - 1])
  BY DEF Reversed
<1>2. T[0] = S /\ (\A i \in 1..n : T[i] = Applied(U[i], T[i - 1])) /\ Replay(U, S) = T[n]
  BY <1>1, TrailSteps, ReplayTrail
<1>3. Replay(D, Replay(U, S)) = S
  <2>1. n \in 0..n /\ n - n = 0
    BY <1>1
  <2>2. Trail(D, Replay(U, S))[n] = T[0]
    BY <2>1, WayBack
  <2>. QED  BY <1>1, <1>2, <2>2, ReplayTrail
<1>. HIDE DEF n, T
<1>4. CASE n = 0
  BY <1>1, <1>2, <1>3, <1>4
<1>5. CASE n # 0
  <2>1. n \in 1..n
    BY <1>1, <1>5
  <2>2. Fine(T[n]) /\ T[n] = Applied(U[n], T[n - 1])
    BY <1>1, <1>2, <2>1 DEF Undoes
  <2>. QED  BY <1>2, <1>3, <2>2 DEF Applied
<1>. QED  BY <1>4, <1>5

-----------------------------------------------------------------------------
(* The revisions, one by one. *)

LEMMA Creations ==
  /\ Creates(CreateUsers, "users")
  /\ Creates(CreateEmployers, "employers")
  /\ Creates(CreateVacancies, "vacancies")
  /\ Creates(CreateResumeProfiles, "resume_profiles")
  /\ Creates(CreateGenerationRequests, "generation_requests")
  /\ Creates(CreateCoverLetters, "cover_letters")
  /\ Creates(CreateSubscriptions, "subscriptions")
  /\ Creates(CreatePaymentIntents, "payment_intents")
  /\ Creates(CreatePromoCodes, "promo_codes")
  /\ Creates(CreateCreditTransactions, "credit_transactions")
  /\ Creates(CreatePromoRedemptions, "promo_redemptions")
  /\ Creates(CreateSubscriptionPaymentIntents, "subscription_payment_intents")
<1>1. ASSUME NEW columns, NEW checks, NEW uniques, NEW refs, NEW indexes, NEW t \in Tables,
             \A r \in refs : r.to \in Tables
      PROVE  Creates(Op("create_table", t, Table(columns, checks, uniques, refs, indexes)), t)
  BY <1>1 DEF Creates, Op, Table, Refers, IsTable
<1>2. Creates(CreateUsers, "users")
  BY <1>1 DEF CreateUsers, Tables
<1>3. Creates(CreateEmployers, "employers")
  BY <1>1 DEF CreateEmployers, Tables
<1>4. Creates(CreateVacancies, "vacancies")
  BY <1>1 DEF CreateVacancies, Tables, Ref
<1>5. Creates(CreateResumeProfiles, "resume_profiles")
  BY <1>1 DEF CreateResumeProfiles, Tables, Ref
<1>6. Creates(CreateGenerationRequests, "generation_requests")
  BY <1>1 DEF CreateGenerationRequests, Tables, Ref
<1>7. Creates(CreateCoverLetters, "cover_letters")
  BY <1>1 DEF CreateCoverLetters, Tables, Ref
<1>8. Creates(CreateSubscriptions, "subscriptions")
  BY <1>1 DEF CreateSubscriptions, Tables, Ref
<1>9. Creates(CreatePaymentIntents, "payment_intents")
  BY <1>1 DEF CreatePaymentIntents, Tables, Ref
<1>10. Creates(CreatePromoCodes, "promo_codes")
  BY <1>1 DEF CreatePromoCodes, Tables
<1>11. Creates(CreateCreditTransactions, "credit_transactions")
  BY <1>1 DEF CreateCreditTransactions, Tables, Ref
<1>12. Creates(CreatePromoRedemptions, "promo_redemptions")
  BY <1>1 DEF CreatePromoRedemptions, Tables, Ref
<1>13. Creates(CreateSubscriptionPaymentIntents, "subscription_payment_intents")
  BY <1>1 DEF CreateSubscriptionPaymentIntents, Tables, Ref
<1>. QED
  BY <1>2, <1>3, <1>4, <1>5, <1>6, <1>7, <1>8, <1>9, <1>10, <1>11, <1>12, <1>13

\* The tables the created ones refer to.
Links(op, tables) == \A r \in op.item.refs : r.to \in tables

LEMMA CreatedLinks ==
  /\ Links(CreateUsers, {}) /\ Links(CreateEmployers, {}) /\ Links(CreatePromoCodes, {})
  /\ Links(CreateVacancies, {"employers"}) /\ Links(CreateResumeProfiles, {"users"})
  /\ Links(CreateGenerationRequests, {"resume_profiles", "users", "vacancies"})
  /\ Links(CreateCoverLetters,
           {"employers", "generation_requests", "resume_profiles", "users", "vacancies"})
  /\ Links(CreateSubscriptions, {"users"}) /\ Links(CreatePaymentIntents, {"users"})
  /\ Links(CreateCreditTransactions,
           {"generation_requests", "payment_intents", "promo_codes", "users"})
  /\ Links(CreatePromoRedemptions, {"promo_codes", "users"})
  /\ Links(CreateSubscriptionPaymentIntents, {"users"})
<1>1. ASSUME NEW columns, NEW checks, NEW uniques, NEW refs, NEW indexes, NEW t, NEW tables,
             \A r \in refs : r.to \in tables
      PROVE  Links(Op("create_table", t, Table(columns, checks, uniques, refs, indexes)), tables)
  BY <1>1 DEF Links, Op, Table
<1>2. Links(CreateUsers, {}) /\ Links(CreateEmployers, {}) /\ Links(CreatePromoCodes, {})
  BY <1>1 DEF CreateUsers, CreateEmployers, CreatePromoCodes
<1>3. Links(CreateVacancies, {"employers"}) /\ Links(CreateResumeProfiles, {"users"})
  BY <1>1 DEF CreateVacancies, CreateResumeProfiles, Ref
<1>4. Links(CreateGenerationRequests, {"resume_profiles", "users", "vacancies"})
  BY <1>1 DEF CreateGenerationRequests, Ref
<1>5. Links(CreateCoverLetters,
            {"employers", "generation_requests", "resume_profiles", "users", "vacancies"})
  BY <1>1 DEF CreateCoverLetters, Ref
<1>6. Links(CreateSubscriptions, {"users"}) /\ Links(CreatePaymentIntents, {"users"})
  BY <1>1 DEF CreateSubscriptions, CreatePaymentIntents, Ref
<1>7. Links(CreateCreditTransactions,
            {"generation_requests", "payment_intents", "promo_codes", "users"})
  BY <1>1 DEF CreateCreditTransactions, Ref
<1>8. Links(CreatePromoRedemptions, {"promo_codes", "users"})
      /\ Links(CreateSubscriptionPaymentIntents, {"users"})
  BY <1>1 DEF CreatePromoRedemptions, CreateSubscriptionPaymentIntents, Ref
<1>. QED  BY <1>2, <1>3, <1>4, <1>5, <1>6, <1>7, <1>8

\* The schema after a creation and after an index.
LEMMA Creating ==
  ASSUME NEW op, NEW s \in Tables, Creates(op, s), NEW defs
  PROVE  \A t \in Tables : Applied(op, defs)[t] = IF t = s THEN op.item ELSE defs[t]
BY DEF Creates, Applied, Altered

Indexed(d, x) == [d EXCEPT !.indexes = @ \cup {x}]

LEMMA Indexing ==
  ASSUME NEW s \in Tables, NEW x, NEW defs
  PROVE  \A t \in Tables :
           Applied(Op("create_index", s, x), defs)[t] = IF t = s THEN Indexed(defs[s], x) ELSE defs[t]
BY DEF Applied, Altered, Op, Indexed

LEMMA IndexedTable ==
  ASSUME NEW d, IsTable(d), NEW x
  PROVE  Indexed(d, x) = [exists |-> d.exists, columns |-> d.columns, checks |-> d.checks,
                          uniques |-> d.uniques, refs |-> d.refs, indexes |-> d.indexes \cup {x}]
BY DEF IsTable, Indexed

LEMMA NextFine ==
  ASSUME NEW v, NEW u, NEW defs, Undoes(v, u, defs)
  PROVE  Fine(Applied(u, defs))
BY DEF Undoes

LEMMA NoIndexes ==
  /\ CreateGenerationRequests.item.indexes = {} /\ CreateCoverLetters.item.indexes = {}
  /\ CreateSubscriptions.item.indexes = {} /\ CreatePaymentIntents.item.indexes = {}
  /\ CreateCreditTransactions.item.indexes = {} /\ CreatePromoRedemptions.item.indexes = {}
  /\ CreateSubscriptionPaymentIntents.item.indexes = {}
BY DEF CreateGenerationRequests, CreateCoverLetters, CreateSubscriptions, CreatePaymentIntents,
       CreateCreditTransactions, CreatePromoRedemptions, CreateSubscriptionPaymentIntents, Op, Table

\* U is a list of n operations.
Long(U, n) == n \in Nat /\ Len(U) = n /\ \E S : U \in Seq(S)

LEMMA IsLong ==
  ASSUME NEW U, NEW n, n \in Nat, U = [i \in 1..n |-> U[i]]
  PROVE  Long(U, n)
<1>1. U \in Seq({U[i] : i \in 1..n}) /\ Len(U) = n
  OBVIOUS
<1>. QED  BY <1>1 DEF Long

Join(s, t) == s \o t

\* After its first m elements, u goes on with the n elements of t.
Follows(u, t, m, n) == \A i \in 1..n : u[m + i] = t[i]

LEMMA Joined ==
  ASSUME NEW s, NEW t, NEW m, NEW n, Long(s, m), Long(t, n)
  PROVE  /\ Long(Join(s, t), m + n)
         /\ Follows(Join(s, t), s, 0, m) /\ Follows(Join(s, t), t, m, n)
<1>1. PICK S : s \in Seq(S)
  BY DEF Long
<1>2. PICK U : t \in Seq(U)
  BY DEF Long
<1>3. s \in Seq(S \cup U) /\ t \in Seq(S \cup U)
  BY <1>1, <1>2
<1>4. s \o t \in Seq(S \cup U)
  BY <1>3
<1>5. m \in Nat /\ n \in Nat /\ Len(s) = m /\ Len(t) = n
  BY DEF Long
<1>6. Long(s \o t, m + n)
  BY <1>3, <1>4, <1>5 DEF Long
<1>7. ASSUME NEW i \in 1..m PROVE (s \o t)[i] = s[i]
  BY <1>3, <1>5
<1>8. ASSUME NEW i \in 1..n PROVE (s \o t)[m + i] = t[i]
  BY <1>3, <1>5
<1>. QED  BY <1>5, <1>6, <1>7, <1>8 DEF Join, Follows

LEMMA Walk ==
  ASSUME NEW U, NEW S, NEW N, Long(U, N)
  PROVE  /\ Trail(U, S)[0] = S
         /\ \A n \in 1..N : Trail(U, S)[n] = Applied(U[n], Trail(U, S)[n - 1])
         /\ Replay(U, S) = Trail(U, S)[N]
BY TrailSteps, ReplayTrail DEF Long

LEMMA Schemas ==
  /\ SchemaAt[0] = [t \in Tables |-> NoTable]
  /\ SchemaAt[1] = Replay(Upgrade1, SchemaAt[0]) /\ SchemaAt[2] = Replay(Upgrade2, SchemaAt[1])
  /\ SchemaAt[3] = Replay(Upgrade3, SchemaAt[2]) /\ SchemaAt[4] = Replay(Upgrade4, SchemaAt[3])
  /\ SchemaAt[5] = Replay(Upgrade5, SchemaAt[4])
<1>1. upgrade[1] = Upgrade1 /\ upgrade[2] = Upgrade2 /\ upgrade[3] = Upgrade3
      /\ upgrade[4] = Upgrade4 /\ upgrade[5] = Upgrade5
  BY DEF upgrade
<1>. QED  BY <1>1, SchemaSteps DEF HEAD

LEMMA Revision1 ==
  /\ Reversed(Upgrade1, Downgrade1, SchemaAt[0])
  /\ SchemaAt[1] = Replay(Upgrade1, SchemaAt[0])
  /\ SchemaAt[1]["users"] = CreateUsers.item
  /\ SchemaAt[1]["employers"] = CreateEmployers.item
  /\ SchemaAt[1]["vacancies"] = CreateVacancies.item
  /\ SchemaAt[1]["resume_profiles"] = CreateResumeProfiles.item
  /\ SchemaAt[1]["generation_requests"] = Indexed(CreateGenerationRequests.item, RequestsIndex)
  /\ SchemaAt[1]["cover_letters"] = Indexed(CreateCoverLetters.item, LettersIndex)
  /\ SchemaAt[1]["subscriptions"] = Indexed(CreateSubscriptions.item, SubscriptionsIndex)
  /\ \A t \in {"payment_intents", "promo_codes", "credit_transactions", "promo_redemptions",
               "subscription_payment_intents"} : SchemaAt[1][t] = NoTable
<1>. DEFINE S == SchemaAt[0]
            T == Trail(Upgrade1, S)
            requests == Op("create_index", "generation_requests", RequestsIndex)
            letters == Op("create_index", "cover_letters", LettersIndex)
            periods == Op("create_index", "subscriptions", SubscriptionsIndex)
<1>0. Long(Upgrade1, 10) /\ Long(Downgrade1, 10)
  <2>1. Upgrade1 = [i \in 1..10 |-> Upgrade1[i]]
    BY DEF Upgrade1
  <2>2. Downgrade1 = [i \in 1..10 |-> Downgrade1[i]]
    BY DEF Downgrade1
  <2>. QED  BY <2>1, <2>2, IsLong
<1>1. /\ Upgrade1[1] = CreateUsers /\ Upgrade1[2] = CreateEmployers
      /\ Upgrade1[3] = CreateVacancies /\ Upgrade1[4] = CreateResumeProfiles
      /\ Upgrade1[5] = CreateGenerationRequests /\ Upgrade1[6] = requests
      /\ Upgrade1[7] = CreateCoverLetters /\ Upgrade1[8] = letters
      /\ Upgrade1[9] = CreateSubscriptions /\ Upgrade1[10] = periods
  BY DEF Upgrade1
<1>2. /\ Downgrade1[10] = Op("drop_table", "users", None)
      /\ Downgrade1[9] = Op("drop_table", "employers", None)
      /\ Downgrade1[8] = Op("drop_table", "vacancies", None)
      /\ Downgrade1[7] = Op("drop_table", "resume_profiles", None)
      /\ Downgrade1[6] = Op("drop_table", "generation_requests", None)
      /\ Downgrade1[5] = Op("drop_index", "generation_requests", RequestsIndex)
      /\ Downgrade1[4] = Op("drop_table", "cover_letters", None)
      /\ Downgrade1[3] = Op("drop_index", "cover_letters", LettersIndex)
      /\ Downgrade1[2] = Op("drop_table", "subscriptions", None)
      /\ Downgrade1[1] = Op("drop_index", "subscriptions", SubscriptionsIndex)
  BY DEF Downgrade1
<1>3. T[0] = S /\ T[1] = Applied(CreateUsers, T[0]) /\ T[2] = Applied(CreateEmployers, T[1])
      /\ T[3] = Applied(CreateVacancies, T[2]) /\ T[4] = Applied(CreateResumeProfiles, T[3])
      /\ T[5] = Applied(CreateGenerationRequests, T[4]) /\ T[6] = Applied(requests, T[5])
      /\ T[7] = Applied(CreateCoverLetters, T[6]) /\ T[8] = Applied(letters, T[7])
      /\ T[9] = Applied(CreateSubscriptions, T[8]) /\ T[10] = Applied(periods, T[9])
  <2>1. T[0] = S /\ \A n \in 1..10 : T[n] = Applied(Upgrade1[n], T[n - 1])
    BY <1>0, Walk
  <2>. HIDE DEF T, S, requests, letters, periods
  <2>. QED  BY <1>1, <2>1
<1>4. S = [t \in Tables |-> NoTable]
  BY Schemas
<1>5. {"users", "employers", "vacancies", "resume_profiles", "generation_requests",
       "cover_letters", "subscriptions", "payment_intents", "promo_codes", "credit_transactions",
       "promo_redemptions", "subscription_payment_intents"} \subseteq Tables
  BY DEF Tables
<1>. HIDE DEF T, S
<1>6. \A t \in Tables : T[0][t] = NoTable
  BY <1>3, <1>4
<1>7. \A t \in Tables : T[1][t] = IF t = "users" THEN CreateUsers.item ELSE T[0][t]
  BY <1>3, <1>5, Creations, Creating
<1>8. \A t \in Tables : T[2][t] = IF t = "employers" THEN CreateEmployers.item ELSE T[1][t]
  BY <1>3, <1>5, Creations, Creating
<1>9. \A t \in Tables : T[3][t] = IF t = "vacancies" THEN CreateVacancies.item ELSE T[2][t]
  BY <1>3, <1>5, Creations, Creating
<1>10. \A t \in Tables : T[4][t] = IF t = "resume_profiles" THEN CreateResumeProfiles.item ELSE T[3][t]
  BY <1>3, <1>5, Creations, Creating
<1>11. \A t \in Tables :
         T[5][t] = IF t = "generation_requests" THEN CreateGenerationRequests.item ELSE T[4][t]
  BY <1>3, <1>5, Creations, Creating
<1>12. \A t \in Tables :
         T[6][t] = IF t = "generation_requests" THEN Indexed(T[5][t], RequestsIndex) ELSE T[5][t]
  BY <1>3, <1>5, Indexing
<1>13. \A t \in Tables : T[7][t] = IF t = "cover_letters" THEN CreateCoverLetters.item ELSE T[6][t]
  BY <1>3, <1>5, Creations, Creating
<1>14. \A t \in Tables :
         T[8][t] = IF t = "cover_letters" THEN Indexed(T[7][t], LettersIndex) ELSE T[7][t]
  BY <1>3, <1>5, Indexing
<1>15. \A t \in Tables : T[9][t] = IF t = "subscriptions" THEN CreateSubscriptions.item ELSE T[8][t]
  BY <1>3, <1>5, Creations, Creating
<1>16. \A t \in Tables :
         T[10][t] = IF t = "subscriptions" THEN Indexed(T[9][t], SubscriptionsIndex) ELSE T[9][t]
  BY <1>3, <1>5, Indexing
<1>17. SchemaAt[1] = T[10] /\ SchemaAt[1] = Replay(Upgrade1, SchemaAt[0])
  BY <1>0, Walk, Schemas DEF T, S
<1>18. /\ SchemaAt[1]["users"] = CreateUsers.item
       /\ SchemaAt[1]["employers"] = CreateEmployers.item
       /\ SchemaAt[1]["vacancies"] = CreateVacancies.item
       /\ SchemaAt[1]["resume_profiles"] = CreateResumeProfiles.item
       /\ SchemaAt[1]["generation_requests"] = Indexed(CreateGenerationRequests.item, RequestsIndex)
       /\ SchemaAt[1]["cover_letters"] = Indexed(CreateCoverLetters.item, LettersIndex)
       /\ SchemaAt[1]["subscriptions"] = Indexed(CreateSubscriptions.item, SubscriptionsIndex)
       /\ \A t \in {"payment_intents", "promo_codes", "credit_transactions", "promo_redemptions",
               "subscription_payment_intents"} : SchemaAt[1][t] = NoTable
  BY <1>5, <1>6, <1>7, <1>8, <1>9, <1>10, <1>11, <1>12, <1>13, <1>14, <1>15, <1>16, <1>17
<1>. HIDE DEF requests, letters, periods
<1>19. Fine(T[0])
  BY <1>3, <1>4 DEF Fine, Closed, Refers, IsTable, NoTable
<1>20. Undoes(Op("drop_table", "users", None), CreateUsers, T[0]) /\ Fine(T[1])
  BY <1>3, <1>5, <1>6, <1>19, DropCreated, Creations, CreatedLinks,
          NextFine DEF Links
<1>21. Undoes(Op("drop_table", "employers", None), CreateEmployers, T[1]) /\ Fine(T[2])
  <2>1. T[1]["employers"] = NoTable
    BY <1>5, <1>6, <1>7
  <2>. QED  BY <1>3, <1>5, <1>20, <2>1, DropCreated, Creations, CreatedLinks,
          NextFine DEF Links
<1>22. Undoes(Op("drop_table", "vacancies", None), CreateVacancies, T[2]) /\ Fine(T[3])
  <2>1. T[2]["vacancies"] = NoTable /\ T[2]["employers"].exists
    BY <1>5, <1>6, <1>7, <1>8, Creations DEF Creates
  <2>. QED  BY <1>3, <1>5, <1>21, <2>1, DropCreated, Creations, CreatedLinks,
          NextFine DEF Links
<1>23. Undoes(Op("drop_table", "resume_profiles", None), CreateResumeProfiles, T[3]) /\ Fine(T[4])
  <2>1. T[3]["resume_profiles"] = NoTable /\ T[3]["users"].exists
    BY <1>5, <1>6, <1>7, <1>8, <1>9, Creations DEF Creates
  <2>. QED  BY <1>3, <1>5, <1>22, <2>1, DropCreated, Creations, CreatedLinks,
          NextFine DEF Links
<1>24. Undoes(Op("drop_table", "generation_requests", None), CreateGenerationRequests, T[4])
       /\ Fine(T[5])
  <2>1. T[4]["generation_requests"] = NoTable /\ T[4]["users"].exists
        /\ T[4]["resume_profiles"].exists /\ T[4]["vacancies"].exists
    BY <1>5, <1>6, <1>7, <1>8, <1>9, <1>10, Creations DEF Creates
  <2>2. \A r \in CreateGenerationRequests.item.refs : T[4][r.to].exists
    BY <2>1, CreatedLinks DEF Links
  <2>. QED  BY <1>3, <1>5, <1>23, <2>1, <2>2, DropCreated, Creations, NextFine
<1>25. Undoes(Op("drop_index", "generation_requests", RequestsIndex), requests, T[5]) /\ Fine(T[6])
  <2>1. RequestsIndex \notin T[5]["generation_requests"].indexes
    BY <1>5, <1>11, NoIndexes
  <2>. QED  BY <1>3, <1>5, <1>24, <2>1, DropIndexed, NextFine DEF requests
<1>26. Undoes(Op("drop_table", "cover_letters", None), CreateCoverLetters, T[6]) /\ Fine(T[7])
  <2>1. T[6]["cover_letters"] = NoTable /\ T[6]["users"].exists
        /\ T[6]["resume_profiles"].exists /\ T[6]["vacancies"].exists /\ T[6]["employers"].exists
    BY <1>5, <1>6, <1>7, <1>8, <1>9, <1>10, <1>11, <1>12, Creations DEF Creates
  <2>2. T[6]["generation_requests"].exists
    BY <1>5, <1>11, <1>12, Creations, IndexedTable DEF Creates, Refers
  <2>3. \A r \in CreateCoverLetters.item.refs : T[6][r.to].exists
    BY <2>1, <2>2, CreatedLinks DEF Links
  <2>. QED  BY <1>3, <1>5, <1>25, <2>1, <2>3, DropCreated, Creations, NextFine
<1>27. Undoes(Op("drop_index", "cover_letters", LettersIndex), letters, T[7]) /\ Fine(T[8])
  <2>1. LettersIndex \notin T[7]["cover_letters"].indexes
    BY <1>5, <1>13, NoIndexes
  <2>. QED  BY <1>3, <1>5, <1>26, <2>1, DropIndexed, NextFine DEF letters
<1>28. Undoes(Op("drop_table", "subscriptions", None), CreateSubscriptions, T[8]) /\ Fine(T[9])
  <2>1. T[8]["subscriptions"] = NoTable /\ T[8]["users"].exists
    BY <1>5, <1>6, <1>7, <1>8, <1>9, <1>10, <1>11, <1>12, <1>13, <1>14, Creations DEF Creates
  <2>. QED  BY <1>3, <1>5, <1>27, <2>1, DropCreated, Creations, CreatedLinks,
          NextFine DEF Links
<1>29. Undoes(Op("drop_index", "subscriptions", SubscriptionsIndex), periods, T[9])
  <2>1. SubscriptionsIndex \notin T[9]["subscriptions"].indexes
    BY <1>5, <1>15, NoIndexes
  <2>. QED  BY <1>5, <1>28, <2>1, DropIndexed DEF periods
<1>30. \A i \in 1..10 : Undoes(Downgrade1[11 - i], Upgrade1[i], T[i - 1])
  <2>1. \A i \in 1..10 : i = 1 \/ i = 2 \/ i = 3 \/ i = 4 \/ i = 5 \/ i = 6 \/ i = 7 \/ i = 8
                         \/ i = 9 \/ i = 10
    OBVIOUS
  <2>. QED
    BY <1>1, <1>2, <1>20, <1>21, <1>22, <1>23, <1>24, <1>25, <1>26, <1>27, <1>28, <1>29, <2>1
<1>31. Reversed(Upgrade1, Downgrade1, SchemaAt[0])
  <2>1. Fine(S) /\ S = [t \in Tables |-> S[t]]
    BY <1>3, <1>4, <1>19
  <2>2. Len(Upgrade1) = 10 /\ Len(Downgrade1) = 10
    BY <1>0 DEF Long
  <2>. QED  BY <1>30, <2>1, <2>2 DEF Reversed, T, S
<1>. QED  BY <1>17, <1>18, <1>31

\* The parts of a table, and what the operations make of them.
LEMMA TableParts ==
  ASSUME NEW C, NEW K, NEW Q, NEW R, NEW I
  PROVE  /\ IsTable(Table(C, K, Q, R, I)) /\ Table(C, K, Q, R, I).exists
         /\ Table(C, K, Q, R, I).columns = C /\ Table(C, K, Q, R, I).checks = K
         /\ Table(C, K, Q, R, I).uniques = Q /\ Table(C, K, Q, R, I).refs = R
         /\ Table(C, K, Q, R, I).indexes = I
BY DEF Table, IsTable

LEMMA TableIndexed ==
  ASSUME NEW C, NEW K, NEW Q, NEW R, NEW I, NEW x
  PROVE  Indexed(Table(C, K, Q, R, I), x) = Table(C, K, Q, R, I \cup {x})
<1>1. Indexed(Table(C, K, Q, R, I), x)
        = Altered(Op("create_index", x, x), Table(C, K, Q, R, I))
  BY DEF Indexed, Altered, Op
<1>2. Altered(Op("create_index", x, x), Table(C, K, Q, R, I)) = Table(C, K, Q, R, I \cup {x})
  BY DEF Altered, Op, Table
<1>. QED  BY <1>1, <1>2

LEMMA ColumnAdded ==
  ASSUME NEW C, NEW K, NEW Q, NEW R, NEW I, NEW t, NEW x
  PROVE  Altered(Op("add_column", t, x), Table(C, K, Q, R, I)) = Table(C \cup {x}, K, Q, R, I)
BY DEF Altered, Op, Table

LEMMA ColumnRemoved ==
  ASSUME NEW C, NEW K, NEW Q, NEW R, NEW I, NEW t, NEW x
  PROVE  Altered(Op("drop_column", t, x), Table(C, K, Q, R, I))
           = Table({ c \in C : c.name # x }, K, Q, R, I)
BY DEF Altered, Op, Table

LEMMA CheckAdded ==
  ASSUME NEW C, NEW K, NEW Q, NEW R, NEW I, NEW t, NEW x
  PROVE  Altered(Op("add_check", t, x), Table(C, K, Q, R, I)) = Table(C, K \cup {x}, Q, R, I)
BY DEF Altered, Op, Table

LEMMA CheckRemoved ==
  ASSUME NEW C, NEW K, NEW Q, NEW R, NEW I, NEW t, NEW x
  PROVE  Altered(Op("drop_check", t, x), Table(C, K, Q, R, I))
           = Table(C, { c \in K : c.column # x }, Q, R, I)
BY DEF Altered, Op, Table

LEMMA UniqueAdded ==
  ASSUME NEW C, NEW K, NEW Q, NEW R, NEW I, NEW t, NEW x
  PROVE  Altered(Op("add_unique", t, x), Table(C, K, Q, R, I)) = Table(C, K, Q \cup {x}, R, I)
BY DEF Altered, Op, Table

LEMMA RefAdded ==
  ASSUME NEW C, NEW K, NEW Q, NEW R, NEW I, NEW t, NEW x
  PROVE  Altered(Op("add_ref", t, x), Table(C, K, Q, R, I)) = Table(C, K, Q, R \cup {x}, I)
BY DEF Altered, Op, Table

Freed(C, x) == { IF c.name = x THEN [c EXCEPT !.null = TRUE] ELSE c : c \in C }

LEMMA ColumnFreed ==
  ASSUME NEW C, NEW K, NEW Q, NEW R, NEW I, NEW t, NEW x
  PROVE  Altered(Op("set_null", t, x), Table(C, K, Q, R, I)) = Table(Freed(C, x), K, Q, R, I)
BY DEF Altered, Op, Table, Nullable, Freed

\* Only the table of an operation is altered.
LEMMA Altering ==
  ASSUME NEW op, NEW defs
  PROVE  \A t \in Tables : Applied(op, defs)[t] = IF t = op.table THEN Altered(op, defs[t]) ELSE defs[t]
BY DEF Applied

\* A step of an upgrade, its reverse and the table it leaves.
Step(t, v, u, defs, next, d) ==
  /\ Undoes(v, u, defs) /\ Fine(next) /\ next[t] = d
  /\ \A s \in Tables \ {t} : next[s] = defs[s]

LEMMA StepBy ==
  ASSUME NEW t, NEW v, NEW u, NEW defs, NEW next, NEW d, u.table = t, Undoes(v, u, defs),
         next = Applied(u, defs), d = Altered(u, defs[u.table])
  PROVE  Step(t, v, u, defs, next, d)
BY DEF Step, Undoes, Sound, Applied

LEMMA StepLeaves ==
  ASSUME NEW t, NEW v, NEW u, NEW defs, NEW next, NEW d, Step(t, v, u, defs, next, d)
  PROVE  /\ Fine(next) /\ next[t] = d /\ Undoes(v, u, defs)
         /\ \A s \in Tables \ {t} : next[s] = defs[s]
BY DEF Step

LEMMA CreateTable ==
  ASSUME NEW defs, Fine(defs), NEW t, t \in Tables, NEW u, Creates(u, t), defs[t] = NoTable,
         \A r \in u.item.refs : defs[r.to].exists, NEW next, next = Applied(u, defs)
  PROVE  Step(t, Op("drop_table", t, None), u, defs, next, u.item)
<1>1. Undoes(Op("drop_table", t, None), u, defs)
  BY DropCreated
<1>2. u.table = t /\ u.item = Altered(u, defs[u.table])
  BY DEF Creates, Altered
<1>. QED  BY <1>1, <1>2, StepBy

LEMMA CreateIndex ==
  ASSUME NEW defs, Fine(defs), NEW t, t \in Tables, NEW x, x \notin defs[t].indexes,
         NEW next, next = Applied(Op("create_index", t, x), defs)
  PROVE  Step(t, Op("drop_index", t, x), Op("create_index", t, x), defs, next, Indexed(defs[t], x))
<1>1. Undoes(Op("drop_index", t, x), Op("create_index", t, x), defs)
  BY DropIndexed
<1>2. Op("create_index", t, x).table = t /\ Indexed(defs[t], x) = Altered(Op("create_index", t, x), defs[t])
  BY DEF Indexed, Altered, Op
<1>. QED  BY <1>1, <1>2, StepBy

LEMMA AddColumn ==
  ASSUME NEW defs, Fine(defs), NEW t, t \in Tables, NEW C, NEW K, NEW Q, NEW R, NEW I,
         defs[t] = Table(C, K, Q, R, I), NEW x, \A c \in C : c.name # x.name,
         NEW next, next = Applied(Op("add_column", t, x), defs)
  PROVE  Step(t, Op("drop_column", t, x.name), Op("add_column", t, x), defs, next,
              Table(C \cup {x}, K, Q, R, I))
<1>1. Op("add_column", t, x).table = t
  BY DEF Op
<1>2. x.name \notin Columns(defs[t])
  BY TableParts DEF Columns
<1>3. Undoes(Op("drop_column", t, x.name), Op("add_column", t, x), defs)
  BY <1>2, DropAdded
<1>. QED  BY <1>1, <1>3, ColumnAdded, StepBy

LEMMA AddUnique ==
  ASSUME NEW defs, Fine(defs), NEW t, t \in Tables, NEW C, NEW K, NEW Q, NEW R, NEW I,
         defs[t] = Table(C, K, Q, R, I), NEW x, x \notin Q,
         NEW next, next = Applied(Op("add_unique", t, x), defs)
  PROVE  Step(t, Op("drop_unique", t, x), Op("add_unique", t, x), defs, next,
              Table(C, K, Q \cup {x}, R, I))
<1>1. Op("add_unique", t, x).table = t
  BY DEF Op
<1>2. x \notin defs[t].uniques
  BY TableParts
<1>3. Undoes(Op("drop_unique", t, x), Op("add_unique", t, x), defs)
  BY <1>2, DropUniqued
<1>. QED  BY <1>1, <1>3, UniqueAdded, StepBy

LEMMA AddCheck ==
  ASSUME NEW defs, Fine(defs), NEW t, t \in Tables, NEW C, NEW K, NEW Q, NEW R, NEW I,
         defs[t] = Table(C, K, Q, R, I), NEW x, \A c \in K : c.column # x.column,
         NEW next, next = Applied(Op("add_check", t, x), defs)
  PROVE  Step(t, Op("drop_check", t, x.column), Op("add_check", t, x), defs, next,
              Table(C, K \cup {x}, Q, R, I))
<1>1. Op("add_check", t, x).table = t
  BY DEF Op
<1>2. \A c \in defs[t].checks : c.column # x.column
  BY TableParts
<1>3. Undoes(Op("drop_check", t, x.column), Op("add_check", t, x), defs)
  BY <1>2, DropChecked
<1>. QED  BY <1>1, <1>3, CheckAdded, StepBy

LEMMA DropCheck ==
  ASSUME NEW defs, Fine(defs), NEW t, t \in Tables, NEW C, NEW K, NEW Q, NEW R, NEW I,
         defs[t] = Table(C, K, Q, R, I), NEW x, x \in K, \A c \in K : c.column = x.column => c = x,
         NEW next, next = Applied(Op("drop_check", t, x.column), defs)
  PROVE  Step(t, Op("add_check", t, x), Op("drop_check", t, x.column), defs, next,
              Table(C, { c \in K : c.column # x.column }, Q, R, I))
<1>1. Op("drop_check", t, x.column).table = t
  BY DEF Op
<1>2. x \in defs[t].checks /\ \A c \in defs[t].checks : c.column = x.column => c = x
  BY TableParts
<1>3. Undoes(Op("add_check", t, x), Op("drop_check", t, x.column), defs)
  BY <1>2, CheckDropped
<1>. QED  BY <1>1, <1>3, CheckRemoved, StepBy

LEMMA AddRef ==
  ASSUME NEW defs, Fine(defs), NEW t, t \in Tables, NEW C, NEW K, NEW Q, NEW R, NEW I,
         defs[t] = Table(C, K, Q, R, I), NEW x, \A r \in R : r.column # x.column,
         x.to \in Tables, defs[x.to].exists,
         NEW next, next = Applied(Op("add_ref", t, x), defs)
  PROVE  Step(t, Op("drop_ref", t, x.column), Op("add_ref", t, x), defs, next,
              Table(C, K, Q, R \cup {x}, I))
<1>1. Op("add_ref", t, x).table = t
  BY DEF Op
<1>2. \A r \in defs[t].refs : r.column # x.column
  BY TableParts
<1>3. Undoes(Op("drop_ref", t, x.column), Op("add_ref", t, x), defs)
  BY <1>2, DropReferred
<1>. QED  BY <1>1, <1>3, RefAdded, StepBy

LEMMA SetNull ==
  ASSUME NEW defs, Fine(defs), NEW t, t \in Tables, NEW C, NEW K, NEW Q, NEW R, NEW I,
         defs[t] = Table(C, K, Q, R, I), NEW x, \E c \in C : c.name = x,
         \A c \in C : IsColumn(c) /\ (c.name = x => c.null = FALSE),
         NEW next, next = Applied(Op("set_null", t, x), defs)
  PROVE  Step(t, Op("set_not_null", t, x), Op("set_null", t, x), defs, next,
              Table(Freed(C, x), K, Q, R, I))
<1>1. Op("set_null", t, x).table = t
  BY DEF Op
<1>2. defs[t].columns = C
  BY TableParts
<1>3. x \in Columns(defs[t])
  BY <1>2 DEF Columns
<1>4. Undoes(Op("set_not_null", t, x), Op("set_null", t, x), defs)
  BY <1>2, <1>3, RequireFreed
<1>. QED  BY <1>1, <1>4, ColumnFreed, StepBy

LEMMA Revision2 ==
  /\ Reversed(Upgrade2, Downgrade2, SchemaAt[1])
  /\ SchemaAt[2] = Replay(Upgrade2, SchemaAt[1])
  /\ SchemaAt[2]["resume_profiles"]
       = Table(Required({"id", "user_id", "resume_text"}) \cup timestamp_columns
                 \cup {With("Resume", "title")},
               {}, {{"id"}, {"user_id"}}, {Ref("user_id", "users")}, {})
  /\ \A t \in Tables \ {"resume_profiles"} : SchemaAt[2][t] = SchemaAt[1][t]
<1>. DEFINE S == SchemaAt[1]
            T == Trail(Upgrade2, S)
            title == With("Resume", "title")
            u == Op("add_column", "resume_profiles", title)
            C == Required({"id", "user_id", "resume_text"}) \cup timestamp_columns
            profiles == Table(C, {}, {{"id"}, {"user_id"}}, {Ref("user_id", "users")}, {})
<1>1. Long(Upgrade2, 1) /\ Long(Downgrade2, 1)
  <2>1. Upgrade2 = [i \in 1..1 |-> Upgrade2[i]]
    BY DEF Upgrade2
  <2>2. Downgrade2 = [i \in 1..1 |-> Downgrade2[i]]
    BY DEF Downgrade2
  <2>. QED  BY <2>1, <2>2, IsLong
<1>2. Upgrade2[1] = u /\ Downgrade2[1] = Op("drop_column", "resume_profiles", title.name)
  BY DEF Upgrade2, Downgrade2, With, Col
<1>3. Fine(S) /\ S = [t \in Tables |-> S[t]]
  BY Revision1, ReversedReplay
<1>. HIDE DEF u, S, T, title, C
<1>4. T[0] = S /\ T[1] = Applied(u, T[0]) /\ SchemaAt[2] = T[1]
  <2>1. T[0] = S /\ \A n \in 1..1 : T[n] = Applied(Upgrade2[n], T[n - 1])
    BY <1>1, Walk DEF T
  <2>2. SchemaAt[2] = T[1]
    BY <1>1, Walk, Schemas DEF T, S
  <2>. QED  BY <1>2, <2>1, <2>2
<1>5. S["resume_profiles"] = profiles /\ "resume_profiles" \in Tables
  BY Revision1 DEF S, C, CreateResumeProfiles, Op, Tables
<1>6. Undoes(Op("drop_column", "resume_profiles", title.name), u, S)
  <2>1. title.name \notin { c.name : c \in C }
    BY DEF title, C, With, Col, Required, timestamp_columns
  <2>2. title.name \notin Columns(S["resume_profiles"])
    BY <1>5, <2>1, TableParts DEF Columns
  <2>. QED  BY <1>3, <1>5, <2>2, DropAdded DEF u
<1>7. Reversed(Upgrade2, Downgrade2, S)
  <2>1. \A i \in 1..1 : Undoes(Downgrade2[2 - i], Upgrade2[i], T[i - 1])
    BY <1>2, <1>4, <1>6
  <2>2. Len(Upgrade2) = 1 /\ Len(Downgrade2) = 1
    BY <1>1 DEF Long
  <2>. QED  BY <1>3, <2>1, <2>2 DEF Reversed, T
<1>8. \A t \in Tables :
        SchemaAt[2][t] = IF t = "resume_profiles" THEN Altered(u, S[t]) ELSE S[t]
  <2>1. u.table = "resume_profiles"
    BY DEF u, Op
  <2>. QED  BY <1>4, <2>1, Altering
<1>9. Altered(u, profiles)
        = Table(C \cup {title}, {}, {{"id"}, {"user_id"}}, {Ref("user_id", "users")}, {})
  BY ColumnAdded DEF u
<1>. QED  BY <1>5, <1>7, <1>8, <1>9, Schemas DEF S, C, title

email            == Col("email", TRUE, None)
password_hash    == Col("password_hash", TRUE, None)
role             == With("user", "role")
credits          == With("0", "credits")
discount_percent == With("0", "pending_top_up_discount_percent")
roleCheck        == Check("role", {"user", "admin"})
creditsCheck     == Check("credits", NonNegative)
percentCheck     == Check("pending_top_up_discount_percent", Percent)

LEMMA AlterUsers3Is ==
  /\ Long(AlterUsers3, 10)
  /\ AlterUsers3[1] = Op("set_null", "users", "telegram_id")
  /\ AlterUsers3[2] = Op("add_column", "users", email)
  /\ AlterUsers3[3] = Op("add_column", "users", password_hash)
  /\ AlterUsers3[4] = Op("add_column", "users", role)
  /\ AlterUsers3[5] = Op("add_column", "users", credits)
  /\ AlterUsers3[6] = Op("add_column", "users", discount_percent)
  /\ AlterUsers3[7] = Op("add_unique", "users", {"email"})
  /\ AlterUsers3[8] = Op("add_check", "users", roleCheck)
  /\ AlterUsers3[9] = Op("add_check", "users", creditsCheck)
  /\ AlterUsers3[10] = Op("add_check", "users", percentCheck)
<1>1. AlterUsers3 = [i \in 1..10 |-> AlterUsers3[i]]
  BY DEF AlterUsers3
<1>2. Long(AlterUsers3, 10)
  BY <1>1, IsLong
<1>. QED
  BY <1>2 DEF AlterUsers3, email, password_hash, role, credits, discount_percent,
              roleCheck, creditsCheck, percentCheck

LEMMA RestoreUsers3Is ==
  /\ Long(RestoreUsers3, 10)
  /\ RestoreUsers3[1] = Op("drop_check", "users", percentCheck.column)
  /\ RestoreUsers3[2] = Op("drop_check", "users", creditsCheck.column)
  /\ RestoreUsers3[3] = Op("drop_check", "users", roleCheck.column)
  /\ RestoreUsers3[4] = Op("drop_unique", "users", {"email"})
  /\ RestoreUsers3[5] = Op("drop_column", "users", discount_percent.name)
  /\ RestoreUsers3[6] = Op("drop_column", "users", credits.name)
  /\ RestoreUsers3[7] = Op("drop_column", "users", role.name)
  /\ RestoreUsers3[8] = Op("drop_column", "users", password_hash.name)
  /\ RestoreUsers3[9] = Op("drop_column", "users", email.name)
  /\ RestoreUsers3[10] = Op("set_not_null", "users", "telegram_id")
<1>1. RestoreUsers3 = [i \in 1..10 |-> RestoreUsers3[i]]
  BY DEF RestoreUsers3
<1>2. Long(RestoreUsers3, 10)
  BY <1>1, IsLong
<1>. QED
  BY <1>2 DEF RestoreUsers3, email, password_hash, role, credits, discount_percent,
              roleCheck, creditsCheck, percentCheck, With, Col, Check

LEMMA Upgrade3Is ==
  /\ Long(Upgrade3, 17)
  /\ \A i \in 1..10 : Upgrade3[i] = AlterUsers3[i]
  /\ Upgrade3[11] = CreatePaymentIntents
  /\ Upgrade3[12] = Op("create_index", "payment_intents", IntentsIndex)
  /\ Upgrade3[13] = CreatePromoCodes
  /\ Upgrade3[14] = CreateCreditTransactions
  /\ Upgrade3[15] = Op("create_index", "credit_transactions", CreatedIndex)
  /\ Upgrade3[16] = CreatePromoRedemptions
  /\ Upgrade3[17] = Op("create_index", "promo_redemptions", CreatedIndex)
<1>. DEFINE Rest == <<CreatePaymentIntents, Op("create_index", "payment_intents", IntentsIndex),
                      CreatePromoCodes, CreateCreditTransactions,
                      Op("create_index", "credit_transactions", CreatedIndex),
                      CreatePromoRedemptions, Op("create_index", "promo_redemptions", CreatedIndex)>>
<1>1. Rest = [i \in 1..7 |-> Rest[i]] /\ Upgrade3 = Join(AlterUsers3, Rest)
  BY DEF Upgrade3, Join
<1>2. /\ Rest[1] = CreatePaymentIntents
      /\ Rest[2] = Op("create_index", "payment_intents", IntentsIndex)
      /\ Rest[3] = CreatePromoCodes /\ Rest[4] = CreateCreditTransactions
      /\ Rest[5] = Op("create_index", "credit_transactions", CreatedIndex)
      /\ Rest[6] = CreatePromoRedemptions
      /\ Rest[7] = Op("create_index", "promo_redemptions", CreatedIndex)
  OBVIOUS
<1>. HIDE DEF Rest
<1>3. Long(Rest, 7)
  BY <1>1, IsLong
<1>4. Long(AlterUsers3, 10)
  BY AlterUsers3Is
<1>5. Long(Join(AlterUsers3, Rest), 10 + 7) /\ Follows(Join(AlterUsers3, Rest), AlterUsers3, 0, 10) /\ Follows(Join(AlterUsers3, Rest), Rest, 10, 7)
  BY <1>3, <1>4, Joined
<1>. QED  BY <1>1, <1>2, <1>5 DEF Follows

LEMMA Downgrade3Is ==
  /\ Long(Downgrade3, 17)
  /\ \A i \in 1..10 : Downgrade3[7 + i] = RestoreUsers3[i]
  /\ Downgrade3[7] = Op("drop_table", "payment_intents", None)
  /\ Downgrade3[6] = Op("drop_index", "payment_intents", IntentsIndex)
  /\ Downgrade3[5] = Op("drop_table", "promo_codes", None)
  /\ Downgrade3[4] = Op("drop_table", "credit_transactions", None)
  /\ Downgrade3[3] = Op("drop_index", "credit_transactions", CreatedIndex)
  /\ Downgrade3[2] = Op("drop_table", "promo_redemptions", None)
  /\ Downgrade3[1] = Op("drop_index", "promo_redemptions", CreatedIndex)
<1>. DEFINE First == <<Op("drop_index", "promo_redemptions", CreatedIndex),
                       Op("drop_table", "promo_redemptions", None),
                       Op("drop_index", "credit_transactions", CreatedIndex),
                       Op("drop_table", "credit_transactions", None),
                       Op("drop_table", "promo_codes", None),
                       Op("drop_index", "payment_intents", IntentsIndex),
                       Op("drop_table", "payment_intents", None)>>
<1>1. First = [i \in 1..7 |-> First[i]] /\ Downgrade3 = Join(First, RestoreUsers3)
  BY DEF Downgrade3, Join
<1>2. /\ First[1] = Op("drop_index", "promo_redemptions", CreatedIndex)
      /\ First[2] = Op("drop_table", "promo_redemptions", None)
      /\ First[3] = Op("drop_index", "credit_transactions", CreatedIndex)
      /\ First[4] = Op("drop_table", "credit_transactions", None)
      /\ First[5] = Op("drop_table", "promo_codes", None)
      /\ First[6] = Op("drop_index", "payment_intents", IntentsIndex)
      /\ First[7] = Op("drop_table", "payment_intents", None)
  OBVIOUS
<1>. HIDE DEF First
<1>3. Long(First, 7)
  BY <1>1, IsLong
<1>4. Long(RestoreUsers3, 10)
  BY RestoreUsers3Is
<1>5. Long(Join(First, RestoreUsers3), 7 + 10) /\ Follows(Join(First, RestoreUsers3), First, 0, 7) /\ Follows(Join(First, RestoreUsers3), RestoreUsers3, 7, 10)
  BY <1>3, <1>4, Joined
<1>. QED  BY <1>1, <1>2, <1>5 DEF Follows

UsersColumns1 ==
  Required({"id", "telegram_id"}) \cup Optional({"username", "first_name", "language_code"})
    \cup {With("free", "plan")} \cup timestamp_columns

UsersColumns3 ==
  Required({"id"}) \cup Optional({"telegram_id", "username", "first_name", "language_code"})
    \cup {With("free", "plan")} \cup timestamp_columns

LEMMA UsersColumns1Are ==
  UsersColumns1
    = {Col("id", FALSE, None), Col("telegram_id", FALSE, None),
       Col("username", TRUE, None), Col("first_name", TRUE, None), Col("language_code", TRUE, None),
       Col("plan", FALSE, "free"), Col("created_at", FALSE, "now"), Col("updated_at", FALSE, "now")}
BY DEF UsersColumns1, Required, Optional, With, timestamp_columns

LEMMA FreedUsers == Freed(UsersColumns1, "telegram_id") = UsersColumns3
<1>. DEFINE free(c) == IF c.name = "telegram_id" THEN [c EXCEPT !.null = TRUE] ELSE c
<1>1. UsersColumns1 = {Col("id", FALSE, None), Col("telegram_id", FALSE, None),
        Col("username", TRUE, None), Col("first_name", TRUE, None), Col("language_code", TRUE, None),
        Col("plan", FALSE, "free"), Col("created_at", FALSE, "now"), Col("updated_at", FALSE, "now")}
  BY UsersColumns1Are
<1>2. UsersColumns3 = {Col("id", FALSE, None), Col("telegram_id", TRUE, None),
        Col("username", TRUE, None), Col("first_name", TRUE, None), Col("language_code", TRUE, None),
        Col("plan", FALSE, "free"), Col("created_at", FALSE, "now"), Col("updated_at", FALSE, "now")}
  BY DEF UsersColumns3, Required, Optional, With, timestamp_columns
<1>3. free(Col("telegram_id", FALSE, None)) = Col("telegram_id", TRUE, None)
  BY DEF Col
<1>4. \A n, b, v : n # "telegram_id" => free(Col(n, b, v)) = Col(n, b, v)
  BY DEF Col
<1>. HIDE DEF free
<1>5. Freed(UsersColumns1, "telegram_id") = { free(c) : c \in UsersColumns1 }
  BY DEF Freed, free
<1>6. Freed(UsersColumns1, "telegram_id")
        = {Col("id", FALSE, None), Col("telegram_id", TRUE, None),
           Col("username", TRUE, None), Col("first_name", TRUE, None), Col("language_code", TRUE, None),
           Col("plan", FALSE, "free"), Col("created_at", FALSE, "now"), Col("updated_at", FALSE, "now")}
  <2>1. { free(c) : c \in UsersColumns1 }
         = {free(Col("id", FALSE, None)), free(Col("telegram_id", FALSE, None)),
            free(Col("username", TRUE, None)), free(Col("first_name", TRUE, None)),
            free(Col("language_code", TRUE, None)), free(Col("plan", FALSE, "free")),
            free(Col("created_at", FALSE, "now")), free(Col("updated_at", FALSE, "now"))}
    BY <1>1
  <2>2. /\ free(Col("id", FALSE, None)) = Col("id", FALSE, None)
        /\ free(Col("username", TRUE, None)) = Col("username", TRUE, None)
        /\ free(Col("first_name", TRUE, None)) = Col("first_name", TRUE, None)
        /\ free(Col("language_code", TRUE, None)) = Col("language_code", TRUE, None)
        /\ free(Col("plan", FALSE, "free")) = Col("plan", FALSE, "free")
        /\ free(Col("created_at", FALSE, "now")) = Col("created_at", FALSE, "now")
        /\ free(Col("updated_at", FALSE, "now")) = Col("updated_at", FALSE, "now")
    BY <1>4
  <2>. QED  BY <1>3, <1>5, <2>1, <2>2
<1>. QED  BY <1>2, <1>6

Users3 ==
  Table(UsersColumns3 \cup {email} \cup {password_hash} \cup {role} \cup {credits}
          \cup {discount_percent},
        {Check("plan", PLAN_CHECK)} \cup {roleCheck} \cup {creditsCheck} \cup {percentCheck},
        {{"id"}, {"telegram_id"}} \cup {{"email"}}, {}, {})

LEMMA UsersAltered ==
  ASSUME NEW T, Fine(T[0]),
         T[0]["users"] = Table(UsersColumns1, {Check("plan", PLAN_CHECK)},
                               {{"id"}, {"telegram_id"}}, {}, {}),
         \A n \in 1..10 : T[n] = Applied(AlterUsers3[n], T[n - 1])
  PROVE  /\ \A n \in 1..10 : Undoes(RestoreUsers3[11 - n], AlterUsers3[n], T[n - 1])
         /\ Fine(T[10]) /\ T[10]["users"] = Users3
         /\ \A s \in Tables \ {"users"} : T[10][s] = T[0][s]
<1>. DEFINE K0 == {Check("plan", PLAN_CHECK)}
            Q0 == {{"id"}, {"telegram_id"}}
            C0 == UsersColumns3
            C1 == C0 \cup {email}
            C2 == C1 \cup {password_hash}
            C3 == C2 \cup {role}
            C4 == C3 \cup {credits}
            C5 == C4 \cup {discount_percent}
            q == {"email"}
            Q1 == Q0 \cup {q}
            K1 == K0 \cup {roleCheck}
            K2 == K1 \cup {creditsCheck}
            K3 == K2 \cup {percentCheck}
<1>1. /\ T[1] = Applied(Op("set_null", "users", "telegram_id"), T[0])
      /\ T[2] = Applied(Op("add_column", "users", email), T[1])
      /\ T[3] = Applied(Op("add_column", "users", password_hash), T[2])
      /\ T[4] = Applied(Op("add_column", "users", role), T[3])
      /\ T[5] = Applied(Op("add_column", "users", credits), T[4])
      /\ T[6] = Applied(Op("add_column", "users", discount_percent), T[5])
      /\ T[7] = Applied(Op("add_unique", "users", q), T[6])
      /\ T[8] = Applied(Op("add_check", "users", roleCheck), T[7])
      /\ T[9] = Applied(Op("add_check", "users", creditsCheck), T[8])
      /\ T[10] = Applied(Op("add_check", "users", percentCheck), T[9])
  BY AlterUsers3Is
<1>2. "users" \in Tables
  BY DEF Tables
<1>3. /\ \A c \in C0 : c.name # email.name
      /\ \A c \in C1 : c.name # password_hash.name
      /\ \A c \in C2 : c.name # role.name
      /\ \A c \in C3 : c.name # credits.name
      /\ \A c \in C4 : c.name # discount_percent.name
  BY DEF UsersColumns3, Required, Optional, With, Col, timestamp_columns,
         email, password_hash, role, credits, discount_percent
<1>4. q \notin Q0
  OBVIOUS
<1>5. /\ \A c \in K0 : c.column # roleCheck.column
      /\ \A c \in K1 : c.column # creditsCheck.column
      /\ \A c \in K2 : c.column # percentCheck.column
  BY DEF Check, roleCheck, creditsCheck, percentCheck
<1>6. /\ \A c \in UsersColumns1 : IsColumn(c) /\ (c.name = "telegram_id" => c.null = FALSE)
      /\ \E c \in UsersColumns1 : c.name = "telegram_id"
  <2>1. \A n, b, v : IsColumn(Col(n, b, v)) /\ Col(n, b, v).name = n
    BY DEF Col, IsColumn
  <2>2. Col("telegram_id", FALSE, None).null = FALSE
    BY DEF Col
  <2>3. \A c \in UsersColumns1 : IsColumn(c)
    BY <2>1, UsersColumns1Are
  <2>4. \A c \in UsersColumns1 : c.name = "telegram_id" => c = Col("telegram_id", FALSE, None)
    <3>1. /\ Col("id", FALSE, None).name = "id" /\ Col("username", TRUE, None).name = "username"
          /\ Col("first_name", TRUE, None).name = "first_name"
          /\ Col("language_code", TRUE, None).name = "language_code"
          /\ Col("plan", FALSE, "free").name = "plan"
          /\ Col("created_at", FALSE, "now").name = "created_at"
          /\ Col("updated_at", FALSE, "now").name = "updated_at"
      BY DEF Col
    <3>. QED  BY <3>1, UsersColumns1Are
  <2>5. Col("telegram_id", FALSE, None) \in UsersColumns1
    BY UsersColumns1Are
  <2>. QED  BY <2>1, <2>2, <2>3, <2>4, <2>5
<1>. HIDE DEF C0, C1, C2, C3, C4, C5, q, Q0, Q1, K0, K1, K2, K3
<1>7. Step("users", Op("set_not_null", "users", "telegram_id"), Op("set_null", "users", "telegram_id"),
           T[0], T[1], Table(C0, K0, Q0, {}, {}))
  BY <1>1, <1>2, <1>6, SetNull, FreedUsers DEF C0, K0, Q0
<1>8. Step("users", Op("drop_column", "users", email.name), Op("add_column", "users", email),
           T[1], T[2], Table(C1, K0, Q0, {}, {}))
  BY <1>1, <1>2, <1>3, <1>7, AddColumn, StepLeaves DEF C1
<1>9. Step("users", Op("drop_column", "users", password_hash.name),
           Op("add_column", "users", password_hash), T[2], T[3], Table(C2, K0, Q0, {}, {}))
  BY <1>1, <1>2, <1>3, <1>8, AddColumn, StepLeaves DEF C2
<1>10. Step("users", Op("drop_column", "users", role.name), Op("add_column", "users", role),
            T[3], T[4], Table(C3, K0, Q0, {}, {}))
  BY <1>1, <1>2, <1>3, <1>9, AddColumn, StepLeaves DEF C3
<1>11. Step("users", Op("drop_column", "users", credits.name), Op("add_column", "users", credits),
            T[4], T[5], Table(C4, K0, Q0, {}, {}))
  BY <1>1, <1>2, <1>3, <1>10, AddColumn, StepLeaves DEF C4
<1>12. Step("users", Op("drop_column", "users", discount_percent.name),
            Op("add_column", "users", discount_percent), T[5], T[6], Table(C5, K0, Q0, {}, {}))
  BY <1>1, <1>2, <1>3, <1>11, AddColumn, StepLeaves DEF C5
<1>13. Step("users", Op("drop_unique", "users", q), Op("add_unique", "users", q),
            T[6], T[7], Table(C5, K0, Q1, {}, {}))
  BY <1>1, <1>2, <1>4, <1>12, AddUnique, StepLeaves DEF Q1
<1>14. Step("users", Op("drop_check", "users", roleCheck.column), Op("add_check", "users", roleCheck),
            T[7], T[8], Table(C5, K1, Q1, {}, {}))
  BY <1>1, <1>2, <1>5, <1>13, AddCheck, StepLeaves DEF K1
<1>15. Step("users", Op("drop_check", "users", creditsCheck.column),
            Op("add_check", "users", creditsCheck), T[8], T[9], Table(C5, K2, Q1, {}, {}))
  BY <1>1, <1>2, <1>5, <1>14, AddCheck, StepLeaves DEF K2
<1>16. Step("users", Op("drop_check", "users", percentCheck.column),
            Op("add_check", "users", percentCheck), T[9], T[10], Table(C5, K3, Q1, {}, {}))
  BY <1>1, <1>2, <1>5, <1>15, AddCheck, StepLeaves DEF K3
<1>17. \A n \in 1..10 : Undoes(RestoreUsers3[11 - n], AlterUsers3[n], T[n - 1])
  <2>1. \A n \in 1..10 : n = 1 \/ n = 2 \/ n = 3 \/ n = 4 \/ n = 5 \/ n = 6 \/ n = 7 \/ n = 8
                         \/ n = 9 \/ n = 10
    OBVIOUS
  <2>2. /\ Undoes(RestoreUsers3[10], AlterUsers3[1], T[0])
        /\ Undoes(RestoreUsers3[9], AlterUsers3[2], T[1])
        /\ Undoes(RestoreUsers3[8], AlterUsers3[3], T[2])
        /\ Undoes(RestoreUsers3[7], AlterUsers3[4], T[3])
        /\ Undoes(RestoreUsers3[6], AlterUsers3[5], T[4])
        /\ Undoes(RestoreUsers3[5], AlterUsers3[6], T[5])
        /\ Undoes(RestoreUsers3[4], AlterUsers3[7], T[6])
        /\ Undoes(RestoreUsers3[3], AlterUsers3[8], T[7])
        /\ Undoes(RestoreUsers3[2], AlterUsers3[9], T[8])
        /\ Undoes(RestoreUsers3[1], AlterUsers3[10], T[9])
    BY <1>7, <1>8, <1>9, <1>10, <1>11, <1>12, <1>13, <1>14, <1>15, <1>16, StepLeaves,
       AlterUsers3Is, RestoreUsers3Is DEF q
  <2>. QED  BY <2>1, <2>2
<1>18. Fine(T[10]) /\ T[10]["users"] = Users3
  <2>1. Fine(T[10]) /\ T[10]["users"] = Table(C5, K3, Q1, {}, {})
    BY <1>16, StepLeaves
  <2>2. Table(C5, K3, Q1, {}, {}) = Users3
    BY DEF Users3, K0, K1, K2, K3, q, Q0, Q1, C0, C1, C2, C3, C4, C5
  <2>. QED  BY <2>1, <2>2
<1>19. \A s \in Tables \ {"users"} : T[10][s] = T[0][s]
  BY <1>7, <1>8, <1>9, <1>10, <1>11, <1>12, <1>13, <1>14, <1>15, <1>16, StepLeaves
<1>. QED  BY <1>17, <1>18, <1>19

Revision3Tables ==
  {"payment_intents", "promo_codes", "credit_transactions", "promo_redemptions"}

LEMMA Revision3 ==
  /\ Reversed(Upgrade3, Downgrade3, SchemaAt[2])
  /\ SchemaAt[3]["users"] = Users3
  /\ SchemaAt[3]["payment_intents"] = Indexed(CreatePaymentIntents.item, IntentsIndex)
  /\ SchemaAt[3]["promo_codes"] = CreatePromoCodes.item
  /\ SchemaAt[3]["credit_transactions"] = Indexed(CreateCreditTransactions.item, CreatedIndex)
  /\ SchemaAt[3]["promo_redemptions"] = Indexed(CreatePromoRedemptions.item, CreatedIndex)
  /\ \A t \in Tables \ ({"users"} \cup Revision3Tables) : SchemaAt[3][t] = SchemaAt[2][t]
<1>. DEFINE S == SchemaAt[2]
            T == Trail(Upgrade3, S)
            intents == Op("create_index", "payment_intents", IntentsIndex)
            ledger == Op("create_index", "credit_transactions", CreatedIndex)
            redemptions == Op("create_index", "promo_redemptions", CreatedIndex)
<1>1. Fine(S) /\ S = [t \in Tables |-> S[t]]
  BY Revision2, ReversedReplay
<1>2. {"users", "generation_requests", "payment_intents", "promo_codes", "credit_transactions",
       "promo_redemptions"} \subseteq Tables
  BY DEF Tables
<1>3. /\ S["users"] = Table(UsersColumns1, {Check("plan", PLAN_CHECK)},
                            {{"id"}, {"telegram_id"}}, {}, {})
      /\ S["generation_requests"].exists
      /\ \A t \in Revision3Tables : S[t] = NoTable
  <2>1. SchemaAt[1]["users"] = Table(UsersColumns1, {Check("plan", PLAN_CHECK)},
                                     {{"id"}, {"telegram_id"}}, {}, {})
    BY Revision1 DEF CreateUsers, Op, UsersColumns1
  <2>2. SchemaAt[1]["generation_requests"].exists
    BY Revision1, Creations, IndexedTable DEF Creates, Refers
  <2>3. \A t \in Revision3Tables : SchemaAt[1][t] = NoTable
    BY Revision1 DEF Revision3Tables
  <2>4. \A t \in {"users", "generation_requests"} \cup Revision3Tables : S[t] = SchemaAt[1][t]
    BY <1>2, Revision2 DEF Revision3Tables
  <2>. QED  BY <2>1, <2>2, <2>3, <2>4
<1>. HIDE DEF S, T, intents, ledger, redemptions
<1>4. T[0] = S /\ \A n \in 1..17 : T[n] = Applied(Upgrade3[n], T[n - 1])
  BY Upgrade3Is, Walk DEF T
<1>5. SchemaAt[3] = T[17]
  BY Upgrade3Is, Walk, Schemas DEF T, S
<1>6. /\ \A n \in 1..10 : Undoes(RestoreUsers3[11 - n], AlterUsers3[n], T[n - 1])
      /\ Fine(T[10]) /\ T[10]["users"] = Users3
      /\ \A s \in Tables \ {"users"} : T[10][s] = T[0][s]
  <2>1. \A n \in 1..10 : T[n] = Applied(AlterUsers3[n], T[n - 1])
    BY <1>4, Upgrade3Is
  <2>2. Fine(T[0]) /\ T[0]["users"] = Table(UsersColumns1, {Check("plan", PLAN_CHECK)},
                                            {{"id"}, {"telegram_id"}}, {}, {})
    BY <1>1, <1>3, <1>4
  <2>. QED  BY <2>1, <2>2, UsersAltered
<1>7. /\ T[11] = Applied(CreatePaymentIntents, T[10]) /\ T[12] = Applied(intents, T[11])
      /\ T[13] = Applied(CreatePromoCodes, T[12]) /\ T[14] = Applied(CreateCreditTransactions, T[13])
      /\ T[15] = Applied(ledger, T[14]) /\ T[16] = Applied(CreatePromoRedemptions, T[15])
      /\ T[17] = Applied(redemptions, T[16])
  BY <1>4, Upgrade3Is DEF intents, ledger, redemptions
<1>8. /\ T[10]["users"].exists /\ T[10]["generation_requests"].exists
      /\ \A t \in Revision3Tables : T[10][t] = NoTable
  BY <1>2, <1>3, <1>4, <1>6, TableParts DEF Users3, Revision3Tables
<1>. HIDE DEF S
<1>9. Step("payment_intents", Op("drop_table", "payment_intents", None), CreatePaymentIntents,
           T[10], T[11], CreatePaymentIntents.item)
  <2>1. \A r \in CreatePaymentIntents.item.refs : T[10][r.to].exists
    BY <1>8, CreatedLinks DEF Links
  <2>. QED  BY <1>2, <1>6, <1>7, <1>8, <2>1, CreateTable, Creations DEF Revision3Tables
<1>10. Step("payment_intents", Op("drop_index", "payment_intents", IntentsIndex), intents,
            T[11], T[12], Indexed(CreatePaymentIntents.item, IntentsIndex))
  <2>1. IntentsIndex \notin CreatePaymentIntents.item.indexes
    BY NoIndexes
  <2>2. Fine(T[11]) /\ T[11]["payment_intents"] = CreatePaymentIntents.item
    BY <1>9, StepLeaves
  <2>. QED  BY <1>2, <1>7, <2>1, <2>2, CreateIndex DEF intents
<1>11. Step("promo_codes", Op("drop_table", "promo_codes", None), CreatePromoCodes,
            T[12], T[13], CreatePromoCodes.item)
  <2>1. \A r \in CreatePromoCodes.item.refs : T[12][r.to].exists
    BY CreatedLinks DEF Links
  <2>2. Fine(T[12]) /\ T[12]["promo_codes"] = NoTable
    BY <1>2, <1>8, <1>9, <1>10, StepLeaves DEF Revision3Tables
  <2>. QED  BY <1>2, <1>7, <2>1, <2>2, CreateTable, Creations
<1>12. Step("credit_transactions", Op("drop_table", "credit_transactions", None),
            CreateCreditTransactions, T[13], T[14], CreateCreditTransactions.item)
  <2>1. T[13]["users"].exists /\ T[13]["generation_requests"].exists
    BY <1>2, <1>8, <1>9, <1>10, <1>11, StepLeaves
  <2>2. T[13]["payment_intents"].exists /\ T[13]["promo_codes"].exists
    BY <1>2, <1>10, <1>11, StepLeaves, Creations, IndexedTable DEF Creates, Refers
  <2>3. \A r \in CreateCreditTransactions.item.refs : T[13][r.to].exists
    BY <2>1, <2>2, CreatedLinks DEF Links
  <2>4. Fine(T[13]) /\ T[13]["credit_transactions"] = NoTable
    BY <1>2, <1>8, <1>9, <1>10, <1>11, StepLeaves DEF Revision3Tables
  <2>. QED  BY <1>2, <1>7, <2>3, <2>4, CreateTable, Creations
<1>13. Step("credit_transactions", Op("drop_index", "credit_transactions", CreatedIndex), ledger,
            T[14], T[15], Indexed(CreateCreditTransactions.item, CreatedIndex))
  <2>1. CreatedIndex \notin CreateCreditTransactions.item.indexes
    BY NoIndexes
  <2>2. Fine(T[14]) /\ T[14]["credit_transactions"] = CreateCreditTransactions.item
    BY <1>12, StepLeaves
  <2>. QED  BY <1>2, <1>7, <2>1, <2>2, CreateIndex DEF ledger
<1>14. Step("promo_redemptions", Op("drop_table", "promo_redemptions", None), CreatePromoRedemptions,
            T[15], T[16], CreatePromoRedemptions.item)
  <2>1. T[15]["users"].exists
    BY <1>2, <1>8, <1>9, <1>10, <1>11, <1>12, <1>13, StepLeaves
  <2>2. T[15]["promo_codes"].exists
    BY <1>2, <1>11, <1>12, <1>13, StepLeaves, Creations DEF Creates
  <2>3. \A r \in CreatePromoRedemptions.item.refs : T[15][r.to].exists
    BY <2>1, <2>2, CreatedLinks DEF Links
  <2>4. Fine(T[15]) /\ T[15]["promo_redemptions"] = NoTable
    BY <1>2, <1>8, <1>9, <1>10, <1>11, <1>12, <1>13, StepLeaves DEF Revision3Tables
  <2>. QED  BY <1>2, <1>7, <2>3, <2>4, CreateTable, Creations
<1>15. Step("promo_redemptions", Op("drop_index", "promo_redemptions", CreatedIndex), redemptions,
            T[16], T[17], Indexed(CreatePromoRedemptions.item, CreatedIndex))
  <2>1. CreatedIndex \notin CreatePromoRedemptions.item.indexes
    BY NoIndexes
  <2>2. Fine(T[16]) /\ T[16]["promo_redemptions"] = CreatePromoRedemptions.item
    BY <1>14, StepLeaves
  <2>. QED  BY <1>2, <1>7, <2>1, <2>2, CreateIndex DEF redemptions
<1>16. \A i \in 1..17 : Undoes(Downgrade3[18 - i], Upgrade3[i], T[i - 1])
  <2>1. \A i \in 1..10 : Undoes(Downgrade3[18 - i], Upgrade3[i], T[i - 1])
    <3>1. ASSUME NEW i \in 1..10 PROVE Downgrade3[18 - i] = RestoreUsers3[11 - i]
      <4>1. 11 - i \in 1..10 /\ 7 + (11 - i) = 18 - i
        OBVIOUS
      <4>2. Downgrade3[7 + (11 - i)] = RestoreUsers3[11 - i]
        BY <4>1, Downgrade3Is
      <4>. QED  BY <4>1, <4>2
    <3>. QED  BY <1>6, <3>1, Upgrade3Is
  <2>2. /\ Undoes(Downgrade3[7], Upgrade3[11], T[10]) /\ Undoes(Downgrade3[6], Upgrade3[12], T[11])
        /\ Undoes(Downgrade3[5], Upgrade3[13], T[12]) /\ Undoes(Downgrade3[4], Upgrade3[14], T[13])
        /\ Undoes(Downgrade3[3], Upgrade3[15], T[14]) /\ Undoes(Downgrade3[2], Upgrade3[16], T[15])
        /\ Undoes(Downgrade3[1], Upgrade3[17], T[16])
    BY <1>9, <1>10, <1>11, <1>12, <1>13, <1>14, <1>15, StepLeaves, Upgrade3Is, Downgrade3Is
    DEF intents, ledger, redemptions
  <2>3. \A i \in 1..17 : i \in 1..10 \/ i = 11 \/ i = 12 \/ i = 13 \/ i = 14 \/ i = 15 \/ i = 16
                         \/ i = 17
    OBVIOUS
  <2>. QED  BY <2>1, <2>2, <2>3
<1>17. Reversed(Upgrade3, Downgrade3, S)
  <2>1. Len(Upgrade3) = 17 /\ Len(Downgrade3) = 17
    BY Upgrade3Is, Downgrade3Is DEF Long
  <2>. QED  BY <1>1, <1>16, <2>1 DEF Reversed, T
<1>18. /\ T[17]["payment_intents"] = Indexed(CreatePaymentIntents.item, IntentsIndex)
       /\ T[17]["promo_codes"] = CreatePromoCodes.item
       /\ T[17]["credit_transactions"] = Indexed(CreateCreditTransactions.item, CreatedIndex)
       /\ T[17]["promo_redemptions"] = Indexed(CreatePromoRedemptions.item, CreatedIndex)
  BY <1>2, <1>10, <1>11, <1>12, <1>13, <1>14, <1>15, StepLeaves
<1>19. \A t \in Tables \ Revision3Tables : T[17][t] = T[10][t]
  BY <1>9, <1>10, <1>11, <1>12, <1>13, <1>14, <1>15, StepLeaves DEF Revision3Tables
<1>20. \A t \in Tables \ ({"users"} \cup Revision3Tables) : SchemaAt[3][t] = S[t]
  BY <1>4, <1>5, <1>6, <1>19
<1>21. SchemaAt[3]["users"] = Users3
  BY <1>2, <1>5, <1>6, <1>19 DEF Revision3Tables
<1>. QED  BY <1>5, <1>17, <1>18, <1>20, <1>21 DEF S

\* A check dropped and created again with other values, and its reverse.
LEMMA Rechecked ==
  ASSUME NEW t, t \in Tables, NEW C, NEW K, NEW Q, NEW R, NEW I, NEW old, NEW new,
         new.column = old.column, \A c \in K : c.column # old.column,
         NEW S0, NEW S1, NEW S2, Fine(S0), S0[t] = Table(C, K \cup {old}, Q, R, I),
         S1 = Applied(Op("drop_check", t, old.column), S0),
         S2 = Applied(Op("add_check", t, new), S1)
  PROVE  /\ Step(t, Op("add_check", t, old), Op("drop_check", t, old.column), S0, S1,
                 Table(C, K, Q, R, I))
         /\ Step(t, Op("drop_check", t, new.column), Op("add_check", t, new), S1, S2,
                 Table(C, K \cup {new}, Q, R, I))
<1>. DEFINE K1 == K \cup {old}
<1>1. old \in K1 /\ (\A c \in K1 : c.column = old.column => c = old)
      /\ { c \in K1 : c.column # old.column } = K
  OBVIOUS
<1>. HIDE DEF K1
<1>2. Step(t, Op("add_check", t, old), Op("drop_check", t, old.column), S0, S1,
           Table(C, { c \in K1 : c.column # old.column }, Q, R, I))
  BY <1>1, DropCheck DEF K1
<1>3. Step(t, Op("add_check", t, old), Op("drop_check", t, old.column), S0, S1, Table(C, K, Q, R, I))
  BY <1>1, <1>2
<1>4. \A c \in K : c.column # new.column
  OBVIOUS
<1>5. Fine(S1) /\ S1[t] = Table(C, K, Q, R, I)
  BY <1>3, StepLeaves
<1>. QED  BY <1>3, <1>4, <1>5, AddCheck

LEMMA RecheckIs ==
  ASSUME NEW t, NEW column, NEW values
  PROVE  /\ Long(Recheck(t, column, values), 2)
         /\ Recheck(t, column, values)[1] = Op("drop_check", t, column)
         /\ Recheck(t, column, values)[2] = Op("add_check", t, Check(column, values))
<1>. DEFINE U == Recheck(t, column, values)
<1>1. U = [i \in 1..2 |-> U[i]] /\ U[1] = Op("drop_check", t, column)
      /\ U[2] = Op("add_check", t, Check(column, values))
  BY DEF Recheck
<1>. HIDE DEF U
<1>2. Long(U, 2)
  BY <1>1, IsLong
<1>. QED  BY <1>1, <1>2 DEF U

\* The ledger and the payments, with the values their checks admit.
Ledger(types) ==
  Table(Required({"id", "user_id", "type", "amount", "balance_after", "description"})
          \cup Optional({"generation_request_id", "payment_intent_id", "promo_code_id",
                         "metadata_json"})
          \cup timestamp_columns,
        {} \cup {Check("type", types)}, {{"id"}},
        {Ref("generation_request_id", "generation_requests"),
         Ref("payment_intent_id", "payment_intents"),
         Ref("promo_code_id", "promo_codes"), Ref("user_id", "users")},
        {} \cup {CreatedIndex})

Intents(statuses) ==
  Table(Required({"id", "user_id", "credits_amount", "amount_rub", "provider", "external_id"})
          \cup Optional({"confirmed_at"})
          \cup {With("0", "discount_percent"), With("pending", "status")} \cup timestamp_columns,
        {Check("credits_amount", Positive), Check("amount_rub", NonNegative)}
          \cup {Check("status", statuses)},
        {{"id"}}, {Ref("user_id", "users")}, {} \cup {IntentsIndex})

Requests(columns) ==
  Table(columns, {Check("status", GENERATION_STATUS_CHECK), Check("tone", TONE_CHECK)}, {{"id"}},
        {Ref("profile_id", "resume_profiles"), Ref("user_id", "users"),
         Ref("vacancy_id", "vacancies")},
        {} \cup {RequestsIndex})

RequestColumns1 ==
  Required({"id", "user_id", "profile_id", "vacancy_id", "tone"})
    \cup Optional({"error_message", "completed_at"}) \cup {With("pending", "status")}
    \cup timestamp_columns

FIRST_TYPES == {"top_up", "promo", "spend"}

LEMMA IndexedTables ==
  /\ Indexed(CreateCreditTransactions.item, CreatedIndex) = Ledger(FIRST_TYPES)
  /\ Indexed(CreatePaymentIntents.item, IntentsIndex) = Intents(OLD_PAYMENT_STATUSES)
  /\ Indexed(CreateGenerationRequests.item, RequestsIndex) = Requests(RequestColumns1)
<1>1. Indexed(CreateCreditTransactions.item, CreatedIndex) = Ledger(FIRST_TYPES)
  <2>1. {Check("type", FIRST_TYPES)} = {} \cup {Check("type", FIRST_TYPES)}
    OBVIOUS
  <2>. QED  BY <2>1, TableIndexed DEF CreateCreditTransactions, Op, Ledger, FIRST_TYPES
<1>2. Indexed(CreatePaymentIntents.item, IntentsIndex) = Intents(OLD_PAYMENT_STATUSES)
  <2>. DEFINE C == Required({"id", "user_id", "credits_amount", "amount_rub", "provider", "external_id"})
                     \cup Optional({"confirmed_at"})
                     \cup {With("0", "discount_percent"), With("pending", "status")}
                     \cup timestamp_columns
              s == Check("status", {"pending", "succeeded", "failed"})
              K == {s, Check("credits_amount", Positive), Check("amount_rub", NonNegative)}
              L == {Check("credits_amount", Positive), Check("amount_rub", NonNegative)} \cup {s}
              Q == {{"id"}}
              R == {Ref("user_id", "users")}
  <2>1. CreatePaymentIntents.item = Table(C, K, Q, R, {})
    BY DEF CreatePaymentIntents, Op
  <2>2. Intents(OLD_PAYMENT_STATUSES) = Table(C, L, Q, R, {} \cup {IntentsIndex})
    BY DEF Intents, OLD_PAYMENT_STATUSES
  <2>3. K = L
    OBVIOUS
  <2>. HIDE DEF C, K, L, Q, R
  <2>. QED  BY <2>1, <2>2, <2>3, TableIndexed
<1>3. Indexed(CreateGenerationRequests.item, RequestsIndex) = Requests(RequestColumns1)
  BY TableIndexed DEF CreateGenerationRequests, Op, Requests, RequestColumns1
<1>. QED  BY <1>1, <1>2, <1>3

LEMMA Revision4 ==
  /\ Reversed(Upgrade4, Downgrade4, SchemaAt[3])
  /\ SchemaAt[4]["credit_transactions"] = Ledger(OLD_CREDIT_TRANSACTION_TYPES)
  /\ \A t \in Tables \ {"credit_transactions"} : SchemaAt[4][t] = SchemaAt[3][t]
<1>. DEFINE S == SchemaAt[3]
            T == Trail(Upgrade4, S)
            t == "credit_transactions"
            old == Check("type", FIRST_TYPES)
            new == Check("type", OLD_CREDIT_TRANSACTION_TYPES)
<1>1. /\ Long(Upgrade4, 2) /\ Long(Downgrade4, 2)
      /\ Upgrade4[1] = Op("drop_check", t, "type") /\ Upgrade4[2] = Op("add_check", t, new)
      /\ Downgrade4[1] = Op("drop_check", t, "type") /\ Downgrade4[2] = Op("add_check", t, old)
  <2>1. Upgrade4 = Recheck(t, "type", OLD_CREDIT_TRANSACTION_TYPES)
        /\ Downgrade4 = Recheck(t, "type", FIRST_TYPES)
    BY DEF Upgrade4, Downgrade4, OLD_CREDIT_TRANSACTION_TYPES, FIRST_TYPES
  <2>. QED  BY <2>1, RecheckIs
<1>2. old.column = "type" /\ new.column = "type" /\ t \in Tables
  BY DEF Check, Tables
<1>3. Fine(S) /\ S = [s \in Tables |-> S[s]]
  <2>1. SchemaAt[3] = Replay(Upgrade3, SchemaAt[2])
    BY Schemas
  <2>. QED  BY <2>1, Revision3, ReversedReplay
<1>4. S[t] = Ledger(FIRST_TYPES)
  BY Revision3, IndexedTables
<1>. HIDE DEF S, T, old, new, t
<1>5. T[0] = S /\ T[1] = Applied(Upgrade4[1], T[0]) /\ T[2] = Applied(Upgrade4[2], T[1])
      /\ SchemaAt[4] = T[2]
  <2>1. T[0] = S /\ \A n \in 1..2 : T[n] = Applied(Upgrade4[n], T[n - 1])
    BY <1>1, Walk DEF T
  <2>2. SchemaAt[4] = T[2]
    BY <1>1, Walk, Schemas DEF T, S
  <2>. QED  BY <2>1, <2>2
<1>6. /\ Undoes(Downgrade4[2], Upgrade4[1], T[0]) /\ Undoes(Downgrade4[1], Upgrade4[2], T[1])
      /\ T[2][t] = Ledger(OLD_CREDIT_TRANSACTION_TYPES)
      /\ \A s \in Tables \ {t} : T[2][s] = T[0][s]
  <2>. DEFINE C == Required({"id", "user_id", "type", "amount", "balance_after", "description"})
                     \cup Optional({"generation_request_id", "payment_intent_id", "promo_code_id",
                                    "metadata_json"})
                     \cup timestamp_columns
              R == {Ref("generation_request_id", "generation_requests"),
                    Ref("payment_intent_id", "payment_intents"),
                    Ref("promo_code_id", "promo_codes"), Ref("user_id", "users")}
              I == {} \cup {CreatedIndex}
              K == {}
              Q == {{"id"}}
  <2>1. Ledger(FIRST_TYPES) = Table(C, K \cup {old}, Q, R, I)
        /\ Ledger(OLD_CREDIT_TRANSACTION_TYPES) = Table(C, K \cup {new}, Q, R, I)
    BY DEF Ledger, old, new
  <2>2. \A c \in K : c.column # old.column
    OBVIOUS
  <2>. HIDE DEF C, R, I, K, Q
  <2>3. /\ Step(t, Op("add_check", t, old), Op("drop_check", t, old.column), T[0], T[1],
                Table(C, K, Q, R, I))
        /\ Step(t, Op("drop_check", t, new.column), Op("add_check", t, new), T[1], T[2],
                Table(C, K \cup {new}, Q, R, I))
    <3>1. new.column = old.column
      BY <1>2
    <3>2. Fine(T[0]) /\ T[0][t] = Table(C, K \cup {old}, Q, R, I)
      BY <1>3, <1>4, <1>5, <2>1
    <3>3. T[1] = Applied(Op("drop_check", t, old.column), T[0])
          /\ T[2] = Applied(Op("add_check", t, new), T[1])
      BY <1>1, <1>2, <1>5
    <3>. QED  BY <1>2, <2>2, <3>1, <3>2, <3>3, Rechecked
  <2>. QED  BY <1>1, <1>2, <2>1, <2>3, StepLeaves
<1>7. Reversed(Upgrade4, Downgrade4, S)
  <2>1. \A i \in 1..2 : Undoes(Downgrade4[3 - i], Upgrade4[i], T[i - 1])
    <3>1. \A i \in 1..2 : i = 1 \/ i = 2
      OBVIOUS
    <3>. QED  BY <1>6, <3>1
  <2>2. Len(Upgrade4) = 2 /\ Len(Downgrade4) = 2
    BY <1>1 DEF Long
  <2>. QED  BY <1>3, <2>1, <2>2 DEF Reversed, T
<1>. QED  BY <1>5, <1>6, <1>7 DEF S, t

valid_until   == Col("pending_top_up_discount_valid_until", TRUE, None)
promo_code_id == Col("pending_top_up_discount_promo_code_id", TRUE, None)
codeRef       == Ref("pending_top_up_discount_promo_code_id", "promo_codes")
profile_text  == Col("snapshot_profile_text", TRUE, None)
vacancy_text  == Col("snapshot_vacancy_text", TRUE, None)
snapshot_tone == Col("snapshot_tone", TRUE, None)
oldType       == Check("type", OLD_CREDIT_TRANSACTION_TYPES)
newType       == Check("type", NEW_CREDIT_TRANSACTION_TYPES)
oldStatus     == Check("status", OLD_PAYMENT_STATUSES)
newStatus     == Check("status", NEW_PAYMENT_STATUSES)
UserStatus    == <<"user_id", "status">>

LEMMA Upgrade5Is ==
  /\ Long(Upgrade5, 12)
  /\ Upgrade5[1] = Op("add_column", "users", valid_until)
  /\ Upgrade5[2] = Op("add_column", "users", promo_code_id)
  /\ Upgrade5[3] = Op("add_ref", "users", codeRef)
  /\ Upgrade5[4] = Op("add_column", "generation_requests", profile_text)
  /\ Upgrade5[5] = Op("add_column", "generation_requests", vacancy_text)
  /\ Upgrade5[6] = Op("add_column", "generation_requests", snapshot_tone)
  /\ Upgrade5[7] = Op("drop_check", "credit_transactions", oldType.column)
  /\ Upgrade5[8] = Op("add_check", "credit_transactions", newType)
  /\ Upgrade5[9] = Op("drop_check", "payment_intents", oldStatus.column)
  /\ Upgrade5[10] = Op("add_check", "payment_intents", newStatus)
  /\ Upgrade5[11] = CreateSubscriptionPaymentIntents
  /\ Upgrade5[12] = Op("create_index", "subscription_payment_intents", UserStatus)
<1>. DEFINE A == <<Op("add_column", "users", Col("pending_top_up_discount_valid_until", TRUE, None)),
                   Op("add_column", "users", Col("pending_top_up_discount_promo_code_id", TRUE, None)),
                   Op("add_ref", "users", Ref("pending_top_up_discount_promo_code_id", "promo_codes")),
                   Op("add_column", "generation_requests", Col("snapshot_profile_text", TRUE, None)),
                   Op("add_column", "generation_requests", Col("snapshot_vacancy_text", TRUE, None)),
                   Op("add_column", "generation_requests", Col("snapshot_tone", TRUE, None))>>
            B == Recheck("credit_transactions", "type", NEW_CREDIT_TRANSACTION_TYPES)
            C == Recheck("payment_intents", "status", NEW_PAYMENT_STATUSES)
            D == <<CreateSubscriptionPaymentIntents,
                   Op("create_index", "subscription_payment_intents", <<"user_id", "status">>)>>
            AB == Join(A, B)
            ABC == Join(AB, C)
<1>1. /\ A = [i \in 1..6 |-> A[i]]
      /\ A[1] = Op("add_column", "users", valid_until)
      /\ A[2] = Op("add_column", "users", promo_code_id)
      /\ A[3] = Op("add_ref", "users", codeRef)
      /\ A[4] = Op("add_column", "generation_requests", profile_text)
      /\ A[5] = Op("add_column", "generation_requests", vacancy_text)
      /\ A[6] = Op("add_column", "generation_requests", snapshot_tone)
  BY DEF valid_until, promo_code_id, codeRef, profile_text, vacancy_text, snapshot_tone
<1>2. /\ D = [i \in 1..2 |-> D[i]] /\ D[1] = CreateSubscriptionPaymentIntents
      /\ D[2] = Op("create_index", "subscription_payment_intents", UserStatus)
  BY DEF UserStatus
<1>3. oldType.column = "type" /\ oldStatus.column = "status"
  BY DEF oldType, oldStatus, Check
<1>4. /\ Long(B, 2) /\ Long(C, 2)
      /\ B[1] = Op("drop_check", "credit_transactions", oldType.column)
      /\ B[2] = Op("add_check", "credit_transactions", newType)
      /\ C[1] = Op("drop_check", "payment_intents", oldStatus.column)
      /\ C[2] = Op("add_check", "payment_intents", newStatus)
  BY <1>3, RecheckIs DEF newType, newStatus
<1>5. Upgrade5 = Join(ABC, D)
  BY DEF Upgrade5, Join
<1>. HIDE DEF A, B, C, D
<1>6. Long(A, 6) /\ Long(D, 2)
  BY <1>1, <1>2, IsLong
<1>7. Long(AB, 6 + 2) /\ Follows(AB, A, 0, 6) /\ Follows(AB, B, 6, 2)
  BY <1>4, <1>6, Joined
<1>. HIDE DEF AB
<1>8. Long(AB, 8)
  BY <1>7
<1>9. Long(ABC, 8 + 2) /\ Follows(ABC, AB, 0, 8) /\ Follows(ABC, C, 8, 2)
  BY <1>4, <1>8, Joined
<1>. HIDE DEF ABC
<1>10. Long(ABC, 10)
  BY <1>9
<1>11. Long(Upgrade5, 10 + 2) /\ Follows(Upgrade5, ABC, 0, 10) /\ Follows(Upgrade5, D, 10, 2)
  BY <1>5, <1>6, <1>10, Joined
<1>12. /\ AB[1] = A[1] /\ AB[2] = A[2] /\ AB[3] = A[3] /\ AB[4] = A[4] /\ AB[5] = A[5]
       /\ AB[6] = A[6] /\ AB[7] = B[1] /\ AB[8] = B[2]
  BY <1>7 DEF Follows
<1>13. (\A i \in 1..8 : ABC[i] = AB[i]) /\ ABC[9] = C[1] /\ ABC[10] = C[2]
  BY <1>9 DEF Follows
<1>14. (\A i \in 1..10 : Upgrade5[i] = ABC[i]) /\ Upgrade5[11] = D[1] /\ Upgrade5[12] = D[2]
       /\ Long(Upgrade5, 12)
  BY <1>11 DEF Follows
<1>. QED  BY <1>1, <1>2, <1>4, <1>12, <1>13, <1>14

LEMMA Downgrade5Is ==
  /\ Long(Downgrade5, 12)
  /\ Downgrade5[12] = Op("drop_column", "users", valid_until.name)
  /\ Downgrade5[11] = Op("drop_column", "users", promo_code_id.name)
  /\ Downgrade5[10] = Op("drop_ref", "users", codeRef.column)
  /\ Downgrade5[9] = Op("drop_column", "generation_requests", profile_text.name)
  /\ Downgrade5[8] = Op("drop_column", "generation_requests", vacancy_text.name)
  /\ Downgrade5[7] = Op("drop_column", "generation_requests", snapshot_tone.name)
  /\ Downgrade5[6] = Op("add_check", "credit_transactions", oldType)
  /\ Downgrade5[5] = Op("drop_check", "credit_transactions", newType.column)
  /\ Downgrade5[4] = Op("add_check", "payment_intents", oldStatus)
  /\ Downgrade5[3] = Op("drop_check", "payment_intents", newStatus.column)
  /\ Downgrade5[2] = Op("drop_table", "subscription_payment_intents", None)
  /\ Downgrade5[1] = Op("drop_index", "subscription_payment_intents", UserStatus)
<1>. DEFINE A == <<Op("drop_column", "generation_requests", "snapshot_tone"),
                   Op("drop_column", "generation_requests", "snapshot_vacancy_text"),
                   Op("drop_column", "generation_requests", "snapshot_profile_text"),
                   Op("drop_ref", "users", "pending_top_up_discount_promo_code_id"),
                   Op("drop_column", "users", "pending_top_up_discount_promo_code_id"),
                   Op("drop_column", "users", "pending_top_up_discount_valid_until")>>
            B == Recheck("credit_transactions", "type", OLD_CREDIT_TRANSACTION_TYPES)
            C == Recheck("payment_intents", "status", OLD_PAYMENT_STATUSES)
            D == <<Op("drop_index", "subscription_payment_intents", <<"user_id", "status">>),
                   Op("drop_table", "subscription_payment_intents", None)>>
            DC == Join(D, C)
            DCB == Join(DC, B)
<1>1. /\ A = [i \in 1..6 |-> A[i]]
      /\ A[6] = Op("drop_column", "users", valid_until.name)
      /\ A[5] = Op("drop_column", "users", promo_code_id.name)
      /\ A[4] = Op("drop_ref", "users", codeRef.column)
      /\ A[3] = Op("drop_column", "generation_requests", profile_text.name)
      /\ A[2] = Op("drop_column", "generation_requests", vacancy_text.name)
      /\ A[1] = Op("drop_column", "generation_requests", snapshot_tone.name)
  BY DEF valid_until, promo_code_id, codeRef, profile_text, vacancy_text, snapshot_tone, Col, Ref
<1>2. /\ D = [i \in 1..2 |-> D[i]]
      /\ D[1] = Op("drop_index", "subscription_payment_intents", UserStatus)
      /\ D[2] = Op("drop_table", "subscription_payment_intents", None)
  BY DEF UserStatus
<1>3. newType.column = "type" /\ newStatus.column = "status"
  BY DEF newType, newStatus, Check
<1>4. /\ Long(B, 2) /\ Long(C, 2)
      /\ B[1] = Op("drop_check", "credit_transactions", newType.column)
      /\ B[2] = Op("add_check", "credit_transactions", oldType)
      /\ C[1] = Op("drop_check", "payment_intents", newStatus.column)
      /\ C[2] = Op("add_check", "payment_intents", oldStatus)
  BY <1>3, RecheckIs DEF oldType, oldStatus
<1>5. Downgrade5 = Join(DCB, A)
  BY DEF Downgrade5, Join
<1>. HIDE DEF A, B, C, D
<1>6. Long(A, 6) /\ Long(D, 2)
  BY <1>1, <1>2, IsLong
<1>7. Long(DC, 2 + 2) /\ Follows(DC, D, 0, 2) /\ Follows(DC, C, 2, 2)
  BY <1>4, <1>6, Joined
<1>. HIDE DEF DC
<1>8. Long(DC, 4)
  BY <1>7
<1>9. Long(DCB, 4 + 2) /\ Follows(DCB, DC, 0, 4) /\ Follows(DCB, B, 4, 2)
  BY <1>4, <1>8, Joined
<1>. HIDE DEF DCB
<1>10. Long(DCB, 6)
  BY <1>9
<1>11. Long(Downgrade5, 6 + 6) /\ Follows(Downgrade5, DCB, 0, 6) /\ Follows(Downgrade5, A, 6, 6)
  BY <1>5, <1>6, <1>10, Joined
<1>12. DC[1] = D[1] /\ DC[2] = D[2] /\ DC[3] = C[1] /\ DC[4] = C[2]
  BY <1>7 DEF Follows
<1>13. (\A i \in 1..4 : DCB[i] = DC[i]) /\ DCB[5] = B[1] /\ DCB[6] = B[2]
  BY <1>9 DEF Follows
<1>14. /\ \A i \in 1..6 : Downgrade5[i] = DCB[i]
       /\ Downgrade5[7] = A[1] /\ Downgrade5[8] = A[2] /\ Downgrade5[9] = A[3]
       /\ Downgrade5[10] = A[4] /\ Downgrade5[11] = A[5] /\ Downgrade5[12] = A[6]
       /\ Long(Downgrade5, 12)
  BY <1>11 DEF Follows
<1>. QED  BY <1>1, <1>2, <1>4, <1>12, <1>13, <1>14

UsersColumns5 ==
  UsersColumns3 \cup {email} \cup {password_hash} \cup {role} \cup {credits}
    \cup {discount_percent} \cup {valid_until} \cup {promo_code_id}

Users5 ==
  Table(UsersColumns5,
        {Check("plan", PLAN_CHECK)} \cup {roleCheck} \cup {creditsCheck} \cup {percentCheck},
        {{"id"}, {"telegram_id"}} \cup {{"email"}}, {} \cup {codeRef}, {})

RequestColumns5 == RequestColumns1 \cup {profile_text} \cup {vacancy_text} \cup {snapshot_tone}

Revision5Tables ==
  {"users", "generation_requests", "credit_transactions", "payment_intents",
   "subscription_payment_intents"}

LEMMA Revision5 ==
  /\ Reversed(Upgrade5, Downgrade5, SchemaAt[4])
  /\ SchemaAt[5]["users"] = Users5
  /\ SchemaAt[5]["generation_requests"] = Requests(RequestColumns5)
  /\ SchemaAt[5]["credit_transactions"] = Ledger(NEW_CREDIT_TRANSACTION_TYPES)
  /\ SchemaAt[5]["payment_intents"] = Intents(NEW_PAYMENT_STATUSES)
  /\ SchemaAt[5]["subscription_payment_intents"]
       = Indexed(CreateSubscriptionPaymentIntents.item, UserStatus)
  /\ \A t \in Tables \ Revision5Tables : SchemaAt[5][t] = SchemaAt[4][t]
<1>. DEFINE S == SchemaAt[4]
            T == Trail(Upgrade5, S)
            index == Op("create_index", "subscription_payment_intents", UserStatus)
<1>1. Fine(S) /\ S = [t \in Tables |-> S[t]]
  <2>1. SchemaAt[4] = Replay(Upgrade4, SchemaAt[3])
    BY Schemas
  <2>. QED  BY <2>1, Revision4, ReversedReplay
<1>2. {"users", "generation_requests", "credit_transactions", "payment_intents",
       "subscription_payment_intents", "promo_codes"} \subseteq Tables
  BY DEF Tables
<1>3. /\ S["users"] = Users3
      /\ S["generation_requests"] = Requests(RequestColumns1)
      /\ S["credit_transactions"] = Ledger(OLD_CREDIT_TRANSACTION_TYPES)
      /\ S["payment_intents"] = Intents(OLD_PAYMENT_STATUSES)
      /\ S["subscription_payment_intents"] = NoTable
      /\ S["promo_codes"].exists
  <2>1. \A t \in Tables \ {"credit_transactions"} : S[t] = SchemaAt[3][t]
    BY Revision4
  <2>2. \A t \in {"generation_requests", "subscription_payment_intents"} :
          SchemaAt[3][t] = SchemaAt[1][t]
    BY <1>2, Revision2, Revision3 DEF Revision3Tables
  <2>3. SchemaAt[3]["promo_codes"].exists
    BY Revision3, Creations DEF Creates
  <2>. HIDE DEF S
  <2>. QED  BY <1>2, <2>1, <2>2, <2>3, Revision1, Revision3, Revision4, IndexedTables DEF S
<1>. HIDE DEF S, T, index
<1>4. T[0] = S /\ \A n \in 1..12 : T[n] = Applied(Upgrade5[n], T[n - 1])
  BY Upgrade5Is, Walk DEF T
<1>5. SchemaAt[5] = T[12]
  BY Upgrade5Is, Walk, Schemas DEF T, S
<1>6. /\ T[1] = Applied(Op("add_column", "users", valid_until), T[0])
      /\ T[2] = Applied(Op("add_column", "users", promo_code_id), T[1])
      /\ T[3] = Applied(Op("add_ref", "users", codeRef), T[2])
      /\ T[4] = Applied(Op("add_column", "generation_requests", profile_text), T[3])
      /\ T[5] = Applied(Op("add_column", "generation_requests", vacancy_text), T[4])
      /\ T[6] = Applied(Op("add_column", "generation_requests", snapshot_tone), T[5])
      /\ T[7] = Applied(Op("drop_check", "credit_transactions", oldType.column), T[6])
      /\ T[8] = Applied(Op("add_check", "credit_transactions", newType), T[7])
      /\ T[9] = Applied(Op("drop_check", "payment_intents", oldStatus.column), T[8])
      /\ T[10] = Applied(Op("add_check", "payment_intents", newStatus), T[9])
      /\ T[11] = Applied(CreateSubscriptionPaymentIntents, T[10])
      /\ T[12] = Applied(index, T[11])
  BY <1>4, Upgrade5Is DEF index
\* users
<1>7. /\ Step("users", Op("drop_column", "users", valid_until.name), Upgrade5[1], T[0], T[1], T[1]["users"])
      /\ Step("users", Op("drop_column", "users", promo_code_id.name), Upgrade5[2], T[1], T[2], T[2]["users"])
      /\ Step("users", Op("drop_ref", "users", codeRef.column), Upgrade5[3], T[2], T[3], Users5)
  <2>. DEFINE C0 == UsersColumns3 \cup {email} \cup {password_hash} \cup {role} \cup {credits}
                      \cup {discount_percent}
              C1 == C0 \cup {valid_until}
              C2 == C1 \cup {promo_code_id}
              K == {Check("plan", PLAN_CHECK)} \cup {roleCheck} \cup {creditsCheck} \cup {percentCheck}
              Q == {{"id"}, {"telegram_id"}} \cup {{"email"}}
              R == {}
              I == {}
  <2>1. \A c \in C0 : c.name # valid_until.name
    BY DEF UsersColumns3, Required, Optional, With, Col, timestamp_columns,
           email, password_hash, role, credits, discount_percent, valid_until
  <2>2. \A c \in C1 : c.name # promo_code_id.name
    BY DEF UsersColumns3, Required, Optional, With, Col, timestamp_columns,
           email, password_hash, role, credits, discount_percent, valid_until, promo_code_id
  <2>3. (\A r \in R : r.column # codeRef.column) /\ codeRef.to = "promo_codes"
    BY DEF codeRef, Ref
  <2>4. Users3 = Table(C0, K, Q, R, I) /\ Users5 = Table(C2, K, Q, R \cup {codeRef}, I)
    BY DEF Users3, Users5, UsersColumns5
  <2>. HIDE DEF C0, C1, C2, K, Q, R, I
  <2>5. Fine(T[0]) /\ T[0]["users"] = Table(C0, K, Q, R, I)
    BY <1>1, <1>3, <1>4, <2>4
  <2>6. Step("users", Op("drop_column", "users", valid_until.name),
             Op("add_column", "users", valid_until), T[0], T[1], Table(C1, K, Q, R, I))
    BY <1>2, <1>6, <2>1, <2>5, AddColumn DEF C1
  <2>7. Step("users", Op("drop_column", "users", promo_code_id.name),
             Op("add_column", "users", promo_code_id), T[1], T[2], Table(C2, K, Q, R, I))
    BY <1>2, <1>6, <2>2, <2>6, AddColumn, StepLeaves DEF C2
  <2>8. Step("users", Op("drop_ref", "users", codeRef.column), Op("add_ref", "users", codeRef),
             T[2], T[3], Table(C2, K, Q, R \cup {codeRef}, I))
    <3>1. T[2]["promo_codes"].exists
      BY <1>2, <1>3, <1>4, <2>6, <2>7, StepLeaves
    <3>2. Fine(T[2]) /\ T[2]["users"] = Table(C2, K, Q, R, I)
      BY <2>7, StepLeaves
    <3>. QED  BY <1>2, <1>6, <2>3, <3>1, <3>2, AddRef
  <2>9. T[1]["users"] = Table(C1, K, Q, R, I) /\ T[2]["users"] = Table(C2, K, Q, R, I)
    BY <2>6, <2>7, StepLeaves
  <2>. QED  BY <2>4, <2>6, <2>7, <2>8, <2>9, Upgrade5Is
<1>8. /\ Fine(T[3]) /\ \A t \in Tables \ {"users"} : T[3][t] = S[t]
      /\ T[3]["users"] = Users5
  BY <1>4, <1>7, StepLeaves
\* generation_requests
<1>9. /\ Step("generation_requests", Op("drop_column", "generation_requests", profile_text.name),
              Upgrade5[4], T[3], T[4], T[4]["generation_requests"])
      /\ Step("generation_requests", Op("drop_column", "generation_requests", vacancy_text.name),
              Upgrade5[5], T[4], T[5], T[5]["generation_requests"])
      /\ Step("generation_requests", Op("drop_column", "generation_requests", snapshot_tone.name),
              Upgrade5[6], T[5], T[6], Requests(RequestColumns5))
  <2>. DEFINE t == "generation_requests"
              C0 == RequestColumns1
              C1 == C0 \cup {profile_text}
              C2 == C1 \cup {vacancy_text}
              C3 == C2 \cup {snapshot_tone}
              K == {Check("status", GENERATION_STATUS_CHECK), Check("tone", TONE_CHECK)}
              Q == {{"id"}}
              R == {Ref("profile_id", "resume_profiles"), Ref("user_id", "users"),
                    Ref("vacancy_id", "vacancies")}
              I == {} \cup {RequestsIndex}
  <2>1. /\ \A c \in C0 : c.name # profile_text.name
        /\ \A c \in C1 : c.name # vacancy_text.name
        /\ \A c \in C2 : c.name # snapshot_tone.name
    BY DEF RequestColumns1, Required, Optional, With, Col, timestamp_columns,
           profile_text, vacancy_text, snapshot_tone
  <2>2. Requests(RequestColumns1) = Table(C0, K, Q, R, I)
        /\ Requests(RequestColumns5) = Table(C3, K, Q, R, I)
    BY DEF Requests, RequestColumns5
  <2>. HIDE DEF t, C0, C1, C2, C3, K, Q, R, I
  <2>3. t \in Tables
    BY <1>2 DEF t
  <2>4. Fine(T[3]) /\ T[3][t] = Table(C0, K, Q, R, I)
    BY <1>2, <1>3, <1>8, <2>2 DEF t
  <2>5. Step(t, Op("drop_column", t, profile_text.name), Op("add_column", t, profile_text),
             T[3], T[4], Table(C1, K, Q, R, I))
    <3>1. T[4] = Applied(Op("add_column", t, profile_text), T[3])
      BY <1>6 DEF t
    <3>. QED  BY <2>1, <2>3, <2>4, <3>1, AddColumn DEF C1
  <2>6. Step(t, Op("drop_column", t, vacancy_text.name), Op("add_column", t, vacancy_text),
             T[4], T[5], Table(C2, K, Q, R, I))
    <3>1. T[5] = Applied(Op("add_column", t, vacancy_text), T[4])
      BY <1>6 DEF t
    <3>. QED  BY <2>1, <2>3, <2>5, <3>1, AddColumn, StepLeaves DEF C2
  <2>7. Step(t, Op("drop_column", t, snapshot_tone.name), Op("add_column", t, snapshot_tone),
             T[5], T[6], Table(C3, K, Q, R, I))
    <3>1. T[6] = Applied(Op("add_column", t, snapshot_tone), T[5])
      BY <1>6 DEF t
    <3>. QED  BY <2>1, <2>3, <2>6, <3>1, AddColumn, StepLeaves DEF C3
  <2>8. T[4][t] = Table(C1, K, Q, R, I) /\ T[5][t] = Table(C2, K, Q, R, I)
    BY <2>5, <2>6, StepLeaves
  <2>. QED  BY <2>2, <2>5, <2>6, <2>7, <2>8, Upgrade5Is DEF t
<1>10. /\ Fine(T[6]) /\ \A t \in Tables \ {"generation_requests"} : T[6][t] = T[3][t]
       /\ T[6]["generation_requests"] = Requests(RequestColumns5)
  BY <1>9, StepLeaves
\* the checks
<1>11. /\ Step("credit_transactions", Op("add_check", "credit_transactions", oldType), Upgrade5[7],
               T[6], T[7], T[7]["credit_transactions"])
       /\ Step("credit_transactions", Op("drop_check", "credit_transactions", newType.column),
               Upgrade5[8], T[7], T[8], Ledger(NEW_CREDIT_TRANSACTION_TYPES))
  <2>. DEFINE t == "credit_transactions"
              C == Required({"id", "user_id", "type", "amount", "balance_after", "description"})
                     \cup Optional({"generation_request_id", "payment_intent_id", "promo_code_id",
                                    "metadata_json"})
                     \cup timestamp_columns
              R == {Ref("generation_request_id", "generation_requests"),
                    Ref("payment_intent_id", "payment_intents"),
                    Ref("promo_code_id", "promo_codes"), Ref("user_id", "users")}
              I == {} \cup {CreatedIndex}
              K == {}
              Q == {{"id"}}
  <2>1. Ledger(OLD_CREDIT_TRANSACTION_TYPES) = Table(C, K \cup {oldType}, Q, R, I)
        /\ Ledger(NEW_CREDIT_TRANSACTION_TYPES) = Table(C, K \cup {newType}, Q, R, I)
    BY DEF Ledger, oldType, newType
  <2>2. (\A c \in K : c.column # oldType.column) /\ newType.column = oldType.column
    BY DEF oldType, newType, Check
  <2>. HIDE DEF t, C, R, I, K, Q
  <2>3. t \in Tables
    BY <1>2 DEF t
  <2>4. Fine(T[6]) /\ T[6][t] = Table(C, K \cup {oldType}, Q, R, I)
    BY <1>2, <1>3, <1>8, <1>10, <2>1 DEF t
  <2>5. T[7] = Applied(Op("drop_check", t, oldType.column), T[6])
        /\ T[8] = Applied(Op("add_check", t, newType), T[7])
    BY <1>6 DEF t
  <2>6. /\ Step(t, Op("add_check", t, oldType), Op("drop_check", t, oldType.column), T[6], T[7],
                Table(C, K, Q, R, I))
        /\ Step(t, Op("drop_check", t, newType.column), Op("add_check", t, newType), T[7], T[8],
                Table(C, K \cup {newType}, Q, R, I))
    BY <2>2, <2>3, <2>4, <2>5, Rechecked
  <2>7. T[7][t] = Table(C, K, Q, R, I)
    BY <2>6, StepLeaves
  <2>. QED  BY <2>1, <2>6, <2>7, Upgrade5Is DEF t
<1>12. /\ Fine(T[8]) /\ \A t \in Tables \ {"credit_transactions"} : T[8][t] = T[6][t]
       /\ T[8]["credit_transactions"] = Ledger(NEW_CREDIT_TRANSACTION_TYPES)
  BY <1>11, StepLeaves
<1>13. /\ Step("payment_intents", Op("add_check", "payment_intents", oldStatus), Upgrade5[9],
               T[8], T[9], T[9]["payment_intents"])
       /\ Step("payment_intents", Op("drop_check", "payment_intents", newStatus.column),
               Upgrade5[10], T[9], T[10], Intents(NEW_PAYMENT_STATUSES))
  <2>. DEFINE t == "payment_intents"
              C == Required({"id", "user_id", "credits_amount", "amount_rub", "provider", "external_id"})
                     \cup Optional({"confirmed_at"})
                     \cup {With("0", "discount_percent"), With("pending", "status")}
                     \cup timestamp_columns
              K == {Check("credits_amount", Positive), Check("amount_rub", NonNegative)}
              Q == {{"id"}}
              R == {Ref("user_id", "users")}
              I == {} \cup {IntentsIndex}
  <2>1. Intents(OLD_PAYMENT_STATUSES) = Table(C, K \cup {oldStatus}, Q, R, I)
        /\ Intents(NEW_PAYMENT_STATUSES) = Table(C, K \cup {newStatus}, Q, R, I)
    BY DEF Intents, oldStatus, newStatus
  <2>2. (\A c \in K : c.column # oldStatus.column) /\ newStatus.column = oldStatus.column
    BY DEF oldStatus, newStatus, Check
  <2>. HIDE DEF t, C, R, I, K, Q
  <2>3. t \in Tables
    BY <1>2 DEF t
  <2>4. Fine(T[8]) /\ T[8][t] = Table(C, K \cup {oldStatus}, Q, R, I)
    BY <1>2, <1>3, <1>8, <1>10, <1>12, <2>1 DEF t
  <2>5. T[9] = Applied(Op("drop_check", t, oldStatus.column), T[8])
        /\ T[10] = Applied(Op("add_check", t, newStatus), T[9])
    BY <1>6 DEF t
  <2>6. /\ Step(t, Op("add_check", t, oldStatus), Op("drop_check", t, oldStatus.column), T[8], T[9],
                Table(C, K, Q, R, I))
        /\ Step(t, Op("drop_check", t, newStatus.column), Op("add_check", t, newStatus), T[9], T[10],
                Table(C, K \cup {newStatus}, Q, R, I))
    BY <2>2, <2>3, <2>4, <2>5, Rechecked
  <2>7. T[9][t] = Table(C, K, Q, R, I)
    BY <2>6, StepLeaves
  <2>. QED  BY <2>1, <2>6, <2>7, Upgrade5Is DEF t
<1>14. /\ Fine(T[10]) /\ \A t \in Tables \ {"payment_intents"} : T[10][t] = T[8][t]
       /\ T[10]["payment_intents"] = Intents(NEW_PAYMENT_STATUSES)
  BY <1>13, StepLeaves
\* subscription_payment_intents
<1>15. Step("subscription_payment_intents", Op("drop_table", "subscription_payment_intents", None),
            CreateSubscriptionPaymentIntents, T[10], T[11], CreateSubscriptionPaymentIntents.item)
  <2>1. T[10]["users"].exists
    BY <1>2, <1>8, <1>10, <1>12, <1>14, TableParts DEF Users5
  <2>2. \A r \in CreateSubscriptionPaymentIntents.item.refs : T[10][r.to].exists
    BY <2>1, CreatedLinks DEF Links
  <2>3. T[10]["subscription_payment_intents"] = NoTable
    BY <1>2, <1>3, <1>8, <1>10, <1>12, <1>14
  <2>. QED  BY <1>2, <1>6, <1>14, <2>2, <2>3, CreateTable, Creations
<1>16. Step("subscription_payment_intents", Op("drop_index", "subscription_payment_intents", UserStatus),
            index, T[11], T[12], Indexed(CreateSubscriptionPaymentIntents.item, UserStatus))
  <2>1. UserStatus \notin CreateSubscriptionPaymentIntents.item.indexes
    BY NoIndexes
  <2>2. Fine(T[11])
        /\ T[11]["subscription_payment_intents"] = CreateSubscriptionPaymentIntents.item
    BY <1>15, StepLeaves
  <2>. QED  BY <1>2, <1>6, <2>1, <2>2, CreateIndex DEF index
<1>17. \A i \in 1..12 : Undoes(Downgrade5[13 - i], Upgrade5[i], T[i - 1])
  <2>1. \A i \in 1..12 : i = 1 \/ i = 2 \/ i = 3 \/ i = 4 \/ i = 5 \/ i = 6 \/ i = 7 \/ i = 8
                         \/ i = 9 \/ i = 10 \/ i = 11 \/ i = 12
    OBVIOUS
  <2>2. /\ Undoes(Downgrade5[12], Upgrade5[1], T[0]) /\ Undoes(Downgrade5[11], Upgrade5[2], T[1])
        /\ Undoes(Downgrade5[10], Upgrade5[3], T[2]) /\ Undoes(Downgrade5[9], Upgrade5[4], T[3])
        /\ Undoes(Downgrade5[8], Upgrade5[5], T[4]) /\ Undoes(Downgrade5[7], Upgrade5[6], T[5])
        /\ Undoes(Downgrade5[6], Upgrade5[7], T[6]) /\ Undoes(Downgrade5[5], Upgrade5[8], T[7])
        /\ Undoes(Downgrade5[4], Upgrade5[9], T[8]) /\ Undoes(Downgrade5[3], Upgrade5[10], T[9])
        /\ Undoes(Downgrade5[2], Upgrade5[11], T[10]) /\ Undoes(Downgrade5[1], Upgrade5[12], T[11])
    BY <1>7, <1>9, <1>11, <1>13, <1>15, <1>16, StepLeaves, Upgrade5Is, Downgrade5Is DEF index
  <2>. QED  BY <2>1, <2>2
<1>18. Reversed(Upgrade5, Downgrade5, S)
  <2>1. Len(Upgrade5) = 12 /\ Len(Downgrade5) = 12
    BY Upgrade5Is, Downgrade5Is DEF Long
  <2>. QED  BY <1>1, <1>17, <2>1 DEF Reversed, T
<1>19. /\ T[12]["subscription_payment_intents"]
            = Indexed(CreateSubscriptionPaymentIntents.item, UserStatus)
       /\ \A t \in Tables \ {"subscription_payment_intents"} : T[12][t] = T[10][t]
  BY <1>15, <1>16, StepLeaves
<1>20. /\ T[12]["users"] = Users5
       /\ T[12]["generation_requests"] = Requests(RequestColumns5)
       /\ T[12]["credit_transactions"] = Ledger(NEW_CREDIT_TRANSACTION_TYPES)
       /\ T[12]["payment_intents"] = Intents(NEW_PAYMENT_STATUSES)
  BY <1>2, <1>8, <1>10, <1>12, <1>14, <1>19
<1>21. \A t \in Tables \ Revision5Tables : T[12][t] = S[t]
  BY <1>8, <1>10, <1>12, <1>14, <1>19 DEF Revision5Tables
<1>. QED  BY <1>5, <1>18, <1>19, <1>20, <1>21 DEF S

Listed(ops) == Len(ops) \in Nat /\ \A n \in 1..Len(ops) : Sound(ops[n])

LEMMA ReversedLists ==
  ASSUME NEW U, NEW D, NEW S, Reversed(U, D, S)
  PROVE  Listed(U) /\ Listed(D)
<1>1. Len(U) \in Nat /\ Len(D) = Len(U)
      /\ \A i \in 1..Len(U) : Sound(U[i]) /\ Sound(D[Len(U) + 1 - i])
  BY DEF Reversed, Undoes
<1>2. ASSUME NEW n \in 1..Len(U) PROVE Sound(D[n])
  <2>. DEFINE i == Len(U) + 1 - n
  <2>1. i \in 1..Len(U) /\ Len(U) + 1 - i = n
    BY <1>1
  <2>2. Sound(D[Len(U) + 1 - i])
    BY <1>1, <2>1
  <2>. QED  BY <2>1, <2>2
<1>. QED  BY <1>1, <1>2 DEF Listed

\* Each downgrade takes its upgrade back.
LEMMA Reversals ==
  \A r \in 1..HEAD : Reversed(upgrade[r], downgrade[r], SchemaAt[r - 1])
                     /\ SchemaAt[r] = Replay(upgrade[r], SchemaAt[r - 1])
<1>1. /\ upgrade[1] = Upgrade1 /\ upgrade[2] = Upgrade2 /\ upgrade[3] = Upgrade3
      /\ upgrade[4] = Upgrade4 /\ upgrade[5] = Upgrade5
      /\ downgrade[1] = Downgrade1 /\ downgrade[2] = Downgrade2 /\ downgrade[3] = Downgrade3
      /\ downgrade[4] = Downgrade4 /\ downgrade[5] = Downgrade5
  BY DEF upgrade, downgrade
<1>2. \A r \in 1..HEAD : r = 1 \/ r = 2 \/ r = 3 \/ r = 4 \/ r = 5
  BY DEF HEAD
<1>. QED  BY <1>1, <1>2, Revision1, Revision2, Revision3, Revision4, Revision5, Schemas

LEMMA Lists == \A r \in 1..HEAD : Listed(upgrade[r]) /\ Listed(downgrade[r])
BY Reversals, ReversedLists

LEMMA DowngradesUndo == \A r \in 1..HEAD : Replay(downgrade[r], SchemaAt[r]) = SchemaAt[r - 1]
BY Reversals, ReversedReplay

-----------------------------------------------------------------------------
(* The schema of the last revision is that of the models. *)

LEMMA HeadUsers == Users5 = User
<1>1. UsersColumns5
        = Required({"id"})
            \cup Optional({"telegram_id", "email", "password_hash", "username", "first_name",
                           "language_code", "pending_top_up_discount_valid_until",
                           "pending_top_up_discount_promo_code_id"})
            \cup {With("user", "role"), With("0", "credits"), With("free", "plan"),
                  With("0", "pending_top_up_discount_percent")} \cup TimestampMixin
  <2>1. Optional({"telegram_id", "email", "password_hash", "username", "first_name",
                  "language_code", "pending_top_up_discount_valid_until",
                  "pending_top_up_discount_promo_code_id"})
          = Optional({"telegram_id", "username", "first_name", "language_code"})
              \cup {email, password_hash, valid_until, promo_code_id}
    BY DEF Optional, email, password_hash, valid_until, promo_code_id
  <2>2. TimestampMixin = timestamp_columns
    BY DEF TimestampMixin, timestamp_columns
  <2>. QED
    BY <2>1, <2>2 DEF UsersColumns5, UsersColumns3, role, credits, discount_percent
<1>2. {Check("plan", PLAN_CHECK)} \cup {roleCheck} \cup {creditsCheck} \cup {percentCheck}
        = {Check("plan", Plan), Check("role", UserRole), Check("credits", NonNegative),
           Check("pending_top_up_discount_percent", Percent)}
  BY DEF PLAN_CHECK, Plan, roleCheck, creditsCheck, percentCheck, UserRole
<1>3. {{"id"}, {"telegram_id"}} \cup {{"email"}} = {{"id"}, {"email"}, {"telegram_id"}}
  OBVIOUS
<1>4. {} \cup {codeRef} = {Ref("pending_top_up_discount_promo_code_id", "promo_codes")}
  BY DEF codeRef
<1>. QED  BY <1>1, <1>2, <1>3, <1>4 DEF Users5, User

LEMMA HeadRequests == Requests(RequestColumns5) = GenerationRequest
<1>1. RequestColumns5
        = Required({"id", "user_id", "profile_id", "vacancy_id", "tone"})
            \cup Optional({"error_message", "snapshot_profile_text", "snapshot_vacancy_text",
                           "snapshot_tone", "completed_at"})
            \cup {With("pending", "status")} \cup TimestampMixin
  <2>1. Optional({"error_message", "snapshot_profile_text", "snapshot_vacancy_text",
                  "snapshot_tone", "completed_at"})
          = Optional({"error_message", "completed_at"}) \cup {profile_text, vacancy_text, snapshot_tone}
    BY DEF Optional, profile_text, vacancy_text, snapshot_tone
  <2>2. TimestampMixin = timestamp_columns
    BY DEF TimestampMixin, timestamp_columns
  <2>. QED  BY <2>1, <2>2 DEF RequestColumns5, RequestColumns1
<1>2. {Ref("profile_id", "resume_profiles"), Ref("user_id", "users"), Ref("vacancy_id", "vacancies")}
        = {Ref("user_id", "users"), Ref("profile_id", "resume_profiles"),
           Ref("vacancy_id", "vacancies")}
  OBVIOUS
<1>3. GENERATION_STATUS_CHECK = GenerationStatus /\ TONE_CHECK = Tone
  BY DEF GENERATION_STATUS_CHECK, GenerationStatus, TONE_CHECK, Tone
<1>4. {} \cup {RequestsIndex} = {<<"user_id", "status", "created_at">>}
  BY DEF RequestsIndex
<1>. QED  BY <1>1, <1>2, <1>3, <1>4 DEF Requests, GenerationRequest

LEMMA HeadLedger == Ledger(NEW_CREDIT_TRANSACTION_TYPES) = CreditTransaction
<1>1. NEW_CREDIT_TRANSACTION_TYPES = CreditTransactionType
  BY DEF NEW_CREDIT_TRANSACTION_TYPES, OLD_CREDIT_TRANSACTION_TYPES, CreditTransactionType
<1>2. {Ref("generation_request_id", "generation_requests"),
       Ref("payment_intent_id", "payment_intents"),
       Ref("promo_code_id", "promo_codes"), Ref("user_id", "users")}
        = {Ref("user_id", "users"), Ref("generation_request_id", "generation_requests"),
           Ref("payment_intent_id", "payment_intents"), Ref("promo_code_id", "promo_codes")}
  OBVIOUS
<1>3. {} \cup {CreatedIndex} = {<<"user_id", "created_at">>} /\ TimestampMixin = timestamp_columns
  BY DEF CreatedIndex, TimestampMixin, timestamp_columns
<1>4. {} \cup {Check("type", CreditTransactionType)} = {Check("type", CreditTransactionType)}
  OBVIOUS
<1>. QED  BY <1>1, <1>2, <1>3, <1>4 DEF Ledger, CreditTransaction

LEMMA NewStatuses == NEW_PAYMENT_STATUSES = PaymentStatus
BY DEF NEW_PAYMENT_STATUSES, OLD_PAYMENT_STATUSES, PaymentStatus

LEMMA HeadIntents == Intents(NEW_PAYMENT_STATUSES) = PaymentIntent
<1>1. {} \cup {IntentsIndex} = {<<"user_id", "status">>} /\ TimestampMixin = timestamp_columns
  BY DEF IntentsIndex, TimestampMixin, timestamp_columns
<1>2. {Check("credits_amount", Positive), Check("amount_rub", NonNegative)}
        \cup {Check("status", PaymentStatus)}
        = {Check("status", PaymentStatus), Check("credits_amount", Positive),
           Check("amount_rub", NonNegative)}
  OBVIOUS
<1>. QED  BY <1>1, <1>2, NewStatuses DEF Intents, PaymentIntent

LEMMA HeadPurchases ==
  Indexed(CreateSubscriptionPaymentIntents.item, UserStatus) = SubscriptionPaymentIntent
<1>1. {} \cup {UserStatus} = {<<"user_id", "status">>} /\ TimestampMixin = timestamp_columns
  BY DEF UserStatus, TimestampMixin, timestamp_columns
<1>2. CreateSubscriptionPaymentIntents.item
        = Table(Required({"id", "user_id", "plan", "amount_rub", "provider", "external_id"})
                  \cup Optional({"confirmed_at"}) \cup {With("pending", "status")} \cup timestamp_columns,
                {Check("plan", Plan), Check("status", PaymentStatus),
                 Check("amount_rub", NonNegative)},
                {{"id"}}, {Ref("user_id", "users")}, {})
  BY NewStatuses DEF CreateSubscriptionPaymentIntents, Op, Plan
<1>. QED  BY <1>1, <1>2, TableIndexed DEF SubscriptionPaymentIntent

LEMMA HeadRest ==
  /\ CreateEmployers.item = Employer /\ CreateVacancies.item = Vacancy
  /\ CreatePromoCodes.item = Declared["promo_codes"]
  /\ Indexed(CreateCoverLetters.item, LettersIndex) = CoverLetter
  /\ Indexed(CreateSubscriptions.item, SubscriptionsIndex) = Subscription
  /\ Indexed(CreatePromoRedemptions.item, CreatedIndex) = PromoRedemption
<1>1. TimestampMixin = timestamp_columns
  BY DEF TimestampMixin, timestamp_columns
<1>2. CreateEmployers.item = Employer /\ CreateVacancies.item = Vacancy
  BY <1>1 DEF CreateEmployers, CreateVacancies, Op, Employer, Vacancy
<1>3. CreatePromoCodes.item = Declared["promo_codes"]
  <2>. DEFINE Names == Required({"id", "code", "type", "value", "valid_until", "max_activations"})
              Rest == Names \cup {With("0", "activations_count")} \cup TimestampMixin
              checks == {Check("type", PromoCodeType), Check("value", Positive),
                         Check("max_activations", Positive),
                         Check("activations_count", NonNegative)}
              uniques == {{"id"}, {"code"}}
              drop == Op("drop_column", "promo_codes", "is_active")
              add == Op("add_column", "promo_codes", With("true", "is_active"))
              old == Names \cup {With("0", "activations_count"), With("1", "is_active")}
                       \cup TimestampMixin
              new == Rest \cup {With("true", "is_active")}
  <2>1. Declared["promo_codes"] = Altered(add, Altered(drop, PromoCode))
    <3>1. "promo_codes" \in Tables /\ metadata["promo_codes"] = PromoCode
      BY DEF metadata, Tables
    <3>2. DOMAIN metadata = Tables
      BY DEF metadata
    <3>. HIDE DEF add, drop
    <3>3. Declared = [metadata EXCEPT !["promo_codes"] = Altered(add, Altered(drop, @))]
      BY DEF Declared, add, drop
    <3>. QED  BY <3>1, <3>2, <3>3
  <2>2. PromoCode = Table(old, checks, uniques, {}, {})
    BY DEF PromoCode
  <2>3. \A c \in Rest : c.name # "is_active"
    BY DEF Required, With, Col, TimestampMixin
  <2>4. With("1", "is_active").name = "is_active"
    BY DEF With, Col
  <2>5. { c \in old : c.name # "is_active" } = Rest
    <3>1. old = Rest \cup {With("1", "is_active")}
      OBVIOUS
    <3>. HIDE DEF Rest, old
    <3>. QED  BY <2>3, <2>4, <3>1
  <2>6. Altered(add, Altered(drop, PromoCode)) = Table(new, checks, uniques, {}, {})
    <3>. HIDE DEF Rest, checks, uniques, old
    <3>1. Altered(drop, Table(old, checks, uniques, {}, {}))
            = Table({ c \in old : c.name # "is_active" }, checks, uniques, {}, {})
      BY ColumnRemoved
    <3>2. Altered(drop, PromoCode) = Table(Rest, checks, uniques, {}, {})
      BY <2>2, <2>5, <3>1
    <3>3. Altered(add, Table(Rest, checks, uniques, {}, {})) = Table(new, checks, uniques, {}, {})
      BY ColumnAdded
    <3>. QED  BY <3>2, <3>3
  <2>7. new = Names \cup {With("0", "activations_count"), With("true", "is_active")}
                \cup TimestampMixin
    OBVIOUS
  <2>8. CreatePromoCodes.item
          = Table(Names \cup {With("0", "activations_count"), With("true", "is_active")}
                    \cup TimestampMixin, checks, uniques, {}, {})
    BY <1>1 DEF CreatePromoCodes, Op, PromoCodeType
  <2>. HIDE DEF new, checks, uniques, add, drop
  <2>. QED  BY <2>1, <2>6, <2>7, <2>8
<1>4. Indexed(CreateCoverLetters.item, LettersIndex) = CoverLetter
  <2>1. {} \cup {LettersIndex} = {<<"user_id", "created_at">>} /\ TONE_CHECK = Tone
    BY DEF LettersIndex, TONE_CHECK, Tone
  <2>2. {Ref("employer_id", "employers"), Ref("generation_request_id", "generation_requests"),
         Ref("profile_id", "resume_profiles"), Ref("user_id", "users"),
         Ref("vacancy_id", "vacancies")}
          = {Ref("generation_request_id", "generation_requests"), Ref("user_id", "users"),
             Ref("profile_id", "resume_profiles"), Ref("vacancy_id", "vacancies"),
             Ref("employer_id", "employers")}
    OBVIOUS
  <2>3. CreateCoverLetters.item
          = Table(Required({"id", "generation_request_id", "user_id", "profile_id", "vacancy_id",
                            "employer_id", "vacancy_title", "employer_name", "tone", "text",
                            "prompt_context", "model", "generation_ms"})
                    \cup {With("now", "created_at")},
                  {Check("tone", Tone)}, {{"id"}},
                  {Ref("generation_request_id", "generation_requests"), Ref("user_id", "users"),
                   Ref("profile_id", "resume_profiles"), Ref("vacancy_id", "vacancies"),
                   Ref("employer_id", "employers")}, {})
    BY <2>1, <2>2 DEF CreateCoverLetters, Op
  <2>. QED  BY <2>1, <2>3, TableIndexed DEF CoverLetter
<1>5. Indexed(CreateSubscriptions.item, SubscriptionsIndex) = Subscription
  <2>1. {} \cup {SubscriptionsIndex} = {<<"user_id", "status", "expires_at">>}
        /\ PLAN_CHECK = Plan /\ SUBSCRIPTION_STATUS_CHECK = SubscriptionStatus
    BY DEF SubscriptionsIndex, PLAN_CHECK, Plan, SUBSCRIPTION_STATUS_CHECK, SubscriptionStatus
  <2>2. CreateSubscriptions.item
          = Table(Required({"id", "user_id", "plan", "starts_at", "expires_at"})
                    \cup {With("active", "status")} \cup TimestampMixin,
                  {Check("plan", Plan), Check("status", SubscriptionStatus)}, {{"id"}},
                  {Ref("user_id", "users")}, {})
    BY <1>1, <2>1 DEF CreateSubscriptions, Op
  <2>. QED  BY <2>1, <2>2, TableIndexed DEF Subscription
<1>6. Indexed(CreatePromoRedemptions.item, CreatedIndex) = PromoRedemption
  <2>1. {} \cup {CreatedIndex} = {<<"user_id", "created_at">>}
    BY DEF CreatedIndex
  <2>2. CreatePromoRedemptions.item
          = Table(Required({"id", "promo_code_id", "user_id"}) \cup TimestampMixin, {},
                  {{"id"}, {"promo_code_id", "user_id"}},
                  {Ref("promo_code_id", "promo_codes"), Ref("user_id", "users")}, {})
    BY <1>1 DEF CreatePromoRedemptions, Op
  <2>. QED  BY <2>1, <2>2, TableIndexed DEF PromoRedemption
<1>. QED  BY <1>2, <1>3, <1>4, <1>5, <1>6

LEMMA HeadProfiles ==
  Table(Required({"id", "user_id", "resume_text"}) \cup timestamp_columns
          \cup {With("Resume", "title")},
        {}, {{"id"}, {"user_id"}}, {Ref("user_id", "users")}, {}) = ResumeProfile
<1>1. Required({"id", "user_id", "resume_text"}) \cup timestamp_columns \cup {With("Resume", "title")}
        = Required({"id", "user_id", "resume_text"}) \cup {With("Resume", "title")} \cup TimestampMixin
  BY DEF TimestampMixin, timestamp_columns
<1>. QED  BY <1>1 DEF ResumeProfile

LEMMA HeadSchema == \A t \in Tables : SchemaAt[HEAD][t] = Declared[t]
<1>1. /\ metadata["users"] = User /\ metadata["resume_profiles"] = ResumeProfile
      /\ metadata["employers"] = Employer /\ metadata["vacancies"] = Vacancy
      /\ metadata["generation_requests"] = GenerationRequest
      /\ metadata["cover_letters"] = CoverLetter /\ metadata["subscriptions"] = Subscription
      /\ metadata["credit_transactions"] = CreditTransaction
      /\ metadata["payment_intents"] = PaymentIntent
      /\ metadata["subscription_payment_intents"] = SubscriptionPaymentIntent
      /\ metadata["promo_codes"] = PromoCode /\ metadata["promo_redemptions"] = PromoRedemption
  BY DEF metadata, Tables
<1>2. \A t \in {"users", "generation_requests", "credit_transactions", "payment_intents",
                "subscription_payment_intents"} : SchemaAt[5][t] = metadata[t]
  BY <1>1, Revision5, HeadUsers, HeadRequests, HeadLedger, HeadIntents, HeadPurchases
<1>3. \A t \in {"employers", "vacancies", "cover_letters", "subscriptions"} :
        SchemaAt[5][t] = SchemaAt[1][t]
  <2>1. \A t \in {"employers", "vacancies", "cover_letters", "subscriptions"} :
          t \in Tables \ Revision5Tables /\ t # "credit_transactions" /\ t # "users"
          /\ t \notin Revision3Tables /\ t # "resume_profiles"
    BY DEF Tables, Revision5Tables, Revision3Tables
  <2>. QED  BY <2>1, Revision2, Revision3, Revision4, Revision5
<1>4. \A t \in {"promo_codes", "promo_redemptions"} : SchemaAt[5][t] = SchemaAt[3][t]
  <2>1. \A t \in {"promo_codes", "promo_redemptions"} :
          t \in Tables \ Revision5Tables /\ t # "credit_transactions"
    BY DEF Tables, Revision5Tables
  <2>. QED  BY <2>1, Revision4, Revision5
<1>5. SchemaAt[5]["resume_profiles"] = SchemaAt[2]["resume_profiles"]
  <2>1. "resume_profiles" \in Tables \ Revision5Tables /\ "resume_profiles" # "users"
        /\ "resume_profiles" \notin Revision3Tables
    BY DEF Tables, Revision5Tables, Revision3Tables
  <2>. QED  BY <2>1, Revision3, Revision4, Revision5
<1>6. \A t \in {"employers", "vacancies", "cover_letters", "subscriptions"} :
        SchemaAt[5][t] = metadata[t]
  BY <1>1, <1>3, Revision1, HeadRest
<1>7. SchemaAt[5]["promo_codes"] = Declared["promo_codes"]
      /\ SchemaAt[5]["promo_redemptions"] = metadata["promo_redemptions"]
  BY <1>1, <1>4, Revision3, HeadRest
<1>8. SchemaAt[5]["resume_profiles"] = metadata["resume_profiles"]
  BY <1>1, <1>5, Revision2, HeadProfiles
<1>9. \A t \in Tables :
        \/ t \in {"users", "generation_requests", "credit_transactions", "payment_intents",
                  "subscription_payment_intents"}
        \/ t \in {"employers", "vacancies", "cover_letters", "subscriptions"}
        \/ t \in {"promo_codes", "promo_redemptions"} \/ t = "resume_profiles"
  BY DEF Tables
<1>10. \A t \in Tables \ {"promo_codes"} : SchemaAt[5][t] = metadata[t]
  BY <1>2, <1>6, <1>7, <1>8, <1>9
<1>11. \A t \in Tables \ {"promo_codes"} : Declared[t] = metadata[t]
  BY DEF Declared, metadata
<1>. QED  BY <1>7, <1>10, <1>11 DEF HEAD

-----------------------------------------------------------------------------
(* The schema a command has made is that of its way so far. *)

OpsOf(c) == IF c.target > c.at THEN upgrade[c.at + 1] ELSE downgrade[c.at]

\* The revision the current list of operations leads to.
NextOf(c) == IF c.target > c.at THEN c.at + 1 ELSE c.at - 1

\* The schema of a command that started from what its first revision says.
View(c) == IF c.at = c.target THEN SchemaAt[c.at] ELSE Trail(OpsOf(c), SchemaAt[c.at])[c.pos - 1]

Commands == [phase: {"idle", "running", "refused"}, began: 0..HEAD, at: 0..HEAD, target: 0..HEAD,
             pos: Nat, overtaken: BOOLEAN]

Names == Tables \cup {"alembic_version"}

Shaped ==
  /\ revision \in 0..HEAD
  /\ def = [t \in Tables |-> def[t]]
  /\ saved = [t \in Tables |-> saved[t]]
  /\ lock \in [Names -> Command \cup {None}]
  /\ cmd \in [Command -> Commands]
  /\ \A t \in Tables : Refers(def[t]) /\ Refers(saved[t].def)

\* A command that is through with a revision has locked the row of the revision, which
\* is the one it began with; only a running command has locks.
OnItsWay(k) ==
  LET c == cmd[k] IN
  /\ c.phase = "running" /\ c.at # c.target => c.pos \in 1..(Len(OpsOf(c)) + 1)
  /\ c.phase = "running" /\ c.at = c.target => lock["alembic_version"] = k
  /\ lock["alembic_version"] = k => revision = c.began
  /\ \A t \in Names : lock[t] = k => c.phase = "running"

\* What a command has locked it has changed as its operations say, if it was as its
\* first revision says; the rest they do not change.
Made(k) ==
  LET c == cmd[k] IN
  c.phase = "running" =>
    \A t \in Tables :
      IF lock[t] = k THEN saved[t].def = SchemaAt[c.began][t] => def[t] = View(c)[t]
      ELSE View(c)[t] = SchemaAt[c.began][t]

SchemaInv ==
  /\ Shaped
  /\ \A k \in Command : OnItsWay(k) /\ Made(k)
  /\ RevisionTellsSchema

LEMMA OpsAre ==
  ASSUME NEW c \in Commands, c.at # c.target
  PROVE  /\ Listed(OpsOf(c)) /\ NextOf(c) \in 0..HEAD
         /\ Replay(OpsOf(c), SchemaAt[c.at]) = SchemaAt[NextOf(c)]
<1>1. c.at \in 0..HEAD /\ c.target \in 0..HEAD /\ HEAD = 5
  BY DEF Commands, HEAD
<1>2. CASE c.target > c.at
  <2>. DEFINE r == c.at + 1
  <2>1. r \in 1..HEAD /\ r - 1 = c.at /\ r \in 0..HEAD
    BY <1>1, <1>2
  <2>2. OpsOf(c) = upgrade[r] /\ NextOf(c) = r
    BY <1>2 DEF OpsOf, NextOf
  <2>. HIDE DEF r
  <2>3. SchemaAt[r] = Replay(upgrade[r], SchemaAt[r - 1])
    BY <2>1, SchemaSteps
  <2>4. Listed(upgrade[r])
    BY <2>1, Lists
  <2>. QED  BY <2>1, <2>2, <2>3, <2>4
<1>3. CASE ~ (c.target > c.at)
  <2>1. c.at \in 1..HEAD /\ c.at - 1 \in 0..HEAD
    BY <1>1, <1>3
  <2>2. OpsOf(c) = downgrade[c.at] /\ NextOf(c) = c.at - 1
    BY <1>3 DEF OpsOf, NextOf
  <2>3. Listed(downgrade[c.at])
    BY <2>1, Lists
  <2>4. Replay(downgrade[c.at], SchemaAt[c.at]) = SchemaAt[c.at - 1]
    BY <2>1, DowngradesUndo
  <2>. QED  BY <2>1, <2>2, <2>3, <2>4
<1>. QED  BY <1>2, <1>3

LEMMA InitSchema == Init => SchemaInv
<1>. SUFFICES ASSUME Init PROVE SchemaInv
  OBVIOUS
<1>1. NoCommand \in Commands /\ 0 \in 0..HEAD
  BY DEF NoCommand, Commands, HEAD
<1>2. Shaped
  <2>1. \A t \in Tables : def[t] = NoTable /\ saved[t].def = NoTable
    BY DEF Init, Nothing
  <2>2. Refers(NoTable)
    BY DEF Refers, IsTable, NoTable
  <2>3. cmd \in [Command -> Commands] /\ lock \in [Names -> Command \cup {None}]
        /\ def = [t \in Tables |-> def[t]] /\ saved = [t \in Tables |-> saved[t]]
    BY <1>1 DEF Init, Names
  <2>4. revision \in 0..HEAD
    BY <1>1 DEF Init
  <2>. QED  BY <2>1, <2>2, <2>3, <2>4 DEF Shaped
<1>3. \A k \in Command : cmd[k].phase = "idle" /\ k # None
  BY MigrationConstants DEF Init, NoCommand
<1>4. \A k \in Command : \A t \in Names : lock[t] # k
  BY <1>3 DEF Init, Names
<1>5. \A k \in Command : OnItsWay(k) /\ Made(k)
  BY <1>3, <1>4 DEF OnItsWay, Made, Names
<1>6. RevisionTellsSchema
  BY SchemaSteps DEF Init, RevisionTellsSchema, Committed
<1>. QED  BY <1>2, <1>5, <1>6 DEF SchemaInv

\* What others do not touch stays as it is.
LEMMA OthersKeep ==
  ASSUME SchemaInv, NEW j \in Command, cmd'[j] = cmd[j],
         \A t \in Names : lock'[t] = j <=> lock[t] = j,
         \A t \in Tables : lock[t] = j => def'[t] = def[t] /\ saved'[t] = saved[t],
         lock["alembic_version"] = j => revision' = revision
  PROVE  OnItsWay(j)' /\ Made(j)'
<1>1. OnItsWay(j) /\ Made(j)
  BY DEF SchemaInv
<1>2. Tables \subseteq Names /\ "alembic_version" \in Names
  BY DEF Names
<1>3. OnItsWay(j)'
  BY <1>1, <1>2 DEF OnItsWay
<1>4. Made(j)'
  BY <1>1, <1>2 DEF Made
<1>. QED  BY <1>3, <1>4

\* Everybody else sees of a table what was committed last.
LEMMA RevisionKept ==
  ASSUME RevisionTellsSchema, revision' = revision, \A t \in Tables : Committed(t)' = Committed(t)
  PROVE  RevisionTellsSchema'
BY DEF RevisionTellsSchema

LEMMA RollbackStep ==
  ASSUME SchemaInv, NEW k \in Command, NEW phase \in {"idle", "refused"}, Rollback(k, phase)
  PROVE  SchemaInv'
<1>1. Shaped /\ None \notin Command /\ Tables \subseteq Names /\ DOMAIN lock = Names
      /\ "alembic_version" \in Names
  BY MigrationConstants DEF SchemaInv, Shaped, Names
<1>2. /\ def' = [t \in Tables |-> IF lock[t] = k THEN saved[t].def ELSE def[t]]
      /\ saved' = [t \in Tables |-> IF lock[t] = k THEN Nothing ELSE saved[t]]
      /\ lock' = [t \in Names |-> IF lock[t] = k THEN None ELSE lock[t]]
      /\ cmd' = [cmd EXCEPT ![k].phase = phase, ![k].overtaken = revision # cmd[k].began]
      /\ revision' = revision
  BY <1>1 DEF Rollback, Release
<1>3. cmd' \in [Command -> Commands] /\ cmd'[k].phase = phase
      /\ \A j \in Command \ {k} : cmd'[j] = cmd[j]
  <2>. DEFINE late == revision # cmd[k].began
              c == [cmd[k] EXCEPT !.phase = phase, !.overtaken = late]
  <2>1. late \in BOOLEAN
    OBVIOUS
  <2>2. cmd' = [cmd EXCEPT ![k] = c] /\ cmd \in [Command -> Commands]
    BY <1>1, <1>2 DEF Shaped
  <2>. HIDE DEF late
  <2>3. c \in Commands /\ c.phase = phase
    BY <2>1, <2>2 DEF Commands
  <2>. HIDE DEF c
  <2>. QED  BY <2>2, <2>3
<1>4. Shaped'
  <2>1. lock' \in [Names -> Command \cup {None}]
    BY <1>1, <1>2 DEF Shaped
  <2>2. def' = [t \in Tables |-> def'[t]] /\ saved' = [t \in Tables |-> saved'[t]]
    BY <1>2
  <2>3. Refers(NoTable) /\ Nothing.def = NoTable
    BY DEF Refers, IsTable, NoTable, Nothing
  <2>4. \A t \in Tables : Refers(def'[t]) /\ Refers(saved'[t].def)
    BY <1>1, <1>2, <2>3 DEF Shaped
  <2>. QED  BY <1>1, <1>2, <1>3, <2>1, <2>2, <2>4 DEF Shaped
<1>5. \A t \in Names : lock'[t] # k
  BY <1>1, <1>2
<1>6. OnItsWay(k)' /\ Made(k)'
  BY <1>1, <1>3, <1>5 DEF OnItsWay, Made
<1>7. ASSUME NEW j \in Command \ {k} PROVE OnItsWay(j)' /\ Made(j)'
  <2>1. \A t \in Names : lock'[t] = j <=> lock[t] = j
    BY <1>1, <1>2
  <2>2. \A t \in Tables : lock[t] = j => def'[t] = def[t] /\ saved'[t] = saved[t]
    BY <1>2
  <2>. QED  BY <1>2, <1>3, <2>1, <2>2, OthersKeep
<1>8. \A t \in Tables : Committed(t)' = Committed(t)
  BY <1>1, <1>2 DEF Committed
<1>9. RevisionTellsSchema'
  BY <1>2, <1>8, RevisionKept DEF SchemaInv
<1>. QED  BY <1>4, <1>6, <1>7, <1>9 DEF SchemaInv

LEMMA BeginStep ==
  ASSUME SchemaInv, NEW k \in Command, Begin(k)
  PROVE  SchemaInv'
<1>1. Shaped /\ Tables \subseteq Names /\ "alembic_version" \in Names /\ OnItsWay(k)
  BY DEF SchemaInv, Names
<1>2. PICK target \in Target \ {revision} :
        cmd' = [cmd EXCEPT ![k] = [phase |-> "running", began |-> revision, at |-> revision,
                                   target |-> target, pos |-> 1, overtaken |-> FALSE]]
  BY DEF Begin
<1>3. cmd[k].phase # "running" /\ UNCHANGED <<revision, def, saved, lock>>
  BY DEF Begin
<1>4. \A t \in Names : lock[t] # k
  BY <1>1, <1>3 DEF OnItsWay
<1>. DEFINE c == cmd'[k]
<1>5. /\ c = [phase |-> "running", began |-> revision, at |-> revision, target |-> target,
              pos |-> 1, overtaken |-> FALSE]
      /\ \A j \in Command \ {k} : cmd'[j] = cmd[j]
      /\ c \in Commands /\ cmd' \in [Command -> Commands]
  BY <1>1, <1>2, MigrationConstants DEF Shaped, Commands
<1>. HIDE DEF c
<1>6. c.at # c.target /\ c.pos = 1 /\ c.began = revision /\ c.at = revision
  BY <1>5
<1>7. Listed(OpsOf(c))
  BY <1>5, <1>6, OpsAre
<1>8. View(c) = SchemaAt[revision]
  <2>1. Trail(OpsOf(c), SchemaAt[c.at])[0] = SchemaAt[c.at]
    BY <1>7, TrailSteps DEF Listed
  <2>. QED  BY <1>6, <2>1 DEF View
<1>9. OnItsWay(k)' /\ Made(k)'
  <2>1. c.pos \in 1..(Len(OpsOf(c)) + 1)
    BY <1>6, <1>7 DEF Listed
  <2>2. OnItsWay(k)'
    BY <1>3, <1>4, <1>1, <1>6, <2>1 DEF OnItsWay, c
  <2>3. \A t \in Tables : lock'[t] # k /\ View(c)[t] = SchemaAt[c.began][t]
    BY <1>1, <1>3, <1>4, <1>6, <1>8
  <2>. QED  BY <2>2, <2>3 DEF Made, c
<1>10. \A j \in Command \ {k} : OnItsWay(j)' /\ Made(j)'
  BY <1>3, <1>5, OthersKeep
<1>11. RevisionTellsSchema'
  BY <1>3, RevisionKept DEF SchemaInv, Committed
<1>12. Shaped'
  BY <1>1, <1>3, <1>5 DEF Shaped
<1>. QED  BY <1>9, <1>10, <1>11, <1>12 DEF SchemaInv

LEMMA InsertStep ==
  ASSUME SchemaInv, NEW t \in Written, Insert(t)
  PROVE  SchemaInv'
<1>1. UNCHANGED <<revision, def, saved, lock, cmd>>
  BY DEF Insert
<1>2. Shaped'
  BY <1>1 DEF SchemaInv, Shaped
<1>3. \A k \in Command : OnItsWay(k)' /\ Made(k)'
  BY <1>1, OthersKeep
<1>4. RevisionTellsSchema'
  BY <1>1, RevisionKept DEF SchemaInv, Committed
<1>. QED  BY <1>2, <1>3, <1>4 DEF SchemaInv

LEMMA Operation == ASSUME NEW k \in Command PROVE Ops(k) = OpsOf(cmd[k])
BY DEF Ops, Up, OpsOf

LEMMA StampStep ==
  ASSUME SchemaInv, NEW k \in Command, Stamp(k)
  PROVE  SchemaInv'
<1>. DEFINE c == cmd[k]
            e == [c EXCEPT !.pos = 1, !.at = NextOf(c)]
<1>1. Shaped /\ OnItsWay(k) /\ Made(k) /\ RevisionTellsSchema /\ c \in Commands
  BY DEF SchemaInv, Shaped
<1>2. /\ c.phase = "running" /\ c.at # c.target /\ c.pos > Len(OpsOf(c))
      /\ lock["alembic_version"] \in {None, k}
  BY Operation DEF Stamp
<1>3. CASE revision # c.began
  <2>1. Rollback(k, "refused")
    BY <1>3 DEF Stamp
  <2>. QED  BY <2>1, RollbackStep
<1>4. CASE revision = c.began
  <2>1. /\ lock' = [lock EXCEPT !["alembic_version"] = k]
        /\ cmd' = [cmd EXCEPT ![k].pos = 1, ![k].at = IF Up(k) THEN @ + 1 ELSE @ - 1]
        /\ UNCHANGED <<revision, def, rows, saved>>
    BY <1>4 DEF Stamp
  <2>2. Listed(OpsOf(c)) /\ NextOf(c) \in 0..HEAD
        /\ Replay(OpsOf(c), SchemaAt[c.at]) = SchemaAt[NextOf(c)]
    BY <1>1, <1>2, OpsAre
  <2>3. /\ e \in Commands /\ e.at = NextOf(c) /\ e.pos = 1 /\ e.phase = "running"
        /\ e.began = c.began /\ e.target = c.target
    BY <1>1, <1>2, <2>2 DEF Commands
  <2>4. cmd' = [cmd EXCEPT ![k] = e]
    <3>1. (IF Up(k) THEN c.at + 1 ELSE c.at - 1) = NextOf(c)
      BY DEF Up, NextOf
    <3>. QED  BY <2>1, <3>1, <1>1 DEF Shaped
  <2>5. cmd'[k] = e /\ cmd' \in [Command -> Commands] /\ \A j \in Command \ {k} : cmd'[j] = cmd[j]
    <3>. HIDE DEF c, e
    <3>. QED  BY <1>1, <2>3, <2>4 DEF Shaped
  <2>6. /\ "alembic_version" \in Names /\ "alembic_version" \notin Tables /\ Tables \subseteq Names
        /\ lock \in [Names -> Command \cup {None}] /\ None \notin Command
    BY <1>1, MigrationConstants DEF Names, Tables, Shaped
  <2>7. /\ lock' \in [Names -> Command \cup {None}]
        /\ lock'["alembic_version"] = k
        /\ \A n \in Names \ {"alembic_version"} : lock'[n] = lock[n]
    BY <2>1, <2>6
  <2>8. View(e) = View(c)
    <3>1. c.pos - 1 = Len(OpsOf(c))
      BY <1>1, <1>2, <2>2 DEF OnItsWay, Listed, Commands
    <3>2. View(c) = SchemaAt[NextOf(c)]
      BY <1>2, <2>2, <3>1, ReplayTrail DEF View
    <3>3. View(e) = SchemaAt[e.at]
      <4>. HIDE DEF c, e
      <4>1. CASE e.at = e.target
        BY <4>1 DEF View
      <4>2. CASE e.at # e.target
        <5>1. Listed(OpsOf(e))
          BY <2>3, <4>2, OpsAre
        <5>2. Trail(OpsOf(e), SchemaAt[e.at])[0] = SchemaAt[e.at]
          BY <5>1, TrailSteps DEF Listed
        <5>. QED  BY <2>3, <4>2, <5>2 DEF View
      <4>. QED  BY <4>1, <4>2
    <3>. HIDE DEF c, e
    <3>. QED  BY <2>3, <3>2, <3>3
  <2>9. OnItsWay(k)'
    <3>1. e.at # e.target => Listed(OpsOf(e))
      <4>. HIDE DEF c, e
      <4>. QED  BY <2>3, OpsAre
    <3>2. e.at # e.target => e.pos \in 1..(Len(OpsOf(e)) + 1)
      <4>. HIDE DEF c, e
      <4>. QED  BY <2>3, <3>1 DEF Listed
    <3>3. revision' = e.began
      BY <1>4, <2>1, <2>3
    <3>. HIDE DEF c, e
    <3>. QED  BY <2>3, <2>5, <2>7, <3>2, <3>3 DEF OnItsWay
  <2>10. Made(k)'
    <3>. HIDE DEF e
    <3>. QED  BY <1>1, <1>2, <2>1, <2>3, <2>5, <2>6, <2>7, <2>8 DEF Made
  <2>11. ASSUME NEW j \in Command \ {k} PROVE OnItsWay(j)' /\ Made(j)'
    <3>1. \A n \in Names : lock'[n] = j <=> lock[n] = j
      BY <1>2, <2>6, <2>7
    <3>. QED  BY <2>1, <2>5, <3>1, OthersKeep
  <2>12. RevisionTellsSchema'
    BY <1>1, <2>1, <2>6, <2>7, RevisionKept DEF Committed
  <2>13. Shaped'
    BY <1>1, <2>1, <2>5, <2>7 DEF Shaped
  <2>. QED  BY <2>9, <2>10, <2>11, <2>12, <2>13 DEF SchemaInv
<1>. QED  BY <1>3, <1>4

LEMMA CommitStep ==
  ASSUME SchemaInv, NEW k \in Command, Commit(k)
  PROVE  SchemaInv'
<1>. DEFINE c == cmd[k]
<1>1. Shaped /\ OnItsWay(k) /\ Made(k) /\ RevisionTellsSchema /\ c \in Commands
  BY DEF SchemaInv, Shaped
<1>2. /\ c.phase = "running" /\ c.at = c.target /\ revision' = c.at
      /\ saved' = [t \in Tables |-> IF lock[t] = k THEN Nothing ELSE saved[t]]
      /\ cmd' = [cmd EXCEPT ![k] = NoCommand] /\ def' = def
  BY DEF Commit
<1>3. /\ lock' = [t \in Names |-> IF lock[t] = k THEN None ELSE lock[t]]
      /\ "alembic_version" \in Names /\ Tables \subseteq Names
      /\ lock \in [Names -> Command \cup {None}] /\ None \notin Command
  BY <1>1, MigrationConstants DEF Commit, Release, Shaped, Names
<1>4. lock["alembic_version"] = k /\ revision = c.began /\ revision \in 0..HEAD
  BY <1>1, <1>2 DEF OnItsWay, Shaped
<1>5. /\ cmd' \in [Command -> Commands] /\ cmd'[k].phase = "idle"
      /\ \A j \in Command \ {k} : cmd'[j] = cmd[j]
  <2>1. NoCommand \in Commands /\ NoCommand.phase = "idle"
    BY DEF NoCommand, Commands, HEAD
  <2>. QED  BY <1>1, <1>2, <2>1 DEF Shaped
<1>6. Shaped'
  <2>1. lock' \in [Names -> Command \cup {None}] /\ revision' \in 0..HEAD
    BY <1>1, <1>2, <1>3 DEF Commands
  <2>2. def' = [t \in Tables |-> def'[t]] /\ saved' = [t \in Tables |-> saved'[t]]
    BY <1>1, <1>2 DEF Shaped
  <2>3. Refers(NoTable) /\ Nothing.def = NoTable
    BY DEF Refers, IsTable, NoTable, Nothing
  <2>4. \A t \in Tables : Refers(def'[t]) /\ Refers(saved'[t].def)
    BY <1>1, <1>2, <2>3 DEF Shaped
  <2>. QED  BY <1>5, <2>1, <2>2, <2>4 DEF Shaped
<1>7. \A t \in Names : lock'[t] # k
  BY <1>3
<1>8. OnItsWay(k)' /\ Made(k)'
  BY <1>3, <1>5, <1>7 DEF OnItsWay, Made
<1>9. ASSUME NEW j \in Command \ {k} PROVE OnItsWay(j)' /\ Made(j)'
  <2>1. \A t \in Names : lock'[t] = j <=> lock[t] = j
    BY <1>3
  <2>2. \A t \in Tables : lock[t] = j => def'[t] = def[t] /\ saved'[t] = saved[t]
    BY <1>2
  <2>. QED  BY <1>4, <1>5, <2>1, <2>2, OthersKeep
<1>10. ASSUME NEW t \in Tables PROVE Committed(t)' = SchemaAt[c.at][t]
  <2>1. Committed(t) = SchemaAt[c.began][t] /\ View(c) = SchemaAt[c.at]
    BY <1>1, <1>2, <1>4 DEF RevisionTellsSchema, View
  <2>2. CASE lock[t] = k
    <3>1. def[t] = View(c)[t]
      BY <1>1, <1>2, <1>3, <2>1, <2>2 DEF Made, Committed
    <3>. QED  BY <1>2, <1>3, <2>1, <2>2, <3>1 DEF Committed
  <2>3. CASE lock[t] # k
    <3>1. View(c)[t] = SchemaAt[c.began][t]
      BY <1>1, <1>2, <2>3 DEF Made
    <3>2. Committed(t)' = Committed(t)
      BY <1>2, <1>3, <2>3 DEF Committed
    <3>. QED  BY <2>1, <3>1, <3>2
  <2>. QED  BY <2>2, <2>3
<1>11. RevisionTellsSchema'
  BY <1>2, <1>10 DEF RevisionTellsSchema
<1>. QED  BY <1>6, <1>8, <1>9, <1>11 DEF SchemaInv

\* Before it has taken its next operation, a command sees of every table it has locked or
\* may lock the schema of its way so far.
LEMMA FreeTables ==
  ASSUME SchemaInv, NEW k \in Command, cmd[k].phase = "running", revision = cmd[k].began,
         NEW t \in Tables, lock[t] \in {None, k}
  PROVE  def[t] = View(cmd[k])[t]
<1>1. Made(k) /\ Committed(t) = SchemaAt[cmd[k].began][t] /\ None # k
  BY MigrationConstants DEF SchemaInv, RevisionTellsSchema
<1>. QED  BY <1>1 DEF Made, Committed

LEMMA ExecuteStep ==
  ASSUME SchemaInv, NEW k \in Command, Execute(k)
  PROVE  SchemaInv'
<1>. DEFINE c == cmd[k]
            op == OpsOf(c)[c.pos]
            e == [c EXCEPT !.pos = c.pos + 1]
<1>1. Shaped /\ OnItsWay(k) /\ Made(k) /\ RevisionTellsSchema /\ c \in Commands
  BY DEF SchemaInv, Shaped
<1>2. /\ c.phase = "running" /\ c.at # c.target /\ c.pos <= Len(OpsOf(c))
      /\ \A t \in Touched(op) : lock[t] \in {None, k}
  BY Operation DEF Execute
<1>3. CASE Refused(op)
  <2>1. Rollback(k, "refused")
    BY <1>3, Operation DEF Execute
  <2>. QED  BY <2>1, RollbackStep
<1>4. CASE ~ Refused(op)
  <2>. DEFINE Locked == Touched(op)
  <2>1. /\ def'  = [def EXCEPT ![op.table] = Altered(op, @)]
        /\ saved' = [t \in Tables |-> IF t \in Touched(op) \ Owned(k)
                                      THEN [def |-> def[t], rows |-> rows[t]] ELSE saved[t]]
        /\ lock' = [t \in DOMAIN lock |-> IF t \in Touched(op) THEN k ELSE lock[t]]
        /\ cmd' = [cmd EXCEPT ![k].pos = @ + 1]
        /\ revision' = revision
    BY <1>4, Operation DEF Execute
  <2>2. Listed(OpsOf(c))
    BY <1>1, <1>2, OpsAre
  <2>3. c.pos \in 1..Len(OpsOf(c)) /\ Sound(op)
    BY <1>1, <1>2, <2>2 DEF OnItsWay, Listed, Commands
  <2>4. /\ "alembic_version" \in Names /\ "alembic_version" \notin Tables /\ Tables \subseteq Names
        /\ lock \in [Names -> Command \cup {None}] /\ None \notin Command /\ DOMAIN lock = Names
    BY <1>1, MigrationConstants DEF Names, Tables, Shaped
  <2>5. Locked \subseteq Tables /\ op.table \in Locked
    <3>1. Refers(def[op.table]) /\ op.table \in Tables
      BY <1>1, <2>3 DEF Shaped, Sound
    <3>2. op.do = "create_table" => Refers(op.item)
      BY <2>3 DEF Sound
    <3>3. op.do = "add_ref" => op.item.to \in Tables
      BY <2>3 DEF Sound
    <3>. HIDE DEF op
    <3>. QED  BY <3>1, <3>2, <3>3 DEF Touched, Refers
  <2>6. e \in Commands /\ e.pos = c.pos + 1
        /\ e.phase = c.phase /\ e.began = c.began /\ e.at = c.at /\ e.target = c.target
    BY <1>1 DEF Commands
  <2>7. cmd'[k] = e /\ cmd' \in [Command -> Commands] /\ \A j \in Command \ {k} : cmd'[j] = cmd[j]
    <3>1. cmd' = [cmd EXCEPT ![k] = e]
      BY <2>1
    <3>. HIDE DEF c, e
    <3>. QED  BY <1>1, <2>6, <3>1 DEF Shaped
  <2>8. View(e) = Applied(op, View(c)) /\ OpsOf(e) = OpsOf(c)
    <3>1. OpsOf(e) = OpsOf(c)
      BY <2>6 DEF OpsOf
    <3>2. Trail(OpsOf(c), SchemaAt[c.at])[c.pos]
            = Applied(op, Trail(OpsOf(c), SchemaAt[c.at])[c.pos - 1])
      BY <2>2, <2>3, TrailSteps DEF Listed
    <3>3. e.pos - 1 = c.pos
      BY <1>1, <2>6 DEF Commands
    <3>. HIDE DEF op, e
    <3>. QED  BY <1>2, <2>6, <3>1, <3>2, <3>3 DEF View
  <2>. HIDE DEF Locked
  <2>9. /\ lock' = [t \in Names |-> IF t \in Locked THEN k ELSE lock[t]]
        /\ saved' = [t \in Tables |-> IF t \in Locked /\ lock[t] # k
                                      THEN [def |-> def[t], rows |-> rows[t]] ELSE saved[t]]
        /\ \A t \in Locked : lock[t] \in {None, k}
    BY <1>2, <2>1, <2>4 DEF Owned, Locked
  <2>10. \A t \in Tables : def'[t] = IF t = op.table THEN Altered(op, def[t]) ELSE def[t]
    <3>. HIDE DEF op
    <3>. QED  BY <1>1, <2>1 DEF Shaped
  <2>. HIDE DEF op, e
  <2>11. lock' \in [Names -> Command \cup {None}]
    BY <2>4, <2>9
  <2>12. Shaped'
    <3>1. \A t \in Tables : Refers(def'[t])
      BY <1>1, <2>3, <2>10, AlteredRefers DEF Shaped
    <3>2. \A t \in Tables : Refers(saved'[t].def)
      BY <1>1, <2>9 DEF Shaped
    <3>3. def' = [t \in Tables |-> def'[t]] /\ saved' = [t \in Tables |-> saved'[t]]
      BY <1>1, <2>1, <2>9 DEF Shaped
    <3>4. revision' \in 0..HEAD
      BY <1>1, <2>1 DEF Shaped
    <3>. QED  BY <2>7, <2>11, <3>1, <3>2, <3>3, <3>4 DEF Shaped
  <2>13. OnItsWay(k)'
    <3>1. e.pos \in 1..(Len(OpsOf(e)) + 1)
      BY <2>2, <2>3, <2>6, <2>8 DEF Listed
    <3>2. lock'["alembic_version"] = lock["alembic_version"]
      BY <2>4, <2>5, <2>9
    <3>. QED  BY <1>1, <1>2, <2>1, <2>6, <2>7, <3>1, <3>2 DEF OnItsWay
  <2>14. Made(k)'
    <3>1. ASSUME NEW t \in Tables
          PROVE  IF lock'[t] = k THEN saved'[t].def = SchemaAt[e.began][t] => def'[t] = View(e)[t]
                 ELSE View(e)[t] = SchemaAt[e.began][t]
      <4>1. IF lock[t] = k THEN saved[t].def = SchemaAt[c.began][t] => def[t] = View(c)[t]
            ELSE View(c)[t] = SchemaAt[c.began][t]
        BY <1>1, <1>2 DEF Made
      <4>2. View(e)[t] = IF t = op.table THEN Altered(op, View(c)[t]) ELSE View(c)[t]
        BY <2>8 DEF Applied
      <4>. HIDE DEF c
      <4>3. CASE t \notin Locked
        BY <2>4, <2>5, <2>6, <2>9, <2>10, <4>1, <4>2, <4>3
      <4>4. CASE t \in Locked /\ lock[t] = k
        BY <2>4, <2>5, <2>6, <2>9, <2>10, <4>1, <4>2, <4>4
      <4>5. CASE t \in Locked /\ lock[t] # k
        <5>1. saved'[t].def = def[t]
          BY <2>9, <4>5
        <5>. QED  BY <2>4, <2>5, <2>6, <2>9, <2>10, <4>1, <4>2, <4>5, <5>1
      <4>. QED  BY <4>3, <4>4, <4>5
    <3>. QED  BY <2>7, <3>1 DEF Made
  <2>15. ASSUME NEW j \in Command \ {k} PROVE OnItsWay(j)' /\ Made(j)'
    <3>1. \A t \in Names : lock'[t] = j <=> lock[t] = j
      BY <2>4, <2>9
    <3>2. \A t \in Tables : lock[t] = j => def'[t] = def[t] /\ saved'[t] = saved[t]
      BY <2>4, <2>5, <2>9, <2>10
    <3>. QED  BY <2>1, <2>7, <3>1, <3>2, OthersKeep
  <2>16. ASSUME NEW t \in Tables PROVE Committed(t)' = Committed(t)
    <3>1. CASE t \notin Locked
      BY <2>4, <2>5, <2>9, <2>10, <3>1 DEF Committed
    <3>2. CASE t \in Locked /\ lock[t] = k
      BY <2>4, <2>9, <3>2 DEF Committed
    <3>3. CASE t \in Locked /\ lock[t] # k
      <4>1. lock[t] = None /\ lock'[t] = k /\ saved'[t].def = def[t]
        BY <2>4, <2>9, <3>3
      <4>. QED  BY <2>4, <4>1 DEF Committed
    <3>. QED  BY <3>1, <3>2, <3>3
  <2>17. RevisionTellsSchema'
    BY <1>1, <2>1, <2>16, RevisionKept
  <2>. QED  BY <2>12, <2>13, <2>14, <2>15, <2>17 DEF SchemaInv
<1>. QED  BY <1>3, <1>4

LEMMA SchemaStep ==
  ASSUME SchemaInv, [Next]_vars
  PROVE  SchemaInv'
<1>1. CASE UNCHANGED vars
  <2>1. UNCHANGED <<revision, def, saved, lock, cmd>>
    BY <1>1 DEF vars
  <2>2. Shaped'
    BY <2>1 DEF SchemaInv, Shaped
  <2>3. \A k \in Command : OnItsWay(k)' /\ Made(k)'
    BY <2>1, OthersKeep
  <2>4. RevisionTellsSchema'
    BY <2>1, RevisionKept DEF SchemaInv, Committed
  <2>. QED  BY <2>2, <2>3, <2>4 DEF SchemaInv
<1>2. ASSUME NEW t \in Written, Insert(t) PROVE SchemaInv'
  BY <1>2, InsertStep
<1>3. ASSUME NEW k \in Command, Begin(k) PROVE SchemaInv'
  BY <1>3, BeginStep
<1>4. ASSUME NEW k \in Command, Execute(k) PROVE SchemaInv'
  BY <1>4, ExecuteStep
<1>5. ASSUME NEW k \in Command, Stamp(k) PROVE SchemaInv'
  BY <1>5, StampStep
<1>6. ASSUME NEW k \in Command, Commit(k) PROVE SchemaInv'
  BY <1>6, CommitStep
<1>7. ASSUME NEW k \in Command, Abort(k) PROVE SchemaInv'
  BY <1>7, RollbackStep DEF Abort
<1>. QED  BY <1>1, <1>2, <1>3, <1>4, <1>5, <1>6, <1>7 DEF Next, Alembic

LEMMA SchemaHolds == Spec => []SchemaInv
<1>1. Init => SchemaInv
  BY InitSchema
<1>2. SchemaInv /\ [Next]_vars => SchemaInv'
  BY SchemaStep
<1>. QED  BY <1>1, <1>2, PTL DEF Spec

\* The revision tells the schema: whatever commands were refused, cut off or overtook
\* each other, the committed tables are those of the revision (RevisionTellsSchema).
THEOREM RevisionTells == Spec => []RevisionTellsSchema
<1>1. SchemaInv => RevisionTellsSchema
  BY DEF SchemaInv
<1>. QED  BY <1>1, SchemaHolds, PTL

\* At the last revision the database has the tables the models declare, but for the default
\* of promo_codes.is_active (HeadMatchesModels).
THEOREM HeadMatches == Spec => []HeadMatchesModels
<1>1. RevisionTellsSchema => HeadMatchesModels
  BY HeadSchema DEF RevisionTellsSchema, HeadMatchesModels
<1>. QED  BY <1>1, RevisionTells, PTL

-----------------------------------------------------------------------------
(* What stops a downgrade. *)

\* A command is somewhere on its way.
Between(c) == c.at \in c.began..c.target \cup c.target..c.began

\* A reference that an open transaction has added has locked the table it is to.
RefsHeld ==
  \A t \in Tables : lock[t] # None =>
    \A r \in def[t].refs : r \in saved[t].def.refs \/ lock[r.to] = lock[t]

StoppedByRows(c) ==
  c.phase = "refused" /\ c.target < c.began /\ ~c.overtaken =>
    OpsOf(c)[c.pos].do \in {"set_not_null", "add_check"}

StopInv ==
  /\ SchemaInv
  /\ RefsHeld
  /\ \A k \in Command : Between(cmd[k]) /\ StoppedByRows(cmd[k])

\* Every operation of a downgrade finds what it takes back.
LEMMA Retreats ==
  ASSUME NEW c \in Commands, c.target < c.at, c.pos \in 1..Len(OpsOf(c))
  PROVE  LET op == OpsOf(c)[c.pos] IN
         op.table \in Tables /\ op.do \in Reversing /\ Takes(op, View(c))
<1>. DEFINE r == c.at
            U == upgrade[r]
            D == downgrade[r]
            S == SchemaAt[r - 1]
            n == Len(U)
            p == c.pos
            i == n + 1 - p
<1>1. r \in 1..HEAD /\ OpsOf(c) = D /\ View(c) = Trail(D, SchemaAt[r])[p - 1]
  <2>1. c.at \in 0..HEAD /\ c.target \in 0..HEAD /\ HEAD = 5
    BY DEF Commands, HEAD
  <2>2. r \in 1..HEAD /\ ~ (c.target > c.at) /\ c.at # c.target
    BY <2>1
  <2>3. OpsOf(c) = D
    BY <2>2 DEF OpsOf
  <2>. QED  BY <2>2, <2>3 DEF View
<1>2. Reversed(U, D, S) /\ SchemaAt[r] = Replay(U, S)
  BY <1>1, Reversals
<1>3. n \in Nat /\ Len(D) = n /\ \A j \in 1..n : Undoes(D[n + 1 - j], U[j], Trail(U, S)[j - 1])
  BY <1>2 DEF Reversed
<1>. HIDE DEF U, D, S, n, r
<1>4. p \in 1..n /\ i \in 1..n /\ n + 1 - i = p /\ n - (p - 1) = i /\ p - 1 \in 0..n
  BY <1>1, <1>3
<1>5. View(c) = Trail(U, S)[i]
  <2>1. \A m \in 0..n : Trail(D, Replay(U, S))[m] = Trail(U, S)[n - m]
    BY <1>2, WayBack DEF n
  <2>. QED  BY <1>1, <1>2, <1>4, <2>1
<1>6. Trail(U, S)[i] = Applied(U[i], Trail(U, S)[i - 1])
  <2>1. \A m \in 1..n : Trail(U, S)[m] = Applied(U[m], Trail(U, S)[m - 1])
    BY <1>3, TrailSteps DEF n
  <2>. QED  BY <1>4, <2>1
<1>7. Undoes(D[p], U[i], Trail(U, S)[i - 1])
  <2>1. Undoes(D[n + 1 - i], U[i], Trail(U, S)[i - 1])
    BY <1>3, <1>4
  <2>. QED  BY <1>4, <2>1
<1>. QED  BY <1>1, <1>5, <1>6, <1>7 DEF Undoes, Sound

\* Whoever takes back and finds its first revision still there is stopped only by rows.
LEMMA OnlyByRows ==
  ASSUME StopInv, NEW k \in Command, Execute(k), revision = cmd[k].began,
         cmd[k].target < cmd[k].began, Refused(OpsOf(cmd[k])[cmd[k].pos])
  PROVE  OpsOf(cmd[k])[cmd[k].pos].do \in {"set_not_null", "add_check"}
<1>. DEFINE c == cmd[k]
            op == OpsOf(c)[c.pos]
            S == View(c)
<1>1. /\ Shaped /\ OnItsWay(k) /\ Made(k) /\ RevisionTellsSchema /\ c \in Commands /\ RefsHeld
      /\ Between(c) /\ None # k
  BY MigrationConstants DEF StopInv, SchemaInv, Shaped
<1>2. /\ c.phase = "running" /\ c.at # c.target /\ c.pos <= Len(OpsOf(c))
      /\ \A t \in Touched(op) : lock[t] \in {None, k}
  BY Operation DEF Execute
<1>3. c.target < c.at /\ c.pos \in 1..Len(OpsOf(c))
  <2>1. c.at \in 0..HEAD /\ c.target \in 0..HEAD /\ c.began \in 0..HEAD /\ HEAD = 5
    BY <1>1 DEF Commands, HEAD
  <2>2. Listed(OpsOf(c))
    BY <1>1, <1>2, OpsAre
  <2>3. c.target < c.at
    BY <1>1, <1>2, <2>1 DEF Between
  <2>4. c.pos \in 1..(Len(OpsOf(c)) + 1)
    BY <1>1, <1>2 DEF OnItsWay
  <2>. HIDE DEF c
  <2>. QED  BY <1>2, <2>2, <2>3, <2>4 DEF Listed
<1>4. op.table \in Tables /\ op.do \in Reversing /\ Takes(op, S)
  BY <1>1, <1>3, Retreats
<1>5. op.table \in Touched(op)
  BY DEF Touched
<1>6. \A t \in Tables : lock[t] \in {None, k} => def[t] = S[t]
  BY <1>2, FreeTables DEF StopInv
<1>7. def[op.table] = S[op.table]
  BY <1>2, <1>4, <1>5, <1>6
<1>8. \A t \in Tables : lock[t] # k => S[t] = SchemaAt[c.began][t]
  BY <1>1, <1>2 DEF Made
<1>9. \A t \in Tables : lock[t] # None => saved[t].def = SchemaAt[c.began][t]
  BY <1>1 DEF RevisionTellsSchema, Committed
<1>. HIDE DEF c, S
<1>10. Refused(op)
  BY DEF c
<1>. HIDE DEF op
<1>11. op.do # "drop_table"
  <2>1. SUFFICES ASSUME op.do = "drop_table" PROVE FALSE
    OBVIOUS
  <2>2. S[op.table].exists /\ \A t \in Tables \ {op.table} : \A r \in S[t].refs : r.to # op.table
    BY <1>4, <2>1 DEF Takes
  <2>3. PICK t \in Tables \ {op.table} : \E r \in def[t].refs : r.to = op.table
    BY <1>7, <1>10, <2>1, <2>2 DEF Refused
  <2>4. PICK r \in def[t].refs : r.to = op.table
    BY <2>3
  <2>5. lock[t] # None /\ lock[t] # k
    BY <1>6, <2>2, <2>4
  <2>6. r \notin saved[t].def.refs
    BY <1>8, <1>9, <2>2, <2>4, <2>5
  <2>7. lock[op.table] = lock[t]
    BY <1>1, <2>4, <2>5, <2>6 DEF RefsHeld
  <2>8. lock[op.table] \in {None, k}
    BY <1>2, <1>5
  <2>. QED  BY <2>5, <2>7, <2>8
<1>12. op.do # "drop_column"
  BY <1>4, <1>7, <1>10 DEF Takes, Refused
<1>13. op.do # "drop_check"
  BY <1>4, <1>7, <1>10 DEF Takes, Refused
<1>14. op.do # "drop_unique"
  BY <1>4, <1>7, <1>10 DEF Takes, Refused
<1>15. op.do # "drop_ref"
  BY <1>4, <1>7, <1>10 DEF Takes, Refused
<1>16. op.do # "drop_index"
  BY <1>4, <1>7, <1>10 DEF Takes, Refused
<1>. QED
  BY <1>4, <1>11, <1>12, <1>13, <1>14, <1>15, <1>16 DEF Reversing, op, c

LEMMA RollbackHeld ==
  ASSUME StopInv, NEW k \in Command, NEW phase \in {"idle", "refused"}, Rollback(k, phase),
         phase = "refused" /\ cmd[k].target < cmd[k].began /\ revision = cmd[k].began =>
           OpsOf(cmd[k])[cmd[k].pos].do \in {"set_not_null", "add_check"}
  PROVE  StopInv'
<1>. DEFINE c == cmd[k]
            late == revision # c.began
            e == [c EXCEPT !.phase = phase, !.overtaken = late]
<1>1. SchemaInv'
  BY RollbackStep DEF StopInv
<1>2. Shaped /\ None \notin Command /\ Tables \subseteq Names /\ DOMAIN lock = Names
      /\ RefsHeld /\ cmd \in [Command -> Commands]
      /\ \A j \in Command : Between(cmd[j]) /\ StoppedByRows(cmd[j])
  BY MigrationConstants DEF StopInv, SchemaInv, Shaped, Names
<1>3. /\ def' = [t \in Tables |-> IF lock[t] = k THEN saved[t].def ELSE def[t]]
      /\ saved' = [t \in Tables |-> IF lock[t] = k THEN Nothing ELSE saved[t]]
      /\ lock' = [t \in Names |-> IF lock[t] = k THEN None ELSE lock[t]]
      /\ cmd' = [cmd EXCEPT ![k] = e]
  BY <1>2 DEF Rollback, Release
<1>4. RefsHeld'
  <2>1. \A t \in Tables : Refers(def[t])
    BY <1>2 DEF Shaped
  <2>. QED  BY <1>2, <1>3, <2>1 DEF RefsHeld, Refers
<1>5. /\ e.at = c.at /\ e.began = c.began /\ e.target = c.target /\ e.phase = phase /\ e.pos = c.pos
      /\ e.overtaken = late
  <2>. HIDE DEF late
  <2>. QED  BY <1>2 DEF Commands
<1>. HIDE DEF e
<1>6. Between(e) /\ StoppedByRows(e)
  <2>1. OpsOf(e) = OpsOf(c) /\ Between(c)
    BY <1>2, <1>5 DEF OpsOf
  <2>2. Between(e)
    BY <1>5, <2>1 DEF Between
  <2>3. StoppedByRows(e)
    BY <1>5, <2>1 DEF StoppedByRows
  <2>. QED  BY <2>2, <2>3
<1>7. \A j \in Command : Between(cmd'[j]) /\ StoppedByRows(cmd'[j])
  BY <1>2, <1>3, <1>6
<1>. QED  BY <1>1, <1>4, <1>7 DEF StopInv

\* The references of a table after an operation: what was there and what it brings.
LEMMA NewRefs ==
  ASSUME NEW op, Sound(op), NEW d, Refers(d), NEW r \in Altered(op, d).refs
  PROVE  r \in d.refs \/ r.to \in {op.table} \cup
           CASE op.do = "create_table" -> { x.to : x \in op.item.refs }
             [] op.do = "drop_table" -> { x.to : x \in d.refs }
             [] op.do = "add_ref" -> {op.item.to}
             [] op.do = "drop_ref" -> { x.to : x \in { x \in d.refs : x.column = op.item } }
             [] OTHER -> {}
<1>1. IsTable(d)
  BY DEF Refers
<1>2. CASE op.do = "create_table"
  BY <1>2 DEF Altered
<1>3. CASE op.do = "drop_table"
  BY <1>3 DEF Altered, NoTable
<1>4. CASE op.do = "add_ref"
  BY <1>1, <1>4 DEF Altered, IsTable
<1>5. CASE op.do = "drop_ref"
  BY <1>1, <1>5 DEF Altered, IsTable
<1>6. CASE op.do \in {"add_column", "drop_column"}
  BY <1>1, <1>6 DEF Altered, IsTable
<1>7. CASE op.do \in {"set_null", "set_not_null"}
  BY <1>1, <1>7 DEF Altered, IsTable, Nullable
<1>8. CASE op.do \in {"add_check", "drop_check"}
  BY <1>1, <1>8 DEF Altered, IsTable
<1>9. CASE op.do \in {"add_unique", "drop_unique"}
  BY <1>1, <1>9 DEF Altered, IsTable
<1>10. CASE op.do \in {"create_index", "drop_index"}
  BY <1>1, <1>10 DEF Altered, IsTable
<1>. QED
  BY <1>2, <1>3, <1>4, <1>5, <1>6, <1>7, <1>8, <1>9, <1>10 DEF Sound, Doings

\* Beginning, going on to the next revision and ending leave the references.
LEMMA HeldStays ==
  ASSUME StopInv, NEW k \in Command, UNCHANGED <<def, saved>>,
         \A t \in Tables : lock'[t] = lock[t]
  PROVE  RefsHeld'
<1>1. RefsHeld /\ \A t \in Tables : Refers(def[t])
  BY DEF StopInv, SchemaInv, Shaped
<1>. QED  BY <1>1 DEF RefsHeld, Refers

LEMMA ExecuteHeld ==
  ASSUME StopInv, NEW k \in Command, Execute(k)
  PROVE  StopInv'
<1>. DEFINE c == cmd[k]
            op == OpsOf(c)[c.pos]
            e == [c EXCEPT !.pos = c.pos + 1]
<1>1. Shaped /\ OnItsWay(k) /\ c \in Commands /\ RefsHeld /\ cmd \in [Command -> Commands]
  BY DEF StopInv, SchemaInv, Shaped
<1>2. /\ c.phase = "running" /\ c.at # c.target /\ c.pos <= Len(OpsOf(c))
      /\ \A t \in Touched(op) : lock[t] \in {None, k}
  BY Operation DEF Execute
<1>3. CASE Refused(op)
  <2>1. Rollback(k, "refused")
    BY <1>3, Operation DEF Execute
  <2>2. c.target < c.began /\ revision = c.began => op.do \in {"set_not_null", "add_check"}
    BY <1>3, OnlyByRows
  <2>. QED  BY <2>1, <2>2, RollbackHeld
<1>4. CASE ~ Refused(op)
  <2>1. /\ def'  = [def EXCEPT ![op.table] = Altered(op, @)]
        /\ saved' = [t \in Tables |-> IF t \in Touched(op) \ Owned(k)
                                      THEN [def |-> def[t], rows |-> rows[t]] ELSE saved[t]]
        /\ lock' = [t \in DOMAIN lock |-> IF t \in Touched(op) THEN k ELSE lock[t]]
        /\ cmd' = [cmd EXCEPT ![k].pos = @ + 1]
    BY <1>4, Operation DEF Execute
  <2>2. SchemaInv'
    BY ExecuteStep DEF StopInv
  <2>3. Sound(op)
    <3>1. Listed(OpsOf(c))
      BY <1>1, <1>2, OpsAre
    <3>. QED  BY <1>1, <1>2, <3>1 DEF OnItsWay, Listed, Commands
  <2>4. /\ Tables \subseteq Names /\ None # k /\ DOMAIN lock = Names
        /\ def = [t \in Tables |-> def[t]] /\ \A t \in Tables : Refers(def[t])
    BY <1>1, MigrationConstants DEF Names, Shaped
  <2>5. op.table \in Tables
    BY <2>3 DEF Sound
  <2>. HIDE DEF op
  <2>6. ASSUME NEW t \in Tables, lock'[t] # None, NEW r \in def'[t].refs, r \notin saved'[t].def.refs
        PROVE  lock'[r.to] = lock'[t]
    <3>1. r.to \in Tables
      BY <2>2, <2>6 DEF SchemaInv, Shaped, Refers
    <3>2. CASE t = op.table
      <4>1. t \in Touched(op) /\ lock'[t] = k
        BY <2>1, <2>4, <3>2 DEF Touched
      <4>2. def'[t] = Altered(op, def[t])
        BY <2>1, <2>4, <2>5, <3>2
      <4>3. r \in def[t].refs \/ r.to \in Touched(op)
        BY <2>3, <2>4, <2>6, <3>2, <4>2, NewRefs DEF Touched
      <4>4. CASE r.to \in Touched(op)
        BY <2>1, <2>4, <3>1, <4>1, <4>4
      <4>5. CASE r \in def[t].refs /\ r.to \notin Touched(op)
        <5>1. lock[t] = k
          <6>1. lock[t] # k => saved'[t].def = def[t]
            BY <2>1, <4>1 DEF Owned
          <6>. QED  BY <2>6, <4>5, <6>1
        <5>2. saved'[t] = saved[t]
          BY <2>1, <5>1 DEF Owned
        <5>3. lock[r.to] = k
          BY <1>1, <2>4, <2>6, <4>5, <5>1, <5>2 DEF RefsHeld
        <5>. QED  BY <2>1, <2>4, <3>1, <4>1, <5>3
      <4>. QED  BY <4>3, <4>4, <4>5
    <3>3. CASE t # op.table
      <4>1. def'[t] = def[t]
        BY <2>1, <2>4, <3>3
      <4>2. CASE t \in Touched(op) \ Owned(k)
        <5>1. saved'[t].def = def[t]
          BY <2>1, <4>2
        <5>. QED  BY <2>6, <4>1, <5>1
      <4>3. CASE t \notin Touched(op) \ Owned(k)
        <5>1. saved'[t] = saved[t] /\ lock'[t] = lock[t]
          BY <2>1, <2>4, <4>3 DEF Owned
        <5>2. lock[r.to] = lock[t] /\ lock[t] # None
          BY <1>1, <2>6, <4>1, <5>1 DEF RefsHeld
        <5>3. r.to \in Touched(op) => lock[t] = k
          BY <1>2, <5>2 DEF op
        <5>. QED  BY <2>1, <2>4, <3>1, <5>1, <5>2, <5>3
      <4>. QED  BY <4>2, <4>3
    <3>. QED  BY <3>2, <3>3
  <2>7. RefsHeld'
    BY <2>6 DEF RefsHeld
  <2>8. e.at = c.at /\ e.began = c.began /\ e.target = c.target /\ e.phase = "running"
    BY <1>1, <1>2 DEF Commands
  <2>9. Between(e) /\ StoppedByRows(e)
    BY <2>8 DEF StopInv, Between, StoppedByRows
  <2>10. cmd' = [cmd EXCEPT ![k] = e]
    BY <2>1
  <2>. HIDE DEF e
  <2>11. \A j \in Command : Between(cmd'[j]) /\ StoppedByRows(cmd'[j])
    BY <1>1, <2>9, <2>10 DEF StopInv
  <2>. QED  BY <2>2, <2>7, <2>11 DEF StopInv
<1>. QED  BY <1>3, <1>4

LEMMA StampHeld ==
  ASSUME StopInv, NEW k \in Command, Stamp(k)
  PROVE  StopInv'
<1>. DEFINE c == cmd[k]
            e == [c EXCEPT !.pos = 1, !.at = NextOf(c)]
<1>1. Shaped /\ c \in Commands /\ cmd \in [Command -> Commands] /\ Between(c)
  BY DEF StopInv, SchemaInv, Shaped
<1>2. c.phase = "running" /\ c.at # c.target
  BY DEF Stamp
<1>3. CASE revision # c.began
  <2>1. Rollback(k, "refused")
    BY <1>3 DEF Stamp
  <2>. QED  BY <1>3, <2>1, RollbackHeld
<1>4. CASE revision = c.began
  <2>1. /\ lock' = [lock EXCEPT !["alembic_version"] = k]
        /\ cmd' = [cmd EXCEPT ![k].pos = 1, ![k].at = IF Up(k) THEN @ + 1 ELSE @ - 1]
        /\ UNCHANGED <<def, saved>>
    BY <1>4 DEF Stamp
  <2>2. SchemaInv'
    BY StampStep DEF StopInv
  <2>3. RefsHeld'
    <3>1. \A t \in Tables : lock'[t] = lock[t]
      BY <1>1, <2>1 DEF Shaped, Names, Tables
    <3>. QED  BY <2>1, <3>1, HeldStays
  <2>4. /\ e.began = c.began /\ e.target = c.target /\ e.phase = "running" /\ e.at = NextOf(c)
    BY <1>1, <1>2 DEF Commands
  <2>5. Between(e)
    <3>1. c.at \in 0..HEAD /\ c.target \in 0..HEAD /\ c.began \in 0..HEAD /\ HEAD = 5
      BY <1>1 DEF Commands, HEAD
    <3>. HIDE DEF c, e
    <3>. QED  BY <1>1, <1>2, <2>4, <3>1 DEF Between, NextOf
  <2>6. StoppedByRows(e)
    BY <2>4 DEF StoppedByRows
  <2>7. cmd' = [cmd EXCEPT ![k] = e]
    <3>1. (IF Up(k) THEN c.at + 1 ELSE c.at - 1) = NextOf(c)
      BY DEF Up, NextOf
    <3>. QED  BY <1>1, <2>1, <3>1
  <2>. HIDE DEF e
  <2>8. \A j \in Command : Between(cmd'[j]) /\ StoppedByRows(cmd'[j])
    BY <1>1, <2>5, <2>6, <2>7 DEF StopInv
  <2>. QED  BY <2>2, <2>3, <2>8 DEF StopInv
<1>. QED  BY <1>3, <1>4

LEMMA BeginHeld ==
  ASSUME StopInv, NEW k \in Command, Begin(k)
  PROVE  StopInv'
<1>1. SchemaInv' /\ Shaped
  BY BeginStep DEF StopInv, SchemaInv
<1>2. PICK target \in Target \ {revision} :
        cmd' = [cmd EXCEPT ![k] = [phase |-> "running", began |-> revision, at |-> revision,
                                   target |-> target, pos |-> 1, overtaken |-> FALSE]]
  BY DEF Begin
<1>3. UNCHANGED <<def, saved, lock>>
  BY DEF Begin
<1>4. RefsHeld'
  BY <1>3, HeldStays
<1>. DEFINE e == [phase |-> "running", began |-> revision, at |-> revision,
                  target |-> target, pos |-> 1, overtaken |-> FALSE]
<1>5. revision \in 0..HEAD /\ target \in 0..HEAD /\ HEAD = 5
  BY <1>1, MigrationConstants DEF Shaped, HEAD
<1>6. Between(e) /\ StoppedByRows(e)
  BY <1>5 DEF Between, StoppedByRows
<1>. HIDE DEF e
<1>7. \A j \in Command : Between(cmd'[j]) /\ StoppedByRows(cmd'[j])
  BY <1>1, <1>2, <1>6 DEF StopInv, Shaped, e
<1>. QED  BY <1>1, <1>4, <1>7 DEF StopInv

LEMMA CommitHeld ==
  ASSUME StopInv, NEW k \in Command, Commit(k)
  PROVE  StopInv'
<1>1. SchemaInv' /\ Shaped /\ RefsHeld
  BY CommitStep DEF StopInv, SchemaInv
<1>2. /\ saved' = [t \in Tables |-> IF lock[t] = k THEN Nothing ELSE saved[t]]
      /\ lock' = [t \in Names |-> IF lock[t] = k THEN None ELSE lock[t]]
      /\ cmd' = [cmd EXCEPT ![k] = NoCommand] /\ def' = def
  BY <1>1 DEF Commit, Release, Shaped
<1>3. RefsHeld'
  <2>1. \A t \in Tables : Refers(def[t])
    BY <1>1 DEF Shaped
  <2>. QED  BY <1>1, <1>2, <2>1 DEF RefsHeld, Refers, Names
<1>4. Between(NoCommand) /\ StoppedByRows(NoCommand)
  BY DEF Between, StoppedByRows, NoCommand
<1>5. \A j \in Command : Between(cmd'[j]) /\ StoppedByRows(cmd'[j])
  BY <1>1, <1>2, <1>4 DEF StopInv, Shaped
<1>. QED  BY <1>1, <1>3, <1>5 DEF StopInv

LEMMA StopHolds == Spec => []StopInv
<1>1. Init => StopInv
  <2>. SUFFICES ASSUME Init PROVE StopInv
    OBVIOUS
  <2>1. Between(NoCommand) /\ StoppedByRows(NoCommand)
    BY DEF Between, StoppedByRows, NoCommand
  <2>2. RefsHeld
    BY DEF Init, RefsHeld, NoTable
  <2>. QED  BY <2>1, <2>2, InitSchema DEF StopInv, Init
<1>2. StopInv /\ [Next]_vars => StopInv'
  <2>. SUFFICES ASSUME StopInv, [Next]_vars PROVE StopInv'
    OBVIOUS
  <2>1. ASSUME UNCHANGED <<revision, def, saved, lock, cmd>>, SchemaInv' PROVE StopInv'
    <3>1. RefsHeld'
      BY <2>1 DEF StopInv, RefsHeld
    <3>2. \A j \in Command : Between(cmd'[j]) /\ StoppedByRows(cmd'[j])
      BY <2>1 DEF StopInv
    <3>. QED  BY <2>1, <3>1, <3>2 DEF StopInv
  <2>2. CASE UNCHANGED vars
    <3>1. UNCHANGED <<revision, def, saved, lock, cmd>>
      BY <2>2 DEF vars
    <3>2. SchemaInv'
      BY <2>2, SchemaStep DEF StopInv
    <3>. QED  BY <2>1, <3>1, <3>2
  <2>3. ASSUME NEW t \in Written, Insert(t) PROVE StopInv'
    <3>1. UNCHANGED <<revision, def, saved, lock, cmd>> /\ SchemaInv'
      BY <2>3, InsertStep DEF Insert, StopInv
    <3>. QED  BY <2>1, <3>1
  <2>4. ASSUME NEW k \in Command, Begin(k) PROVE StopInv'
    BY <2>4, BeginHeld
  <2>5. ASSUME NEW k \in Command, Execute(k) PROVE StopInv'
    BY <2>5, ExecuteHeld
  <2>6. ASSUME NEW k \in Command, Stamp(k) PROVE StopInv'
    BY <2>6, StampHeld
  <2>7. ASSUME NEW k \in Command, Commit(k) PROVE StopInv'
    BY <2>7, CommitHeld
  <2>8. ASSUME NEW k \in Command, Abort(k) PROVE StopInv'
    BY <2>8, RollbackHeld DEF Abort
  <2>. QED  BY <2>2, <2>3, <2>4, <2>5, <2>6, <2>7, <2>8 DEF Next, Alembic
<1>. QED  BY <1>1, <1>2, PTL DEF Spec

\* Only rows stop a downgrade, whoever else walks the revisions (DowngradeStoppedByRows).
THEOREM OnlyRowsStopDowngrades == Spec => []DowngradeStoppedByRows
<1>1. StopInv => DowngradeStoppedByRows
  BY Operation DEF StopInv, StoppedByRows, DowngradeStoppedByRows
<1>. QED  BY <1>1, StopHolds, PTL

-----------------------------------------------------------------------------
(* What the rows of a table have in its columns. *)

Formed(d) == \A c \in d.columns : IsColumn(c)

\* Rows have the columns of their table.
Rowed(d, R) == \A r \in R : DOMAIN r = Columns(d) /\ \A x \in DOMAIN r : r[x] \in Value

\* Rows have what the checks of their table admit.
Fits(d, R) == \A r \in R : \A k \in d.checks : k.column \in DOMAIN r /\ r[k.column] \in k.values

\* Every check is of a column there is.
Covered(d) == \A k \in d.checks : k.column \in Columns(d)

\* What every row has in column x is one of W.
InAll(R, x, W) == \A r \in R : x \in DOMAIN r /\ r[x] \in W

\* An operation that creates a table or adds a column brings columns.
Apt(op) ==
  /\ op.do \in Doings
  /\ op.do = "create_table" => Formed(op.item)
  /\ op.do = "add_column" => IsColumn(op.item) /\ op.item.default \in Value \cup {None}

\* The operations of upgrades.
Advancing == {"create_table", "add_column", "set_null", "add_check", "drop_check", "add_unique",
              "add_ref", "create_index"}

\* After op on the table d, column x of every row has one of W: the operation has added it, or
\* has dropped the check that saw to it.
Provides(op, d, x, W) ==
  \/ op.do = "add_column" /\ op.item.name = x /\ Filled(op.item) \in W
  \/ op.do = "drop_check" /\ op.item = x /\ \A k \in d.checks : k.column = x => k.values \subseteq W

LEMMA NullableColumns ==
  ASSUME NEW d, IsTable(d), Formed(d), NEW x, NEW null
  PROVE  Columns(Nullable(d, x, null)) = Columns(d) /\ Formed(Nullable(d, x, null))
<1>. DEFINE g(c) == IF c.name = x THEN [c EXCEPT !.null = null] ELSE c
<1>1. Nullable(d, x, null).columns = { g(c) : c \in d.columns }
  BY DEF Nullable, IsTable
<1>2. \A c \in d.columns : g(c).name = c.name /\ IsColumn(g(c))
  BY DEF Formed, IsColumn, Col
<1>. HIDE DEF g
<1>. QED  BY <1>1, <1>2 DEF Columns, Formed

LEMMA AlteredColumns ==
  ASSUME NEW op, Apt(op), NEW d, IsTable(d), Formed(d)
  PROVE  /\ Formed(Altered(op, d))
         /\ op.do = "add_column" => Columns(Altered(op, d)) = Columns(d) \cup {op.item.name}
         /\ op.do = "drop_column" => Columns(Altered(op, d)) = Columns(d) \ {op.item}
         /\ op.do \notin {"create_table", "drop_table", "add_column", "drop_column"} =>
              Columns(Altered(op, d)) = Columns(d)
<1>1. CASE op.do = "create_table"
  BY <1>1 DEF Altered, Apt
<1>2. CASE op.do = "drop_table"
  BY <1>2 DEF Altered, NoTable, Formed
<1>3. CASE op.do = "add_column"
  BY <1>3 DEF Altered, Apt, Formed, IsTable, Columns
<1>4. CASE op.do = "drop_column"
  BY <1>4 DEF Altered, Formed, IsTable, Columns
<1>5. CASE op.do = "set_null"
  BY <1>5, NullableColumns DEF Altered
<1>6. CASE op.do = "set_not_null"
  BY <1>6, NullableColumns DEF Altered
<1>7. CASE op.do = "add_check"
  BY <1>7 DEF Altered, Formed, IsTable, Columns
<1>8. CASE op.do = "drop_check"
  BY <1>8 DEF Altered, Formed, IsTable, Columns
<1>9. CASE op.do = "add_unique"
  BY <1>9 DEF Altered, Formed, IsTable, Columns
<1>10. CASE op.do = "drop_unique"
  BY <1>10 DEF Altered, Formed, IsTable, Columns
<1>11. CASE op.do = "add_ref"
  BY <1>11 DEF Altered, Formed, IsTable, Columns
<1>12. CASE op.do = "drop_ref"
  BY <1>12 DEF Altered, Formed, IsTable, Columns
<1>13. CASE op.do = "create_index"
  BY <1>13 DEF Altered, Formed, IsTable, Columns
<1>14. CASE op.do = "drop_index"
  BY <1>14 DEF Altered, Formed, IsTable, Columns
<1>. QED
  BY <1>1, <1>2, <1>3, <1>4, <1>5, <1>6, <1>7, <1>8, <1>9, <1>10, <1>11, <1>12, <1>13, <1>14
  DEF Apt, Doings

\* The checks an operation leaves.
LEMMA AlteredChecks ==
  ASSUME NEW op, Apt(op), NEW d, IsTable(d)
  PROVE  /\ op.do = "add_check" => Altered(op, d).checks = d.checks \cup {op.item}
         /\ op.do = "drop_check" => Altered(op, d).checks = { k \in d.checks : k.column # op.item }
         /\ op.do \notin {"create_table", "drop_table", "add_check", "drop_check"} =>
              Altered(op, d).checks = d.checks
<1>1. CASE op.do \in {"create_table", "drop_table"}
  BY <1>1
<1>2. CASE op.do \in {"add_column", "drop_column"}
  BY <1>2 DEF Altered, IsTable
<1>3. CASE op.do \in {"set_null", "set_not_null"}
  BY <1>3 DEF Altered, IsTable, Nullable
<1>4. CASE op.do \in {"add_check", "drop_check"}
  BY <1>4 DEF Altered, IsTable
<1>5. CASE op.do \in {"add_unique", "drop_unique"}
  BY <1>5 DEF Altered, IsTable
<1>6. CASE op.do \in {"add_ref", "drop_ref"}
  BY <1>6 DEF Altered, IsTable
<1>7. CASE op.do \in {"create_index", "drop_index"}
  BY <1>7 DEF Altered, IsTable
<1>. QED  BY <1>1, <1>2, <1>3, <1>4, <1>5, <1>6, <1>7 DEF Apt, Doings

\* The rows an operation leaves.
LEMMA RewrittenRows ==
  ASSUME NEW op, Apt(op), NEW R
  PROVE  /\ op.do \in {"create_table", "drop_table"} => Rewritten(op, R) = {}
         /\ op.do \notin {"create_table", "drop_table", "add_column", "drop_column"} =>
              Rewritten(op, R) = R
BY DEF Rewritten

\* Row s is row r with the column c, or without the column x.
Widened(s, r, c) ==
  /\ DOMAIN s = DOMAIN r \cup {c.name} /\ s[c.name] = Filled(c)
  /\ \A x \in DOMAIN r : x # c.name => s[x] = r[x]
Narrowed(s, r, x) == DOMAIN s = DOMAIN r \ {x} /\ \A y \in DOMAIN s : s[y] = r[y]

LEMMA RowsWithColumn ==
  ASSUME NEW op, op.do = "add_column", NEW R
  PROVE  \A s \in Rewritten(op, R) : \E r \in R : Widened(s, r, op.item)
BY DEF Rewritten, Widened

LEMMA RowsWithoutColumn ==
  ASSUME NEW op, op.do = "drop_column", NEW R
  PROVE  \A s \in Rewritten(op, R) : \E r \in R : Narrowed(s, r, op.item)
BY DEF Rewritten, Narrowed

LEMMA RowedAfter ==
  ASSUME NEW op, Apt(op), NEW d, IsTable(d), Formed(d), NEW R, Rowed(d, R)
  PROVE  Rowed(Altered(op, d), Rewritten(op, R))
<1>1. CASE op.do \in {"create_table", "drop_table"}
  BY <1>1, RewrittenRows DEF Rowed
<1>2. CASE op.do = "add_column"
  <2>1. Filled(op.item) \in Value
    BY <1>2 DEF Apt, Filled, Value
  <2>2. Columns(Altered(op, d)) = Columns(d) \cup {op.item.name}
    BY <1>2, AlteredColumns
  <2>3. ASSUME NEW s \in Rewritten(op, R)
        PROVE  DOMAIN s = Columns(Altered(op, d)) /\ \A x \in DOMAIN s : s[x] \in Value
    <3>1. PICK r \in R : Widened(s, r, op.item)
      BY <1>2, <2>3, RowsWithColumn
    <3>. QED  BY <2>1, <2>2, <3>1 DEF Rowed, Widened
  <2>. QED  BY <2>3 DEF Rowed
<1>3. CASE op.do = "drop_column"
  <2>1. Columns(Altered(op, d)) = Columns(d) \ {op.item}
    BY <1>3, AlteredColumns
  <2>2. ASSUME NEW s \in Rewritten(op, R)
        PROVE  DOMAIN s = Columns(Altered(op, d)) /\ \A x \in DOMAIN s : s[x] \in Value
    <3>1. PICK r \in R : Narrowed(s, r, op.item)
      BY <1>3, <2>2, RowsWithoutColumn
    <3>. QED  BY <2>1, <3>1 DEF Rowed, Narrowed
  <2>. QED  BY <2>2 DEF Rowed
<1>4. CASE op.do \notin {"create_table", "drop_table", "add_column", "drop_column"}
  BY <1>4, RewrittenRows, AlteredColumns DEF Rowed
<1>. QED  BY <1>1, <1>2, <1>3, <1>4

LEMMA FitsAfter ==
  ASSUME NEW op, Apt(op), NEW d, IsTable(d), Formed(d), NEW R, Rowed(d, R), Fits(d, R),
         Covered(Altered(op, d)),
         op.do = "add_column" => op.item.name \notin Columns(d),
         op.do = "add_check" => \A r \in R : r[op.item.column] \in op.item.values
  PROVE  Fits(Altered(op, d), Rewritten(op, R))
<1>1. CASE op.do \in {"create_table", "drop_table"}
  BY <1>1, RewrittenRows DEF Fits
<1>2. CASE op.do = "add_column"
  <2>1. Altered(op, d).checks = d.checks
    BY <1>2, AlteredChecks
  <2>2. ASSUME NEW s \in Rewritten(op, R), NEW k \in d.checks
        PROVE  k.column \in DOMAIN s /\ s[k.column] \in k.values
    <3>1. PICK r \in R : Widened(s, r, op.item)
      BY <1>2, <2>2, RowsWithColumn
    <3>2. k.column \in DOMAIN r /\ r[k.column] \in k.values /\ DOMAIN r = Columns(d)
      BY DEF Fits, Rowed
    <3>. QED  BY <1>2, <3>1, <3>2 DEF Widened
  <2>. QED  BY <2>1, <2>2 DEF Fits
<1>3. CASE op.do = "drop_column"
  <2>1. Altered(op, d).checks = d.checks /\ Columns(Altered(op, d)) = Columns(d) \ {op.item}
    BY <1>3, AlteredChecks, AlteredColumns
  <2>2. ASSUME NEW s \in Rewritten(op, R), NEW k \in d.checks
        PROVE  k.column \in DOMAIN s /\ s[k.column] \in k.values
    <3>1. PICK r \in R : Narrowed(s, r, op.item)
      BY <1>3, <2>2, RowsWithoutColumn
    <3>2. k.column \in DOMAIN r /\ r[k.column] \in k.values /\ k.column # op.item
      BY <2>1 DEF Fits, Covered
    <3>. QED  BY <3>1, <3>2 DEF Narrowed
  <2>. QED  BY <2>1, <2>2 DEF Fits
<1>4. CASE op.do = "add_check"
  <2>1. Altered(op, d).checks = d.checks \cup {op.item} /\ Columns(Altered(op, d)) = Columns(d)
    BY <1>4, AlteredChecks, AlteredColumns
  <2>2. op.item.column \in Columns(d)
    BY <2>1 DEF Covered
  <2>3. Rewritten(op, R) = R
    BY <1>4, RewrittenRows
  <2>. QED  BY <1>4, <2>1, <2>2, <2>3 DEF Fits, Rowed
<1>5. CASE op.do \notin {"create_table", "drop_table", "add_column", "drop_column", "add_check"}
  <2>1. Altered(op, d).checks \subseteq d.checks /\ Rewritten(op, R) = R
    BY <1>5, AlteredChecks, RewrittenRows
  <2>. QED  BY <2>1 DEF Fits
<1>. QED  BY <1>1, <1>2, <1>3, <1>4, <1>5

\* What an operation provides is so afterwards, and the operations of an upgrade leave it so.
LEMMA ProvidedAfter ==
  ASSUME NEW op, Apt(op), NEW d, NEW R, Fits(d, R), NEW x, NEW W, Provides(op, d, x, W),
         op.do = "drop_check" => \E k \in d.checks : k.column = op.item
  PROVE  InAll(Rewritten(op, R), x, W)
<1>1. CASE op.do = "add_column" /\ op.item.name = x /\ Filled(op.item) \in W
  <2>1. ASSUME NEW s \in Rewritten(op, R) PROVE x \in DOMAIN s /\ s[x] \in W
    <3>1. PICK r \in R : Widened(s, r, op.item)
      BY <1>1, <2>1, RowsWithColumn
    <3>. QED  BY <1>1, <3>1 DEF Widened
  <2>. QED  BY <2>1 DEF InAll
<1>2. CASE /\ op.do = "drop_check" /\ op.item = x
           /\ \A k \in d.checks : k.column = x => k.values \subseteq W
  <2>1. PICK k \in d.checks : k.column = x
    BY <1>2
  <2>2. Rewritten(op, R) = R
    BY <1>2, RewrittenRows
  <2>. QED  BY <1>2, <2>1, <2>2 DEF Fits, InAll
<1>. QED  BY <1>1, <1>2 DEF Provides

LEMMA InAllAfter ==
  ASSUME NEW op, Apt(op), op.do \in Advancing, NEW d, NEW R, Rowed(d, R), NEW x, NEW W,
         InAll(R, x, W), op.do = "add_column" => op.item.name \notin Columns(d)
  PROVE  InAll(Rewritten(op, R), x, W)
<1>1. CASE op.do = "add_column"
  <2>1. ASSUME NEW s \in Rewritten(op, R) PROVE x \in DOMAIN s /\ s[x] \in W
    <3>1. PICK r \in R : Widened(s, r, op.item)
      BY <1>1, <2>1, RowsWithColumn
    <3>2. x \in DOMAIN r /\ r[x] \in W /\ DOMAIN r = Columns(d)
      BY DEF InAll, Rowed
    <3>. QED  BY <1>1, <3>1, <3>2 DEF Widened
  <2>. QED  BY <2>1 DEF InAll
<1>2. CASE op.do = "create_table"
  BY <1>2, RewrittenRows DEF InAll
<1>3. CASE op.do \notin {"create_table", "add_column"}
  <2>1. Rewritten(op, R) = R
    BY <1>3, RewrittenRows DEF Advancing
  <2>. QED  BY <2>1
<1>. QED  BY <1>1, <1>2, <1>3

-----------------------------------------------------------------------------
(* What an upgrade relies on. *)

\* Some operation of U before the m-th has provided for one of W in column x of table t.
Given(U, T, m, t, x, W) ==
  \E p \in 1..(m - 1) : U[p].table = t /\ Provides(U[p], T[p - 1][t], x, W)

\* The m-th operation of the upgrade U with the trail T asks of rows only what has been
\* provided: a column that is added may be empty or has a default, a check admits what is there,
\* a unique column and one that refers to another table are still empty.
Ready(U, T, m) ==
  LET op == U[m] IN
  /\ op.do \in Advancing /\ Apt(op)
  /\ op.do = "create_table" => Covered(op.item) /\ \A p \in 1..(m - 1) : U[p].table # op.table
  /\ op.do = "add_column" => op.item.null \/ op.item.default # None
  /\ op.do = "add_check" => Given(U, T, m, op.table, op.item.column, op.item.values)
  /\ op.do = "add_unique" => \E x \in op.item : Given(U, T, m, op.table, x, {Null})
  /\ op.do = "add_ref" => Given(U, T, m, op.table, op.item.column, {Null})

\* What the first n operations have provided for in table t is still there.
Kept(U, T, n, t) ==
  \A p \in 1..n : U[p].table = t =>
    /\ U[p].do = "add_column" => U[p].item.name \in Columns(T[n][t])
    /\ U[p].do = "drop_check" => U[p].item \in Columns(T[n][t])

Sturdy(U, T, n) == \A t \in Tables : Covered(T[n][t]) /\ Formed(T[n][t]) /\ Kept(U, T, n, t)

LEMMA SturdyNext ==
  ASSUME NEW U, NEW T, NEW n \in Nat, Sturdy(U, T, n), T[n + 1] = Applied(U[n + 1], T[n]),
         Ready(U, T, n + 1), Takes(U[n + 1], T[n]), Sound(U[n + 1]),
         \A t \in Tables : IsTable(T[n][t])
  PROVE  Sturdy(U, T, n + 1)
<1>. DEFINE op == U[n + 1]
            s == op.table
            d == T[n][s]
            e == T[n + 1][s]
<1>1. /\ s \in Tables /\ op.do \in Advancing /\ Apt(op) /\ IsTable(d) /\ Covered(d) /\ Formed(d)
      /\ Kept(U, T, n, s) /\ e = Altered(op, d)
      /\ \A t \in Tables \ {s} : T[n + 1][t] = T[n][t]
  BY DEF Sound, Ready, Sturdy, Applied
<1>2. \A p : p \in 1..(n + 1) => p \in 1..n \/ p = n + 1
  OBVIOUS
<1>3. n + 1 - 1 = n
  OBVIOUS
<1>4. op.do = "create_table" => Covered(op.item) /\ \A p \in 1..n : U[p].table # s
  BY <1>3 DEF Ready
<1>5. op.do = "add_check" => Given(U, T, n + 1, s, op.item.column, op.item.values)
  BY DEF Ready
<1>6. op.do = "drop_check" => \E k \in d.checks : k.column = op.item
  BY DEF Takes
<1>7. /\ Formed(e)
      /\ op.do = "add_column" => Columns(e) = Columns(d) \cup {op.item.name}
      /\ op.do \notin {"create_table", "add_column"} => Columns(e) = Columns(d)
  BY <1>1, AlteredColumns DEF Advancing
<1>8. /\ op.do = "add_check" => e.checks = d.checks \cup {op.item}
      /\ op.do \notin {"create_table", "add_check"} => e.checks \subseteq d.checks
      /\ op.do = "create_table" => e = op.item
  <2>1. op.do = "create_table" => e = op.item
    BY <1>1 DEF Altered
  <2>2. /\ op.do = "add_check" => Altered(op, d).checks = d.checks \cup {op.item}
        /\ op.do = "drop_check" =>
             Altered(op, d).checks = { k \in d.checks : k.column # op.item }
        /\ op.do \notin {"create_table", "drop_table", "add_check", "drop_check"} =>
             Altered(op, d).checks = d.checks
    BY <1>1, AlteredChecks
  <2>3. op.do # "drop_table"
    BY <1>1 DEF Advancing
  <2>4. e = Altered(op, d)
    BY <1>1
  <2>. HIDE DEF op, d, e
  <2>. QED  BY <2>1, <2>2, <2>3, <2>4
<1>9. op.do = "add_check" => op.item.column \in Columns(d)
  <2>1. SUFFICES ASSUME op.do = "add_check" PROVE op.item.column \in Columns(d)
    OBVIOUS
  <2>2. PICK p \in 1..(n + 1 - 1) : U[p].table = s
               /\ Provides(U[p], T[p - 1][s], op.item.column, op.item.values)
    BY <1>5, <2>1 DEF Given
  <2>3. p \in 1..n
    BY <1>3, <2>2
  <2>. QED  BY <1>1, <2>2, <2>3 DEF Provides, Kept
<1>. HIDE DEF op, s, d, e
<1>10. Covered(e)
  <2>1. CASE op.do = "create_table"
    BY <1>4, <1>8, <2>1
  <2>2. CASE op.do # "create_table"
    BY <1>1, <1>7, <1>8, <1>9, <2>2 DEF Covered
  <2>. QED  BY <2>1, <2>2
<1>11. Kept(U, T, n + 1, s)
  <2>1. ASSUME NEW p \in 1..(n + 1), U[p].table = s
        PROVE  /\ U[p].do = "add_column" => U[p].item.name \in Columns(e)
               /\ U[p].do = "drop_check" => U[p].item \in Columns(e)
    <3>1. CASE p \in 1..n
      <4>1. op.do # "create_table"
        BY <1>4, <2>1, <3>1
      <4>2. Columns(d) \subseteq Columns(e)
        BY <1>7, <4>1
      <4>3. /\ U[p].do = "add_column" => U[p].item.name \in Columns(d)
            /\ U[p].do = "drop_check" => U[p].item \in Columns(d)
        BY <1>1, <2>1, <3>1 DEF Kept, d
      <4>. QED  BY <4>2, <4>3
    <3>2. CASE p = n + 1
      <4>1. U[p] = op
        BY <3>2 DEF op
      <4>2. op.do = "drop_check" => op.item \in Columns(d)
        BY <1>1, <1>6 DEF Covered
      <4>. QED  BY <1>7, <4>1, <4>2
    <3>. QED  BY <1>2, <3>1, <3>2
  <2>. QED  BY <2>1 DEF Kept, e
<1>12. ASSUME NEW t \in Tables \ {s} PROVE Kept(U, T, n + 1, t)
  <2>1. ASSUME NEW p \in 1..(n + 1), U[p].table = t PROVE p \in 1..n
    BY <1>2, <2>1 DEF s, op
  <2>2. T[n + 1][t] = T[n][t] /\ Kept(U, T, n, t)
    BY <1>1 DEF Sturdy
  <2>. QED  BY <2>1, <2>2 DEF Kept
<1>13. \A t \in Tables \ {s} : Covered(T[n + 1][t]) /\ Formed(T[n + 1][t])
  BY <1>1 DEF Sturdy
<1>. QED  BY <1>7, <1>10, <1>11, <1>12, <1>13 DEF Sturdy, e

LEMMA TrailSturdy ==
  ASSUME NEW U, NEW T, NEW N \in Nat, Sturdy(U, T, 0),
         \A n \in 1..N : T[n] = Applied(U[n], T[n - 1]),
         \A n \in 1..N : Ready(U, T, n) /\ Takes(U[n], T[n - 1]) /\ Sound(U[n]),
         \A n \in 0..N : \A t \in Tables : IsTable(T[n][t])
  PROVE  \A n \in 0..N : Sturdy(U, T, n)
<1>. DEFINE Good == { n \in 0..N : Sturdy(U, T, n) }
<1>1. 0 \in Good
  OBVIOUS
<1>2. ASSUME NEW n \in 0..(N - 1), n \in Good PROVE n + 1 \in Good
  <2>1. n \in Nat /\ n \in 0..N /\ n + 1 \in 1..N /\ n + 1 \in 0..N /\ n + 1 - 1 = n
    OBVIOUS
  <2>2. T[n + 1] = Applied(U[n + 1], T[n + 1 - 1]) /\ Ready(U, T, n + 1)
        /\ Takes(U[n + 1], T[n + 1 - 1]) /\ Sound(U[n + 1])
    BY <2>1
  <2>3. Sturdy(U, T, n) /\ \A t \in Tables : IsTable(T[n][t])
    BY <1>2, <2>1
  <2>. HIDE DEF Good
  <2>4. Sturdy(U, T, n + 1)
    BY <2>1, <2>2, <2>3, SturdyNext
  <2>. QED  BY <2>1, <2>4 DEF Good
<1>. HIDE DEF Good
<1>3. 0..N \subseteq Good
  BY <1>1, <1>2, UpTo
<1>. QED  BY <1>3 DEF Good

-----------------------------------------------------------------------------
(* The tables of the revisions admit the rows the program writes. *)

\* The columns of C have their parts, and defaults that rows may have.
Sane(C) == \A c \in C : IsColumn(c) /\ c.default \in Value \cup {None}

\* The check k is of a column in C that is never empty, and admits its default.
Guarded(C, k) ==
  /\ k.values # {} /\ k.values \subseteq Value
  /\ \E c \in C : c.name = k.column
  /\ \A c \in C : c.name = k.column => c.null = FALSE /\ c.default \in k.values \cup {None}

Neat(d) ==
  /\ IsTable(d) /\ Sane(d.columns)
  /\ \A k \in d.checks : Guarded(d.columns, k)
  /\ \A k \in d.checks : \A l \in d.checks : k.column = l.column => k = l

LEMMA NeatIs ==
  ASSUME NEW d, Neat(d)
  PROVE  Formed(d) /\ Covered(d)
BY DEF Neat, Sane, Guarded, Formed, Covered, Columns

LEMMA NothingNeat == Neat(NoTable)
BY DEF Neat, Sane, NoTable, IsTable

LEMMA IndexedNeat ==
  ASSUME NEW d, Neat(d), NEW x
  PROVE  Neat(Indexed(d, x))
BY IndexedTable DEF Neat, IsTable

LEMMA TableNeat ==
  ASSUME NEW C, NEW K, NEW Q, NEW R, NEW I, Sane(C), \A k \in K : Guarded(C, k),
         \A k \in K : \A l \in K : k.column = l.column => k = l
  PROVE  Neat(Table(C, K, Q, R, I))
BY TableParts DEF Neat

LEMMA Saneness ==
  /\ \A A : Sane(Required(A)) /\ Sane(Optional(A))
  /\ \A X, Y : Sane(X) /\ Sane(Y) => Sane(X \cup Y)
  /\ \A v \in Value : \A n : Sane({With(v, n)})
  /\ \A n : Sane({Col(n, TRUE, None)})
  /\ Sane(timestamp_columns) /\ Sane({})
BY DEF Sane, Required, Optional, With, Col, IsColumn, timestamp_columns, Value, Defaults

\* The columns of a table are required ones, optional ones and others.
Built(C, A, B, W) == C = Required(A) \cup Optional(B) \cup W

\* Of W, the columns with the name x take a value of V.
Allows(W, x, V) == \A w \in W : w.name = x => w.null = FALSE /\ w.default \in V
Named(W, x) == \E w \in W : w.name = x

LEMMA BuiltSane ==
  ASSUME NEW A, NEW B, NEW W, NEW C, Built(C, A, B, W), Sane(W)
  PROVE  Sane(C)
BY Saneness DEF Built

LEMMA Guarding ==
  ASSUME NEW A, NEW B, NEW W, NEW C, Built(C, A, B, W), NEW x, NEW V, V # {}, V \subseteq Value,
         x \notin B, x \in A \/ Named(W, x), Allows(W, x, V)
  PROVE  Guarded(C, Check(x, V))
<1>1. Check(x, V).column = x /\ Check(x, V).values = V
  BY DEF Check
<1>2. \A c \in Required(A) : c.name \in A /\ c.null = FALSE /\ c.default = None
  BY DEF Required, Col
<1>3. \A c \in Optional(B) : c.name \in B
  BY DEF Optional, Col
<1>4. x \in A => \E c \in Required(A) : c.name = x
  <2>1. Col(x, FALSE, None).name = x
    BY DEF Col
  <2>2. x \in A => Col(x, FALSE, None) \in Required(A)
    BY DEF Required
  <2>. QED  BY <2>1, <2>2
<1>. QED  BY <1>1, <1>2, <1>3, <1>4 DEF Guarded, Built, Named, Allows

LEMMA WithParts ==
  \A v, n : With(v, n).name = n /\ With(v, n).null = FALSE /\ With(v, n).default = v
BY DEF With, Col

\* A column that may be empty.
Maybe(n) == Col(n, TRUE, None)

LEMMA MaybeParts == \A n : Maybe(n).name = n /\ Maybe(n).null = TRUE /\ Maybe(n).default = None
BY DEF Maybe, Col

LEMMA Columned == (\A v, n : IsColumn(With(v, n))) /\ \A n : IsColumn(Maybe(n))
BY DEF IsColumn, With, Maybe, Col

LEMMA CheckParts == \A x, V : Check(x, V).column = x /\ Check(x, V).values = V
BY DEF Check

\* What the checks admit.
Admitted == {PLAN_CHECK, TONE_CHECK, GENERATION_STATUS_CHECK, SUBSCRIPTION_STATUS_CHECK,
             NonNegative, Percent, Positive, {"user", "admin"}, {"pending", "succeeded", "failed"},
             {"fixed_credits", "top_up_discount"}, FIRST_TYPES, OLD_CREDIT_TRANSACTION_TYPES,
             NEW_CREDIT_TRANSACTION_TYPES, OLD_PAYMENT_STATUSES, NEW_PAYMENT_STATUSES,
             {"free", "standard", "pro"}, {"top_up", "promo", "spend"}}

LEMMA AdmittedValues == \A V \in Admitted : V # {} /\ V \subseteq Value
BY DEF Admitted, PLAN_CHECK, TONE_CHECK, GENERATION_STATUS_CHECK, SUBSCRIPTION_STATUS_CHECK,
       NonNegative, Percent, Positive, FIRST_TYPES, OLD_CREDIT_TRANSACTION_TYPES,
       NEW_CREDIT_TRANSACTION_TYPES, OLD_PAYMENT_STATUSES, NEW_PAYMENT_STATUSES, Value, Plan, Tone,
       UserRole, GenerationStatus, SubscriptionStatus, CreditTransactionType, PaymentStatus,
       PromoCodeType

LEMMA NeatUsers1 == Neat(CreateUsers.item)
<1>. DEFINE A == {"id", "telegram_id"}
            B == {"username", "first_name", "language_code"}
            W == {With("free", "plan"), With("now", "created_at"), With("now", "updated_at")}
            K == {Check("plan", PLAN_CHECK)}
<1>1. IsTable(CreateUsers.item) /\ CreateUsers.item.checks = K
  BY TableParts DEF CreateUsers, Op
<1>2. Built(CreateUsers.item.columns, A, B, W)
  BY TableParts DEF Built, CreateUsers, Op, timestamp_columns
<1>3. Sane(W)
  BY WithParts, MaybeParts, Columned DEF Sane, Value, Defaults
<1>4. Guarded(CreateUsers.item.columns, Check("plan", PLAN_CHECK))
  <2>1. PLAN_CHECK # {} /\ PLAN_CHECK \subseteq Value
    BY AdmittedValues DEF Admitted
  <2>2. Allows(W, "plan", PLAN_CHECK)
    BY WithParts, MaybeParts DEF Allows, PLAN_CHECK
  <2>3. Named(W, "plan") /\ "plan" \notin B
    BY WithParts DEF Named
  <2>. HIDE DEF A, B, W, K
  <2>. QED  BY <1>2, <2>1, <2>2, <2>3, Guarding
<1>5. \A k \in K : \A l \in K : k.column = l.column => k = l
  BY CheckParts
<1>6. \A k \in K : Guarded(CreateUsers.item.columns, k)
  BY <1>4
<1>. HIDE DEF A, B, W, K
<1>. QED  BY <1>1, <1>2, <1>3, <1>5, <1>6, BuiltSane DEF Neat

LEMMA NeatEmployers == Neat(CreateEmployers.item)
<1>. DEFINE A == {"id", "hh_id", "name"}
            B == {"url", "raw_payload", "cached_at"}
            W == {With("now", "created_at"), With("now", "updated_at")}
            K == {}
<1>1. IsTable(CreateEmployers.item) /\ CreateEmployers.item.checks = K
  BY TableParts DEF CreateEmployers, Op
<1>2. Built(CreateEmployers.item.columns, A, B, W)
  BY TableParts DEF Built, CreateEmployers, Op, timestamp_columns
<1>3. Sane(W)
  BY WithParts, MaybeParts, Columned DEF Sane, Value, Defaults
<1>4. \A k \in K : \A l \in K : k.column = l.column => k = l
  BY CheckParts
<1>5. \A k \in K : Guarded(CreateEmployers.item.columns, k)
  OBVIOUS
<1>. HIDE DEF A, B, W, K
<1>. QED  BY <1>1, <1>2, <1>3, <1>4, <1>5, BuiltSane DEF Neat

LEMMA NeatVacancies == Neat(CreateVacancies.item)
<1>. DEFINE A == {"id", "hh_id", "employer_id", "title"}
            B == {"url", "raw_payload", "cached_at"}
            W == {With("now", "created_at"), With("now", "updated_at")}
            K == {}
<1>1. IsTable(CreateVacancies.item) /\ CreateVacancies.item.checks = K
  BY TableParts DEF CreateVacancies, Op
<1>2. Built(CreateVacancies.item.columns, A, B, W)
  BY TableParts DEF Built, CreateVacancies, Op, timestamp_columns
<1>3. Sane(W)
  BY WithParts, MaybeParts, Columned DEF Sane, Value, Defaults
<1>4. \A k \in K : \A l \in K : k.column = l.column => k = l
  BY CheckParts
<1>5. \A k \in K : Guarded(CreateVacancies.item.columns, k)
  OBVIOUS
<1>. HIDE DEF A, B, W, K
<1>. QED  BY <1>1, <1>2, <1>3, <1>4, <1>5, BuiltSane DEF Neat

LEMMA NeatProfiles1 == Neat(CreateResumeProfiles.item)
<1>. DEFINE A == {"id", "user_id", "resume_text"}
            B == {}
            W == {With("now", "created_at"), With("now", "updated_at")}
            K == {}
<1>1. IsTable(CreateResumeProfiles.item) /\ CreateResumeProfiles.item.checks = K
  BY TableParts DEF CreateResumeProfiles, Op
<1>2. Built(CreateResumeProfiles.item.columns, A, B, W)
  BY TableParts DEF Built, CreateResumeProfiles, Op, timestamp_columns, Optional
<1>3. Sane(W)
  BY WithParts, MaybeParts, Columned DEF Sane, Value, Defaults
<1>4. \A k \in K : \A l \in K : k.column = l.column => k = l
  BY CheckParts
<1>5. \A k \in K : Guarded(CreateResumeProfiles.item.columns, k)
  OBVIOUS
<1>. HIDE DEF A, B, W, K
<1>. QED  BY <1>1, <1>2, <1>3, <1>4, <1>5, BuiltSane DEF Neat

LEMMA NeatRequests1 == Neat(CreateGenerationRequests.item)
<1>. DEFINE A == {"id", "user_id", "profile_id", "vacancy_id", "tone"}
            B == {"error_message", "completed_at"}
            W == {With("pending", "status"), With("now", "created_at"), With("now", "updated_at")}
            K == {Check("status", GENERATION_STATUS_CHECK), Check("tone", TONE_CHECK)}
<1>1. IsTable(CreateGenerationRequests.item) /\ CreateGenerationRequests.item.checks = K
  BY TableParts DEF CreateGenerationRequests, Op
<1>2. Built(CreateGenerationRequests.item.columns, A, B, W)
  BY TableParts DEF Built, CreateGenerationRequests, Op, timestamp_columns
<1>3. Sane(W)
  BY WithParts, MaybeParts, Columned DEF Sane, Value, Defaults
<1>4. Guarded(CreateGenerationRequests.item.columns, Check("status", GENERATION_STATUS_CHECK))
  <2>1. GENERATION_STATUS_CHECK # {} /\ GENERATION_STATUS_CHECK \subseteq Value
    BY AdmittedValues DEF Admitted
  <2>2. Allows(W, "status", GENERATION_STATUS_CHECK)
    BY WithParts, MaybeParts DEF Allows, GENERATION_STATUS_CHECK
  <2>3. Named(W, "status") /\ "status" \notin B
    BY WithParts DEF Named
  <2>. HIDE DEF A, B, W, K
  <2>. QED  BY <1>2, <2>1, <2>2, <2>3, Guarding
<1>5. Guarded(CreateGenerationRequests.item.columns, Check("tone", TONE_CHECK))
  <2>1. TONE_CHECK # {} /\ TONE_CHECK \subseteq Value
    BY AdmittedValues DEF Admitted
  <2>2. Allows(W, "tone", TONE_CHECK)
    BY WithParts, MaybeParts DEF Allows, TONE_CHECK
  <2>3. "tone" \in A /\ "tone" \notin B
    OBVIOUS
  <2>. HIDE DEF A, B, W, K
  <2>. QED  BY <1>2, <2>1, <2>2, <2>3, Guarding
<1>6. \A k \in K : \A l \in K : k.column = l.column => k = l
  BY CheckParts
<1>7. \A k \in K : Guarded(CreateGenerationRequests.item.columns, k)
  BY <1>4, <1>5
<1>. HIDE DEF A, B, W, K
<1>. QED  BY <1>1, <1>2, <1>3, <1>6, <1>7, BuiltSane DEF Neat

LEMMA NeatLetters == Neat(CreateCoverLetters.item)
<1>. DEFINE A == {"id", "generation_request_id", "user_id", "profile_id", "vacancy_id",
                  "employer_id", "vacancy_title", "employer_name", "tone", "text",
                  "prompt_context", "model", "generation_ms"}
            B == {}
            W == {With("now", "created_at")}
            K == {Check("tone", TONE_CHECK)}
<1>1. IsTable(CreateCoverLetters.item) /\ CreateCoverLetters.item.checks = K
  BY TableParts DEF CreateCoverLetters, Op
<1>2. Built(CreateCoverLetters.item.columns, A, B, W)
  BY TableParts DEF Built, CreateCoverLetters, Op, timestamp_columns, Optional
<1>3. Sane(W)
  BY WithParts, MaybeParts, Columned DEF Sane, Value, Defaults
<1>4. Guarded(CreateCoverLetters.item.columns, Check("tone", TONE_CHECK))
  <2>1. TONE_CHECK # {} /\ TONE_CHECK \subseteq Value
    BY AdmittedValues DEF Admitted
  <2>2. Allows(W, "tone", TONE_CHECK)
    BY WithParts, MaybeParts DEF Allows, TONE_CHECK
  <2>3. "tone" \in A /\ "tone" \notin B
    OBVIOUS
  <2>. HIDE DEF A, B, W, K
  <2>. QED  BY <1>2, <2>1, <2>2, <2>3, Guarding
<1>5. \A k \in K : \A l \in K : k.column = l.column => k = l
  BY CheckParts
<1>6. \A k \in K : Guarded(CreateCoverLetters.item.columns, k)
  BY <1>4
<1>. HIDE DEF A, B, W, K
<1>. QED  BY <1>1, <1>2, <1>3, <1>5, <1>6, BuiltSane DEF Neat

LEMMA NeatSubscriptions == Neat(CreateSubscriptions.item)
<1>. DEFINE A == {"id", "user_id", "plan", "starts_at", "expires_at"}
            B == {}
            W == {With("active", "status"), With("now", "created_at"), With("now", "updated_at")}
            K == {Check("plan", PLAN_CHECK), Check("status", SUBSCRIPTION_STATUS_CHECK)}
<1>1. IsTable(CreateSubscriptions.item) /\ CreateSubscriptions.item.checks = K
  BY TableParts DEF CreateSubscriptions, Op
<1>2. Built(CreateSubscriptions.item.columns, A, B, W)
  BY TableParts DEF Built, CreateSubscriptions, Op, timestamp_columns, Optional
<1>3. Sane(W)
  BY WithParts, MaybeParts, Columned DEF Sane, Value, Defaults
<1>4. Guarded(CreateSubscriptions.item.columns, Check("plan", PLAN_CHECK))
  <2>1. PLAN_CHECK # {} /\ PLAN_CHECK \subseteq Value
    BY AdmittedValues DEF Admitted
  <2>2. Allows(W, "plan", PLAN_CHECK)
    BY WithParts, MaybeParts DEF Allows, PLAN_CHECK
  <2>3. "plan" \in A /\ "plan" \notin B
    OBVIOUS
  <2>. HIDE DEF A, B, W, K
  <2>. QED  BY <1>2, <2>1, <2>2, <2>3, Guarding
<1>5. Guarded(CreateSubscriptions.item.columns, Check("status", SUBSCRIPTION_STATUS_CHECK))
  <2>1. SUBSCRIPTION_STATUS_CHECK # {} /\ SUBSCRIPTION_STATUS_CHECK \subseteq Value
    BY AdmittedValues DEF Admitted
  <2>2. Allows(W, "status", SUBSCRIPTION_STATUS_CHECK)
    BY WithParts, MaybeParts DEF Allows, SUBSCRIPTION_STATUS_CHECK
  <2>3. Named(W, "status") /\ "status" \notin B
    BY WithParts DEF Named
  <2>. HIDE DEF A, B, W, K
  <2>. QED  BY <1>2, <2>1, <2>2, <2>3, Guarding
<1>6. \A k \in K : \A l \in K : k.column = l.column => k = l
  BY CheckParts
<1>7. \A k \in K : Guarded(CreateSubscriptions.item.columns, k)
  BY <1>4, <1>5
<1>. HIDE DEF A, B, W, K
<1>. QED  BY <1>1, <1>2, <1>3, <1>6, <1>7, BuiltSane DEF Neat

LEMMA NeatCodes == Neat(CreatePromoCodes.item)
<1>. DEFINE A == {"id", "code", "type", "value", "valid_until", "max_activations"}
            B == {}
            W == {With("0", "activations_count"), With("true", "is_active"),
                  With("now", "created_at"), With("now", "updated_at")}
            K == {Check("type", {"fixed_credits", "top_up_discount"}), Check("value", Positive),
                  Check("max_activations", Positive), Check("activations_count", NonNegative)}
<1>1. IsTable(CreatePromoCodes.item) /\ CreatePromoCodes.item.checks = K
  BY TableParts DEF CreatePromoCodes, Op
<1>2. Built(CreatePromoCodes.item.columns, A, B, W)
  BY TableParts DEF Built, CreatePromoCodes, Op, timestamp_columns, Optional
<1>3. Sane(W)
  BY WithParts, MaybeParts, Columned DEF Sane, Value, Defaults
<1>4. Guarded(CreatePromoCodes.item.columns, Check("type", {"fixed_credits", "top_up_discount"}))
  <2>1. /\ {"fixed_credits", "top_up_discount"} # {}
        /\ {"fixed_credits", "top_up_discount"} \subseteq Value
    BY AdmittedValues DEF Admitted
  <2>2. Allows(W, "type", {"fixed_credits", "top_up_discount"})
    BY WithParts, MaybeParts DEF Allows
  <2>3. "type" \in A /\ "type" \notin B
    OBVIOUS
  <2>. HIDE DEF A, B, W, K
  <2>. QED  BY <1>2, <2>1, <2>2, <2>3, Guarding
<1>5. Guarded(CreatePromoCodes.item.columns, Check("value", Positive))
  <2>1. Positive # {} /\ Positive \subseteq Value
    BY AdmittedValues DEF Admitted
  <2>2. Allows(W, "value", Positive)
    BY WithParts, MaybeParts DEF Allows, Positive
  <2>3. "value" \in A /\ "value" \notin B
    OBVIOUS
  <2>. HIDE DEF A, B, W, K
  <2>. QED  BY <1>2, <2>1, <2>2, <2>3, Guarding
<1>6. Guarded(CreatePromoCodes.item.columns, Check("max_activations", Positive))
  <2>1. Positive # {} /\ Positive \subseteq Value
    BY AdmittedValues DEF Admitted
  <2>2. Allows(W, "max_activations", Positive)
    BY WithParts, MaybeParts DEF Allows, Positive
  <2>3. "max_activations" \in A /\ "max_activations" \notin B
    OBVIOUS
  <2>. HIDE DEF A, B, W, K
  <2>. QED  BY <1>2, <2>1, <2>2, <2>3, Guarding
<1>7. Guarded(CreatePromoCodes.item.columns, Check("activations_count", NonNegative))
  <2>1. NonNegative # {} /\ NonNegative \subseteq Value
    BY AdmittedValues DEF Admitted
  <2>2. Allows(W, "activations_count", NonNegative)
    BY WithParts, MaybeParts DEF Allows, NonNegative
  <2>3. Named(W, "activations_count") /\ "activations_count" \notin B
    BY WithParts DEF Named
  <2>. HIDE DEF A, B, W, K
  <2>. QED  BY <1>2, <2>1, <2>2, <2>3, Guarding
<1>8. \A k \in K : \A l \in K : k.column = l.column => k = l
  BY CheckParts
<1>9. \A k \in K : Guarded(CreatePromoCodes.item.columns, k)
  BY <1>4, <1>5, <1>6, <1>7
<1>. HIDE DEF A, B, W, K
<1>. QED  BY <1>1, <1>2, <1>3, <1>8, <1>9, BuiltSane DEF Neat

LEMMA NeatIntents1 == Neat(CreatePaymentIntents.item)
<1>. DEFINE A == {"id", "user_id", "credits_amount", "amount_rub", "provider", "external_id"}
            B == {"confirmed_at"}
            W == {With("0", "discount_percent"), With("pending", "status"),
                  With("now", "created_at"), With("now", "updated_at")}
            K == {Check("status", {"pending", "succeeded", "failed"}),
                  Check("credits_amount", Positive), Check("amount_rub", NonNegative)}
<1>1. IsTable(CreatePaymentIntents.item) /\ CreatePaymentIntents.item.checks = K
  BY TableParts DEF CreatePaymentIntents, Op
<1>2. Built(CreatePaymentIntents.item.columns, A, B, W)
  BY TableParts DEF Built, CreatePaymentIntents, Op, timestamp_columns
<1>3. Sane(W)
  BY WithParts, MaybeParts, Columned DEF Sane, Value, Defaults
<1>4. Guarded(CreatePaymentIntents.item.columns,
              Check("status", {"pending", "succeeded", "failed"}))
  <2>1. /\ {"pending", "succeeded", "failed"} # {}
        /\ {"pending", "succeeded", "failed"} \subseteq Value
    BY AdmittedValues DEF Admitted
  <2>2. Allows(W, "status", {"pending", "succeeded", "failed"})
    BY WithParts, MaybeParts DEF Allows
  <2>3. Named(W, "status") /\ "status" \notin B
    BY WithParts DEF Named
  <2>. HIDE DEF A, B, W, K
  <2>. QED  BY <1>2, <2>1, <2>2, <2>3, Guarding
<1>5. Guarded(CreatePaymentIntents.item.columns, Check("credits_amount", Positive))
  <2>1. Positive # {} /\ Positive \subseteq Value
    BY AdmittedValues DEF Admitted
  <2>2. Allows(W, "credits_amount", Positive)
    BY WithParts, MaybeParts DEF Allows, Positive
  <2>3. "credits_amount" \in A /\ "credits_amount" \notin B
    OBVIOUS
  <2>. HIDE DEF A, B, W, K
  <2>. QED  BY <1>2, <2>1, <2>2, <2>3, Guarding
<1>6. Guarded(CreatePaymentIntents.item.columns, Check("amount_rub", NonNegative))
  <2>1. NonNegative # {} /\ NonNegative \subseteq Value
    BY AdmittedValues DEF Admitted
  <2>2. Allows(W, "amount_rub", NonNegative)
    BY WithParts, MaybeParts DEF Allows, NonNegative
  <2>3. "amount_rub" \in A /\ "amount_rub" \notin B
    OBVIOUS
  <2>. HIDE DEF A, B, W, K
  <2>. QED  BY <1>2, <2>1, <2>2, <2>3, Guarding
<1>7. \A k \in K : \A l \in K : k.column = l.column => k = l
  BY CheckParts
<1>8. \A k \in K : Guarded(CreatePaymentIntents.item.columns, k)
  BY <1>4, <1>5, <1>6
<1>. HIDE DEF A, B, W, K
<1>. QED  BY <1>1, <1>2, <1>3, <1>7, <1>8, BuiltSane DEF Neat

LEMMA NeatLedger1 == Neat(CreateCreditTransactions.item)
<1>. DEFINE A == {"id", "user_id", "type", "amount", "balance_after", "description"}
            B == {"generation_request_id", "payment_intent_id", "promo_code_id", "metadata_json"}
            W == {With("now", "created_at"), With("now", "updated_at")}
            K == {Check("type", {"top_up", "promo", "spend"})}
<1>1. IsTable(CreateCreditTransactions.item) /\ CreateCreditTransactions.item.checks = K
  BY TableParts DEF CreateCreditTransactions, Op
<1>2. Built(CreateCreditTransactions.item.columns, A, B, W)
  BY TableParts DEF Built, CreateCreditTransactions, Op, timestamp_columns
<1>3. Sane(W)
  BY WithParts, MaybeParts, Columned DEF Sane, Value, Defaults
<1>4. Guarded(CreateCreditTransactions.item.columns, Check("type", {"top_up", "promo", "spend"}))
  <2>1. {"top_up", "promo", "spend"} # {} /\ {"top_up", "promo", "spend"} \subseteq Value
    BY AdmittedValues DEF Admitted
  <2>2. Allows(W, "type", {"top_up", "promo", "spend"})
    BY WithParts, MaybeParts DEF Allows
  <2>3. "type" \in A /\ "type" \notin B
    OBVIOUS
  <2>. HIDE DEF A, B, W, K
  <2>. QED  BY <1>2, <2>1, <2>2, <2>3, Guarding
<1>5. \A k \in K : \A l \in K : k.column = l.column => k = l
  BY CheckParts
<1>6. \A k \in K : Guarded(CreateCreditTransactions.item.columns, k)
  BY <1>4
<1>. HIDE DEF A, B, W, K
<1>. QED  BY <1>1, <1>2, <1>3, <1>5, <1>6, BuiltSane DEF Neat

LEMMA NeatRedemptions == Neat(CreatePromoRedemptions.item)
<1>. DEFINE A == {"id", "promo_code_id", "user_id"}
            B == {}
            W == {With("now", "created_at"), With("now", "updated_at")}
            K == {}
<1>1. IsTable(CreatePromoRedemptions.item) /\ CreatePromoRedemptions.item.checks = K
  BY TableParts DEF CreatePromoRedemptions, Op
<1>2. Built(CreatePromoRedemptions.item.columns, A, B, W)
  BY TableParts DEF Built, CreatePromoRedemptions, Op, timestamp_columns, Optional
<1>3. Sane(W)
  BY WithParts, MaybeParts, Columned DEF Sane, Value, Defaults
<1>4. \A k \in K : \A l \in K : k.column = l.column => k = l
  BY CheckParts
<1>5. \A k \in K : Guarded(CreatePromoRedemptions.item.columns, k)
  OBVIOUS
<1>. HIDE DEF A, B, W, K
<1>. QED  BY <1>1, <1>2, <1>3, <1>4, <1>5, BuiltSane DEF Neat

LEMMA NeatPurchases == Neat(CreateSubscriptionPaymentIntents.item)
<1>. DEFINE A == {"id", "user_id", "plan", "amount_rub", "provider", "external_id"}
            B == {"confirmed_at"}
            W == {With("pending", "status"), With("now", "created_at"), With("now", "updated_at")}
            K == {Check("plan", {"free", "standard", "pro"}),
                  Check("status", NEW_PAYMENT_STATUSES), Check("amount_rub", NonNegative)}
<1>1. /\ IsTable(CreateSubscriptionPaymentIntents.item)
      /\ CreateSubscriptionPaymentIntents.item.checks = K
  BY TableParts DEF CreateSubscriptionPaymentIntents, Op
<1>2. Built(CreateSubscriptionPaymentIntents.item.columns, A, B, W)
  BY TableParts DEF Built, CreateSubscriptionPaymentIntents, Op, timestamp_columns
<1>3. Sane(W)
  BY WithParts, MaybeParts, Columned DEF Sane, Value, Defaults
<1>4. Guarded(CreateSubscriptionPaymentIntents.item.columns,
              Check("plan", {"free", "standard", "pro"}))
  <2>1. {"free", "standard", "pro"} # {} /\ {"free", "standard", "pro"} \subseteq Value
    BY AdmittedValues DEF Admitted
  <2>2. Allows(W, "plan", {"free", "standard", "pro"})
    BY WithParts, MaybeParts DEF Allows
  <2>3. "plan" \in A /\ "plan" \notin B
    OBVIOUS
  <2>. HIDE DEF A, B, W, K
  <2>. QED  BY <1>2, <2>1, <2>2, <2>3, Guarding
<1>5. Guarded(CreateSubscriptionPaymentIntents.item.columns, Check("status", NEW_PAYMENT_STATUSES))
  <2>1. NEW_PAYMENT_STATUSES # {} /\ NEW_PAYMENT_STATUSES \subseteq Value
    BY AdmittedValues DEF Admitted
  <2>2. Allows(W, "status", NEW_PAYMENT_STATUSES)
    BY WithParts, MaybeParts DEF Allows, NEW_PAYMENT_STATUSES, OLD_PAYMENT_STATUSES
  <2>3. Named(W, "status") /\ "status" \notin B
    BY WithParts DEF Named
  <2>. HIDE DEF A, B, W, K
  <2>. QED  BY <1>2, <2>1, <2>2, <2>3, Guarding
<1>6. Guarded(CreateSubscriptionPaymentIntents.item.columns, Check("amount_rub", NonNegative))
  <2>1. NonNegative # {} /\ NonNegative \subseteq Value
    BY AdmittedValues DEF Admitted
  <2>2. Allows(W, "amount_rub", NonNegative)
    BY WithParts, MaybeParts DEF Allows, NonNegative
  <2>3. "amount_rub" \in A /\ "amount_rub" \notin B
    OBVIOUS
  <2>. HIDE DEF A, B, W, K
  <2>. QED  BY <1>2, <2>1, <2>2, <2>3, Guarding
<1>7. \A k \in K : \A l \in K : k.column = l.column => k = l
  BY CheckParts
<1>8. \A k \in K : Guarded(CreateSubscriptionPaymentIntents.item.columns, k)
  BY <1>4, <1>5, <1>6
<1>. HIDE DEF A, B, W, K
<1>. QED  BY <1>1, <1>2, <1>3, <1>7, <1>8, BuiltSane DEF Neat

LEMMA NeatLedger ==
  ASSUME NEW types, types \in Admitted
  PROVE  Neat(Ledger(types))
<1>. DEFINE A == {"id", "user_id", "type", "amount", "balance_after", "description"}
            B == {"generation_request_id", "payment_intent_id", "promo_code_id", "metadata_json"}
            W == {With("now", "created_at"), With("now", "updated_at")}
            K == {} \cup {Check("type", types)}
<1>1. IsTable(Ledger(types)) /\ Ledger(types).checks = K
  BY TableParts DEF Ledger
<1>2. Built(Ledger(types).columns, A, B, W)
  BY TableParts DEF Built, Ledger, timestamp_columns
<1>3. Sane(W)
  BY WithParts, MaybeParts, Columned DEF Sane, Value, Defaults
<1>4. Guarded(Ledger(types).columns, Check("type", types))
  <2>1. types # {} /\ types \subseteq Value
    BY AdmittedValues DEF Admitted
  <2>2. Allows(W, "type", types)
    BY WithParts, MaybeParts DEF Allows
  <2>3. "type" \in A /\ "type" \notin B
    OBVIOUS
  <2>. HIDE DEF A, B, W, K
  <2>. QED  BY <1>2, <2>1, <2>2, <2>3, Guarding
<1>5. \A k \in K : \A l \in K : k.column = l.column => k = l
  BY CheckParts
<1>6. \A k \in K : Guarded(Ledger(types).columns, k)
  BY <1>4
<1>. HIDE DEF A, B, W, K
<1>. QED  BY <1>1, <1>2, <1>3, <1>5, <1>6, BuiltSane DEF Neat

LEMMA NeatIntents ==
  ASSUME NEW statuses, statuses \in Admitted, "pending" \in statuses
  PROVE  Neat(Intents(statuses))
<1>. DEFINE A == {"id", "user_id", "credits_amount", "amount_rub", "provider", "external_id"}
            B == {"confirmed_at"}
            W == {With("0", "discount_percent"), With("pending", "status"),
                  With("now", "created_at"), With("now", "updated_at")}
            K == {Check("credits_amount", Positive), Check("amount_rub", NonNegative)}
                   \cup {Check("status", statuses)}
<1>1. IsTable(Intents(statuses)) /\ Intents(statuses).checks = K
  BY TableParts DEF Intents
<1>2. Built(Intents(statuses).columns, A, B, W)
  BY TableParts DEF Built, Intents, timestamp_columns
<1>3. Sane(W)
  BY WithParts, MaybeParts, Columned DEF Sane, Value, Defaults
<1>4. Guarded(Intents(statuses).columns, Check("credits_amount", Positive))
  <2>1. Positive # {} /\ Positive \subseteq Value
    BY AdmittedValues DEF Admitted
  <2>2. Allows(W, "credits_amount", Positive)
    BY WithParts, MaybeParts DEF Allows, Positive
  <2>3. "credits_amount" \in A /\ "credits_amount" \notin B
    OBVIOUS
  <2>. HIDE DEF A, B, W, K
  <2>. QED  BY <1>2, <2>1, <2>2, <2>3, Guarding
<1>5. Guarded(Intents(statuses).columns, Check("amount_rub", NonNegative))
  <2>1. NonNegative # {} /\ NonNegative \subseteq Value
    BY AdmittedValues DEF Admitted
  <2>2. Allows(W, "amount_rub", NonNegative)
    BY WithParts, MaybeParts DEF Allows, NonNegative
  <2>3. "amount_rub" \in A /\ "amount_rub" \notin B
    OBVIOUS
  <2>. HIDE DEF A, B, W, K
  <2>. QED  BY <1>2, <2>1, <2>2, <2>3, Guarding
<1>6. Guarded(Intents(statuses).columns, Check("status", statuses))
  <2>1. statuses # {} /\ statuses \subseteq Value
    BY AdmittedValues DEF Admitted
  <2>2. Allows(W, "status", statuses)
    BY WithParts, MaybeParts DEF Allows
  <2>3. Named(W, "status") /\ "status" \notin B
    BY WithParts DEF Named
  <2>. HIDE DEF A, B, W, K
  <2>. QED  BY <1>2, <2>1, <2>2, <2>3, Guarding
<1>7. \A k \in K : \A l \in K : k.column = l.column => k = l
  BY CheckParts
<1>8. \A k \in K : Guarded(Intents(statuses).columns, k)
  BY <1>4, <1>5, <1>6
<1>. HIDE DEF A, B, W, K
<1>. QED  BY <1>1, <1>2, <1>3, <1>7, <1>8, BuiltSane DEF Neat

LEMMA NeatRequests5 == Neat(Requests(RequestColumns5))
<1>. DEFINE A == {"id", "user_id", "profile_id", "vacancy_id", "tone"}
            B == {"error_message", "completed_at"}
            W == {With("pending", "status"), With("now", "created_at"),
                  With("now", "updated_at"), Maybe("snapshot_profile_text"),
                  Maybe("snapshot_vacancy_text"), Maybe("snapshot_tone")}
            K == {Check("status", GENERATION_STATUS_CHECK), Check("tone", TONE_CHECK)}
<1>1. IsTable(Requests(RequestColumns5)) /\ Requests(RequestColumns5).checks = K
  BY TableParts DEF Requests
<1>2. Built(Requests(RequestColumns5).columns, A, B, W)
  <2>1. Requests(RequestColumns5).columns = RequestColumns5
    BY TableParts DEF Requests
  <2>2. RequestColumns5 = Required(A) \cup Optional(B) \cup W
    BY DEF RequestColumns5, RequestColumns1, profile_text, vacancy_text, snapshot_tone,
           timestamp_columns, Maybe
  <2>. QED  BY <2>1, <2>2 DEF Built
<1>3. Sane(W)
  BY WithParts, MaybeParts, Columned DEF Sane, Value, Defaults
<1>4. Guarded(Requests(RequestColumns5).columns, Check("status", GENERATION_STATUS_CHECK))
  <2>1. GENERATION_STATUS_CHECK # {} /\ GENERATION_STATUS_CHECK \subseteq Value
    BY AdmittedValues DEF Admitted
  <2>2. Allows(W, "status", GENERATION_STATUS_CHECK)
    BY WithParts, MaybeParts DEF Allows, GENERATION_STATUS_CHECK
  <2>3. Named(W, "status") /\ "status" \notin B
    BY WithParts DEF Named
  <2>. HIDE DEF A, B, W, K
  <2>. QED  BY <1>2, <2>1, <2>2, <2>3, Guarding
<1>5. Guarded(Requests(RequestColumns5).columns, Check("tone", TONE_CHECK))
  <2>1. TONE_CHECK # {} /\ TONE_CHECK \subseteq Value
    BY AdmittedValues DEF Admitted
  <2>2. Allows(W, "tone", TONE_CHECK)
    BY WithParts, MaybeParts DEF Allows, TONE_CHECK
  <2>3. "tone" \in A /\ "tone" \notin B
    OBVIOUS
  <2>. HIDE DEF A, B, W, K
  <2>. QED  BY <1>2, <2>1, <2>2, <2>3, Guarding
<1>6. \A k \in K : \A l \in K : k.column = l.column => k = l
  BY CheckParts
<1>7. \A k \in K : Guarded(Requests(RequestColumns5).columns, k)
  BY <1>4, <1>5
<1>. HIDE DEF A, B, W, K
<1>. QED  BY <1>1, <1>2, <1>3, <1>6, <1>7, BuiltSane DEF Neat

LEMMA NeatProfiles2 == Neat(ResumeProfile)
<1>. DEFINE A == {"id", "user_id", "resume_text"}
            B == {}
            W == {With("Resume", "title"), With("now", "created_at"), With("now", "updated_at")}
            K == {}
<1>1. IsTable(ResumeProfile) /\ ResumeProfile.checks = K
  BY TableParts DEF ResumeProfile
<1>2. Built(ResumeProfile.columns, A, B, W)
  BY TableParts DEF Built, ResumeProfile, TimestampMixin, Optional
<1>3. Sane(W)
  BY WithParts, MaybeParts, Columned DEF Sane, Value, Defaults
<1>4. \A k \in K : \A l \in K : k.column = l.column => k = l
  BY CheckParts
<1>5. \A k \in K : Guarded(ResumeProfile.columns, k)
  OBVIOUS
<1>. HIDE DEF A, B, W, K
<1>. QED  BY <1>1, <1>2, <1>3, <1>4, <1>5, BuiltSane DEF Neat

LEMMA NeatUsers3 == Neat(Users3)
<1>. DEFINE A == {"id"}
            B == {"telegram_id", "username", "first_name", "language_code"}
            W == {With("free", "plan"), With("now", "created_at"), With("now", "updated_at"),
                  Maybe("email"), Maybe("password_hash"), With("user", "role"),
                  With("0", "credits"), With("0", "pending_top_up_discount_percent")}
            K == {Check("plan", PLAN_CHECK)} \cup {roleCheck}
                   \cup {creditsCheck} \cup {percentCheck}
<1>1. IsTable(Users3) /\ Users3.checks = K
  BY TableParts DEF Users3
<1>2. Built(Users3.columns, A, B, W)
  <2>1. Users3.columns = UsersColumns3 \cup {email} \cup {password_hash} \cup {role} \cup {credits}
                          \cup {discount_percent}
    BY TableParts DEF Users3
  <2>2. UsersColumns3 \cup {email} \cup {password_hash} \cup {role} \cup {credits}
                          \cup {discount_percent} = Required(A) \cup Optional(B) \cup W
    BY DEF UsersColumns3, email, password_hash, role, credits, discount_percent,
           timestamp_columns, Maybe
  <2>. QED  BY <2>1, <2>2 DEF Built
<1>3. Sane(W)
  BY WithParts, MaybeParts, Columned DEF Sane, Value, Defaults
<1>4. Guarded(Users3.columns, Check("plan", PLAN_CHECK))
  <2>1. PLAN_CHECK # {} /\ PLAN_CHECK \subseteq Value
    BY AdmittedValues DEF Admitted
  <2>2. Allows(W, "plan", PLAN_CHECK)
    BY WithParts, MaybeParts DEF Allows, PLAN_CHECK
  <2>3. Named(W, "plan") /\ "plan" \notin B
    BY WithParts DEF Named
  <2>. HIDE DEF A, B, W, K
  <2>. QED  BY <1>2, <2>1, <2>2, <2>3, Guarding
<1>5. Guarded(Users3.columns, Check("role", {"user", "admin"}))
  <2>1. {"user", "admin"} # {} /\ {"user", "admin"} \subseteq Value
    BY AdmittedValues DEF Admitted
  <2>2. Allows(W, "role", {"user", "admin"})
    BY WithParts, MaybeParts DEF Allows
  <2>3. Named(W, "role") /\ "role" \notin B
    BY WithParts DEF Named
  <2>. HIDE DEF A, B, W, K
  <2>. QED  BY <1>2, <2>1, <2>2, <2>3, Guarding
<1>6. Guarded(Users3.columns, Check("credits", NonNegative))
  <2>1. NonNegative # {} /\ NonNegative \subseteq Value
    BY AdmittedValues DEF Admitted
  <2>2. Allows(W, "credits", NonNegative)
    BY WithParts, MaybeParts DEF Allows, NonNegative
  <2>3. Named(W, "credits") /\ "credits" \notin B
    BY WithParts DEF Named
  <2>. HIDE DEF A, B, W, K
  <2>. QED  BY <1>2, <2>1, <2>2, <2>3, Guarding
<1>7. Guarded(Users3.columns, Check("pending_top_up_discount_percent", Percent))
  <2>1. Percent # {} /\ Percent \subseteq Value
    BY AdmittedValues DEF Admitted
  <2>2. Allows(W, "pending_top_up_discount_percent", Percent)
    BY WithParts, MaybeParts DEF Allows, Percent
  <2>3. Named(W, "pending_top_up_discount_percent") /\ "pending_top_up_discount_percent" \notin B
    BY WithParts DEF Named
  <2>. HIDE DEF A, B, W, K
  <2>. QED  BY <1>2, <2>1, <2>2, <2>3, Guarding
<1>8. \A k \in K : \A l \in K : k.column = l.column => k = l
  BY CheckParts DEF roleCheck, creditsCheck, percentCheck
<1>9. \A k \in K : Guarded(Users3.columns, k)
  BY <1>4, <1>5, <1>6, <1>7 DEF roleCheck, creditsCheck, percentCheck
<1>. HIDE DEF A, B, W, K
<1>. QED  BY <1>1, <1>2, <1>3, <1>8, <1>9, BuiltSane DEF Neat

LEMMA NeatUsers5 == Neat(Users5)
<1>. DEFINE A == {"id"}
            B == {"telegram_id", "username", "first_name", "language_code"}
            W == {With("free", "plan"), With("now", "created_at"), With("now", "updated_at"),
                  Maybe("email"), Maybe("password_hash"), With("user", "role"),
                  With("0", "credits"), With("0", "pending_top_up_discount_percent"),
                  Maybe("pending_top_up_discount_valid_until"),
                  Maybe("pending_top_up_discount_promo_code_id")}
            K == {Check("plan", PLAN_CHECK)} \cup {roleCheck}
                   \cup {creditsCheck} \cup {percentCheck}
<1>1. IsTable(Users5) /\ Users5.checks = K
  BY TableParts DEF Users5
<1>2. Built(Users5.columns, A, B, W)
  <2>1. Users5.columns = UsersColumns5
    BY TableParts DEF Users5
  <2>2. UsersColumns5 = Required(A) \cup Optional(B) \cup W
    BY DEF UsersColumns5, UsersColumns3, email, password_hash, role, credits, discount_percent,
           valid_until, promo_code_id, timestamp_columns, Maybe
  <2>. QED  BY <2>1, <2>2 DEF Built
<1>3. Sane(W)
  BY WithParts, MaybeParts, Columned DEF Sane, Value, Defaults
<1>4. Guarded(Users5.columns, Check("plan", PLAN_CHECK))
  <2>1. PLAN_CHECK # {} /\ PLAN_CHECK \subseteq Value
    BY AdmittedValues DEF Admitted
  <2>2. Allows(W, "plan", PLAN_CHECK)
    BY WithParts, MaybeParts DEF Allows, PLAN_CHECK
  <2>3. Named(W, "plan") /\ "plan" \notin B
    BY WithParts DEF Named
  <2>. HIDE DEF A, B, W, K
  <2>. QED  BY <1>2, <2>1, <2>2, <2>3, Guarding
<1>5. Guarded(Users5.columns, Check("role", {"user", "admin"}))
  <2>1. {"user", "admin"} # {} /\ {"user", "admin"} \subseteq Value
    BY AdmittedValues DEF Admitted
  <2>2. Allows(W, "role", {"user", "admin"})
    BY WithParts, MaybeParts DEF Allows
  <2>3. Named(W, "role") /\ "role" \notin B
    BY WithParts DEF Named
  <2>. HIDE DEF A, B, W, K
  <2>. QED  BY <1>2, <2>1, <2>2, <2>3, Guarding
<1>6. Guarded(Users5.columns, Check("credits", NonNegative))
  <2>1. NonNegative # {} /\ NonNegative \subseteq Value
    BY AdmittedValues DEF Admitted
  <2>2. Allows(W, "credits", NonNegative)
    BY WithParts, MaybeParts DEF Allows, NonNegative
  <2>3. Named(W, "credits") /\ "credits" \notin B
    BY WithParts DEF Named
  <2>. HIDE DEF A, B, W, K
  <2>. QED  BY <1>2, <2>1, <2>2, <2>3, Guarding
<1>7. Guarded(Users5.columns, Check("pending_top_up_discount_percent", Percent))
  <2>1. Percent # {} /\ Percent \subseteq Value
    BY AdmittedValues DEF Admitted
  <2>2. Allows(W, "pending_top_up_discount_percent", Percent)
    BY WithParts, MaybeParts DEF Allows, Percent
  <2>3. Named(W, "pending_top_up_discount_percent") /\ "pending_top_up_discount_percent" \notin B
    BY WithParts DEF Named
  <2>. HIDE DEF A, B, W, K
  <2>. QED  BY <1>2, <2>1, <2>2, <2>3, Guarding
<1>8. \A k \in K : \A l \in K : k.column = l.column => k = l
  BY CheckParts DEF roleCheck, creditsCheck, percentCheck
<1>9. \A k \in K : Guarded(Users5.columns, k)
  BY <1>4, <1>5, <1>6, <1>7 DEF roleCheck, creditsCheck, percentCheck
<1>. HIDE DEF A, B, W, K
<1>. QED  BY <1>1, <1>2, <1>3, <1>8, <1>9, BuiltSane DEF Neat

\* The tables of each revision admit what the program writes.
LEMMA NeatSchemas == \A r \in 0..HEAD : \A t \in Tables : Neat(SchemaAt[r][t])
<1>1. \A t \in Tables : Neat(SchemaAt[0][t])
  BY Schemas, NothingNeat
<1>2. \A t \in Tables : Neat(SchemaAt[1][t])
  <2>1. /\ Neat(SchemaAt[1]["users"]) /\ Neat(SchemaAt[1]["employers"])
        /\ Neat(SchemaAt[1]["vacancies"]) /\ Neat(SchemaAt[1]["resume_profiles"])
    BY Revision1, NeatUsers1, NeatEmployers, NeatVacancies, NeatProfiles1
  <2>2. /\ Neat(SchemaAt[1]["generation_requests"]) /\ Neat(SchemaAt[1]["cover_letters"])
        /\ Neat(SchemaAt[1]["subscriptions"])
    BY Revision1, IndexedNeat, NeatRequests1, NeatLetters, NeatSubscriptions
  <2>3. \A t \in {"payment_intents", "promo_codes", "credit_transactions", "promo_redemptions",
                  "subscription_payment_intents"} : Neat(SchemaAt[1][t])
    BY Revision1, NothingNeat
  <2>. QED  BY <2>1, <2>2, <2>3 DEF Tables
<1>3. \A t \in Tables : Neat(SchemaAt[2][t])
  <2>1. SchemaAt[2]["resume_profiles"] = ResumeProfile
    BY Revision2, HeadProfiles
  <2>. QED  BY <1>2, <2>1, Revision2, NeatProfiles2
<1>4. /\ FIRST_TYPES \in Admitted /\ OLD_CREDIT_TRANSACTION_TYPES \in Admitted
      /\ NEW_CREDIT_TRANSACTION_TYPES \in Admitted /\ OLD_PAYMENT_STATUSES \in Admitted
      /\ NEW_PAYMENT_STATUSES \in Admitted
      /\ "pending" \in OLD_PAYMENT_STATUSES /\ "pending" \in NEW_PAYMENT_STATUSES
  <2>1. "pending" \in OLD_PAYMENT_STATUSES /\ "pending" \in NEW_PAYMENT_STATUSES
    BY DEF OLD_PAYMENT_STATUSES, NEW_PAYMENT_STATUSES
  <2>. QED  BY <2>1 DEF Admitted
<1>5. \A t \in Tables : Neat(SchemaAt[3][t])
  <2>1. /\ SchemaAt[3]["credit_transactions"] = Ledger(FIRST_TYPES)
        /\ SchemaAt[3]["payment_intents"] = Intents(OLD_PAYMENT_STATUSES)
    BY Revision3, IndexedTables
  <2>2. /\ Neat(SchemaAt[3]["credit_transactions"]) /\ Neat(SchemaAt[3]["payment_intents"])
    BY <1>4, <2>1, NeatLedger, NeatIntents
  <2>3. /\ Neat(SchemaAt[3]["users"]) /\ Neat(SchemaAt[3]["promo_codes"])
        /\ Neat(SchemaAt[3]["promo_redemptions"])
    BY Revision3, NeatUsers3, NeatCodes, NeatRedemptions, IndexedNeat
  <2>4. \A t \in Tables \ ({"users"} \cup Revision3Tables) : Neat(SchemaAt[3][t])
    BY <1>3, Revision3
  <2>. QED  BY <2>2, <2>3, <2>4 DEF Revision3Tables
<1>6. \A t \in Tables : Neat(SchemaAt[4][t])
  BY <1>4, <1>5, Revision4, NeatLedger
<1>7. \A t \in Tables : Neat(SchemaAt[5][t])
  <2>1. /\ Neat(SchemaAt[5]["users"]) /\ Neat(SchemaAt[5]["generation_requests"])
    BY Revision5, NeatUsers5, NeatRequests5
  <2>2. /\ Neat(SchemaAt[5]["credit_transactions"]) /\ Neat(SchemaAt[5]["payment_intents"])
    BY <1>4, Revision5, NeatLedger, NeatIntents
  <2>3. Neat(SchemaAt[5]["subscription_payment_intents"])
    BY Revision5, NeatPurchases, IndexedNeat
  <2>4. \A t \in Tables \ Revision5Tables : Neat(SchemaAt[5][t])
    BY <1>6, Revision5
  <2>. QED  BY <2>1, <2>2, <2>3, <2>4 DEF Revision5Tables
<1>8. \A r \in 0..HEAD : r \in {0, 1, 2, 3, 4, 5}
  BY DEF HEAD
<1>. QED  BY <1>1, <1>2, <1>3, <1>5, <1>6, <1>7, <1>8

-----------------------------------------------------------------------------
(* What the operations of each upgrade ask of rows has been provided. *)

\* The parts of an operation.
LEMMA OpParts ==
  \A do, t, x : Op(do, t, x).do = do /\ Op(do, t, x).table = t /\ Op(do, t, x).item = x
BY DEF Op

LEMMA CreatedReady ==
  ASSUME NEW U, NEW T, NEW m, NEW t, Creates(U[m], t), Neat(U[m].item),
         \A p \in 1..(m - 1) : U[p].table # t
  PROVE  Ready(U, T, m)
BY NeatIs DEF Ready, Creates, Advancing, Apt, Doings

LEMMA IndexReady ==
  ASSUME NEW U, NEW T, NEW m, U[m].do \in {"create_index", "set_null", "drop_check"}
  PROVE  Ready(U, T, m)
BY DEF Ready, Advancing, Apt, Doings

LEMMA ColumnReady ==
  ASSUME NEW U, NEW T, NEW m, U[m].do = "add_column", IsColumn(U[m].item),
         U[m].item.default \in Value \cup {None}, U[m].item.null \/ U[m].item.default # None
  PROVE  Ready(U, T, m)
BY DEF Ready, Advancing, Apt, Doings

LEMMA CheckReady ==
  ASSUME NEW U, NEW T, NEW m \in Nat, U[m].do = "add_check", NEW p \in Nat, 0 < p, p < m,
         U[p].table = U[m].table,
         Provides(U[p], T[p - 1][U[m].table], U[m].item.column, U[m].item.values)
  PROVE  Ready(U, T, m)
<1>1. p \in 1..(m - 1)
  OBVIOUS
<1>. QED  BY <1>1 DEF Ready, Given, Advancing, Apt, Doings

LEMMA UniqueReady ==
  ASSUME NEW U, NEW T, NEW m \in Nat, U[m].do = "add_unique", NEW p \in Nat, 0 < p, p < m,
         U[p].table = U[m].table, NEW x \in U[m].item,
         Provides(U[p], T[p - 1][U[m].table], x, {Null})
  PROVE  Ready(U, T, m)
<1>1. p \in 1..(m - 1)
  OBVIOUS
<1>. QED  BY <1>1 DEF Ready, Given, Advancing, Apt, Doings

LEMMA RefReady ==
  ASSUME NEW U, NEW T, NEW m \in Nat, U[m].do = "add_ref", NEW p \in Nat, 0 < p, p < m,
         U[p].table = U[m].table, NEW V, V = {Null},
         Provides(U[p], T[p - 1][U[m].table], U[m].item.column, V)
  PROVE  Ready(U, T, m)
<1>1. p \in 1..(m - 1)
  OBVIOUS
<1>. QED  BY <1>1 DEF Ready, Given, Advancing, Apt, Doings

\* A column that is added provides what it is filled with.
LEMMA AddedProvides ==
  ASSUME NEW op, op.do = "add_column", NEW d, NEW x, op.item.name = x, NEW W,
         Filled(op.item) \in W
  PROVE  Provides(op, d, x, W)
BY DEF Provides

LEMMA Fillings ==
  /\ \A n : Filled(Maybe(n)) = Null
  /\ \A v \in Defaults : \A n : Filled(With(v, n)) = v
BY MaybeParts, WithParts, MigrationConstants DEF Filled

-----------------------------------------------------------------------------
(* What each upgrade asks of the rows it finds. *)

LEMMA Upgrade1Is ==
  /\ Len(Upgrade1) = 10
  /\ Upgrade1[1] = CreateUsers /\ Upgrade1[2] = CreateEmployers /\ Upgrade1[3] = CreateVacancies
  /\ Upgrade1[4] = CreateResumeProfiles /\ Upgrade1[5] = CreateGenerationRequests
  /\ Upgrade1[6] = Op("create_index", "generation_requests", RequestsIndex)
  /\ Upgrade1[7] = CreateCoverLetters
  /\ Upgrade1[8] = Op("create_index", "cover_letters", LettersIndex)
  /\ Upgrade1[9] = CreateSubscriptions
  /\ Upgrade1[10] = Op("create_index", "subscriptions", SubscriptionsIndex)
BY DEF Upgrade1

LEMMA Ready1 == \A T : \A m \in 1..10 : Ready(Upgrade1, T, m)
<1>. SUFFICES ASSUME NEW T PROVE \A m \in 1..10 : Ready(Upgrade1, T, m)
  OBVIOUS
<1>. DEFINE U == Upgrade1
<1>1. /\ U[1].table = "users" /\ U[2].table = "employers" /\ U[3].table = "vacancies"
      /\ U[4].table = "resume_profiles" /\ U[5].table = "generation_requests"
      /\ U[6].table = "generation_requests" /\ U[7].table = "cover_letters"
      /\ U[8].table = "cover_letters"
  BY Upgrade1Is, Creations, OpParts DEF Creates
<1>2. Ready(U, T, 6) /\ Ready(U, T, 8) /\ Ready(U, T, 10)
  BY Upgrade1Is, OpParts, IndexReady
<1>. DEFINE new(m, t) == Creates(U[m], t) /\ Neat(U[m].item) /\ \A p \in 1..(m - 1) : U[p].table # t
<1>3. new(1, "users") /\ new(2, "employers") /\ new(3, "vacancies") /\ new(4, "resume_profiles")
  <2>1. \A p \in 1..3 : p \in {1, 2, 3}
    OBVIOUS
  <2>. QED
    BY <1>1, <2>1, Upgrade1Is, Creations, NeatUsers1, NeatEmployers, NeatVacancies, NeatProfiles1
<1>4. new(5, "generation_requests")
  <2>1. \A p \in 1..(5 - 1) : p \in {1, 2, 3, 4}
    OBVIOUS
  <2>. QED  BY <1>1, <2>1, Upgrade1Is, Creations, NeatRequests1
<1>5. new(7, "cover_letters")
  <2>1. \A p \in 1..(7 - 1) : p \in {1, 2, 3, 4, 5, 6}
    OBVIOUS
  <2>. QED  BY <1>1, <2>1, Upgrade1Is, Creations, NeatLetters
<1>6. new(9, "subscriptions")
  <2>1. \A p \in 1..(9 - 1) : p \in {1, 2, 3, 4, 5, 6, 7, 8}
    OBVIOUS
  <2>. QED  BY <1>1, <2>1, Upgrade1Is, Creations, NeatSubscriptions
<1>7. \A m, t : new(m, t) => Ready(U, T, m)
  BY CreatedReady
<1>. HIDE DEF new
<1>8. \A m \in 1..10 : m \in {1, 2, 3, 4, 5, 6, 7, 8, 9, 10}
  OBVIOUS
<1>. HIDE DEF U
<1>9. \A m \in 1..10 : Ready(U, T, m)
  BY <1>2, <1>3, <1>4, <1>5, <1>6, <1>7, <1>8
<1>. QED  BY <1>9 DEF U

LEMMA Ready2 == \A T : \A m \in 1..1 : Ready(Upgrade2, T, m)
<1>. SUFFICES ASSUME NEW T PROVE Ready(Upgrade2, T, 1)
  OBVIOUS
<1>1. Upgrade2[1] = Op("add_column", "resume_profiles", With("Resume", "title"))
  BY DEF Upgrade2
<1>2. "Resume" \in Value /\ "Resume" # None
  BY MigrationConstants DEF Value, Defaults
<1>. QED  BY <1>1, <1>2, OpParts, WithParts, Columned, ColumnReady

LEMMA Ready3 == \A T : \A m \in 1..17 : Ready(Upgrade3, T, m)
<1>. SUFFICES ASSUME NEW T PROVE \A m \in 1..17 : Ready(Upgrade3, T, m)
  OBVIOUS
<1>. DEFINE U == Upgrade3
<1>1. /\ U[1] = Op("set_null", "users", "telegram_id")
      /\ U[2] = Op("add_column", "users", Maybe("email"))
      /\ U[3] = Op("add_column", "users", Maybe("password_hash"))
      /\ U[4] = Op("add_column", "users", With("user", "role"))
      /\ U[5] = Op("add_column", "users", With("0", "credits"))
      /\ U[6] = Op("add_column", "users", With("0", "pending_top_up_discount_percent"))
      /\ U[7] = Op("add_unique", "users", {"email"})
      /\ U[8] = Op("add_check", "users", Check("role", {"user", "admin"}))
      /\ U[9] = Op("add_check", "users", Check("credits", NonNegative))
      /\ U[10] = Op("add_check", "users", Check("pending_top_up_discount_percent", Percent))
  <2>1. \A i \in {1, 2, 3, 4, 5, 6, 7, 8, 9, 10} : U[i] = AlterUsers3[i]
    BY Upgrade3Is
  <2>. HIDE DEF U
  <2>. QED
    BY <2>1, AlterUsers3Is
    DEF email, password_hash, role, credits, discount_percent, roleCheck, creditsCheck,
        percentCheck, Maybe
<1>2. /\ U[11] = CreatePaymentIntents
      /\ U[12] = Op("create_index", "payment_intents", IntentsIndex)
      /\ U[13] = CreatePromoCodes
      /\ U[14] = CreateCreditTransactions
      /\ U[15] = Op("create_index", "credit_transactions", CreatedIndex)
      /\ U[16] = CreatePromoRedemptions
      /\ U[17] = Op("create_index", "promo_redemptions", CreatedIndex)
  BY Upgrade3Is
<1>. HIDE DEF U
<1>3. Ready(U, T, 1) /\ Ready(U, T, 12) /\ Ready(U, T, 15) /\ Ready(U, T, 17)
  BY <1>1, <1>2, OpParts, IndexReady
<1>4. "user" \in Value /\ "user" # None /\ "0" \in Value /\ "0" # None
  BY MigrationConstants DEF Value, Defaults
<1>5. Ready(U, T, 2) /\ Ready(U, T, 3)
  BY <1>1, OpParts, MaybeParts, Columned, ColumnReady
<1>6. Ready(U, T, 4) /\ Ready(U, T, 5) /\ Ready(U, T, 6)
  BY <1>1, <1>4, OpParts, WithParts, Columned, ColumnReady
<1>7. Ready(U, T, 7)
  <2>1. U[2].do = "add_column" /\ U[2].item = Maybe("email")
    BY <1>1, OpParts
  <2>2. U[2].item.name = "email" /\ Filled(U[2].item) \in {Null}
    BY <2>1, MaybeParts, Fillings
  <2>3. Provides(U[2], T[2 - 1][U[7].table], "email", {Null})
    BY <2>1, <2>2, AddedProvides
  <2>4. U[2].table = U[7].table /\ "email" \in U[7].item /\ U[7].do = "add_unique"
    BY <1>1, OpParts
  <2>. QED  BY <2>3, <2>4, UniqueReady
<1>8. Ready(U, T, 8)
  <2>1. Filled(With("user", "role")) \in {"user", "admin"}
    BY Fillings DEF Defaults
  <2>2. U[4].do = "add_column" /\ U[4].item = With("user", "role")
    BY <1>1, OpParts
  <2>3. U[8].item.column = "role" /\ U[8].item.values = {"user", "admin"}
    BY <1>1, OpParts, CheckParts
  <2>4. U[4].item.name = "role" /\ Filled(U[4].item) \in {"user", "admin"}
    BY <2>1, <2>2, WithParts
  <2>5. Provides(U[4], T[4 - 1][U[8].table], U[8].item.column, U[8].item.values)
    BY <2>2, <2>3, <2>4, AddedProvides
  <2>6. U[4].table = U[8].table /\ U[8].do = "add_check"
    BY <1>1, OpParts
  <2>. QED  BY <2>5, <2>6, CheckReady
<1>9. Ready(U, T, 9)
  <2>1. Filled(With("0", "credits")) \in NonNegative
    BY Fillings DEF Defaults, NonNegative
  <2>2. U[5].do = "add_column" /\ U[5].item = With("0", "credits")
    BY <1>1, OpParts
  <2>3. U[9].item.column = "credits" /\ U[9].item.values = NonNegative
    BY <1>1, OpParts, CheckParts
  <2>4. U[5].item.name = "credits" /\ Filled(U[5].item) \in NonNegative
    BY <2>1, <2>2, WithParts
  <2>5. Provides(U[5], T[5 - 1][U[9].table], U[9].item.column, U[9].item.values)
    BY <2>2, <2>3, <2>4, AddedProvides
  <2>6. U[5].table = U[9].table /\ U[9].do = "add_check"
    BY <1>1, OpParts
  <2>. QED  BY <2>5, <2>6, CheckReady
<1>10. Ready(U, T, 10)
  <2>1. Filled(With("0", "pending_top_up_discount_percent")) \in Percent
    BY Fillings DEF Defaults, Percent
  <2>2. U[6].do = "add_column" /\ U[6].item = With("0", "pending_top_up_discount_percent")
    BY <1>1, OpParts
  <2>3. U[10].item.column = "pending_top_up_discount_percent" /\ U[10].item.values = Percent
    BY <1>1, OpParts, CheckParts
  <2>4. U[6].item.name = "pending_top_up_discount_percent" /\ Filled(U[6].item) \in Percent
    BY <2>1, <2>2, WithParts
  <2>5. Provides(U[6], T[6 - 1][U[10].table], U[10].item.column, U[10].item.values)
    BY <2>2, <2>3, <2>4, AddedProvides
  <2>6. U[6].table = U[10].table /\ U[10].do = "add_check"
    BY <1>1, OpParts
  <2>. QED  BY <2>5, <2>6, CheckReady
<1>11. /\ \A i \in {1, 2, 3, 4, 5, 6, 7, 8, 9, 10} : U[i].table = "users"
       /\ U[11].table = "payment_intents" /\ U[12].table = "payment_intents"
       /\ U[13].table = "promo_codes" /\ U[14].table = "credit_transactions"
       /\ U[15].table = "credit_transactions"
  <2>1. /\ U[11].table = "payment_intents" /\ U[12].table = "payment_intents"
        /\ U[13].table = "promo_codes" /\ U[14].table = "credit_transactions"
        /\ U[15].table = "credit_transactions"
    BY <1>2, Creations, OpParts DEF Creates
  <2>. QED  BY <1>1, <2>1, OpParts
<1>. DEFINE new(m, t) == Creates(U[m], t) /\ Neat(U[m].item) /\ \A p \in 1..(m - 1) : U[p].table # t
<1>12. "pending" \in {"pending", "succeeded", "failed"}
  OBVIOUS
<1>13. /\ Neat(CreatePaymentIntents.item) /\ Neat(CreateCreditTransactions.item)
  BY NeatIntents1, NeatLedger1
<1>14. new(11, "payment_intents")
  <2>1. \A p \in 1..(11 - 1) : p \in {1, 2, 3, 4, 5, 6, 7, 8, 9, 10}
    OBVIOUS
  <2>. QED  BY <1>2, <1>11, <1>13, <2>1, Creations
<1>15. new(13, "promo_codes")
  <2>1. \A p \in 1..(13 - 1) : p \in {1, 2, 3, 4, 5, 6, 7, 8, 9, 10} \cup {11, 12}
    OBVIOUS
  <2>. QED  BY <1>2, <1>11, <2>1, Creations, NeatCodes
<1>16. new(14, "credit_transactions")
  <2>1. \A p \in 1..(14 - 1) : p \in {1, 2, 3, 4, 5, 6, 7, 8, 9, 10} \cup {11, 12, 13}
    OBVIOUS
  <2>. QED  BY <1>2, <1>11, <1>13, <2>1, Creations
<1>17. new(16, "promo_redemptions")
  <2>1. \A p \in 1..(16 - 1) : p \in {1, 2, 3, 4, 5, 6, 7, 8, 9, 10} \cup {11, 12, 13, 14, 15}
    OBVIOUS
  <2>. QED  BY <1>2, <1>11, <2>1, Creations, NeatRedemptions
<1>18. \A m, t : new(m, t) => Ready(U, T, m)
  BY CreatedReady
<1>. HIDE DEF new
<1>19. \A m \in 1..17 : m \in {1, 2, 3, 4, 5, 6, 7, 8, 9, 10} \cup {11, 12, 13, 14, 15, 16, 17}
  OBVIOUS
<1>20. \A m \in 1..17 : Ready(U, T, m)
  BY <1>3, <1>5, <1>6, <1>7, <1>8, <1>9, <1>10, <1>14, <1>15, <1>16, <1>17, <1>18, <1>19
<1>. QED  BY <1>20 DEF U

\* T is what the first N operations of U make, and none of them is on table t.
Walked(U, T, N) == \A n \in 1..N : T[n] = Applied(U[n], T[n - 1])
Spared(U, N, t) == \A n \in 1..N : U[n].table # t

LEMMA Untouched ==
  ASSUME NEW U, NEW T, NEW N \in Nat, Walked(U, T, N), NEW t, t \in Tables, Spared(U, N, t)
  PROVE  T[N][t] = T[0][t]
<1>. DEFINE Good == { n \in 0..N : T[n][t] = T[0][t] }
<1>1. 0 \in Good
  OBVIOUS
<1>2. ASSUME NEW n \in 0..(N - 1), n \in Good PROVE n + 1 \in Good
  <2>1. n + 1 \in 1..N /\ n + 1 \in 0..N /\ n + 1 - 1 = n
    OBVIOUS
  <2>2. T[n + 1] = Applied(U[n + 1], T[n + 1 - 1]) /\ U[n + 1].table # t
    BY <2>1 DEF Walked, Spared
  <2>3. T[n + 1][t] = T[n][t]
    BY <2>1, <2>2, Altering
  <2>. QED  BY <1>2, <2>1, <2>3
<1>. HIDE DEF Good
<1>3. 0..N \subseteq Good
  BY <1>1, <1>2, UpTo
<1>. QED  BY <1>3 DEF Good

\* A check that is dropped has seen to what it admitted.
LEMMA LedgerProvides ==
  ASSUME NEW op, op.do = "drop_check", op.item = "type", NEW types, NEW W, types \subseteq W
  PROVE  Provides(op, Ledger(types), "type", W)
<1>1. Ledger(types).checks = {} \cup {Check("type", types)}
  BY TableParts DEF Ledger
<1>. QED  BY <1>1, CheckParts DEF Provides

LEMMA IntentsProvide ==
  ASSUME NEW op, op.do = "drop_check", op.item = "status", NEW statuses, NEW W, statuses \subseteq W
  PROVE  Provides(op, Intents(statuses), "status", W)
<1>1. Intents(statuses).checks =
        {Check("credits_amount", Positive), Check("amount_rub", NonNegative)}
          \cup {Check("status", statuses)}
  BY TableParts DEF Intents
<1>. QED  BY <1>1, CheckParts DEF Provides

LEMMA Ready4 ==
  ASSUME NEW T, T[0]["credit_transactions"] = Ledger(FIRST_TYPES)
  PROVE  \A m \in 1..2 : Ready(Upgrade4, T, m)
<1>. DEFINE U == Upgrade4
<1>1. /\ U[1] = Op("drop_check", "credit_transactions", "type")
      /\ U[2] = Op("add_check", "credit_transactions", Check("type", OLD_CREDIT_TRANSACTION_TYPES))
  BY RecheckIs DEF Upgrade4, OLD_CREDIT_TRANSACTION_TYPES
<1>. HIDE DEF U
<1>2. /\ U[1].do = "drop_check" /\ U[1].table = "credit_transactions" /\ U[1].item = "type"
      /\ U[2].do = "add_check" /\ U[2].table = "credit_transactions"
      /\ U[2].item.column = "type" /\ U[2].item.values = OLD_CREDIT_TRANSACTION_TYPES
  BY <1>1, OpParts, CheckParts
<1>3. FIRST_TYPES \subseteq OLD_CREDIT_TRANSACTION_TYPES
  BY DEF FIRST_TYPES, OLD_CREDIT_TRANSACTION_TYPES
<1>4. Provides(U[1], T[1 - 1][U[2].table], U[2].item.column, U[2].item.values)
  BY <1>2, <1>3, LedgerProvides
<1>5. Ready(U, T, 1) /\ Ready(U, T, 2)
  <2>1. Ready(U, T, 1)
    BY <1>2, IndexReady
  <2>2. U[1].table = U[2].table
    BY <1>2
  <2>. QED  BY <1>2, <1>4, <2>1, <2>2, CheckReady
<1>. QED  BY <1>5 DEF U

LEMMA Ready5 ==
  ASSUME NEW T, \A n \in 1..12 : T[n] = Applied(Upgrade5[n], T[n - 1]),
         T[0]["credit_transactions"] = Ledger(OLD_CREDIT_TRANSACTION_TYPES),
         T[0]["payment_intents"] = Intents(OLD_PAYMENT_STATUSES)
  PROVE  \A m \in 1..12 : Ready(Upgrade5, T, m)
<1>. DEFINE U == Upgrade5
<1>1. /\ U[1] = Op("add_column", "users", Maybe("pending_top_up_discount_valid_until"))
      /\ U[2] = Op("add_column", "users", Maybe("pending_top_up_discount_promo_code_id"))
      /\ U[3] = Op("add_ref", "users", codeRef)
      /\ U[4] = Op("add_column", "generation_requests", Maybe("snapshot_profile_text"))
      /\ U[5] = Op("add_column", "generation_requests", Maybe("snapshot_vacancy_text"))
      /\ U[6] = Op("add_column", "generation_requests", Maybe("snapshot_tone"))
      /\ U[7] = Op("drop_check", "credit_transactions", "type")
      /\ U[8] = Op("add_check", "credit_transactions", Check("type", NEW_CREDIT_TRANSACTION_TYPES))
      /\ U[9] = Op("drop_check", "payment_intents", "status")
      /\ U[10] = Op("add_check", "payment_intents", Check("status", NEW_PAYMENT_STATUSES))
      /\ U[11] = CreateSubscriptionPaymentIntents
      /\ U[12] = Op("create_index", "subscription_payment_intents", UserStatus)
  <2>1. oldType.column = "type" /\ oldStatus.column = "status"
    BY CheckParts DEF oldType, oldStatus
  <2>. HIDE DEF U
  <2>. QED
    BY <2>1, Upgrade5Is
    DEF U, valid_until, promo_code_id, profile_text, vacancy_text, snapshot_tone, newType,
        newStatus, Maybe
<1>2. \A n \in 1..12 : T[n] = Applied(U[n], T[n - 1])
  OBVIOUS
<1>. HIDE DEF U
<1>3. /\ U[1].table = "users" /\ U[2].table = "users" /\ U[3].table = "users"
      /\ U[4].table = "generation_requests" /\ U[5].table = "generation_requests"
      /\ U[6].table = "generation_requests" /\ U[7].table = "credit_transactions"
      /\ U[8].table = "credit_transactions" /\ U[9].table = "payment_intents"
      /\ U[10].table = "payment_intents" /\ Creates(U[11], "subscription_payment_intents")
  BY <1>1, OpParts, Creations
<1>4. Ready(U, T, 7) /\ Ready(U, T, 9) /\ Ready(U, T, 12)
  BY <1>1, OpParts, IndexReady
<1>5. Ready(U, T, 1) /\ Ready(U, T, 2) /\ Ready(U, T, 4) /\ Ready(U, T, 5) /\ Ready(U, T, 6)
  BY <1>1, OpParts, MaybeParts, Columned, ColumnReady
<1>6. Ready(U, T, 3)
  <2>1. U[2].do = "add_column" /\ U[2].item = Maybe("pending_top_up_discount_promo_code_id")
    BY <1>1, OpParts
  <2>2. /\ U[2].item.name = "pending_top_up_discount_promo_code_id"
        /\ Filled(U[2].item) \in {Null}
    BY <2>1, MaybeParts, Fillings
  <2>3. U[3].item.column = "pending_top_up_discount_promo_code_id" /\ U[3].do = "add_ref"
    BY <1>1, OpParts DEF codeRef, Ref
  <2>4. Provides(U[2], T[2 - 1][U[3].table], U[3].item.column, {Null})
    BY <2>1, <2>2, <2>3, AddedProvides
  <2>5. U[2].table = U[3].table
    BY <1>3
  <2>. QED  BY <2>3, <2>4, <2>5, RefReady
<1>7. Ready(U, T, 8)
  <2>1. T[6]["credit_transactions"] = Ledger(OLD_CREDIT_TRANSACTION_TYPES)
    <3>1. \A n \in 1..6 : n \in {1, 2, 3, 4, 5, 6} /\ n \in 1..12
      OBVIOUS
    <3>2. Spared(U, 6, "credit_transactions")
      BY <1>3, <3>1 DEF Spared
    <3>3. Walked(U, T, 6)
      BY <1>2, <3>1 DEF Walked
    <3>4. 6 \in Nat /\ "credit_transactions" \in Tables
      BY DEF Tables
    <3>5. T[6]["credit_transactions"] = T[0]["credit_transactions"]
      BY <3>2, <3>3, <3>4, Untouched
    <3>. QED  BY <3>5
  <2>2. /\ U[7].do = "drop_check" /\ U[7].item = "type" /\ U[8].do = "add_check"
        /\ U[8].item.column = "type" /\ U[8].item.values = NEW_CREDIT_TRANSACTION_TYPES
    BY <1>1, OpParts, CheckParts
  <2>3. OLD_CREDIT_TRANSACTION_TYPES \subseteq NEW_CREDIT_TRANSACTION_TYPES
    BY DEF NEW_CREDIT_TRANSACTION_TYPES
  <2>4. Provides(U[7], T[7 - 1][U[8].table], U[8].item.column, U[8].item.values)
    BY <1>3, <2>1, <2>2, <2>3, LedgerProvides
  <2>5. U[7].table = U[8].table
    BY <1>3
  <2>. QED  BY <2>2, <2>4, <2>5, CheckReady
<1>8. Ready(U, T, 10)
  <2>1. T[8]["payment_intents"] = Intents(OLD_PAYMENT_STATUSES)
    <3>1. \A n \in 1..8 : n \in {1, 2, 3, 4, 5, 6, 7, 8} /\ n \in 1..12
      OBVIOUS
    <3>2. Spared(U, 8, "payment_intents")
      BY <1>3, <3>1 DEF Spared
    <3>3. Walked(U, T, 8)
      BY <1>2, <3>1 DEF Walked
    <3>4. 8 \in Nat /\ "payment_intents" \in Tables
      BY DEF Tables
    <3>5. T[8]["payment_intents"] = T[0]["payment_intents"]
      BY <3>2, <3>3, <3>4, Untouched
    <3>. QED  BY <3>5
  <2>2. /\ U[9].do = "drop_check" /\ U[9].item = "status" /\ U[10].do = "add_check"
        /\ U[10].item.column = "status" /\ U[10].item.values = NEW_PAYMENT_STATUSES
    BY <1>1, OpParts, CheckParts
  <2>3. OLD_PAYMENT_STATUSES \subseteq NEW_PAYMENT_STATUSES
    BY DEF NEW_PAYMENT_STATUSES
  <2>4. Provides(U[9], T[9 - 1][U[10].table], U[10].item.column, U[10].item.values)
    BY <1>3, <2>1, <2>2, <2>3, IntentsProvide
  <2>5. U[9].table = U[10].table
    BY <1>3
  <2>. QED  BY <2>2, <2>4, <2>5, CheckReady
<1>9. Ready(U, T, 11)
  <2>1. \A p \in 1..(11 - 1) : p \in {1, 2, 3, 4, 5, 6, 7, 8, 9, 10}
    OBVIOUS
  <2>2. \A p \in 1..(11 - 1) : U[p].table # "subscription_payment_intents"
    BY <1>3, <2>1
  <2>3. Neat(U[11].item)
    BY <1>1, NeatPurchases
  <2>. QED  BY <1>3, <2>2, <2>3, CreatedReady
<1>10. \A m \in 1..12 : m \in {1, 2, 3, 4, 5, 6, 7, 8, 9, 10} \cup {11, 12}
  OBVIOUS
<1>11. \A m \in 1..12 : Ready(U, T, m)
  BY <1>4, <1>5, <1>6, <1>7, <1>8, <1>9, <1>10
<1>. QED  BY <1>11 DEF U

\* The upgrades ask of rows only what they have provided.
LEMMA AllReady ==
  \A r \in 1..HEAD : /\ Len(upgrade[r]) \in 0..18
                     /\ \A m \in 1..Len(upgrade[r]) :
                          Ready(upgrade[r], Trail(upgrade[r], SchemaAt[r - 1]), m)
<1>1. /\ Len(Upgrade1) = 10 /\ Len(Upgrade2) = 1 /\ Len(Upgrade3) = 17 /\ Len(Upgrade4) = 2
      /\ Len(Upgrade5) = 12
  BY Upgrade1Is, Upgrade3Is, Upgrade5Is, RecheckIs DEF Long, Upgrade2, Upgrade4
<1>2. \A m \in 1..2 : Ready(Upgrade4, Trail(Upgrade4, SchemaAt[3]), m)
  <2>1. Trail(Upgrade4, SchemaAt[3])[0] = SchemaAt[3]
    BY <1>1, TrailSteps
  <2>2. SchemaAt[3]["credit_transactions"] = Ledger(FIRST_TYPES)
    BY Revision3, IndexedTables
  <2>. QED  BY <2>1, <2>2, Ready4
<1>3. \A m \in 1..12 : Ready(Upgrade5, Trail(Upgrade5, SchemaAt[4]), m)
  <2>. DEFINE T == Trail(Upgrade5, SchemaAt[4])
  <2>1. T[0] = SchemaAt[4] /\ \A n \in 1..12 : T[n] = Applied(Upgrade5[n], T[n - 1])
    <3>1. Long(Upgrade5, 12)
      BY Upgrade5Is
    <3>. QED  BY <3>1, Walk
  <2>2. SchemaAt[4]["credit_transactions"] = Ledger(OLD_CREDIT_TRANSACTION_TYPES)
    BY Revision4
  <2>3. SchemaAt[4]["payment_intents"] = Intents(OLD_PAYMENT_STATUSES)
    <3>1. "payment_intents" \in Tables \ {"credit_transactions"}
      BY DEF Tables
    <3>2. SchemaAt[4]["payment_intents"] = SchemaAt[3]["payment_intents"]
      BY <3>1, Revision4
    <3>3. SchemaAt[3]["payment_intents"] = Indexed(CreatePaymentIntents.item, IntentsIndex)
      BY Revision3
    <3>. QED  BY <3>2, <3>3, IndexedTables
  <2>. HIDE DEF T
  <2>4. \A m \in 1..12 : Ready(Upgrade5, T, m)
    BY <2>1, <2>2, <2>3, Ready5
  <2>. QED  BY <2>4 DEF T
<1>4. /\ \A m \in 1..10 : Ready(Upgrade1, Trail(Upgrade1, SchemaAt[0]), m)
      /\ \A m \in 1..1 : Ready(Upgrade2, Trail(Upgrade2, SchemaAt[1]), m)
      /\ \A m \in 1..17 : Ready(Upgrade3, Trail(Upgrade3, SchemaAt[2]), m)
  BY Ready1, Ready2, Ready3
<1>. DEFINE ready(U, S) == Len(U) \in 0..18 /\ \A m \in 1..Len(U) : Ready(U, Trail(U, S), m)
<1>5. /\ ready(Upgrade1, SchemaAt[0]) /\ ready(Upgrade2, SchemaAt[1])
      /\ ready(Upgrade3, SchemaAt[2]) /\ ready(Upgrade4, SchemaAt[3])
      /\ ready(Upgrade5, SchemaAt[4])
  BY <1>1, <1>2, <1>3, <1>4
<1>. HIDE DEF ready
<1>6. /\ upgrade[1] = Upgrade1 /\ upgrade[2] = Upgrade2 /\ upgrade[3] = Upgrade3
      /\ upgrade[4] = Upgrade4 /\ upgrade[5] = Upgrade5
  BY DEF upgrade
<1>7. \A r \in 1..HEAD : r \in {1, 2, 3, 4, 5}
  BY DEF HEAD
<1>8. 1 - 1 = 0 /\ 2 - 1 = 1 /\ 3 - 1 = 2 /\ 4 - 1 = 3 /\ 5 - 1 = 4
  OBVIOUS
<1>9. \A r \in 1..HEAD : ready(upgrade[r], SchemaAt[r - 1])
  BY <1>5, <1>6, <1>7, <1>8
<1>. QED  BY <1>9 DEF ready

\* Every check on the way of an upgrade is of a column there is, and of its downgrade.
LEMMA UpgradeSturdy ==
  ASSUME NEW r \in 1..HEAD
  PROVE  \A n \in 0..Len(upgrade[r]) : \A t \in Tables :
           /\ Covered(Trail(upgrade[r], SchemaAt[r - 1])[n][t])
           /\ IsTable(Trail(upgrade[r], SchemaAt[r - 1])[n][t])
<1>. DEFINE U == upgrade[r]
            S == SchemaAt[r - 1]
            T == Trail(U, S)
            N == Len(U)
<1>1. Reversed(U, downgrade[r], S) /\ r - 1 \in 0..HEAD
  BY Reversals DEF HEAD
<1>2. N \in Nat /\ Fine(S) /\ \A i \in 1..N : Undoes(downgrade[r][N + 1 - i], U[i], T[i - 1])
  BY <1>1 DEF Reversed
<1>3. T[0] = S /\ \A n \in 1..N : T[n] = Applied(U[n], T[n - 1])
  BY <1>2, TrailSteps
<1>4. \A n \in 1..N : Ready(U, T, n)
  BY AllReady
<1>. HIDE DEF U, S, T, N
<1>5. \A n \in 1..N : Takes(U[n], T[n - 1]) /\ Sound(U[n]) /\ Fine(Applied(U[n], T[n - 1]))
  BY <1>2 DEF Undoes
<1>6. \A n \in 0..N : Fine(T[n])
  <2>1. \A n \in 0..N : n = 0 \/ n \in 1..N
    BY <1>2
  <2>. QED  BY <1>2, <1>3, <1>5, <2>1
<1>7. \A n \in 0..N : \A t \in Tables : IsTable(T[n][t])
  BY <1>6 DEF Fine, Refers
<1>8. Sturdy(U, T, 0)
  <2>1. \A t \in Tables : Covered(S[t]) /\ Formed(S[t])
    BY <1>1, NeatSchemas, NeatIs DEF S
  <2>2. \A t \in Tables : Kept(U, T, 0, t)
    BY DEF Kept
  <2>. QED  BY <1>3, <2>1, <2>2 DEF Sturdy
<1>9. \A n \in 1..N : Ready(U, T, n) /\ Takes(U[n], T[n - 1]) /\ Sound(U[n])
  BY <1>4, <1>5
<1>10. \A n \in 0..N : Sturdy(U, T, n)
  BY <1>2, <1>3, <1>7, <1>8, <1>9, TrailSturdy
<1>11. \A n \in 0..N : \A t \in Tables : Covered(T[n][t]) /\ IsTable(T[n][t])
  BY <1>7, <1>10 DEF Sturdy
<1>. QED  BY <1>11 DEF T, U, S, N

\* The tables a command sees on its way, each check of a column there is.
LEMMA OnTheWay ==
  ASSUME NEW c \in Commands, c.at # c.target
  PROVE  /\ Len(OpsOf(c)) \in 0..18
         /\ \A n \in 0..Len(OpsOf(c)) : \A t \in Tables :
              /\ Covered(Trail(OpsOf(c), SchemaAt[c.at])[n][t])
              /\ IsTable(Trail(OpsOf(c), SchemaAt[c.at])[n][t])
<1>1. c.at \in 0..HEAD /\ c.target \in 0..HEAD /\ HEAD = 5
  BY DEF Commands, HEAD
<1>2. CASE c.target > c.at
  <2>1. c.at + 1 \in 1..HEAD /\ c.at + 1 - 1 = c.at
    BY <1>1, <1>2
  <2>2. OpsOf(c) = upgrade[c.at + 1]
    BY <1>2 DEF OpsOf
  <2>3. PICK r \in 1..HEAD : r = c.at + 1
    BY <2>1
  <2>4. r - 1 = c.at /\ OpsOf(c) = upgrade[r]
    BY <1>1, <2>1, <2>2, <2>3
  <2>5. Len(upgrade[r]) \in 0..18
    BY AllReady
  <2>6. \A n \in 0..Len(upgrade[r]) : \A t \in Tables :
           /\ Covered(Trail(upgrade[r], SchemaAt[r - 1])[n][t])
           /\ IsTable(Trail(upgrade[r], SchemaAt[r - 1])[n][t])
    BY UpgradeSturdy
  <2>. QED  BY <2>4, <2>5, <2>6
<1>3. CASE c.target < c.at
  <2>. DEFINE r == c.at
              U == upgrade[r]
              D == downgrade[r]
              S == SchemaAt[r - 1]
              N == Len(U)
  <2>1. r \in 1..HEAD
    BY <1>1, <1>3
  <2>2. OpsOf(c) = D
    BY <1>1, <1>3 DEF OpsOf
  <2>3. Reversed(U, D, S) /\ SchemaAt[r] = Replay(U, S)
    BY <2>1, Reversals
  <2>4. N \in 0..18 /\ Len(D) = N
    BY <2>1, <2>3, AllReady DEF Reversed
  <2>5. \A m \in 0..N : Trail(D, SchemaAt[r])[m] = Trail(U, S)[N - m]
    BY <2>3, WayBack
  <2>6. \A n \in 0..N : \A t \in Tables : Covered(Trail(U, S)[n][t]) /\ IsTable(Trail(U, S)[n][t])
    BY <2>1, UpgradeSturdy
  <2>. HIDE DEF r, U, D, S, N
  <2>7. \A m \in 0..N : N - m \in 0..N
    BY <2>4
  <2>8. \A m \in 0..N : \A t \in Tables :
          Covered(Trail(D, SchemaAt[r])[m][t]) /\ IsTable(Trail(D, SchemaAt[r])[m][t])
    BY <2>5, <2>6, <2>7
  <2>. QED  BY <2>2, <2>4, <2>8 DEF r
<1>. QED  BY <1>1, <1>2, <1>3

\* What a command does next is done with a table that has its columns.
LEMMA NextApt ==
  ASSUME NEW c \in Commands, c.at # c.target, c.pos \in 1..Len(OpsOf(c))
  PROVE  /\ Apt(OpsOf(c)[c.pos]) /\ OpsOf(c)[c.pos].table \in Tables
         /\ c.target > c.at => /\ OpsOf(c)[c.pos].do \in Advancing
                               /\ Ready(OpsOf(c), Trail(OpsOf(c), SchemaAt[c.at]), c.pos)
                               /\ Takes(OpsOf(c)[c.pos], View(c))
<1>1. c.at \in 0..HEAD /\ c.target \in 0..HEAD /\ HEAD = 5
  BY DEF Commands, HEAD
<1>2. CASE c.target > c.at
  <2>. DEFINE U == upgrade[c.at + 1]
              S == SchemaAt[c.at]
  <2>1. c.at + 1 \in 1..HEAD /\ c.at + 1 - 1 = c.at
    BY <1>1, <1>2
  <2>2. OpsOf(c) = U
    BY <1>2 DEF OpsOf
  <2>3. Reversed(U, downgrade[c.at + 1], S) /\ Ready(U, Trail(U, S), c.pos)
    <3>1. PICK r \in 1..HEAD : r = c.at + 1
      BY <2>1
    <3>2. Reversed(upgrade[r], downgrade[r], SchemaAt[r - 1])
      BY Reversals
    <3>3. \A m \in 1..Len(upgrade[r]) : Ready(upgrade[r], Trail(upgrade[r], SchemaAt[r - 1]), m)
      BY AllReady
    <3>4. r - 1 = c.at
      BY <1>1, <2>1, <3>1
    <3>. QED  BY <2>2, <3>1, <3>2, <3>3, <3>4
  <2>4. PICK v : Undoes(v, U[c.pos], Trail(U, S)[c.pos - 1])
    BY <2>2, <2>3 DEF Reversed
  <2>5. View(c) = Trail(U, S)[c.pos - 1]
    BY <2>2 DEF View
  <2>. HIDE DEF U, S
  <2>6. Takes(U[c.pos], View(c)) /\ U[c.pos].table \in Tables
    BY <2>4, <2>5 DEF Undoes, Sound
  <2>7. Apt(U[c.pos]) /\ U[c.pos].do \in Advancing
    BY <2>3 DEF Ready
  <2>. QED  BY <2>2, <2>3, <2>6, <2>7 DEF S
<1>3. CASE c.target < c.at
  <2>1. OpsOf(c)[c.pos].do \in Reversing /\ OpsOf(c)[c.pos].table \in Tables
    BY <1>3, Retreats
  <2>. QED  BY <1>1, <1>3, <2>1 DEF Apt, Doings, Reversing
<1>. QED  BY <1>1, <1>2, <1>3

\* The schema after the next operation.
LEMMA NextView ==
  ASSUME NEW c \in Commands, c.at # c.target, c.pos \in 1..Len(OpsOf(c)), NEW e,
         e.at = c.at, e.target = c.target, e.pos = c.pos + 1
  PROVE  /\ OpsOf(e) = OpsOf(c)
         /\ View(e) = Applied(OpsOf(c)[c.pos], View(c))
         /\ \A t \in Tables : /\ Covered(View(c)[t]) /\ Covered(View(e)[t])
                              /\ IsTable(View(c)[t]) /\ IsTable(View(e)[t])
<1>. DEFINE T == Trail(OpsOf(c), SchemaAt[c.at])
            n == c.pos
<1>1. OpsOf(e) = OpsOf(c)
  BY DEF OpsOf
<1>2. Len(OpsOf(c)) \in 0..18 /\ Len(OpsOf(c)) \in Nat /\ n + 1 - 1 = n /\ n \in 0..Len(OpsOf(c))
      /\ n - 1 \in 0..Len(OpsOf(c))
  BY OnTheWay
<1>3. View(c) = T[n - 1] /\ View(e) = T[n]
  BY <1>1, <1>2 DEF View
<1>4. T[n] = Applied(OpsOf(c)[n], T[n - 1])
  BY <1>2, TrailSteps
<1>5. \A m \in 0..Len(OpsOf(c)) : \A t \in Tables : Covered(T[m][t]) /\ IsTable(T[m][t])
  BY OnTheWay
<1>. HIDE DEF T, n
<1>6. \A t \in Tables : /\ Covered(View(c)[t]) /\ Covered(View(e)[t])
                        /\ IsTable(View(c)[t]) /\ IsTable(View(e)[t])
  BY <1>2, <1>3, <1>5
<1>. QED  BY <1>1, <1>3, <1>4, <1>6 DEF n

-----------------------------------------------------------------------------
(* The rows fit the tables, and what stops an upgrade. *)

\* What the command c has done so far to table t has provided for it in the rows R.
Gained(c, t, R) ==
  \A p \in 1..(c.pos - 1) : OpsOf(c)[p].table = t =>
    \A x : \A W : Provides(OpsOf(c)[p], Trail(OpsOf(c), SchemaAt[c.at])[p - 1][t], x, W) =>
                    InAll(R, x, W)

\* Rows have the columns of their table; those that are committed fit its checks.
TableRows(t) ==
  /\ Formed(def[t]) /\ Rowed(def[t], rows[t])
  /\ lock[t] = None => Fits(def[t], rows[t])
  /\ lock[t] # None => /\ Formed(saved[t].def) /\ Rowed(saved[t].def, saved[t].rows)
                       /\ Fits(saved[t].def, saved[t].rows)

Accepted(c) == c.phase = "refused" /\ c.target > c.began => c.overtaken

\* A command has locked the tables it has worked on. Those that were as its first revision
\* says have rows that fit, with what it has provided for.
Way(k) ==
  LET c == cmd[k] IN
  c.phase = "running" =>
    /\ \A p \in 1..(c.pos - 1) : OpsOf(c)[p].table \in Owned(k)
    /\ \A t \in Owned(k) : saved[t].def = SchemaAt[c.began][t] =>
         Fits(def[t], rows[t]) /\ (c.target > c.at => Gained(c, t, rows[t]))

RowInv ==
  /\ StopInv
  /\ rows = [t \in Tables |-> rows[t]]
  /\ \A t \in Tables : TableRows(t)
  /\ \A k \in Command : cmd[k].pos \in 1..20 /\ Accepted(cmd[k]) /\ Way(k)

\* What others do not touch stays as it is.
LEMMA OthersWay ==
  ASSUME RowInv, NEW j \in Command, cmd'[j] = cmd[j],
         \A t \in Tables : lock'[t] = j <=> lock[t] = j,
         \A t \in Tables : lock[t] = j =>
           def'[t] = def[t] /\ rows'[t] = rows[t] /\ saved'[t] = saved[t]
  PROVE  Way(j)'
<1>1. Way(j)
  BY DEF RowInv
<1>2. Owned(j)' = Owned(j)
  BY DEF Owned
<1>. QED  BY <1>1, <1>2 DEF Way, Owned

LEMMA RollbackRows ==
  ASSUME RowInv, NEW k \in Command, NEW phase \in {"idle", "refused"}, Rollback(k, phase), StopInv',
         phase = "refused" /\ cmd[k].target > cmd[k].began => revision # cmd[k].began
  PROVE  RowInv'
<1>. DEFINE c == cmd[k]
            late == revision # c.began
            e == [c EXCEPT !.phase = phase, !.overtaken = late]
<1>1. /\ None \notin Command /\ Tables \subseteq Names /\ DOMAIN lock = Names
      /\ cmd \in [Command -> Commands] /\ c \in Commands
      /\ \A t \in Tables : TableRows(t)
      /\ \A j \in Command : cmd[j].pos \in 1..20 /\ Accepted(cmd[j])
  BY MigrationConstants DEF RowInv, StopInv, SchemaInv, Shaped, Names
<1>2. /\ def' = [t \in Tables |-> IF lock[t] = k THEN saved[t].def ELSE def[t]]
      /\ rows' = [t \in Tables |-> IF lock[t] = k THEN saved[t].rows ELSE rows[t]]
      /\ saved' = [t \in Tables |-> IF lock[t] = k THEN Nothing ELSE saved[t]]
      /\ lock' = [t \in Names |-> IF lock[t] = k THEN None ELSE lock[t]]
      /\ cmd' = [cmd EXCEPT ![k] = e]
  BY <1>1 DEF Rollback, Release
<1>3. /\ e.began = c.began /\ e.target = c.target /\ e.phase = phase /\ e.pos = c.pos
      /\ e.overtaken = late
  <2>. HIDE DEF late
  <2>. QED  BY <1>1 DEF Commands
<1>. HIDE DEF e
<1>4. Accepted(e) /\ e.pos \in 1..20
  BY <1>1, <1>3 DEF Accepted
<1>5. ASSUME NEW t \in Tables PROVE TableRows(t)'
  <2>1. CASE lock[t] = k
    <3>1. def'[t] = saved[t].def /\ rows'[t] = saved[t].rows /\ lock'[t] = None /\ lock[t] # None
      BY <1>1, <1>2, <2>1
    <3>. QED  BY <1>1, <3>1 DEF TableRows
  <2>2. CASE lock[t] # k
    <3>1. def'[t] = def[t] /\ rows'[t] = rows[t] /\ lock'[t] = lock[t] /\ saved'[t] = saved[t]
      BY <1>1, <1>2, <2>2
    <3>. QED  BY <1>1, <3>1 DEF TableRows
  <2>. QED  BY <2>1, <2>2
<1>6. cmd'[k] = e /\ \A j \in Command \ {k} : cmd'[j] = cmd[j]
  BY <1>1, <1>2
<1>7. ASSUME NEW j \in Command PROVE cmd'[j].pos \in 1..20 /\ Accepted(cmd'[j]) /\ Way(j)'
  <2>1. CASE j = k
    <3>1. Way(j)'
      BY <1>3, <1>6, <2>1 DEF Way
    <3>. QED  BY <1>4, <1>6, <2>1, <3>1
  <2>2. CASE j # k
    <3>1. \A t \in Tables : lock'[t] = j <=> lock[t] = j
      BY <1>1, <1>2, <2>2
    <3>2. \A t \in Tables : lock[t] = j =>
            def'[t] = def[t] /\ rows'[t] = rows[t] /\ saved'[t] = saved[t]
      BY <1>2, <2>2
    <3>3. Way(j)'
      BY <1>6, <2>2, <3>1, <3>2, OthersWay
    <3>. QED  BY <1>1, <1>6, <2>2, <3>3
  <2>. QED  BY <2>1, <2>2
<1>. QED  BY <1>2, <1>5, <1>7 DEF RowInv

LEMMA BeginRows ==
  ASSUME RowInv, NEW k \in Command, Begin(k), StopInv'
  PROVE  RowInv'
<1>1. PICK target \in Target \ {revision} :
        cmd' = [cmd EXCEPT ![k] = [phase |-> "running", began |-> revision, at |-> revision,
                                   target |-> target, pos |-> 1, overtaken |-> FALSE]]
  BY DEF Begin
<1>. DEFINE e == [phase |-> "running", began |-> revision, at |-> revision,
                  target |-> target, pos |-> 1, overtaken |-> FALSE]
<1>2. /\ cmd \in [Command -> Commands] /\ OnItsWay(k) /\ Tables \subseteq Names
      /\ \A j \in Command : cmd[j].pos \in 1..20 /\ Accepted(cmd[j])
  BY DEF RowInv, StopInv, SchemaInv, Shaped, Names
<1>3. UNCHANGED <<def, rows, saved, lock>> /\ cmd[k].phase # "running"
  BY DEF Begin
<1>4. e.phase = "running" /\ e.pos = 1
  OBVIOUS
<1>5. cmd'[k] = e /\ \A j \in Command \ {k} : cmd'[j] = cmd[j]
  BY <1>1, <1>2
<1>. HIDE DEF e
<1>6. Way(k)'
  <2>1. \A t \in Tables : lock[t] # k
    BY <1>2, <1>3 DEF OnItsWay
  <2>2. Owned(k)' = {}
    BY <1>3, <2>1 DEF Owned
  <2>. QED  BY <1>4, <1>5, <2>2 DEF Way
<1>7. ASSUME NEW j \in Command PROVE cmd'[j].pos \in 1..20 /\ Accepted(cmd'[j]) /\ Way(j)'
  <2>1. CASE j = k
    BY <1>4, <1>5, <1>6, <2>1 DEF Accepted
  <2>2. CASE j # k
    <3>1. Way(j)'
      BY <1>3, <1>5, <2>2, OthersWay
    <3>. QED  BY <1>2, <1>5, <2>2, <3>1
  <2>. QED  BY <2>1, <2>2
<1>8. \A t \in Tables : TableRows(t)'
  BY <1>3 DEF RowInv, TableRows
<1>. QED  BY <1>3, <1>7, <1>8 DEF RowInv

LEMMA StampRows ==
  ASSUME RowInv, NEW k \in Command, Stamp(k), StopInv'
  PROVE  RowInv'
<1>. DEFINE c == cmd[k]
            e == [c EXCEPT !.pos = 1, !.at = NextOf(c)]
<1>1. /\ Shaped /\ c \in Commands /\ cmd \in [Command -> Commands] /\ Tables \subseteq Names
      /\ "alembic_version" \notin Tables /\ "alembic_version" \in Names
      /\ \A j \in Command : cmd[j].pos \in 1..20 /\ Accepted(cmd[j])
  BY DEF RowInv, StopInv, SchemaInv, Shaped, Names, Tables
<1>2. c.phase = "running"
  BY DEF Stamp
<1>3. CASE revision # c.began
  <2>1. Rollback(k, "refused")
    BY <1>3 DEF Stamp
  <2>. QED  BY <1>3, <2>1, RollbackRows
<1>4. CASE revision = c.began
  <2>1. /\ lock' = [lock EXCEPT !["alembic_version"] = k]
        /\ cmd' = [cmd EXCEPT ![k].pos = 1, ![k].at = IF Up(k) THEN @ + 1 ELSE @ - 1]
        /\ UNCHANGED <<def, rows, saved>>
    BY <1>4 DEF Stamp
  <2>2. \A t \in Tables : lock'[t] = lock[t]
    BY <1>1, <2>1 DEF Shaped
  <2>3. e.began = c.began /\ e.target = c.target /\ e.phase = "running" /\ e.pos = 1
    BY <1>1, <1>2 DEF Commands
  <2>4. cmd' = [cmd EXCEPT ![k] = e]
    <3>1. (IF Up(k) THEN c.at + 1 ELSE c.at - 1) = NextOf(c)
      BY DEF Up, NextOf
    <3>. QED  BY <1>1, <2>1, <3>1
  <2>. HIDE DEF e
  <2>5. cmd'[k] = e /\ \A j \in Command \ {k} : cmd'[j] = cmd[j]
    BY <1>1, <2>4
  <2>6. Way(k)'
    <3>1. Way(k)
      BY DEF RowInv
    <3>2. Owned(k)' = Owned(k)
      BY <2>2 DEF Owned
    <3>3. \A p \in 1..(e.pos - 1) : FALSE
      BY <2>3
    <3>4. \A t \in Owned(k) : saved[t].def = SchemaAt[c.began][t] => Fits(def[t], rows[t])
      BY <1>2, <3>1 DEF Way
    <3>. HIDE DEF c
    <3>5. \A t \in Owned(k)' :
            saved'[t].def = SchemaAt[cmd'[k].began][t] => Fits(def'[t], rows'[t])
      BY <2>1, <2>3, <2>5, <3>2, <3>4
    <3>. QED  BY <2>5, <3>3, <3>5 DEF Way, Gained
  <2>7. ASSUME NEW j \in Command PROVE cmd'[j].pos \in 1..20 /\ Accepted(cmd'[j]) /\ Way(j)'
    <3>1. CASE j = k
      BY <2>3, <2>5, <2>6, <3>1 DEF Accepted
    <3>2. CASE j # k
      <4>1. Way(j)'
        BY <2>1, <2>2, <2>5, <3>2, OthersWay
      <4>. QED  BY <1>1, <2>5, <3>2, <4>1
    <3>. QED  BY <3>1, <3>2
  <2>8. \A t \in Tables : TableRows(t)'
    BY <2>1, <2>2 DEF RowInv, TableRows
  <2>. QED  BY <2>1, <2>7, <2>8 DEF RowInv
<1>. QED  BY <1>3, <1>4

LEMMA CommitRows ==
  ASSUME RowInv, NEW k \in Command, Commit(k), StopInv'
  PROVE  RowInv'
<1>. DEFINE c == cmd[k]
<1>1. /\ Shaped /\ OnItsWay(k) /\ RevisionTellsSchema
      /\ Tables \subseteq Names /\ None \notin Command
      /\ \A t \in Tables : TableRows(t)
      /\ \A j \in Command : cmd[j].pos \in 1..20 /\ Accepted(cmd[j]) /\ Way(j)
  BY MigrationConstants DEF RowInv, StopInv, SchemaInv, Names
<1>2. /\ saved' = [t \in Tables |-> IF lock[t] = k THEN Nothing ELSE saved[t]]
      /\ lock' = [t \in Names |-> IF lock[t] = k THEN None ELSE lock[t]]
      /\ cmd' = [cmd EXCEPT ![k] = NoCommand] /\ def' = def /\ rows' = rows
      /\ c.phase = "running" /\ c.at = c.target
  BY <1>1 DEF Commit, Release, Shaped
<1>3. revision = c.began
  BY <1>1, <1>2 DEF OnItsWay
<1>4. ASSUME NEW t \in Tables, lock[t] = k PROVE Fits(def[t], rows[t])
  <2>1. saved[t].def = SchemaAt[c.began][t]
    BY <1>1, <1>3, <1>4 DEF RevisionTellsSchema, Committed
  <2>. QED  BY <1>1, <1>2, <1>4, <2>1 DEF Way, Owned
<1>5. ASSUME NEW t \in Tables PROVE TableRows(t)'
  <2>1. CASE lock[t] = k
    <3>1. lock'[t] = None
      BY <1>1, <1>2, <2>1
    <3>. QED  BY <1>1, <1>2, <1>4, <2>1, <3>1 DEF TableRows
  <2>2. CASE lock[t] # k
    <3>1. lock'[t] = lock[t] /\ saved'[t] = saved[t]
      BY <1>1, <1>2, <2>2
    <3>. QED  BY <1>1, <1>2, <3>1 DEF TableRows
  <2>. QED  BY <2>1, <2>2
<1>6. cmd'[k] = NoCommand /\ \A j \in Command \ {k} : cmd'[j] = cmd[j]
  BY <1>1, <1>2 DEF Shaped
<1>7. ASSUME NEW j \in Command PROVE cmd'[j].pos \in 1..20 /\ Accepted(cmd'[j]) /\ Way(j)'
  <2>1. CASE j = k
    BY <1>6, <2>1 DEF Accepted, NoCommand, Way
  <2>2. CASE j # k
    <3>1. \A t \in Tables : lock'[t] = j <=> lock[t] = j
      BY <1>1, <1>2, <2>2
    <3>2. \A t \in Tables : lock[t] = j =>
            def'[t] = def[t] /\ rows'[t] = rows[t] /\ saved'[t] = saved[t]
      BY <1>2, <2>2
    <3>3. Way(j)'
      BY <1>6, <2>2, <3>1, <3>2, OthersWay
    <3>. QED  BY <1>1, <1>6, <2>2, <3>3
  <2>. QED  BY <2>1, <2>2
<1>. QED  BY <1>2, <1>5, <1>7 DEF RowInv

\* What the program may write into a column is what the checks of it admit.
LEMMA WrittenValues ==
  ASSUME NEW t \in Tables, Neat(def[t]), NEW c \in def[t].columns
  PROVE  /\ Values(t, c) \subseteq Value /\ Plain(t, c) \in Value
         /\ \A k \in def[t].checks : k.column = c.name =>
              Values(t, c) \subseteq k.values /\ Plain(t, c) \in k.values
<1>. DEFINE K == { k \in def[t].checks : k.column = c.name }
            allowed == { k.values : k \in K }
            V == IF allowed = {} THEN {"x"} ELSE UNION allowed
<1>1. Values(t, c) = V \cup (IF c.null THEN {Null} ELSE {})
  BY DEF Values
<1>2. /\ \A k \in K : k.values # {} /\ k.values \subseteq Value /\ c.null = FALSE
                      /\ c.default \in k.values \cup {None}
      /\ \A k \in K : \A l \in K : k = l
      /\ c.default \in Value \cup {None}
  BY DEF Neat, Guarded, Sane
<1>3. V # {} /\ V \subseteq Value
  <2>1. CASE K = {}
    <3>1. V = {"x"}
      BY <2>1
    <3>. QED  BY <3>1 DEF Value
  <2>2. CASE K # {}
    <3>1. PICK k \in K : TRUE
      BY <2>2
    <3>2. k.values \in allowed /\ \A W \in allowed : W = k.values
      BY <1>2, <3>1
    <3>. HIDE DEF K, allowed
    <3>3. V = UNION allowed
      BY <3>2
    <3>4. UNION allowed = k.values
      BY <3>2
    <3>. QED  BY <1>2, <3>3, <3>4
  <2>. QED  BY <2>1, <2>2
<1>4. ASSUME NEW k \in K PROVE V = k.values
  <2>1. k.values \in allowed /\ \A W \in allowed : W = k.values
    BY <1>2, <1>4
  <2>. HIDE DEF K, allowed
  <2>2. UNION allowed = k.values
    BY <2>1
  <2>. QED  BY <2>1, <2>2
<1>. HIDE DEF V, allowed
<1>5. Values(t, c) \subseteq Value /\ Values(t, c) # {}
  BY <1>1, <1>3 DEF Value
<1>6. \A k \in K : Values(t, c) = k.values
  BY <1>1, <1>2, <1>4
<1>7. (CHOOSE v \in Values(t, c) : TRUE) \in Values(t, c)
  BY <1>5
<1>8. Plain(t, c) \in Value
  BY <1>2, <1>5, <1>7 DEF Plain, Value
<1>9. \A k \in K : Plain(t, c) \in k.values
  BY <1>2, <1>6, <1>7 DEF Plain
<1>. QED  BY <1>5, <1>6, <1>8, <1>9 DEF K

\* What is committed of a table admits what the program writes.
LEMMA UnlockedNeat ==
  ASSUME RowInv, NEW t \in Tables, lock[t] = None
  PROVE  Neat(def[t])
<1>1. RevisionTellsSchema /\ revision \in 0..HEAD
  BY DEF RowInv, StopInv, SchemaInv, Shaped
<1>2. def[t] = SchemaAt[revision][t]
  BY <1>1 DEF RevisionTellsSchema, Committed
<1>. QED  BY <1>1, <1>2, NeatSchemas

LEMMA InsertRows ==
  ASSUME RowInv, NEW t \in Written, Insert(t), StopInv'
  PROVE  RowInv'
<1>. DEFINE columns == def[t].columns
            vary    == { c \in columns : <<t, c.name>> \in Varied }
            plain   == [n \in Columns(def[t]) |-> Plain(t, CHOOSE c \in columns : c.name = n)]
            row(f)  == [n \in DOMAIN plain |-> IF n \in DOMAIN f THEN f[n] ELSE plain[n]]
<1>1. /\ lock[t] = None /\ t \in Tables /\ Neat(def[t]) /\ None \notin Command
      /\ UNCHANGED <<revision, def, saved, lock, cmd>>
  BY UnlockedNeat, MigrationConstants DEF Insert
<1>2. PICK f \in [{ c.name : c \in vary } -> UNION { Values(t, c) : c \in vary }] :
        (\A c \in vary : f[c.name] \in Values(t, c)) /\ rows' = [rows EXCEPT ![t] = {row(f)}]
  BY DEF Insert
<1>3. \A n \in Columns(def[t]) : \E c \in columns : c.name = n
  BY DEF Columns
<1>4. \A c \in columns : /\ Values(t, c) \subseteq Value /\ Plain(t, c) \in Value
                         /\ \A k \in def[t].checks : k.column = c.name =>
                              Values(t, c) \subseteq k.values /\ Plain(t, c) \in k.values
  BY <1>1, WrittenValues
<1>5. DOMAIN row(f) = Columns(def[t])
  OBVIOUS
<1>6. ASSUME NEW n \in Columns(def[t])
      PROVE  row(f)[n] \in Value /\ \A k \in def[t].checks : k.column = n => row(f)[n] \in k.values
  <2>1. CASE n \in { c.name : c \in vary }
    <3>1. PICK c \in vary : c.name = n
      BY <2>1
    <3>2. row(f)[n] = f[c.name]
      BY <2>1, <3>1, <1>2
    <3>. QED  BY <1>2, <1>4, <3>1, <3>2
  <2>2. CASE n \notin { c.name : c \in vary }
    <3>. DEFINE d == CHOOSE c \in columns : c.name = n
    <3>1. d \in columns /\ d.name = n
      BY <1>3
    <3>2. row(f)[n] = Plain(t, d)
      BY <2>2, <1>2
    <3>. HIDE DEF d, row
    <3>. QED  BY <1>4, <3>1, <3>2
  <2>. QED  BY <2>1, <2>2
<1>. HIDE DEF row
<1>7. Rowed(def[t], {row(f)}) /\ Fits(def[t], {row(f)})
  <2>1. \A k \in def[t].checks : k.column \in Columns(def[t])
    BY <1>1, NeatIs DEF Covered
  <2>. QED  BY <1>5, <1>6, <2>1 DEF Rowed, Fits
<1>8. rows'[t] = {row(f)} /\ \A s \in Tables \ {t} : rows'[s] = rows[s]
  BY <1>1, <1>2 DEF RowInv
<1>9. ASSUME NEW s \in Tables PROVE TableRows(s)'
  <2>1. TableRows(s)
    BY DEF RowInv
  <2>. QED  BY <1>1, <1>7, <1>8, <2>1 DEF TableRows
<1>10. ASSUME NEW j \in Command PROVE Way(j)'
  <2>1. \A s \in Tables : lock[s] = j => rows'[s] = rows[s]
    BY <1>1, <1>8
  <2>. QED  BY <1>1, <2>1, OthersWay
<1>11. rows' = [s \in Tables |-> rows'[s]]
  BY <1>2 DEF RowInv
<1>. QED  BY <1>1, <1>9, <1>10, <1>11 DEF RowInv

\* What an upgrade asks of rows its command has provided for.
LEMMA GivenGained ==
  ASSUME NEW k \in Command, cmd[k].phase = "running", cmd[k].target > cmd[k].at, Way(k),
         \A t \in Owned(k) : saved[t].def = SchemaAt[cmd[k].began][t],
         NEW t \in Tables, NEW x, NEW W,
         Given(OpsOf(cmd[k]), Trail(OpsOf(cmd[k]), SchemaAt[cmd[k].at]), cmd[k].pos, t, x, W)
  PROVE  InAll(rows[t], x, W)
<1>. DEFINE c == cmd[k]
            T == Trail(OpsOf(c), SchemaAt[c.at])
<1>1. PICK p \in 1..(c.pos - 1) : OpsOf(c)[p].table = t /\ Provides(OpsOf(c)[p], T[p - 1][t], x, W)
  BY DEF Given
<1>2. t \in Owned(k)
  BY <1>1 DEF Way
<1>3. Gained(c, t, rows[t])
  BY <1>2 DEF Way
<1>. QED  BY <1>1, <1>3 DEF Gained

LEMMA UpgradeGoesOn ==
  ASSUME RowInv, NEW k \in Command, Execute(k), revision = cmd[k].began,
         cmd[k].target > cmd[k].began
  PROVE  ~ Refused(OpsOf(cmd[k])[cmd[k].pos])
<1>. DEFINE c == cmd[k]
            op == OpsOf(c)[c.pos]
            S == View(c)
            R == rows[op.table]
<1>1. /\ SchemaInv /\ Shaped /\ OnItsWay(k) /\ RevisionTellsSchema /\ c \in Commands /\ Between(c)
      /\ None # k /\ Way(k)
  BY MigrationConstants DEF RowInv, StopInv, SchemaInv, Shaped
<1>2. /\ c.phase = "running" /\ c.at # c.target /\ c.pos <= Len(OpsOf(c))
      /\ \A t \in Touched(op) : lock[t] \in {None, k}
  BY Operation DEF Execute
<1>3. c.target > c.at /\ c.pos \in 1..Len(OpsOf(c))
  <2>1. c.at \in 0..HEAD /\ c.target \in 0..HEAD /\ c.began \in 0..HEAD /\ HEAD = 5
    BY <1>1 DEF Commands, HEAD
  <2>2. Len(OpsOf(c)) \in 0..18
    BY <1>1, <1>2, OnTheWay
  <2>3. c.target > c.at
    BY <1>1, <1>2, <2>1 DEF Between
  <2>4. c.pos \in 1..(Len(OpsOf(c)) + 1)
    BY <1>1, <1>2 DEF OnItsWay
  <2>. HIDE DEF c
  <2>. QED  BY <1>2, <2>2, <2>3, <2>4
<1>4. /\ op.table \in Tables /\ op.do \in Advancing /\ Takes(op, S)
      /\ Ready(OpsOf(c), Trail(OpsOf(c), SchemaAt[c.at]), c.pos)
  BY <1>1, <1>2, <1>3, NextApt
<1>5. op.table \in Touched(op)
  BY DEF Touched
<1>6. \A t \in Tables : lock[t] \in {None, k} => def[t] = S[t]
  BY <1>1, <1>2, FreeTables
<1>7. def[op.table] = S[op.table]
  BY <1>2, <1>4, <1>5, <1>6
<1>8. \A t \in Owned(k) : saved[t].def = SchemaAt[c.began][t]
  BY <1>1 DEF RevisionTellsSchema, Committed, Owned
<1>9. \A x : \A W : Given(OpsOf(c), Trail(OpsOf(c), SchemaAt[c.at]), c.pos, op.table, x, W) =>
                      InAll(R, x, W)
  BY <1>1, <1>2, <1>3, <1>4, <1>8, GivenGained
<1>10. /\ op.do = "add_column" => op.item.null \/ op.item.default # None
       /\ op.do = "add_check" => InAll(R, op.item.column, op.item.values)
       /\ op.do = "add_unique" => \E x \in op.item : InAll(R, x, {Null})
       /\ op.do = "add_ref" => InAll(R, op.item.column, {Null})
  <2>. HIDE DEF R
  <2>. QED  BY <1>4, <1>9 DEF Ready
<1>11. op.do = "add_ref" => def[op.item.to] = S[op.item.to]
  <2>1. SUFFICES ASSUME op.do = "add_ref" PROVE def[op.item.to] = S[op.item.to]
    OBVIOUS
  <2>2. Listed(OpsOf(c))
    BY <1>1, <1>2, OpsAre
  <2>3. Sound(op)
    BY <1>3, <2>2 DEF Listed
  <2>. HIDE DEF op
  <2>4. op.item.to \in Tables
    BY <2>1, <2>3 DEF Sound
  <2>5. op.item.to \in Touched(op)
    BY <2>1 DEF Touched
  <2>. QED  BY <1>2, <1>6, <2>4, <2>5
<1>. SUFFICES ASSUME Refused(op) PROVE FALSE
  OBVIOUS
<1>12. Refused(op)
  OBVIOUS
<1>. HIDE DEF op, S, c
<1>13. op.do # "create_table"
  BY <1>4, <1>7, <1>12 DEF Takes, Refused
<1>14. op.do # "add_column"
  BY <1>4, <1>7, <1>10, <1>12 DEF Takes, Refused
<1>15. op.do # "set_null"
  BY <1>4, <1>7, <1>12 DEF Takes, Refused
<1>16. op.do # "add_check"
  BY <1>4, <1>7, <1>10, <1>12 DEF Takes, Refused, InAll
<1>17. op.do # "drop_check"
  BY <1>4, <1>7, <1>12 DEF Takes, Refused
<1>18. op.do # "add_unique"
  <2>1. SUFFICES ASSUME op.do = "add_unique" PROVE FALSE
    OBVIOUS
  <2>2. op.item \notin def[op.table].uniques
    BY <1>4, <1>7, <2>1 DEF Takes
  <2>3. PICK x \in op.item : InAll(R, x, {Null})
    BY <1>10, <2>1
  <2>4. \E r, s \in R : r # s /\ \A y \in op.item : r[y] = s[y] /\ r[y] # Null
    BY <1>12, <2>1, <2>2 DEF Refused
  <2>. QED  BY <2>3, <2>4 DEF InAll
<1>19. op.do # "add_ref"
  <2>1. SUFFICES ASSUME op.do = "add_ref" PROVE FALSE
    OBVIOUS
  <2>2. op.item \notin def[op.table].refs /\ def[op.item.to].exists
    BY <1>4, <1>7, <1>11, <2>1 DEF Takes
  <2>3. \E r \in R : r[op.item.column] # Null
    BY <1>12, <2>1, <2>2 DEF Refused
  <2>. QED  BY <1>10, <2>1, <2>3 DEF InAll
<1>20. op.do # "create_index"
  BY <1>4, <1>7, <1>12 DEF Takes, Refused
<1>. QED
  BY <1>4, <1>13, <1>14, <1>15, <1>16, <1>17, <1>18, <1>19, <1>20 DEF Advancing

-----------------------------------------------------------------------------
(* The operations of a command, and what follows for every behaviour. *)

\* The operation op of the command k takes place, and locks the tables L.
Taken(k, op, L) ==
  /\ L \subseteq Tables /\ op.table \in L
  /\ \A t \in L : lock[t] \in {None, k}
  /\ \A t \in Tables : lock'[t] = IF t \in L THEN k ELSE lock[t]
  /\ \A t \in Tables : saved'[t] = IF t \in L /\ lock[t] # k THEN [def |-> def[t], rows |-> rows[t]]
                                   ELSE saved[t]
  /\ \A t \in Tables : def'[t] = IF t = op.table THEN Altered(op, def[t]) ELSE def[t]
  /\ \A t \in Tables : rows'[t] = IF t = op.table THEN Rewritten(op, rows[t]) ELSE rows[t]

LEMMA TakenIs ==
  ASSUME RowInv, NEW k \in Command, Execute(k),
         NEW op, op = OpsOf(cmd[k])[cmd[k].pos], ~ Refused(op)
  PROVE  /\ Taken(k, op, Touched(op))
         /\ cmd[k].phase = "running" /\ cmd[k].at # cmd[k].target /\ cmd[k] \in Commands
         /\ cmd[k].pos \in 1..Len(OpsOf(cmd[k]))
         /\ cmd' = [cmd EXCEPT ![k].pos = @ + 1] /\ rows' = [t \in Tables |-> rows'[t]]
<1>. DEFINE c == cmd[k]
<1>1. Shaped /\ OnItsWay(k) /\ c \in Commands /\ rows = [t \in Tables |-> rows[t]]
  BY DEF RowInv, StopInv, SchemaInv, Shaped
<1>2. /\ c.phase = "running" /\ c.at # c.target /\ c.pos <= Len(OpsOf(c))
      /\ \A t \in Touched(op) : lock[t] \in {None, k}
      /\ def'  = [def EXCEPT ![op.table] = Altered(op, @)]
      /\ rows' = [rows EXCEPT ![op.table] = Rewritten(op, @)]
      /\ saved' = [t \in Tables |-> IF t \in Touched(op) \ Owned(k)
                                    THEN [def |-> def[t], rows |-> rows[t]] ELSE saved[t]]
      /\ lock' = [t \in DOMAIN lock |-> IF t \in Touched(op) THEN k ELSE lock[t]]
      /\ cmd' = [cmd EXCEPT ![k].pos = @ + 1]
  BY Operation DEF Execute
<1>3. Listed(OpsOf(c))
  BY <1>1, <1>2, OpsAre
<1>4. c.pos \in 1..Len(OpsOf(c)) /\ Sound(op)
  BY <1>1, <1>2, <1>3 DEF OnItsWay, Listed, Commands
<1>5. Tables \subseteq DOMAIN lock /\ def = [t \in Tables |-> def[t]]
  BY <1>1 DEF Names, Shaped
<1>6. Touched(op) \subseteq Tables /\ op.table \in Touched(op)
  <2>1. Refers(def[op.table]) /\ op.table \in Tables
    BY <1>1, <1>4 DEF Shaped, Sound
  <2>2. op.do = "create_table" => Refers(op.item)
    BY <1>4 DEF Sound
  <2>3. op.do = "add_ref" => op.item.to \in Tables
    BY <1>4 DEF Sound
  <2>. QED  BY <2>1, <2>2, <2>3 DEF Touched, Refers
<1>7. /\ \A t \in Tables : lock'[t] = IF t \in Touched(op) THEN k ELSE lock[t]
      /\ \A t \in Tables : saved'[t] = IF t \in Touched(op) /\ lock[t] # k
                                       THEN [def |-> def[t], rows |-> rows[t]] ELSE saved[t]
  BY <1>2, <1>5 DEF Owned
<1>8. \A t \in Tables : def'[t] = IF t = op.table THEN Altered(op, def[t]) ELSE def[t]
  BY <1>2, <1>5
<1>9. \A t \in Tables : rows'[t] = IF t = op.table THEN Rewritten(op, rows[t]) ELSE rows[t]
  BY <1>1, <1>2
<1>10. rows' = [t \in Tables |-> rows'[t]]
  BY <1>1, <1>2
<1>. QED  BY <1>1, <1>2, <1>4, <1>6, <1>7, <1>8, <1>9, <1>10 DEF Taken

\* The rows of every table still fit, or are as they were when it was locked.
LEMMA TakenRows ==
  ASSUME RowInv, NEW k \in Command, NEW op, Apt(op), NEW L, Taken(k, op, L), NEW t \in Tables
  PROVE  TableRows(t)'
<1>1. TableRows(t) /\ IsTable(def[t]) /\ None # k
  BY MigrationConstants DEF RowInv, StopInv, SchemaInv, Shaped, Refers
<1>2. Formed(def'[t]) /\ Rowed(def'[t], rows'[t])
  <2>1. CASE t = op.table
    <3>1. def'[t] = Altered(op, def[t]) /\ rows'[t] = Rewritten(op, rows[t])
      BY <2>1 DEF Taken
    <3>2. Formed(def[t]) /\ Rowed(def[t], rows[t])
      BY <1>1 DEF TableRows
    <3>3. Formed(Altered(op, def[t])) /\ Rowed(Altered(op, def[t]), Rewritten(op, rows[t]))
      BY <1>1, <3>2, AlteredColumns, RowedAfter
    <3>. QED  BY <3>1, <3>3
  <2>2. CASE t # op.table
    <3>1. def'[t] = def[t] /\ rows'[t] = rows[t]
      BY <2>2 DEF Taken
    <3>. QED  BY <1>1, <3>1 DEF TableRows
  <2>. QED  BY <2>1, <2>2
<1>3. CASE t \in L /\ lock[t] # k
  <2>1. saved'[t] = [def |-> def[t], rows |-> rows[t]] /\ lock[t] = None /\ lock'[t] = k
    BY <1>3 DEF Taken
  <2>2. saved'[t].def = def[t] /\ saved'[t].rows = rows[t]
    BY <2>1
  <2>. QED  BY <1>1, <1>2, <2>1, <2>2 DEF TableRows
<1>4. CASE t \in L /\ lock[t] = k
  <2>1. saved'[t] = saved[t] /\ lock'[t] = lock[t] /\ lock[t] # None
    BY <1>1, <1>4 DEF Taken
  <2>. QED  BY <1>1, <1>2, <2>1 DEF TableRows
<1>5. CASE t \notin L
  <2>1. saved'[t] = saved[t] /\ lock'[t] = lock[t] /\ rows'[t] = rows[t] /\ def'[t] = def[t]
    BY <1>5 DEF Taken
  <2>. QED  BY <1>1, <2>1 DEF TableRows
<1>. QED  BY <1>3, <1>4, <1>5

\* Before an operation the tables it locks are as the way of its command has left them.
LEMMA WayBefore ==
  ASSUME RowInv, NEW k \in Command, cmd[k].phase = "running", NEW t \in Tables,
         lock[t] \in {None, k}, lock[t] = k => saved[t].def = SchemaAt[cmd[k].began][t],
         lock[t] = None => def[t] = SchemaAt[cmd[k].began][t]
  PROVE  /\ def[t] = View(cmd[k])[t] /\ Fits(def[t], rows[t])
         /\ cmd[k].target > cmd[k].at => Gained(cmd[k], t, rows[t])
<1>1. Made(k) /\ TableRows(t) /\ Way(k) /\ None # k
  BY MigrationConstants DEF RowInv, StopInv, SchemaInv
<1>2. CASE lock[t] = k
  BY <1>1, <1>2 DEF Made, Way, Owned
<1>3. CASE lock[t] = None
  <2>1. t \notin Owned(k)
    BY <1>1, <1>3 DEF Owned
  <2>2. Gained(cmd[k], t, rows[t])
    BY <1>1, <2>1 DEF Way, Gained
  <2>3. def[t] = View(cmd[k])[t] /\ Fits(def[t], rows[t])
    BY <1>1, <1>3 DEF Made, TableRows
  <2>. QED  BY <2>2, <2>3
<1>. QED  BY <1>2, <1>3

LEMMA TakenWay ==
  ASSUME RowInv, NEW k \in Command, cmd[k] \in Commands, cmd[k].phase = "running",
         cmd[k].at # cmd[k].target, cmd[k].pos \in 1..Len(OpsOf(cmd[k])),
         NEW op, op = OpsOf(cmd[k])[cmd[k].pos], ~ Refused(op), NEW L, Taken(k, op, L),
         NEW e, e.began = cmd[k].began, e.at = cmd[k].at, e.target = cmd[k].target,
         e.pos = cmd[k].pos + 1, cmd'[k] = e
  PROVE  Way(k)'
<1>. DEFINE c == cmd[k]
            U == OpsOf(c)
            T == Trail(U, SchemaAt[c.at])
            n == c.pos
<1>1. /\ OpsOf(e) = U /\ View(e) = Applied(op, View(c)) /\ View(c) = T[n - 1]
      /\ \A t \in Tables : Covered(View(e)[t]) /\ IsTable(View(c)[t])
  BY NextView DEF View
<1>2. /\ Apt(op) /\ op.table \in Tables /\ (c.target > c.at => op.do \in Advancing)
      /\ None # k /\ n \in Nat
  BY NextApt, MigrationConstants DEF Commands
<1>3. \A p : p \in 1..(e.pos - 1) => p \in 1..(n - 1) \/ p = n
  BY <1>2
<1>4. \A t \in Owned(k)' : t \in Tables /\ (t \in L \/ lock[t] = k)
  BY DEF Owned, Taken
<1>5. ASSUME NEW p \in 1..(e.pos - 1) PROVE U[p].table \in Owned(k)'
  <2>1. CASE p \in 1..(n - 1)
    <3>1. U[p].table \in Tables /\ lock[U[p].table] = k
      BY <2>1 DEF RowInv, Way, Owned
    <3>. QED  BY <3>1 DEF Taken, Owned
  <2>2. CASE p = n
    <3>1. U[p].table \in L
      BY <2>2 DEF Taken
    <3>. QED  BY <3>1 DEF Taken, Owned
  <2>. QED  BY <1>3, <2>1, <2>2
<1>6. ASSUME NEW t \in Owned(k)', saved'[t].def = SchemaAt[c.began][t]
      PROVE  Fits(def'[t], rows'[t]) /\ (c.target > c.at => Gained(e, t, rows'[t]))
  <2>1. t \in Tables /\ lock[t] \in {None, k}
    BY <1>4 DEF Taken
  <2>2. lock[t] = k => saved[t].def = SchemaAt[c.began][t]
    BY <1>6, <2>1 DEF Taken
  <2>3. lock[t] = None => def[t] = SchemaAt[c.began][t]
    <3>1. SUFFICES ASSUME lock[t] = None PROVE def[t] = SchemaAt[c.began][t]
      OBVIOUS
    <3>2. t \in L /\ lock[t] # k
      BY <1>2, <1>4, <3>1
    <3>3. saved'[t] = [def |-> def[t], rows |-> rows[t]]
      BY <2>1, <3>2 DEF Taken
    <3>. QED  BY <1>6, <3>3
  <2>4. /\ def[t] = View(c)[t] /\ Fits(def[t], rows[t])
        /\ c.target > c.at => Gained(c, t, rows[t])
    BY <2>1, <2>2, <2>3, WayBefore
  <2>5. CASE t # op.table
    <3>1. def'[t] = def[t] /\ rows'[t] = rows[t]
      BY <2>1, <2>5 DEF Taken
    <3>2. \A p \in 1..(e.pos - 1) : U[p].table = t => p \in 1..(n - 1)
      BY <1>3, <2>5
    <3>3. Gained(c, t, rows[t]) => Gained(e, t, rows[t])
      BY <1>1, <3>2 DEF Gained
    <3>. QED  BY <2>4, <3>1, <3>3
  <2>6. CASE t = op.table
    <3>. DEFINE d == def[t]
                R == rows[t]
    <3>1. def'[t] = Altered(op, d) /\ rows'[t] = Rewritten(op, R)
      BY <2>1, <2>6 DEF Taken
    <3>2. IsTable(d) /\ Formed(d) /\ Rowed(d, R) /\ Fits(d, R)
      BY <1>1, <2>1, <2>4 DEF RowInv, TableRows
    <3>3. View(e)[t] = Altered(op, d)
      BY <1>1, <2>1, <2>4, <2>6 DEF Applied
    <3>4. Covered(Altered(op, d))
      BY <1>1, <2>1, <3>3
    <3>5. /\ op.do = "add_column" => op.item.name \notin Columns(d)
          /\ op.do = "add_check" => \A r \in R : r[op.item.column] \in op.item.values
          /\ op.do = "drop_check" => \E x \in d.checks : x.column = op.item
      BY <2>6 DEF Refused
    <3>. HIDE DEF d, R
    <3>6. Fits(Altered(op, d), Rewritten(op, R))
      BY <1>2, <3>2, <3>4, <3>5, FitsAfter
    <3>7. ASSUME c.target > c.at PROVE Gained(e, t, Rewritten(op, R))
      <4>1. op.do \in Advancing /\ Gained(c, t, R)
        BY <1>2, <2>4, <3>7 DEF R
      <4>2. T[n - 1][t] = d
        BY <1>1, <2>4 DEF d
      <4>3. ASSUME NEW p \in 1..(e.pos - 1), U[p].table = t, NEW x, NEW W,
                   Provides(U[p], T[p - 1][t], x, W)
            PROVE  InAll(Rewritten(op, R), x, W)
        <5>1. CASE p \in 1..(n - 1)
          <6>1. InAll(R, x, W)
            BY <4>1, <4>3, <5>1 DEF Gained
          <6>. QED  BY <1>2, <3>2, <3>5, <4>1, <6>1, InAllAfter
        <5>2. CASE p = n
          <6>1. Provides(op, d, x, W)
            BY <4>2, <4>3, <5>2
          <6>. QED  BY <1>2, <3>2, <3>5, <6>1, ProvidedAfter
        <5>. QED  BY <1>3, <5>1, <5>2
      <4>. QED  BY <1>1, <4>3 DEF Gained
    <3>. QED  BY <3>1, <3>6, <3>7
  <2>. QED  BY <2>5, <2>6
<1>. HIDE DEF c, T
<1>. QED  BY <1>1, <1>5, <1>6 DEF Way, Gained, c

LEMMA ExecuteRows ==
  ASSUME RowInv, NEW k \in Command, Execute(k), StopInv'
  PROVE  RowInv'
<1>. DEFINE c == cmd[k]
            op == OpsOf(c)[c.pos]
            e == [c EXCEPT !.pos = c.pos + 1]
<1>1. /\ cmd \in [Command -> Commands] /\ c \in Commands
      /\ \A j \in Command : cmd[j].pos \in 1..20 /\ Accepted(cmd[j])
  BY DEF RowInv, StopInv, SchemaInv, Shaped
<1>2. CASE Refused(op)
  <2>1. Rollback(k, "refused")
    BY <1>2, Operation DEF Execute
  <2>2. c.target > c.began => revision # c.began
    BY <1>2, UpgradeGoesOn
  <2>. QED  BY <2>1, <2>2, RollbackRows
<1>3. CASE ~ Refused(op)
  <2>1. /\ Taken(k, op, Touched(op))
        /\ c.phase = "running" /\ c.at # c.target /\ c.pos \in 1..Len(OpsOf(c))
        /\ cmd' = [cmd EXCEPT ![k].pos = @ + 1] /\ rows' = [t \in Tables |-> rows'[t]]
    BY <1>3, TakenIs
  <2>2. Apt(op)
    BY <1>1, <2>1, NextApt
  <2>3. /\ e.began = c.began /\ e.at = c.at /\ e.target = c.target /\ e.pos = c.pos + 1
        /\ e.phase = "running"
    BY <1>1, <2>1 DEF Commands
  <2>4. cmd'[k] = e /\ \A j \in Command \ {k} : cmd'[j] = cmd[j]
    BY <1>1, <2>1
  <2>5. e.pos \in 1..20
    <3>1. PICK N \in 0..18 : N = Len(OpsOf(c))
      BY <1>1, <2>1, OnTheWay
    <3>2. PICK n \in 1..N : n = c.pos
      BY <2>1, <3>1
    <3>3. e.pos = n + 1
      BY <2>3, <3>2
    <3>. HIDE DEF c, e
    <3>. QED  BY <3>3
  <2>. HIDE DEF e
  <2>6. Way(k)'
    <3>1. ~ Refused(op) /\ op = OpsOf(c)[c.pos]
      BY <1>3
    <3>. HIDE DEF op
    <3>. QED  BY <1>1, <2>1, <2>3, <2>4, <3>1, TakenWay
  <2>. HIDE DEF op
  <2>7. \A t \in Tables : TableRows(t)'
    BY <2>1, <2>2, TakenRows
  <2>8. ASSUME NEW j \in Command \ {k} PROVE Way(j)'
    <3>1. None # k /\ \A t \in Tables : lock'[t] = IF t \in Touched(op) THEN k ELSE lock[t]
      BY <2>1, MigrationConstants DEF Taken
    <3>2. \A t \in Touched(op) : t \in Tables /\ lock[t] \in {None, k}
      BY <2>1 DEF Taken
    <3>3. None # j
      BY MigrationConstants
    <3>4. \A t \in Tables : lock'[t] = j <=> lock[t] = j
      BY <3>1, <3>2, <3>3
    <3>5. ASSUME NEW t \in Tables, lock[t] = j
          PROVE  def'[t] = def[t] /\ rows'[t] = rows[t] /\ saved'[t] = saved[t]
      <4>1. t \notin Touched(op)
        BY <3>2, <3>3, <3>5
      <4>. QED  BY <2>1, <4>1 DEF Taken
    <3>. QED  BY <2>4, <3>4, <3>5, OthersWay
  <2>9. ASSUME NEW j \in Command PROVE cmd'[j].pos \in 1..20 /\ Accepted(cmd'[j]) /\ Way(j)'
    <3>1. CASE j = k
      BY <2>3, <2>4, <2>5, <2>6, <3>1 DEF Accepted
    <3>2. CASE j # k
      BY <1>1, <2>4, <2>8, <3>2
    <3>. QED  BY <3>1, <3>2
  <2>. QED  BY <2>1, <2>7, <2>9 DEF RowInv
<1>. QED  BY <1>2, <1>3

LEMMA RowHolds == Spec => []RowInv
<1>1. Init /\ StopInv => RowInv
  <2>. SUFFICES ASSUME Init, StopInv PROVE RowInv
    OBVIOUS
  <2>1. ASSUME NEW t \in Tables PROVE TableRows(t)
    <3>1. def[t] = NoTable /\ rows[t] = {} /\ lock[t] = None
      BY <2>1 DEF Init
    <3>2. NoTable.columns = {}
      BY DEF NoTable
    <3>. QED  BY <3>1, <3>2 DEF TableRows, Formed, Rowed, Fits
  <2>2. ASSUME NEW j \in Command PROVE cmd[j].pos \in 1..20 /\ Accepted(cmd[j]) /\ Way(j)
    <3>1. cmd[j].phase = "idle" /\ cmd[j].pos = 1
      BY <2>2 DEF Init, NoCommand
    <3>. QED  BY <3>1 DEF Accepted, Way
  <2>3. rows = [t \in Tables |-> rows[t]]
    BY DEF Init
  <2>. QED  BY <2>1, <2>2, <2>3 DEF RowInv
<1>2. RowInv /\ [Next]_vars /\ StopInv' => RowInv'
  <2>. SUFFICES ASSUME RowInv, [Next]_vars, StopInv' PROVE RowInv'
    OBVIOUS
  <2>1. CASE UNCHANGED vars
    <3>1. UNCHANGED <<def, rows, saved, lock, cmd>>
      BY <2>1 DEF vars
    <3>2. ASSUME NEW j \in Command PROVE Way(j)'
      BY <3>1, OthersWay
    <3>3. \A t \in Tables : TableRows(t)'
      BY <3>1 DEF RowInv, TableRows
    <3>4. rows' = [t \in Tables |-> rows'[t]]
      BY <3>1 DEF RowInv
    <3>5. \A j \in Command : cmd'[j].pos \in 1..20 /\ Accepted(cmd'[j])
      BY <3>1 DEF RowInv
    <3>. QED  BY <3>2, <3>3, <3>4, <3>5 DEF RowInv
  <2>2. ASSUME NEW t \in Written, Insert(t) PROVE RowInv'
    <3>1. t \in Tables
      BY MigrationConstants
    <3>. QED  BY <2>2, <3>1, InsertRows
  <2>3. ASSUME NEW k \in Command, Begin(k) PROVE RowInv'
    BY <2>3, BeginRows
  <2>4. ASSUME NEW k \in Command, Execute(k) PROVE RowInv'
    BY <2>4, ExecuteRows
  <2>5. ASSUME NEW k \in Command, Stamp(k) PROVE RowInv'
    BY <2>5, StampRows
  <2>6. ASSUME NEW k \in Command, Commit(k) PROVE RowInv'
    BY <2>6, CommitRows
  <2>7. ASSUME NEW k \in Command, Abort(k) PROVE RowInv'
    BY <2>7, RollbackRows DEF Abort
  <2>. QED  BY <2>1, <2>2, <2>3, <2>4, <2>5, <2>6, <2>7 DEF Next, Alembic
<1>3. Spec => []StopInv
  BY StopHolds
<1>. QED  BY <1>1, <1>2, <1>3, PTL DEF Spec

\* Every command is on its way between the revision it began at and its target, and the rows of
\* every table have its columns, whatever is written between the steps of alembic (TypeOK).
THEOREM TypeCorrect == Spec => []TypeOK
<1>1. RowInv => TypeOK
  <2>. SUFFICES ASSUME RowInv PROVE TypeOK
    OBVIOUS
  <2>1. Shaped
    BY DEF RowInv, StopInv, SchemaInv
  <2>2. revision \in 0..HEAD /\ lock \in [Tables \cup {"alembic_version"} -> Command \cup {None}]
    BY <2>1 DEF Shaped, Names
  <2>3. cmd \in [Command -> Commands]
    BY <2>1 DEF Shaped
  <2>4. \A k \in Command : cmd[k].pos \in 1..20
    BY DEF RowInv
  <2>5. cmd \in [Command -> [phase: {"idle", "running", "refused"}, began: 0..HEAD, at: 0..HEAD,
                             target: 0..HEAD, pos: 1..20, overtaken: BOOLEAN]]
    BY <2>3, <2>4 DEF Commands
  <2>6. \A k \in Command : Between(cmd[k])
    BY DEF RowInv, StopInv
  <2>7. \A t \in Tables : Rowed(def[t], rows[t])
    BY DEF RowInv, TableRows
  <2>8. \A k \in Command :
          cmd[k].at \in cmd[k].began..cmd[k].target \cup cmd[k].target..cmd[k].began
    BY <2>6 DEF Between
  <2>9. \A t \in Tables : \A row \in rows[t] :
          DOMAIN row = Columns(def[t]) /\ \A x \in DOMAIN row : row[x] \in Value
    BY <2>7 DEF Rowed
  <2>. HIDE DEF TypeOK
  <2>. QED  BY <2>2, <2>5, <2>8, <2>9 DEF TypeOK
<1>. QED  BY <1>1, RowHolds, PTL

\* No row the program writes at any revision stops an upgrade from there to any later one: what
\* refuses it is only another command that was quicker (UpgradeAccepted).
THEOREM UpgradesAccepted == Spec => []UpgradeAccepted
<1>1. RowInv => UpgradeAccepted
  BY DEF RowInv, Accepted, UpgradeAccepted
<1>. QED  BY <1>1, RowHolds, PTL

=============================================================================

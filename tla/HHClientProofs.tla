---------------------------- MODULE HHClientProofs ----------------------------
(***************************************************************************)
(* Theorems about HHPage and HHClient, for pages of any length, JSON-LD of *)
(* any finite depth, any status codes and any kinds of JSON fields.        *)
(*                                                                         *)
(* The recursion of the parser and of iter_json_dicts is over the events   *)
(* of a page and the depth of a value.  A recursive function is a CHOOSE,  *)
(* so that it has the values its equation gives has to be shown: Recursion *)
(* builds such a function step by step, and UpTo, an induction over 0..N   *)
(* by the least number that fails, carries what holds of it.               *)
(***************************************************************************)
EXTENDS HHClient, SequenceTheorems, FiniteSetTheorems, WellFoundedInduction, TLAPS

-----------------------------------------------------------------------------
(* Recursion over numbers, picking and flattening. *)

\* What holds of 0 and passes from each number to the next holds up to any N.
LEMMA UpTo ==
  ASSUME NEW N \in Nat, NEW Good, 0 \in Good, \A n \in 0..(N - 1) : n \in Good => n + 1 \in Good
  PROVE  0..N \subseteq Good
<1>. DEFINE R == OpToRel(<, Nat)
            Bad == (0..N) \ Good
<1>. SUFFICES ASSUME Bad # {} PROVE FALSE
  OBVIOUS
<1>1. IsWellFoundedOn(R, Nat)
  BY NatLessThanWellFounded
<1>2. \A x, y \in Nat : y < x => <<y, x>> \in R
  BY DEF OpToRel
<1>. HIDE DEF R
<1>3. PICK x \in Bad : \A y \in Bad : ~(<<y, x>> \in R)
  <2>1. Bad \subseteq Nat
    OBVIOUS
  <2>. HIDE DEF Bad
  <2>. QED  BY <1>1, <2>1, WFMin
<1>4. x \in Nat /\ x # 0 /\ x - 1 \in 0..(N - 1) /\ x - 1 < x
  OBVIOUS
<1>5. x - 1 \in Bad
  BY <1>4
<1>6. x - 1 \in Nat
  BY <1>4
<1>. HIDE DEF Bad
<1>7. <<x - 1, x>> \in R
  BY <1>2, <1>4, <1>6
<1>. QED  BY <1>3, <1>5, <1>7

\* f starts from base and takes the first N steps.
Takes(f, base, step, N) == f[0] = base /\ \A n \in 1..N : f[n] = step[n][f[n - 1]]

\* A value can be stepped from base any number of times.
LEMMA Recursion ==
  ASSUME NEW N \in Nat, NEW S, NEW base \in S, NEW step \in [1..N -> [S -> S]]
  PROVE  \E f \in [0..N -> S] : Takes(f, base, step, N)
<1>. DEFINE Good == { m \in 0..N : \E f \in [0..m -> S] : Takes(f, base, step, m) }
<1>1. 0 \in Good
  <2>. DEFINE f == [n \in 0..0 |-> base]
  <2>1. f \in [0..0 -> S] /\ Takes(f, base, step, 0)
    BY DEF Takes
  <2>. QED  BY <2>1
<1>2. ASSUME NEW m \in 0..(N - 1), m \in Good PROVE m + 1 \in Good
  <2>1. PICK f \in [0..m -> S] : Takes(f, base, step, m)
    BY <1>2
  <2>. DEFINE g == [n \in 0..(m + 1) |-> IF n = m + 1 THEN step[m + 1][f[m]] ELSE f[n]]
  <2>2. step[m + 1][f[m]] \in S
    OBVIOUS
  <2>3. g \in [0..(m + 1) -> S]
    BY <2>2
  <2>4. g[0] = base
    BY <2>1 DEF Takes
  <2>5. ASSUME NEW n \in 1..(m + 1) PROVE g[n] = step[n][g[n - 1]]
    <3>1. CASE n = m + 1
      BY <3>1
    <3>2. CASE n \in 1..m
      BY <2>1, <3>2 DEF Takes
    <3>. QED  BY <3>1, <3>2
  <2>. HIDE DEF g
  <2>6. Takes(g, base, step, m + 1)
    BY <2>4, <2>5 DEF Takes
  <2>. QED  BY <2>3, <2>6
<1>3. 0..N \subseteq Good
  <2>. HIDE DEF Good
  <2>. QED  BY <1>1, <1>2, UpTo
<1>. QED  BY <1>3

Picked(s, I, f) ==
  [n \in 0..Len(s) |-> IF n = 0 THEN <<>>
                       ELSE IF n \in I THEN Append(f[n - 1], s[n]) ELSE f[n - 1]]

\* What Pick returns is a sequence of the elements picked.
LEMMA PickType ==
  ASSUME NEW S, NEW s \in Seq(S), NEW I
  PROVE  /\ Pick(s, I) \in Seq(S)
         /\ ToSet(Pick(s, I)) = { s[i] : i \in I \cap DOMAIN s }
<1>. DEFINE N == Len(s)
            step == [n \in 1..N |-> [x \in Seq(S) |-> IF n \in I THEN Append(x, s[n]) ELSE x]]
            p == CHOOSE f : f = Picked(s, I, f)
<1>1. N \in Nat /\ DOMAIN s = 1..N /\ \A n \in 1..N : s[n] \in S
  BY LenProperties, ElementOfSeq
<1>2. step \in [1..N -> [Seq(S) -> Seq(S)]]
  <2>1. ASSUME NEW n \in 1..N, NEW x \in Seq(S)
        PROVE  (IF n \in I THEN Append(x, s[n]) ELSE x) \in Seq(S)
    BY <1>1, AppendProperties
  <2>. QED  BY <2>1
<1>3. <<>> \in Seq(S)
  BY EmptySeq
<1>4. \E f : f = Picked(s, I, f)
  <2>1. PICK f \in [0..N -> Seq(S)] : Takes(f, <<>>, step, N)
    <3>. HIDE DEF step, N
    <3>. QED  BY <1>1, <1>2, <1>3, Recursion
  <2>2. ASSUME NEW n \in 1..N PROVE f[n] = IF n \in I THEN Append(f[n - 1], s[n]) ELSE f[n - 1]
    <3>1. f[n - 1] \in Seq(S)
      BY <1>1
    <3>. QED  BY <2>1, <3>1 DEF Takes
  <2>3. f[0] = <<>>
    BY <2>1 DEF Takes
  <2>4. f = [n \in 0..N |-> f[n]]
    OBVIOUS
  <2>5. ASSUME NEW n \in 0..N
        PROVE  f[n] = IF n = 0 THEN <<>>
                      ELSE IF n \in I THEN Append(f[n - 1], s[n]) ELSE f[n - 1]
    <3>1. CASE n = 0
      BY <3>1, <2>3
    <3>2. CASE n \in 1..N
      <4>1. n # 0
        BY <3>2
      <4>. QED  BY <3>2, <4>1, <2>2
    <3>3. n = 0 \/ n \in 1..N
      BY <1>1
    <3>. QED  BY <3>1, <3>2, <3>3
  <2>6. f = Picked(s, I, f)
    BY <2>4, <2>5 DEF Picked
  <2>. QED  BY <2>6
<1>5. p = Picked(s, I, p)
  BY <1>4
<1>6. Pick(s, I) = p[N]
  BY DEF Pick, Picked
<1>. HIDE DEF p
<1>7. p[0] = <<>> /\ \A n \in 1..N : p[n] = IF n \in I THEN Append(p[n - 1], s[n]) ELSE p[n - 1]
  <2>1. \A n \in 0..N : p[n] = IF n = 0 THEN <<>>
                               ELSE IF n \in I THEN Append(p[n - 1], s[n]) ELSE p[n - 1]
    BY <1>5 DEF Picked
  <2>. QED  BY <2>1, <1>1
<1>. DEFINE Good == { n \in 0..N : p[n] \in Seq(S) /\ ToSet(p[n]) = { s[i] : i \in I \cap 1..n } }
<1>8. 0 \in Good
  <2>1. I \cap 1..0 = {}
    OBVIOUS
  <2>2. ToSet(<<>>) = {}
    BY DEF ToSet
  <2>3. { s[i] : i \in I \cap 1..0 } = {}
    BY <2>1
  <2>4. p[0] = <<>>
    BY <1>7
  <2>5. 0 \in 0..N
    BY <1>1
  <2>6. p[0] \in Seq(S) /\ ToSet(p[0]) = { s[i] : i \in I \cap 1..0 }
    BY <1>3, <2>2, <2>3, <2>4
  <2>. QED  BY <2>5, <2>6
<1>9. ASSUME NEW n \in 0..(N - 1), n \in Good PROVE n + 1 \in Good
  <2>1. p[n] \in Seq(S) /\ ToSet(p[n]) = { s[i] : i \in I \cap 1..n }
    BY <1>9
  <2>2. p[n + 1] = IF n + 1 \in I THEN Append(p[n], s[n + 1]) ELSE p[n]
    <3>1. n + 1 \in 1..N /\ n + 1 - 1 = n
      BY <1>1
    <3>. QED  BY <3>1, <1>7
  <2>3. CASE n + 1 \notin I
    <3>1. I \cap 1..(n + 1) = I \cap 1..n
      BY <2>3
    <3>. QED  BY <1>1, <2>1, <2>2, <2>3, <3>1
  <2>4. CASE n + 1 \in I
    <3>. DEFINE q == Append(p[n], s[n + 1])
    <3>1. /\ q \in Seq(S) /\ Len(q) = Len(p[n]) + 1
          /\ \A i \in 1..Len(p[n]) : q[i] = p[n][i]
          /\ q[Len(p[n]) + 1] = s[n + 1]
      BY <1>1, <2>1, AppendProperties
    <3>2. Len(p[n]) \in Nat /\ DOMAIN p[n] = 1..Len(p[n]) /\ DOMAIN q = 1..Len(q)
      BY <2>1, <3>1, LenProperties
    <3>. HIDE DEF q
    <3>3. ToSet(q) = ToSet(p[n]) \cup {s[n + 1]}
      <4>. DEFINE L == Len(p[n])
      <4>1. L \in Nat /\ DOMAIN q = 1..(L + 1)
        BY <3>1, <3>2
      <4>2. ASSUME NEW i \in 1..(L + 1) PROVE q[i] \in ToSet(p[n]) \cup {s[n + 1]}
        <5>1. CASE i = L + 1
          BY <3>1, <5>1
        <5>2. CASE i \in 1..L
          <6>1. q[i] = p[n][i] /\ i \in DOMAIN p[n]
            BY <3>1, <3>2, <5>2
          <6>. QED  BY <6>1 DEF ToSet
        <5>. QED  BY <4>1, <5>1, <5>2
      <4>3. s[n + 1] \in ToSet(q)
        <5>1. L + 1 \in DOMAIN q
          BY <4>1
        <5>. QED  BY <3>1, <5>1 DEF ToSet
      <4>4. ASSUME NEW i \in 1..L PROVE p[n][i] \in ToSet(q)
        <5>1. i \in DOMAIN q /\ q[i] = p[n][i]
          BY <3>1, <4>1
        <5>. QED  BY <5>1 DEF ToSet
      <4>5. ToSet(q) \subseteq ToSet(p[n]) \cup {s[n + 1]}
        <5>. SUFFICES ASSUME NEW x \in ToSet(q) PROVE x \in ToSet(p[n]) \cup {s[n + 1]}
          OBVIOUS
        <5>1. PICK i \in DOMAIN q : x = q[i]
          BY DEF ToSet
        <5>. QED  BY <4>1, <4>2, <5>1
      <4>6. ToSet(p[n]) \subseteq ToSet(q)
        <5>. SUFFICES ASSUME NEW x \in ToSet(p[n]) PROVE x \in ToSet(q)
          OBVIOUS
        <5>1. PICK i \in DOMAIN p[n] : x = p[n][i]
          BY DEF ToSet
        <5>. QED  BY <3>2, <4>4, <5>1
      <4>. QED  BY <4>3, <4>5, <4>6
    <3>4. I \cap 1..(n + 1) = (I \cap 1..n) \cup {n + 1}
      BY <2>4
    <3>5. ToSet(q) = { s[i] : i \in I \cap 1..(n + 1) }
      BY <2>1, <3>3, <3>4
    <3>6. p[n + 1] = q
      BY <2>2, <2>4 DEF q
    <3>. QED  BY <1>1, <3>1, <3>5, <3>6
  <2>. QED  BY <2>3, <2>4
<1>10. 0..N \subseteq Good
  <2>. HIDE DEF Good, N
  <2>. QED  BY <1>1, <1>8, <1>9, UpTo
<1>11. N \in Good
  <2>1. N \in 0..N
    BY <1>1
  <2>. HIDE DEF Good, N
  <2>. QED  BY <1>10, <2>1
<1>. QED  BY <1>1, <1>6, <1>11

Flattened(ss, f) ==
  [i \in 1..Len(ss) |-> IF i = 1 THEN ss[i] ELSE f[i - 1] \o ss[i]]

\* The sequences of ss joined up to each of them.
Joined(ss) == CHOOSE f : f = Flattened(ss, f)

Cat(s, t) == s \o t

\* Joined goes through the sequences one by one.
LEMMA JoinedSteps ==
  ASSUME NEW S, NEW ss \in Seq(Seq(S))
  PROVE  /\ \A i \in 1..Len(ss) : Joined(ss)[i] \in Seq(S)
         /\ Len(ss) # 0 => Joined(ss)[1] = ss[1]
         /\ \A i \in 1..(Len(ss) - 1) : Joined(ss)[i + 1] = Cat(Joined(ss)[i], ss[i + 1])
<1>. DEFINE N == Len(ss)
            step == [n \in 1..N |-> [x \in Seq(S) |-> Cat(x, ss[n])]]
            g == Joined(ss)
<1>1. N \in Nat /\ \A n \in 1..N : ss[n] \in Seq(S)
  BY LenProperties, ElementOfSeq
<1>2. ASSUME NEW x \in Seq(S), NEW n \in 1..N PROVE Cat(x, ss[n]) \in Seq(S)
  BY <1>1, ConcatProperties DEF Cat
<1>3. step \in [1..N -> [Seq(S) -> Seq(S)]]
  BY <1>2
<1>4. \E f : f = Flattened(ss, f)
  <2>1. PICK f \in [0..N -> Seq(S)] : Takes(f, <<>>, step, N)
    <3>1. <<>> \in Seq(S)
      BY EmptySeq
    <3>. HIDE DEF step, N
    <3>. QED  BY <1>1, <1>3, <3>1, Recursion
  <2>2. ASSUME NEW n \in 1..N PROVE f[n] = Cat(f[n - 1], ss[n])
    <3>1. f[n - 1] \in Seq(S)
      <4>1. n - 1 \in 0..N
        BY <1>1
      <4>. HIDE DEF N
      <4>. QED  BY <4>1
    <3>2. f[n] = step[n][f[n - 1]]
      BY <2>1 DEF Takes
    <3>. QED  BY <3>1, <3>2
  <2>. DEFINE e == [i \in 1..N |-> f[i]]
  <2>3. ASSUME NEW i \in 1..N PROVE e[i] = IF i = 1 THEN ss[i] ELSE Cat(e[i - 1], ss[i])
    <3>1. CASE i = 1
      <4>1. f[0] = <<>>
        BY <2>1 DEF Takes
      <4>2. Cat(<<>>, ss[1]) = ss[1]
        BY <1>1, <3>1, ConcatEmptySeq DEF Cat
      <4>3. f[1] = Cat(f[0], ss[1])
        <5>1. 1 \in 1..N /\ 1 - 1 = 0
          BY <1>1, <3>1
        <5>. QED  BY <2>2, <5>1
      <4>. QED  BY <3>1, <4>1, <4>2, <4>3
    <3>2. CASE i # 1
      <4>1. i - 1 \in 1..N
        BY <1>1, <3>2
      <4>. QED  BY <2>2, <3>2, <4>1
    <3>. QED  BY <3>1, <3>2
  <2>4. e = [i \in 1..N |-> e[i]]
    OBVIOUS
  <2>. HIDE DEF e
  <2>5. e = [i \in 1..N |-> IF i = 1 THEN ss[i] ELSE Cat(e[i - 1], ss[i])]
    BY <2>3, <2>4
  <2>6. e = Flattened(ss, e)
    BY <2>5 DEF Flattened, Cat
  <2>. QED  BY <2>6
<1>5. g = Flattened(ss, g)
  BY <1>4 DEF Joined
<1>. HIDE DEF g
<1>6. g = [i \in 1..N |-> IF i = 1 THEN ss[i] ELSE Cat(g[i - 1], ss[i])]
  BY <1>5 DEF Flattened, Cat
<1>7. N # 0 => g[1] = ss[1]
  BY <1>1, <1>6
<1>8. ASSUME NEW i \in 1..(N - 1) PROVE g[i + 1] = Cat(g[i], ss[i + 1])
  BY <1>1, <1>6
<1>. DEFINE Good == { n \in 0..N : n = 0 \/ g[n] \in Seq(S) }
<1>9. 0 \in Good
  BY <1>1
<1>10. ASSUME NEW n \in 0..(N - 1), n \in Good PROVE n + 1 \in Good
  <2>1. n + 1 \in 1..N /\ n + 1 \in 0..N
    BY <1>1
  <2>2. CASE n = 0
    BY <1>1, <1>7, <2>1, <2>2
  <2>3. CASE n # 0
    <3>1. g[n] \in Seq(S)
      BY <1>10, <2>3
    <3>2. g[n + 1] = Cat(g[n], ss[n + 1])
      <4>1. n \in 1..(N - 1)
        BY <1>1, <2>3
      <4>. QED  BY <1>8, <4>1
    <3>3. g[n + 1] \in Seq(S)
      BY <1>2, <2>1, <3>1, <3>2
    <3>. QED  BY <2>1, <3>3
  <2>. QED  BY <2>2, <2>3
<1>11. 0..N \subseteq Good
  <2>. HIDE DEF Good, N
  <2>. QED  BY <1>1, <1>9, <1>10, UpTo
<1>12. ASSUME NEW n \in 1..N PROVE g[n] \in Seq(S)
  <2>1. n \in Good
    BY <1>1, <1>11
  <2>. QED  BY <1>1, <2>1
<1>. QED  BY <1>7, <1>8, <1>12 DEF g

\* FlattenSeq is the last of Joined.
LEMMA FlattenIsLast ==
  ASSUME NEW S, NEW ss \in Seq(Seq(S))
  PROVE  FlattenSeq(ss) = IF ss = <<>> THEN <<>> ELSE Joined(ss)[Len(ss)]
<1>1. FlattenSeq(ss) = IF Len(ss) = 0 THEN ss ELSE Joined(ss)[Len(ss)]
  BY DEF FlattenSeq, Joined, Flattened
<1>2. Len(ss) = 0 <=> ss = <<>>
  BY EmptySeq
<1>. QED  BY <1>1, <1>2

\* A flattened sequence is one of the elements of its sequences.
LEMMA FlattenType ==
  ASSUME NEW S, NEW ss \in Seq(Seq(S))
  PROVE  FlattenSeq(ss) \in Seq(S)
<1>1. CASE ss = <<>>
  BY <1>1, FlattenIsLast, EmptySeq
<1>2. CASE ss # <<>>
  <2>1. Len(ss) \in 1..Len(ss)
    BY <1>2, EmptySeq
  <2>. QED  BY <1>2, <2>1, FlattenIsLast, JoinedSteps
<1>. QED  BY <1>1, <1>2

\* A further sequence comes behind the others.
LEMMA FlattenLast ==
  ASSUME NEW S, NEW ss \in Seq(Seq(S)), NEW x \in Seq(S)
  PROVE  FlattenSeq(ss \o <<x>>) = FlattenSeq(ss) \o x
<1>. DEFINE N == Len(ss)
            all == ss \o <<x>>
            f == Joined(ss)
            g == Joined(all)
<1>1. <<x>> \in Seq(Seq(S)) /\ Len(<<x>>) = 1 /\ <<x>>[1] = x
  OBVIOUS
<1>2. N \in Nat
  BY LenProperties
<1>3. /\ all \in Seq(Seq(S)) /\ Len(all) = N + 1 /\ all[N + 1] = x
      /\ \A i \in 1..N : all[i] = ss[i]
  <2>. HIDE DEF all
  <2>1. /\ all \in Seq(Seq(S)) /\ Len(all) = N + 1
        /\ \A i \in 1..(N + 1) : all[i] = IF i <= N THEN ss[i] ELSE <<x>>[i - N]
    BY <1>1, ConcatProperties DEF all
  <2>2. all[N + 1] = x
    <3>1. N + 1 \in 1..(N + 1) /\ ~(N + 1 <= N) /\ N + 1 - N = 1
      BY <1>2
    <3>. QED  BY <1>1, <2>1, <3>1
  <2>. QED  BY <1>2, <2>1, <2>2
<1>. HIDE DEF all
<1>4. /\ N # 0 => f[1] = ss[1]
      /\ \A i \in 1..(N - 1) : f[i + 1] = Cat(f[i], ss[i + 1])
  BY JoinedSteps
<1>5. g[1] = all[1] /\ \A i \in 1..N : g[i + 1] = Cat(g[i], all[i + 1])
  <2>1. /\ Len(all) # 0 => g[1] = all[1]
        /\ \A i \in 1..(Len(all) - 1) : g[i + 1] = Cat(g[i], all[i + 1])
    BY <1>3, JoinedSteps
  <2>2. N + 1 # 0 /\ N + 1 - 1 = N
    BY <1>2
  <2>. QED  BY <1>3, <2>1, <2>2
<1>. HIDE DEF f, g
<1>. DEFINE Good == { n \in 0..N : n = 0 \/ g[n] = f[n] }
<1>6. 0 \in Good
  BY <1>2
<1>7. ASSUME NEW n \in 0..(N - 1), n \in Good PROVE n + 1 \in Good
  <2>1. n + 1 \in 1..N /\ n + 1 \in 0..N
    BY <1>2
  <2>2. all[n + 1] = ss[n + 1]
    BY <1>3, <2>1
  <2>3. CASE n = 0
    BY <1>2, <1>4, <1>5, <2>1, <2>2, <2>3
  <2>4. CASE n # 0
    <3>1. n \in 1..(N - 1) /\ n \in 1..N
      BY <1>2, <2>4
    <3>2. g[n + 1] = Cat(g[n], all[n + 1]) /\ f[n + 1] = Cat(f[n], ss[n + 1])
      BY <1>4, <1>5, <3>1
    <3>. QED  BY <1>7, <2>1, <2>2, <2>4, <3>2
  <2>. QED  BY <2>3, <2>4
<1>8. 0..N \subseteq Good
  <2>. HIDE DEF Good, N
  <2>. QED  BY <1>2, <1>6, <1>7, UpTo
<1>9. N # 0 => g[N] = f[N]
  <2>1. N \in Good
    BY <1>2, <1>8
  <2>. QED  BY <2>1
<1>10. FlattenSeq(all) = g[N + 1]
  <2>1. all # <<>>
    BY <1>2, <1>3, EmptySeq
  <2>. QED  BY <1>3, <2>1, FlattenIsLast DEF g
<1>11. CASE N = 0
  <2>1. ss = <<>>
    BY <1>11, EmptySeq
  <2>2. FlattenSeq(ss) = <<>>
    BY <2>1, FlattenIsLast
  <2>3. g[N + 1] = x
    BY <1>3, <1>5, <1>11
  <2>. QED  BY <1>10, <2>2, <2>3, ConcatEmptySeq DEF all
<1>12. CASE N # 0
  <2>1. ss # <<>>
    BY <1>12, EmptySeq
  <2>2. FlattenSeq(ss) = f[N]
    BY <2>1, FlattenIsLast DEF f
  <2>3. g[N + 1] = Cat(g[N], x)
    <3>1. N \in 1..N
      BY <1>2, <1>12
    <3>. QED  BY <1>3, <1>5, <3>1
  <2>. QED  BY <1>9, <1>10, <1>12, <2>2, <2>3 DEF all, Cat
<1>. QED  BY <1>11, <1>12

-----------------------------------------------------------------------------
(* The dictionaries of JSON. *)

Dictionary == { v \in JSON : v.kind = "dict" }

\* The dictionaries of a value, when f gives those of the values in it.
Within(f, v) == FlattenSeq([i \in DOMAIN v.graph |-> f[v.graph[i]]])
DictsBy(f, v) == IF v.kind = "dict" THEN <<v>> \o Within(f, v) ELSE Within(f, v)

Shallow(n) == { v \in JSON : v.depth < n }

\* The values within a value are nested less deeply.
LEMMA GraphFacts ==
  ASSUME NEW v \in JSON
  PROVE  /\ v.depth \in Nat /\ v.graph \in Seq(JSON)
         /\ \A i \in DOMAIN v.graph : v.graph[i] \in JSON /\ v.graph[i].depth < v.depth
<1>1. v \in Value
  BY HHPageAssumption DEF HHPageAssumption
<1>2. v.depth \in Nat /\ v.graph \in Seq(JSON)
  BY <1>1 DEF Value
<1>3. \A i \in DOMAIN v.graph : v.graph[i] \in JSON
  BY <1>2, LenProperties, ElementOfSeq
<1>. QED  BY <1>2, <1>3, HHPageAssumption DEF HHPageAssumption

\* The dictionaries of a value, if those of the values in it are dictionaries.
LEMMA WithinType ==
  ASSUME NEW v \in JSON, NEW f, \A i \in DOMAIN v.graph : f[v.graph[i]] \in Seq(Dictionary)
  PROVE  DictsBy(f, v) \in Seq(Dictionary)
<1>. DEFINE ss == [i \in DOMAIN v.graph |-> f[v.graph[i]]]
<1>1. DOMAIN v.graph = 1..Len(v.graph) /\ Len(v.graph) \in Nat
  BY GraphFacts, LenProperties
<1>2. ss \in Seq(Seq(Dictionary))
  BY <1>1
<1>3. Within(f, v) \in Seq(Dictionary)
  BY <1>2, FlattenType DEF Within
<1>4. CASE v.kind = "dict"
  <2>1. <<v>> \in Seq(Dictionary)
    BY <1>4 DEF Dictionary
  <2>2. <<v>> \o Within(f, v) \in Seq(Dictionary)
    BY <1>3, <2>1, ConcatProperties
  <2>. QED  BY <1>4, <2>2 DEF DictsBy
<1>5. CASE v.kind # "dict"
  BY <1>3, <1>5 DEF DictsBy
<1>. QED  BY <1>4, <1>5

\* They depend on the values within the value only.
LEMMA WithinAgrees ==
  ASSUME NEW v \in JSON, NEW f, NEW g, \A i \in DOMAIN v.graph : f[v.graph[i]] = g[v.graph[i]]
  PROVE  DictsBy(f, v) = DictsBy(g, v)
<1>1. [i \in DOMAIN v.graph |-> f[v.graph[i]]] = [i \in DOMAIN v.graph |-> g[v.graph[i]]]
  OBVIOUS
<1>2. Within(f, v) = Within(g, v)
  BY <1>1 DEF Within
<1>. QED  BY <1>2 DEF DictsBy

Solves(f, n) ==
  f \in [Shallow(n) -> Seq(Dictionary)] /\ \A v \in Shallow(n) : f[v] = DictsBy(f, v)

\* iter_json_dicts can be solved for all values nested to any depth.
LEMMA SolutionExists ==
  ASSUME NEW n \in Nat
  PROVE  \E f : Solves(f, n)
<1>. DEFINE Good == { m \in 0..n : \E f : Solves(f, m) }
<1>1. 0 \in Good
  <2>1. Shallow(0) = {}
    BY GraphFacts DEF Shallow
  <2>. DEFINE f == [v \in Shallow(0) |-> <<>>]
  <2>2. Solves(f, 0)
    BY <2>1 DEF Solves
  <2>. QED  BY <2>2
<1>2. ASSUME NEW m \in 0..(n - 1), m \in Good PROVE m + 1 \in Good
  <2>1. PICK f : Solves(f, m)
    BY <1>2
  <2>. DEFINE e == [v \in Shallow(m + 1) |-> DictsBy(f, v)]
  <2>2. ASSUME NEW v \in Shallow(m + 1), NEW i \in DOMAIN v.graph
        PROVE  /\ v \in JSON /\ v.graph[i] \in Shallow(m)
               /\ f[v.graph[i]] \in Seq(Dictionary) /\ e[v.graph[i]] = f[v.graph[i]]
    <3>1. v \in JSON /\ v.depth < m + 1
      BY DEF Shallow
    <3>. DEFINE w == v.graph[i]
    <3>2. w \in JSON /\ w.depth < v.depth /\ w.depth \in Nat /\ v.depth \in Nat
      BY <3>1, GraphFacts
    <3>. HIDE DEF w
    <3>3. w.depth < m /\ w.depth < m + 1
      BY <3>1, <3>2
    <3>4. w \in Shallow(m) /\ w \in Shallow(m + 1)
      BY <3>2, <3>3 DEF Shallow
    <3>5. f[w] \in Seq(Dictionary) /\ f[w] = DictsBy(f, w)
      BY <2>1, <3>4 DEF Solves
    <3>6. e[w] = DictsBy(f, w)
      BY <3>4
    <3>. HIDE DEF e
    <3>7. w \in Shallow(m) /\ f[w] \in Seq(Dictionary) /\ e[w] = f[w]
      BY <3>4, <3>5, <3>6
    <3>. QED  BY <3>1, <3>7 DEF w
  <2>3. ASSUME NEW v \in Shallow(m + 1)
        PROVE  e[v] \in Seq(Dictionary) /\ e[v] = DictsBy(e, v)
    <3>1. v \in JSON
      BY DEF Shallow
    <3>2. e[v] = DictsBy(f, v)
      OBVIOUS
    <3>3. \A i \in DOMAIN v.graph : f[v.graph[i]] \in Seq(Dictionary)
      BY <2>2
    <3>4. DictsBy(f, v) \in Seq(Dictionary)
      BY <3>1, <3>3, WithinType
    <3>5. \A i \in DOMAIN v.graph : e[v.graph[i]] = f[v.graph[i]]
      BY <2>2
    <3>. HIDE DEF e
    <3>6. DictsBy(e, v) = DictsBy(f, v)
      BY <3>1, <3>5, WithinAgrees
    <3>. QED  BY <3>2, <3>4, <3>6
  <2>4. e = [v \in Shallow(m + 1) |-> e[v]]
    OBVIOUS
  <2>. HIDE DEF e
  <2>5. Solves(e, m + 1)
    BY <2>3, <2>4 DEF Solves
  <2>. QED  BY <2>5
<1>3. 0..n \subseteq Good
  <2>. HIDE DEF Good
  <2>. QED  BY <1>1, <1>2, UpTo
<1>. QED  BY <1>3

\* Two solutions agree where both are defined.
LEMMA SolutionsAgree ==
  ASSUME NEW m \in Nat, NEW n \in Nat, m <= n, NEW f, Solves(f, m), NEW g, Solves(g, n)
  PROVE  \A v \in Shallow(m) : f[v] = g[v]
<1>. DEFINE Good == { d \in 0..m : \A v \in Shallow(d) : f[v] = g[v] }
<1>1. 0 \in Good
  <2>1. Shallow(0) = {}
    BY GraphFacts DEF Shallow
  <2>. QED  BY <2>1
<1>2. ASSUME NEW d \in 0..(m - 1), d \in Good PROVE d + 1 \in Good
  <2>1. ASSUME NEW v \in Shallow(d + 1) PROVE f[v] = g[v]
    <3>1. v \in JSON /\ v.depth < d + 1 /\ v.depth \in Nat
      BY GraphFacts DEF Shallow
    <3>2. v \in Shallow(m) /\ v \in Shallow(n)
      <4>1. v.depth < m /\ v.depth < n
        BY <3>1
      <4>. QED  BY <3>1, <4>1 DEF Shallow
    <3>3. ASSUME NEW i \in DOMAIN v.graph PROVE f[v.graph[i]] = g[v.graph[i]]
      <4>. DEFINE w == v.graph[i]
      <4>1. w \in JSON /\ w.depth < v.depth /\ w.depth \in Nat
        BY <3>1, GraphFacts
      <4>. HIDE DEF w
      <4>2. w \in Shallow(d)
        <5>1. w.depth < d
          BY <3>1, <4>1
        <5>. QED  BY <4>1, <5>1 DEF Shallow
      <4>3. f[w] = g[w]
        BY <1>2, <4>2
      <4>. QED  BY <4>3 DEF w
    <3>4. DictsBy(f, v) = DictsBy(g, v)
      BY <3>1, <3>3, WithinAgrees
    <3>5. f[v] = DictsBy(f, v) /\ g[v] = DictsBy(g, v)
      BY <3>2 DEF Solves
    <3>. QED  BY <3>4, <3>5
  <2>. QED  BY <2>1
<1>3. 0..m \subseteq Good
  <2>. HIDE DEF Good
  <2>. QED  BY <1>1, <1>2, UpTo
<1>. QED  BY <1>3

\* The search for dictionaries ends, and finds nothing else.
LEMMA DictsType ==
  iter_json_dicts \in [JSON -> Seq(Dictionary)]
<1>. DEFINE by == [n \in Nat |-> CHOOSE f : Solves(f, n)]
            h == [v \in JSON |-> by[v.depth + 1][v]]
<1>1. ASSUME NEW n \in Nat PROVE Solves(by[n], n)
  BY SolutionExists
<1>. HIDE DEF by
<1>2. ASSUME NEW v \in JSON
      PROVE  h[v] \in Seq(Dictionary) /\ h[v] = DictsBy(h, v)
  <2>. DEFINE n == v.depth + 1
              f == by[n]
  <2>1. v.depth \in Nat /\ n \in Nat
    BY GraphFacts
  <2>2. v \in Shallow(n)
    BY <2>1 DEF Shallow
  <2>3. Solves(f, n)
    BY <1>1, <2>1
  <2>4. f[v] \in Seq(Dictionary) /\ f[v] = DictsBy(f, v)
    BY <2>2, <2>3 DEF Solves
  <2>5. ASSUME NEW i \in DOMAIN v.graph PROVE f[v.graph[i]] = h[v.graph[i]]
    <3>. DEFINE w == v.graph[i]
    <3>1. w \in JSON /\ w.depth < v.depth /\ w.depth \in Nat
      BY GraphFacts
    <3>. HIDE DEF w
    <3>2. w.depth + 1 \in Nat /\ w.depth + 1 <= n
      BY <2>1, <3>1
    <3>3. Solves(by[w.depth + 1], w.depth + 1)
      BY <1>1, <3>2
    <3>4. w \in Shallow(w.depth + 1)
      BY <3>1 DEF Shallow
    <3>. HIDE DEF n, f
    <3>5. by[w.depth + 1][w] = f[w]
      BY <2>1, <2>3, <3>2, <3>3, <3>4, SolutionsAgree
    <3>6. h[w] = f[w]
      BY <3>1, <3>5
    <3>. QED  BY <3>6 DEF w
  <2>6. h[v] = f[v]
    OBVIOUS
  <2>. HIDE DEF h, f
  <2>7. DictsBy(f, v) = DictsBy(h, v)
    BY <2>5, WithinAgrees
  <2>. QED  BY <2>4, <2>6, <2>7
<1>3. h = [v \in JSON |-> h[v]]
  OBVIOUS
<1>. HIDE DEF h
<1>4. h = [v \in JSON |-> DictsBy(h, v)]
  BY <1>2, <1>3
<1>5. iter_json_dicts = CHOOSE f : f = [v \in JSON |-> DictsBy(f, v)]
  BY DEF iter_json_dicts, DictsBy, Within
<1>. DEFINE g == iter_json_dicts
<1>6. g = [v \in JSON |-> DictsBy(g, v)]
  BY <1>4, <1>5
<1>. HIDE DEF g
<1>7. ASSUME NEW v \in JSON PROVE g[v] \in Seq(Dictionary)
  <2>. DEFINE n == v.depth + 1
  <2>1. v.depth \in Nat /\ n \in Nat /\ v \in Shallow(n)
    BY GraphFacts DEF Shallow
  <2>. DEFINE Good == { d \in 0..n : \A w \in Shallow(d) : g[w] \in Seq(Dictionary) }
  <2>2. 0 \in Good
    <3>1. Shallow(0) = {}
      BY GraphFacts DEF Shallow
    <3>. QED  BY <2>1, <3>1
  <2>3. ASSUME NEW d \in 0..(n - 1), d \in Good PROVE d + 1 \in Good
    <3>1. ASSUME NEW w \in Shallow(d + 1) PROVE g[w] \in Seq(Dictionary)
      <4>1. w \in JSON /\ w.depth < d + 1 /\ w.depth \in Nat
        BY GraphFacts DEF Shallow
      <4>2. ASSUME NEW i \in DOMAIN w.graph PROVE g[w.graph[i]] \in Seq(Dictionary)
        <5>. DEFINE u == w.graph[i]
        <5>1. u \in JSON /\ u.depth < w.depth /\ u.depth \in Nat
          BY <4>1, GraphFacts
        <5>. HIDE DEF u
        <5>2. u \in Shallow(d)
          <6>1. u.depth < d
            BY <2>1, <4>1, <5>1
          <6>. QED  BY <5>1, <6>1 DEF Shallow
        <5>3. g[u] \in Seq(Dictionary)
          BY <2>3, <5>2
        <5>. QED  BY <5>3 DEF u
      <4>3. DictsBy(g, w) \in Seq(Dictionary)
        BY <4>1, <4>2, WithinType
      <4>. QED  BY <1>6, <4>1, <4>3
    <3>. QED  BY <2>1, <3>1
  <2>4. 0..n \subseteq Good
    <3>. HIDE DEF Good, n
    <3>. QED  BY <2>1, <2>2, <2>3, UpTo
  <2>5. n \in Good
    <3>1. n \in 0..n
      BY <2>1
    <3>. HIDE DEF Good, n
    <3>. QED  BY <2>4, <3>1
  <2>. QED  BY <2>1, <2>5
<1>. QED  BY <1>6, <1>7 DEF g

-----------------------------------------------------------------------------
(* The parser. *)

Capture == [key : DATA_QA_FIELDS, depth : Int, text : Text, href : Link]

Parser ==
  [texts : [DATA_QA_FIELDS -> Seq(Text)], hrefs : [DATA_QA_FIELDS -> Seq(Link)],
   script : JSON \cup {None}, scripts : Seq(JSON), og_title : Text, captures : Seq(Capture)]

\* A sequence made of another one element by element.
LEMMA MapType ==
  ASSUME NEW S, NEW T, NEW s \in Seq(S), NEW t, DOMAIN t = DOMAIN s, t = [i \in DOMAIN t |-> t[i]],
         \A i \in DOMAIN s : t[i] \in T
  PROVE  t \in Seq(T)
<1>1. DOMAIN s = 1..Len(s) /\ Len(s) \in Nat
  BY LenProperties
<1>. QED  BY <1>1

NewCaptures(p, event) ==
  [i \in DOMAIN p.captures |-> Deeper(p.captures[i], event)]
    \o (IF event.qa \in DATA_QA_FIELDS THEN <<_HtmlCapture(event)>> ELSE <<>>)

\* A deepened capture is a capture.
LEMMA DeeperType ==
  ASSUME NEW c \in Capture, NEW e \in Event
  PROVE  /\ Deeper(c, e) = [key |-> c.key, depth |-> c.depth + 1, text |-> c.text,
                            href |-> IF c.href = None THEN e.href ELSE c.href]
         /\ Deeper(c, e) \in Capture
<1>1. Deeper(c, e) = [key |-> c.key, depth |-> c.depth + 1, text |-> c.text,
                      href |-> IF c.href = None THEN e.href ELSE c.href]
  <2>. DEFINE link == IF c.href = None THEN e.href ELSE c.href
  <2>1. Deeper(c, e) = [c EXCEPT !.depth = c.depth + 1, !.href = link]
    BY DEF Deeper
  <2>. HIDE DEF link
  <2>2. Deeper(c, e) = [key |-> c.key, depth |-> c.depth + 1, text |-> c.text, href |-> link]
    BY <2>1 DEF Capture
  <2>. QED  BY <2>2 DEF link
<1>2. c.depth + 1 \in Int /\ c.key \in DATA_QA_FIELDS /\ c.text \in Text
  BY DEF Capture
<1>3. (IF c.href = None THEN e.href ELSE c.href) \in Link
  BY DEF Capture, Event
<1>. QED  BY <1>1, <1>2, <1>3 DEF Capture

\* A start tag leaves texts and links alone.
LEMMA StartType ==
  ASSUME NEW p \in Parser, NEW e \in Event, e.do = "start"
  PROVE  /\ handle_starttag(p, e) \in Parser
         /\ handle_starttag(p, e).texts = p.texts /\ handle_starttag(p, e).hrefs = p.hrefs
         /\ handle_starttag(p, e).captures = NewCaptures(p, e)
<1>. DEFINE new == [i \in DOMAIN p.captures |-> Deeper(p.captures[i], e)]
            own == IF e.qa \in DATA_QA_FIELDS THEN <<_HtmlCapture(e)>> ELSE <<>>
            h == handle_starttag(p, e)
<1>1. p.captures \in Seq(Capture)
  BY DEF Parser
<1>2. ASSUME NEW i \in DOMAIN p.captures PROVE new[i] \in Capture
  <2>1. p.captures[i] \in Capture
    BY <1>1, LenProperties, ElementOfSeq
  <2>. QED  BY <2>1, DeeperType
<1>3. new \in Seq(Capture)
  <2>1. new = [i \in DOMAIN new |-> new[i]] /\ DOMAIN new = DOMAIN p.captures
    OBVIOUS
  <2>. HIDE DEF new
  <2>. QED  BY <1>1, <1>2, <2>1, MapType
<1>4. own \in Seq(Capture)
  <2>1. CASE e.qa \in DATA_QA_FIELDS
    <3>1. e.href \in Link /\ <<>> \in Text /\ 1 \in Int
      BY EmptySeq DEF Event, Text
    <3>2. _HtmlCapture(e) \in Capture
      BY <2>1, <3>1 DEF _HtmlCapture, Capture
    <3>3. own = <<_HtmlCapture(e)>>
      BY <2>1
    <3>. HIDE DEF own
    <3>. QED  BY <3>2, <3>3
  <2>2. CASE e.qa \notin DATA_QA_FIELDS
    BY <2>2, EmptySeq
  <2>. QED  BY <2>1, <2>2
<1>5. NewCaptures(p, e) \in Seq(Capture)
  <2>. HIDE DEF new, own
  <2>1. new \o own \in Seq(Capture)
    BY <1>3, <1>4, ConcatProperties
  <2>. QED  BY <2>1 DEF NewCaptures, new, own
<1>6. h = [texts |-> p.texts, hrefs |-> p.hrefs,
           script |-> IF e.tag = "script" /\ e.json # None THEN e.json ELSE p.script,
           scripts |-> p.scripts,
           og_title |-> IF e.tag = "meta" /\ e.text # <<>> THEN e.text ELSE p.og_title,
           captures |-> NewCaptures(p, e)]
  <2>. DEFINE script == IF e.tag = "script" /\ e.json # None THEN e.json ELSE p.script
              title == IF e.tag = "meta" /\ e.text # <<>> THEN e.text ELSE p.og_title
              captures == NewCaptures(p, e)
  <2>1. h = [p EXCEPT !.og_title = title, !.script = script, !.captures = captures]
    BY DEF handle_starttag, NewCaptures
  <2>. HIDE DEF script, title, captures, h
  <2>2. h = [texts |-> p.texts, hrefs |-> p.hrefs, script |-> script, scripts |-> p.scripts,
             og_title |-> title, captures |-> captures]
    BY <2>1 DEF Parser
  <2>. QED  BY <2>2 DEF script, title, captures
<1>7. (IF e.tag = "script" /\ e.json # None THEN e.json ELSE p.script) \in JSON \cup {None}
  BY DEF Parser, Event
<1>8. (IF e.tag = "meta" /\ e.text # <<>> THEN e.text ELSE p.og_title) \in Text
  BY DEF Parser, Event
<1>9. h \in Parser
  <2>1. /\ p.texts \in [DATA_QA_FIELDS -> Seq(Text)] /\ p.hrefs \in [DATA_QA_FIELDS -> Seq(Link)]
        /\ p.scripts \in Seq(JSON)
    BY DEF Parser
  <2>. HIDE DEF h
  <2>. QED  BY <1>5, <1>6, <1>7, <1>8, <2>1 DEF Parser
<1>10. h.texts = p.texts /\ h.hrefs = p.hrefs /\ h.captures = NewCaptures(p, e)
  <2>. HIDE DEF h
  <2>. QED  BY <1>6
<1>. QED  BY <1>9, <1>10

\* So does a text, which every capture takes.
LEMMA DataType ==
  ASSUME NEW p \in Parser, NEW e \in Event, e.do = "data"
  PROVE  /\ handle_data(p, e) \in Parser
         /\ handle_data(p, e).texts = p.texts /\ handle_data(p, e).hrefs = p.hrefs
         /\ handle_data(p, e).captures =
              [i \in DOMAIN p.captures |-> Longer(p.captures[i], e)]
<1>. DEFINE new == [i \in DOMAIN p.captures |-> Longer(p.captures[i], e)]
            h == handle_data(p, e)
<1>1. p.captures \in Seq(Capture)
  BY DEF Parser
<1>2. ASSUME NEW i \in DOMAIN p.captures PROVE new[i] \in Capture
  <2>1. p.captures[i] \in Capture
    BY <1>1, LenProperties, ElementOfSeq
  <2>2. p.captures[i].text \in Text /\ e.text \in Text
    BY <2>1 DEF Capture, Event
  <2>3. Cat(p.captures[i].text, e.text) \in Text
    BY <2>2, ConcatProperties DEF Cat, Text
  <2>. QED  BY <2>1, <2>3 DEF Capture, Longer, Cat
<1>3. new \in Seq(Capture)
  <2>1. new = [i \in DOMAIN new |-> new[i]] /\ DOMAIN new = DOMAIN p.captures
    OBVIOUS
  <2>. HIDE DEF new
  <2>. QED  BY <1>1, <1>2, <2>1, MapType
<1>4. h = [p EXCEPT !.captures = new]
  BY DEF handle_data
<1>. HIDE DEF h, new
<1>5. h \in Parser /\ h.texts = p.texts /\ h.hrefs = p.hrefs /\ h.captures = new
  BY <1>3, <1>4 DEF Parser
<1>. QED  BY <1>5 DEF h, new

\* The captures after an end tag, before the completed ones are taken out.
Rest(p) == [i \in DOMAIN p.captures |-> [p.captures[i] EXCEPT !.depth = @ - 1]]
RestText(p) == [i \in DOMAIN Rest(p) |-> Rest(p)[i].text]
RestHref(p) == [i \in DOMAIN Rest(p) |-> Rest(p)[i].href]
IsOver(p, i, k) == Rest(p)[i].depth = 0 /\ Rest(p)[i].key = k
OverTexts(p, k) == { i \in DOMAIN Rest(p) : IsOver(p, i, k) /\ RestText(p)[i] # <<>> }
OverHrefs(p, k) == { i \in DOMAIN Rest(p) : IsOver(p, i, k) /\ RestHref(p)[i] # None }
NotOver(p) == { i \in DOMAIN Rest(p) : Rest(p)[i].depth # 0 }

\* What is left of the captures after an end tag.
LEMMA RestType ==
  ASSUME NEW p \in Parser
  PROVE  /\ Rest(p) \in Seq(Capture) /\ RestText(p) \in Seq(Text) /\ RestHref(p) \in Seq(Link)
         /\ DOMAIN RestText(p) = DOMAIN Rest(p) /\ DOMAIN RestHref(p) = DOMAIN Rest(p)
         /\ DOMAIN Rest(p) = DOMAIN p.captures
<1>1. p.captures \in Seq(Capture)
  BY DEF Parser
<1>2. ASSUME NEW i \in DOMAIN p.captures PROVE Rest(p)[i] \in Capture
  <2>1. p.captures[i] \in Capture
    BY <1>1, LenProperties, ElementOfSeq
  <2>2. p.captures[i].depth - 1 \in Int
    BY <2>1 DEF Capture
  <2>. QED  BY <2>1, <2>2 DEF Capture, Rest
<1>3. DOMAIN Rest(p) = DOMAIN p.captures /\ Rest(p) = [i \in DOMAIN Rest(p) |-> Rest(p)[i]]
  BY DEF Rest
<1>4. Rest(p) \in Seq(Capture)
  BY <1>1, <1>2, <1>3, MapType
<1>5. /\ DOMAIN RestText(p) = DOMAIN Rest(p)
      /\ RestText(p) = [i \in DOMAIN RestText(p) |-> RestText(p)[i]]
      /\ \A i \in DOMAIN Rest(p) : RestText(p)[i] = Rest(p)[i].text
  BY DEF RestText
<1>6. /\ DOMAIN RestHref(p) = DOMAIN Rest(p)
      /\ RestHref(p) = [i \in DOMAIN RestHref(p) |-> RestHref(p)[i]]
      /\ \A i \in DOMAIN Rest(p) : RestHref(p)[i] = Rest(p)[i].href
  BY DEF RestHref
<1>7. \A i \in DOMAIN Rest(p) : Rest(p)[i].text \in Text /\ Rest(p)[i].href \in Link
  BY <1>2, <1>3 DEF Capture
<1>8. RestText(p) \in Seq(Text)
  BY <1>4, <1>5, <1>7, MapType
<1>9. RestHref(p) \in Seq(Link)
  BY <1>4, <1>6, <1>7, MapType
<1>. QED  BY <1>3, <1>4, <1>5, <1>6, <1>8, <1>9

\* An end tag keeps the texts and the links of the captures that are over.
LEMMA EndType ==
  ASSUME NEW p \in Parser, NEW e \in Event, e.do = "end"
  PROVE  /\ handle_endtag(p, e) \in Parser
         /\ \A k \in DATA_QA_FIELDS :
              /\ handle_endtag(p, e).texts[k] =
                   Cat(p.texts[k], Pick(RestText(p), OverTexts(p, k)))
              /\ handle_endtag(p, e).hrefs[k] =
                   Cat(p.hrefs[k], Pick(RestHref(p), OverHrefs(p, k)))
         /\ handle_endtag(p, e).captures = Pick(Rest(p), NotOver(p))
<1>. DEFINE h == handle_endtag(p, e)
            closes == e.tag = "script" /\ p.script # None
            texts == [k \in DATA_QA_FIELDS |->
                        Cat(p.texts[k], Pick(RestText(p), OverTexts(p, k)))]
            hrefs == [k \in DATA_QA_FIELDS |->
                        Cat(p.hrefs[k], Pick(RestHref(p), OverHrefs(p, k)))]
            captures == Pick(Rest(p), NotOver(p))
            script == IF closes THEN None ELSE p.script
            scripts == IF closes THEN Append(p.scripts, p.script) ELSE p.scripts
<1>1. captures \in Seq(Capture)
  BY RestType, PickType
<1>2. ASSUME NEW k \in DATA_QA_FIELDS PROVE texts[k] \in Seq(Text) /\ hrefs[k] \in Seq(Link)
  <2>1. p.texts[k] \in Seq(Text) /\ p.hrefs[k] \in Seq(Link)
    BY DEF Parser
  <2>2. Pick(RestText(p), OverTexts(p, k)) \in Seq(Text)
    BY RestType, PickType
  <2>3. Pick(RestHref(p), OverHrefs(p, k)) \in Seq(Link)
    BY RestType, PickType
  <2>4. Cat(p.texts[k], Pick(RestText(p), OverTexts(p, k))) \in Seq(Text)
    BY <2>1, <2>2, ConcatProperties DEF Cat
  <2>5. Cat(p.hrefs[k], Pick(RestHref(p), OverHrefs(p, k))) \in Seq(Link)
    BY <2>1, <2>3, ConcatProperties DEF Cat
  <2>. QED  BY <2>4, <2>5
<1>3. texts \in [DATA_QA_FIELDS -> Seq(Text)] /\ hrefs \in [DATA_QA_FIELDS -> Seq(Link)]
  BY <1>2
<1>4. script \in JSON \cup {None}
  BY DEF Parser
<1>5. scripts \in Seq(JSON)
  <2>1. p.scripts \in Seq(JSON) /\ p.script \in JSON \cup {None}
    BY DEF Parser
  <2>. QED  BY <2>1, AppendProperties
<1>6. h = [texts |-> texts, hrefs |-> hrefs, script |-> script, scripts |-> scripts,
           og_title |-> p.og_title, captures |-> captures]
  <2>1. handle_endtag(p, e) =
          [p EXCEPT !.script = script, !.scripts = scripts, !.captures = captures,
                    !.texts = texts, !.hrefs = hrefs]
    BY DEF handle_endtag, Rest, RestText, RestHref, OverTexts, OverHrefs, NotOver, IsOver, Cat
  <2>. HIDE DEF texts, hrefs, script, scripts, captures
  <2>. QED  BY <2>1 DEF Parser
<1>. HIDE DEF h
<1>7. h \in Parser
  <2>1. p.og_title \in Text
    BY DEF Parser
  <2>. HIDE DEF texts, hrefs, script, scripts, captures
  <2>. QED  BY <1>1, <1>3, <1>4, <1>5, <1>6, <2>1 DEF Parser
<1>8. h.texts = texts /\ h.hrefs = hrefs /\ h.captures = captures
  <2>. HIDE DEF texts, hrefs, script, scripts, captures
  <2>. QED  BY <1>6
<1>. QED  BY <1>7, <1>8 DEF h

\* Whatever the event, the parser stays a parser.
LEMMA HandleType ==
  ASSUME NEW p \in Parser, NEW e \in Event
  PROVE  /\ handle(p, e) \in Parser
         /\ e.do = "start" => handle(p, e) = handle_starttag(p, e)
         /\ e.do = "end" => handle(p, e) = handle_endtag(p, e)
         /\ e.do = "data" => handle(p, e) = handle_data(p, e)
<1>1. e.do = "start" \/ e.do = "end" \/ e.do = "data"
  BY DEF Event
<1>2. CASE e.do = "start"
  <2>1. handle(p, e) = handle_starttag(p, e)
    BY <1>2 DEF handle
  <2>. QED  BY <1>2, <2>1, StartType
<1>3. CASE e.do = "end"
  <2>1. handle(p, e) = handle_endtag(p, e)
    BY <1>3 DEF handle
  <2>. QED  BY <1>3, <2>1, EndType
<1>4. CASE e.do = "data"
  <2>1. handle(p, e) = handle_data(p, e)
    BY <1>4 DEF handle
  <2>. QED  BY <1>4, <2>1, DataType
<1>. QED  BY <1>1, <1>2, <1>3, <1>4

Handled(page, f) ==
  [n \in 0..Len(page) |-> IF n = 0 THEN NewParser ELSE handle(f[n - 1], page[n])]

\* The parser after each event of a page.
Fed(page) == CHOOSE f : f = Handled(page, f)

\* So it is at the beginning.
LEMMA NewParserType ==
  NewParser \in Parser
<1>1. <<>> \in Seq(Text) /\ <<>> \in Seq(Link) /\ <<>> \in Seq(JSON) /\ <<>> \in Seq(Capture)
  BY EmptySeq
<1>2. <<>> \in Text
  BY EmptySeq DEF Text
<1>. QED  BY <1>1, <1>2 DEF NewParser, Parser

\* The parser is fed one event after another.
LEMMA FedSteps ==
  ASSUME NEW page \in Seq(Event)
  PROVE  /\ feed(page) = Fed(page)[Len(page)]
         /\ Fed(page)[0] = NewParser
         /\ \A n \in 0..Len(page) : Fed(page)[n] \in Parser
         /\ \A n \in 1..Len(page) : Fed(page)[n] = handle(Fed(page)[n - 1], page[n])
<1>. DEFINE N == Len(page)
            step == [n \in 1..N |-> [p \in Parser |-> handle(p, page[n])]]
            g == Fed(page)
<1>1. N \in Nat /\ \A n \in 1..N : page[n] \in Event
  BY LenProperties, ElementOfSeq
<1>2. step \in [1..N -> [Parser -> Parser]]
  <2>1. ASSUME NEW n \in 1..N, NEW p \in Parser PROVE handle(p, page[n]) \in Parser
    BY <1>1, HandleType
  <2>. QED  BY <2>1
<1>3. \E f : f = Handled(page, f)
  <2>1. PICK f \in [0..N -> Parser] : Takes(f, NewParser, step, N)
    <3>. HIDE DEF step, N
    <3>. QED  BY <1>1, <1>2, NewParserType, Recursion
  <2>2. ASSUME NEW n \in 1..N PROVE f[n] = handle(f[n - 1], page[n])
    <3>1. f[n - 1] \in Parser
      <4>1. n - 1 \in 0..N
        BY <1>1
      <4>. HIDE DEF N
      <4>. QED  BY <4>1
    <3>2. f[n] = step[n][f[n - 1]]
      BY <2>1 DEF Takes
    <3>. QED  BY <3>1, <3>2
  <2>3. f[0] = NewParser
    BY <2>1 DEF Takes
  <2>4. ASSUME NEW n \in 0..N
        PROVE  f[n] = IF n = 0 THEN NewParser ELSE handle(f[n - 1], page[n])
    <3>1. CASE n = 0
      BY <3>1, <2>3
    <3>2. CASE n # 0
      <4>1. n \in 1..N
        BY <1>1, <3>2
      <4>. QED  BY <2>2, <3>2, <4>1
    <3>. QED  BY <3>1, <3>2
  <2>5. f = Handled(page, f)
    BY <2>4 DEF Handled
  <2>. QED  BY <2>5
<1>4. g = Handled(page, g)
  BY <1>3 DEF Fed
<1>5. feed(page) = g[N]
  BY DEF feed, Fed, Handled
<1>. HIDE DEF g
<1>6. g[0] = NewParser
  BY <1>1, <1>4 DEF Handled
<1>7. ASSUME NEW n \in 1..N PROVE g[n] = handle(g[n - 1], page[n])
  BY <1>1, <1>4 DEF Handled
<1>. DEFINE Good == { n \in 0..N : g[n] \in Parser }
<1>8. 0 \in Good
  BY <1>1, <1>6, NewParserType
<1>9. ASSUME NEW n \in 0..(N - 1), n \in Good PROVE n + 1 \in Good
  <2>1. n + 1 \in 1..N /\ n + 1 \in 0..N /\ n + 1 - 1 = n
    BY <1>1
  <2>2. g[n + 1] = handle(g[n], page[n + 1]) /\ page[n + 1] \in Event /\ g[n] \in Parser
    BY <1>1, <1>7, <1>9, <2>1
  <2>. QED  BY <2>1, <2>2, HandleType
<1>10. 0..N \subseteq Good
  <2>. HIDE DEF Good, N
  <2>. QED  BY <1>1, <1>8, <1>9, UpTo
<1>. QED  BY <1>5, <1>6, <1>7, <1>10 DEF g

-----------------------------------------------------------------------------
(* Places in a page. *)

\* The least of a set of numbers.
LEMMA MinIs ==
  ASSUME NEW S, S \subseteq Nat, S # {}
  PROVE  Min(S) \in S /\ \A y \in S : Min(S) <= y
<1>. DEFINE R == OpToRel(<, Nat)
<1>1. IsWellFoundedOn(R, Nat)
  BY NatLessThanWellFounded
<1>2. \A x, y \in Nat : y < x => <<y, x>> \in R
  BY DEF OpToRel
<1>. HIDE DEF R
<1>3. PICK x \in S : \A y \in S : ~(<<y, x>> \in R)
  BY <1>1, WFMin
<1>4. ASSUME NEW y \in S PROVE x <= y
  <2>1. x \in Nat /\ y \in Nat /\ ~(<<y, x>> \in R)
    BY <1>3
  <2>2. ~(y < x)
    BY <1>2, <2>1
  <2>. QED  BY <2>1, <2>2
<1>. QED  BY <1>4 DEF Min

Count(T, i, n) == Cardinality(T \cap i..n)

\* How a count goes on from n to n + 1.
LEMMA CountStep ==
  ASSUME NEW T, NEW i \in Nat, NEW n \in Nat, i <= n + 1
  PROVE  /\ Count(T, i, n) \in Nat
         /\ n + 1 \in T => Count(T, i, n + 1) = Count(T, i, n) + 1
         /\ n + 1 \notin T => Count(T, i, n + 1) = Count(T, i, n)
         /\ Count(T, i, i - 1) = 0
<1>1. IsFiniteSet(i..n)
  BY FS_Interval
<1>2. IsFiniteSet(T \cap i..n)
  <2>1. T \cap i..n \subseteq i..n
    OBVIOUS
  <2>. QED  BY <1>1, <2>1, FS_Subset
<1>3. Count(T, i, n) \in Nat
  BY <1>2, FS_CardinalityType DEF Count
<1>4. ASSUME n + 1 \in T PROVE Count(T, i, n + 1) = Count(T, i, n) + 1
  <2>1. T \cap i..(n + 1) = (T \cap i..n) \cup {n + 1}
    BY <1>4
  <2>2. n + 1 \notin T \cap i..n
    OBVIOUS
  <2>3. Cardinality((T \cap i..n) \cup {n + 1}) = Cardinality(T \cap i..n) + 1
    BY <1>2, <2>2, FS_AddElement
  <2>. QED  BY <2>1, <2>3 DEF Count
<1>5. ASSUME n + 1 \notin T PROVE Count(T, i, n + 1) = Count(T, i, n)
  <2>1. T \cap i..(n + 1) = T \cap i..n
    BY <1>5
  <2>. QED  BY <2>1 DEF Count
<1>6. Count(T, i, i - 1) = 0
  <2>1. T \cap i..(i - 1) = {}
    OBVIOUS
  <2>. QED  BY <2>1, FS_EmptySet DEF Count
<1>. QED  BY <1>3, <1>4, <1>5, <1>6

\* A count of more is no less.
LEMMA CountMore ==
  ASSUME NEW T, NEW U, NEW i \in Nat, NEW n \in Nat, T \cap i..n \subseteq U
  PROVE  Count(T, i, n) <= Count(U, i, n)
<1>1. IsFiniteSet(i..n)
  BY FS_Interval
<1>2. IsFiniteSet(U \cap i..n)
  <2>1. U \cap i..n \subseteq i..n
    OBVIOUS
  <2>. QED  BY <1>1, <2>1, FS_Subset
<1>3. T \cap i..n \subseteq U \cap i..n
  OBVIOUS
<1>. QED  BY <1>2, <1>3, FS_Subset DEF Count

At(page, do) == { k \in DOMAIN page : page[k].do = do }
Tags(page) == { k \in At(page, "start") : ~Unclosed(page, k) }

\* How deep the capture of the element that starts at i is at n.
Depth(page, i, n) == Count(At(page, "start"), i, n) - Count(At(page, "end"), i, n)

\* A page is a finite sequence of events.
LEMMA PageFacts ==
  ASSUME NEW page \in Seq(Event)
  PROVE  /\ Len(page) \in Nat /\ DOMAIN page = 1..Len(page)
         /\ \A n \in 1..Len(page) : page[n] \in Event
         /\ \A n \in 1..Len(page) :
              page[n].do = "start" \/ page[n].do = "end" \/ page[n].do = "data"
<1>1. Len(page) \in Nat /\ DOMAIN page = 1..Len(page)
  BY LenProperties
<1>2. \A n \in 1..Len(page) : page[n] \in Event
  BY ElementOfSeq
<1>3. \A e \in Event : e.do = "start" \/ e.do = "end" \/ e.do = "data"
  BY DEF Event
<1>. QED  BY <1>1, <1>2, <1>3

\* How the depth of a capture goes on.
LEMMA DepthStep ==
  ASSUME NEW page \in Seq(Event), NEW i \in 1..Len(page), NEW n \in (i - 1)..(Len(page) - 1)
  PROVE  /\ Depth(page, i, n) \in Int
         /\ Depth(page, i, i - 1) = 0
         /\ page[n + 1].do = "start" => Depth(page, i, n + 1) = Depth(page, i, n) + 1
         /\ page[n + 1].do = "end" => Depth(page, i, n + 1) = Depth(page, i, n) - 1
         /\ page[n + 1].do = "data" => Depth(page, i, n + 1) = Depth(page, i, n)
<1>. DEFINE S == At(page, "start")
            E == At(page, "end")
<1>1. i \in Nat /\ n \in Nat /\ i <= n + 1 /\ n + 1 \in DOMAIN page
  BY PageFacts
<1>2. /\ n + 1 \in S <=> page[n + 1].do = "start"
      /\ n + 1 \in E <=> page[n + 1].do = "end"
  BY <1>1 DEF At
<1>. HIDE DEF S, E
<1>3. /\ Count(S, i, n) \in Nat
      /\ n + 1 \in S => Count(S, i, n + 1) = Count(S, i, n) + 1
      /\ n + 1 \notin S => Count(S, i, n + 1) = Count(S, i, n)
      /\ Count(S, i, i - 1) = 0
  BY <1>1, CountStep
<1>4. /\ Count(E, i, n) \in Nat
      /\ n + 1 \in E => Count(E, i, n + 1) = Count(E, i, n) + 1
      /\ n + 1 \notin E => Count(E, i, n + 1) = Count(E, i, n)
      /\ Count(E, i, i - 1) = 0
  BY <1>1, CountStep
<1>5. \A m \in Int : Depth(page, i, m) = Count(S, i, m) - Count(E, i, m)
  BY DEF Depth, S, E
<1>6. /\ Depth(page, i, n) = Count(S, i, n) - Count(E, i, n)
      /\ Depth(page, i, n + 1) = Count(S, i, n + 1) - Count(E, i, n + 1)
      /\ Depth(page, i, i - 1) = Count(S, i, i - 1) - Count(E, i, i - 1)
  BY <1>1, <1>5
<1>7. CASE page[n + 1].do = "start"
  BY <1>2, <1>3, <1>4, <1>6, <1>7
<1>8. CASE page[n + 1].do = "end"
  BY <1>2, <1>3, <1>4, <1>6, <1>8
<1>9. CASE page[n + 1].do = "data"
  BY <1>2, <1>3, <1>4, <1>6, <1>9
<1>10. page[n + 1].do = "start" \/ page[n + 1].do = "end" \/ page[n + 1].do = "data"
  BY <1>1, PageFacts
<1>. QED  BY <1>7, <1>8, <1>9, <1>10

\* The depth changes one by one, so a capture is open until it is zero.
LEMMA DepthPositive ==
  ASSUME NEW page \in Seq(Event), NEW i \in 1..Len(page), page[i].do = "start",
         NEW j \in i..Len(page), \A m \in i..j : Depth(page, i, m) # 0
  PROVE  Depth(page, i, j) > 0
<1>1. Len(page) \in Nat /\ i \in Nat /\ j \in Nat /\ j - i \in Nat
  BY PageFacts
<1>. DEFINE Good == { d \in 0..(j - i) : /\ Depth(page, i, i + d) \in Int
                                        /\ Depth(page, i, i + d) > 0 }
<1>2. 0 \in Good
  <2>1. i - 1 \in (i - 1)..(Len(page) - 1) /\ i - 1 + 1 = i
    BY <1>1
  <2>2. Depth(page, i, i - 1) = 0 /\ Depth(page, i, i - 1 + 1) = Depth(page, i, i - 1) + 1
    BY <2>1, DepthStep
  <2>3. Depth(page, i, i) = 1
    BY <2>1, <2>2
  <2>4. i + 0 = i /\ 0 \in 0..(j - i)
    BY <1>1
  <2>. QED  BY <2>3, <2>4
<1>3. ASSUME NEW d \in 0..(j - i - 1), d \in Good PROVE d + 1 \in Good
  <2>. DEFINE n == i + d
  <2>1. n \in (i - 1)..(Len(page) - 1) /\ n + 1 \in i..j /\ n + 1 \in 1..Len(page)
    BY <1>1
  <2>2. i + (d + 1) = n + 1 /\ d + 1 \in 0..(j - i)
    BY <1>1
  <2>3. Depth(page, i, n) \in Int /\ Depth(page, i, n) > 0
    BY <1>3
  <2>. HIDE DEF n
  <2>4. page[n + 1].do = "start" \/ page[n + 1].do = "end" \/ page[n + 1].do = "data"
    BY <2>1, PageFacts
  <2>5. /\ page[n + 1].do = "start" => Depth(page, i, n + 1) = Depth(page, i, n) + 1
        /\ page[n + 1].do = "end" => Depth(page, i, n + 1) = Depth(page, i, n) - 1
        /\ page[n + 1].do = "data" => Depth(page, i, n + 1) = Depth(page, i, n)
    BY <2>1, DepthStep
  <2>6. Depth(page, i, n + 1) # 0
    BY <2>1
  <2>7. Depth(page, i, n + 1) \in Int /\ Depth(page, i, n + 1) > 0
    BY <2>3, <2>4, <2>5, <2>6
  <2>. QED  BY <2>2, <2>7
<1>4. 0..(j - i) \subseteq Good
  <2>. HIDE DEF Good
  <2>. QED  BY <1>1, <1>2, <1>3, UpTo
<1>5. j - i \in Good /\ i + (j - i) = j
  BY <1>1, <1>4
<1>. QED  BY <1>5

\* The balance is a difference of two counts.
LEMMA BalanceIs ==
  ASSUME NEW page \in Seq(Event), NEW i \in 1..Len(page), NEW n \in (i - 1)..Len(page)
  PROVE  Balance(page, i, n) = Count(Tags(page), i, n) - Count(At(page, "end"), i, n)
<1>1. i..n \subseteq DOMAIN page
  BY PageFacts
<1>2. { k \in i..n : page[k].do = "start" /\ ~Unclosed(page, k) } = Tags(page) \cap i..n
  BY <1>1 DEF Tags, At
<1>3. { k \in i..n : page[k].do = "end" } = At(page, "end") \cap i..n
  BY <1>1 DEF At
<1>. QED  BY <1>2, <1>3 DEF Balance, Count

\* How the balance goes on.
LEMMA BalanceStep ==
  ASSUME NEW page \in Seq(Event), NEW i \in 1..Len(page), NEW n \in (i - 1)..(Len(page) - 1)
  PROVE  /\ Balance(page, i, n) \in Int
         /\ Balance(page, i, i - 1) = 0
         /\ Balance(page, i, n + 1) >= Balance(page, i, n) - 1
         /\ page[n + 1].do # "end" => Balance(page, i, n + 1) >= Balance(page, i, n)
<1>. DEFINE S == Tags(page)
            E == At(page, "end")
<1>1. i \in Nat /\ n \in Nat /\ i <= n + 1 /\ n + 1 \in DOMAIN page
  BY PageFacts
<1>2. n + 1 \in E <=> page[n + 1].do = "end"
  BY <1>1 DEF At
<1>3. n + 1 \in S => page[n + 1].do = "start"
  BY DEF Tags, At
<1>. HIDE DEF S, E
<1>4. /\ Count(S, i, n) \in Nat
      /\ n + 1 \in S => Count(S, i, n + 1) = Count(S, i, n) + 1
      /\ n + 1 \notin S => Count(S, i, n + 1) = Count(S, i, n)
      /\ Count(S, i, i - 1) = 0
  BY <1>1, CountStep
<1>5. /\ Count(E, i, n) \in Nat
      /\ n + 1 \in E => Count(E, i, n + 1) = Count(E, i, n) + 1
      /\ n + 1 \notin E => Count(E, i, n + 1) = Count(E, i, n)
      /\ Count(E, i, i - 1) = 0
  BY <1>1, CountStep
<1>6. n \in (i - 1)..Len(page) /\ n + 1 \in (i - 1)..Len(page) /\ i - 1 \in (i - 1)..Len(page)
  BY PageFacts
<1>7. /\ Balance(page, i, n) = Count(S, i, n) - Count(E, i, n)
      /\ Balance(page, i, n + 1) = Count(S, i, n + 1) - Count(E, i, n + 1)
      /\ Balance(page, i, i - 1) = Count(S, i, i - 1) - Count(E, i, i - 1)
  BY <1>6, BalanceIs DEF S, E
<1>8. CASE n + 1 \in E
  BY <1>2, <1>3, <1>4, <1>5, <1>7, <1>8
<1>9. CASE n + 1 \notin E
  BY <1>2, <1>3, <1>4, <1>5, <1>7, <1>9
<1>. QED  BY <1>8, <1>9

\* Only an unclosed tag sets a capture apart from the elements around it.
LEMMA DepthAndBalance ==
  ASSUME NEW page \in Seq(Event), NEW i \in 1..Len(page), NEW n \in i..Len(page)
  PROVE  /\ Depth(page, i, n) \in Int /\ Balance(page, i, n) \in Int
         /\ Balance(page, i, n) <= Depth(page, i, n)
         /\ (\A k \in i..n : ~Unclosed(page, k)) => Balance(page, i, n) = Depth(page, i, n)
<1>. DEFINE S == At(page, "start")
            T == Tags(page)
            E == At(page, "end")
<1>1. i \in Nat /\ n \in Nat /\ i <= n + 1 /\ n \in (i - 1)..Len(page)
  BY PageFacts
<1>2. T \cap i..n \subseteq S
  BY DEF Tags
<1>3. (\A k \in i..n : ~Unclosed(page, k)) => S \cap i..n \subseteq T
  BY DEF Tags
<1>4. Balance(page, i, n) = Count(T, i, n) - Count(E, i, n)
  BY <1>1, BalanceIs
<1>5. Depth(page, i, n) = Count(S, i, n) - Count(E, i, n)
  BY DEF Depth
<1>. HIDE DEF S, T, E
<1>6. Count(S, i, n) \in Nat /\ Count(T, i, n) \in Nat /\ Count(E, i, n) \in Nat
  BY <1>1, CountStep
<1>7. Count(T, i, n) <= Count(S, i, n)
  BY <1>1, <1>2, CountMore
<1>8. (\A k \in i..n : ~Unclosed(page, k)) => Count(S, i, n) <= Count(T, i, n)
  BY <1>1, <1>3, CountMore
<1>. QED  BY <1>4, <1>5, <1>6, <1>7, <1>8

\* Elements are opened and closed one at a time, so one is open until the balance is zero.
LEMMA BalancePositive ==
  ASSUME NEW page \in Seq(Event), NEW i \in 1..Len(page), page[i].do = "start",
         NEW j \in i..Len(page), \A m \in i..j : Balance(page, i, m) # 0
  PROVE  Balance(page, i, j) > 0
<1>1. Len(page) \in Nat /\ i \in Nat /\ j \in Nat /\ j - i \in Nat
  BY PageFacts
<1>. DEFINE Good == { d \in 0..(j - i) : Balance(page, i, i + d) > 0 }
<1>2. 0 \in Good
  <2>1. i - 1 \in (i - 1)..(Len(page) - 1) /\ i - 1 + 1 = i
    BY <1>1
  <2>2. Balance(page, i, i - 1) = 0 /\ Balance(page, i, i - 1 + 1) >= Balance(page, i, i - 1)
    BY <2>1, BalanceStep
  <2>3. Balance(page, i, i) \in Int
    BY DepthAndBalance, <1>1
  <2>4. Balance(page, i, i) # 0
    BY <1>1
  <2>5. Balance(page, i, i) > 0
    BY <2>1, <2>2, <2>3, <2>4
  <2>6. i + 0 = i
    BY <1>1
  <2>. QED  BY <1>1, <2>5, <2>6
<1>3. ASSUME NEW d \in 0..(j - i - 1), d \in Good PROVE d + 1 \in Good
  <2>. DEFINE n == i + d
  <2>1. n \in (i - 1)..(Len(page) - 1) /\ n + 1 \in i..j /\ n + 1 \in i..Len(page)
    BY <1>1
  <2>2. i + (d + 1) = n + 1 /\ d + 1 \in 0..(j - i)
    BY <1>1
  <2>3. Balance(page, i, n) > 0
    BY <1>3
  <2>. HIDE DEF n
  <2>4. Balance(page, i, n) \in Int /\ Balance(page, i, n + 1) >= Balance(page, i, n) - 1
    BY <2>1, BalanceStep
  <2>5. Balance(page, i, n + 1) \in Int
    BY <2>1, DepthAndBalance
  <2>6. Balance(page, i, n + 1) # 0
    BY <2>1
  <2>7. Balance(page, i, n + 1) > 0
    BY <2>3, <2>4, <2>5, <2>6
  <2>. QED  BY <2>2, <2>7
<1>4. 0..(j - i) \subseteq Good
  <2>. HIDE DEF Good
  <2>. QED  BY <1>1, <1>2, <1>3, UpTo
<1>5. j - i \in Good /\ i + (j - i) = j
  BY <1>1, <1>4
<1>. QED  BY <1>5

Words(event) == IF event.do = "data" THEN event.text ELSE <<>>

\* How what is said goes on.
LEMMA SaidStep ==
  ASSUME NEW page \in Seq(Event), NEW i \in 1..Len(page)
  PROVE  /\ Said(page, i, i) = Words(page[i])
         /\ \A n \in i..Len(page) : Said(page, i, n) \in Text
         /\ \A n \in i..(Len(page) - 1) :
              Said(page, i, n + 1) = Cat(Said(page, i, n), Words(page[n + 1]))
<1>. DEFINE N == Len(page)
            said == [k \in DOMAIN page |-> Words(page[k])]
<1>1. N \in Nat /\ DOMAIN page = 1..N /\ i \in Nat
  BY PageFacts
<1>2. ASSUME NEW k \in 1..N PROVE Words(page[k]) \in Text
  <2>1. page[k] \in Event
    BY PageFacts
  <2>2. page[k].text \in Text /\ <<>> \in Text
    BY <2>1, EmptySeq DEF Event, Text
  <2>. QED  BY <2>2 DEF Words
<1>3. said \in Seq(Text) /\ Len(said) = N /\ \A k \in 1..N : said[k] = Words(page[k])
  BY <1>1, <1>2
<1>4. \A n \in Nat : Said(page, i, n) = FlattenSeq(SubSeq(said, i, n))
  BY DEF Said, Words
<1>. HIDE DEF said
<1>5. ASSUME NEW n \in i..N
      PROVE  /\ SubSeq(said, i, n) = SubSeq(said, i, n - 1) \o <<said[n]>>
             /\ SubSeq(said, i, n) \in Seq(Text) /\ said[n] \in Seq(STRING)
  <2>1. i \in 1..Len(said) /\ n \in i..Len(said)
    BY <1>1, <1>3
  <2>2. SubSeq(said, i, n) = SubSeq(said, i, n - 1) \o <<said[n]>>
    BY <1>3, <2>1, SubSeqRecursiveSecond
  <2>3. n \in 1..N
    BY <1>1
  <2>4. said[n] \in Text
    BY <1>2, <1>3, <2>3
  <2>5. \A k \in i..n : said[k] \in Text
    BY <1>1, <1>2, <1>3
  <2>6. SubSeq(said, i, n) \in Seq(Text)
    BY <1>1, <2>5, SubSeqProperties
  <2>. QED  BY <2>2, <2>4, <2>6 DEF Text
<1>6. Said(page, i, i) = Words(page[i])
  <2>1. i \in i..N
    BY <1>1
  <2>2. SubSeq(said, i, i - 1) = <<>>
    BY <1>1, SubSeqEmpty
  <2>3. said[i] \in Seq(STRING) /\ SubSeq(said, i, i) = <<>> \o <<said[i]>>
    BY <1>5, <2>1, <2>2
  <2>4. <<>> \in Seq(Seq(STRING))
    BY EmptySeq
  <2>5. FlattenSeq(<<>> \o <<said[i]>>) = FlattenSeq(<<>>) \o said[i]
    BY <2>3, <2>4, FlattenLast
  <2>6. FlattenSeq(<<>>) = <<>>
    BY <2>4, FlattenIsLast
  <2>7. <<>> \o said[i] = said[i]
    BY <2>3, ConcatEmptySeq
  <2>. QED  BY <1>1, <1>3, <1>4, <2>3, <2>5, <2>6, <2>7
<1>7. ASSUME NEW n \in i..N PROVE Said(page, i, n) \in Text
  <2>1. SubSeq(said, i, n) \in Seq(Seq(STRING))
    BY <1>5 DEF Text
  <2>2. FlattenSeq(SubSeq(said, i, n)) \in Seq(STRING)
    BY <2>1, FlattenType
  <2>. QED  BY <1>1, <1>4, <2>2 DEF Text
<1>8. ASSUME NEW n \in i..(N - 1)
      PROVE  Said(page, i, n + 1) = Cat(Said(page, i, n), Words(page[n + 1]))
  <2>1. /\ n \in i..N /\ n + 1 \in i..N /\ n + 1 - 1 = n
        /\ n + 1 \in 1..N /\ n + 1 \in Nat /\ n \in Nat
    BY <1>1
  <2>2. /\ SubSeq(said, i, n + 1) = SubSeq(said, i, n) \o <<said[n + 1]>>
        /\ said[n + 1] \in Seq(STRING) /\ SubSeq(said, i, n) \in Seq(Seq(STRING))
    BY <1>5, <2>1 DEF Text
  <2>3. FlattenSeq(SubSeq(said, i, n + 1)) = FlattenSeq(SubSeq(said, i, n)) \o said[n + 1]
    BY <2>2, FlattenLast
  <2>. QED  BY <1>3, <1>4, <2>1, <2>3 DEF Cat
<1>. QED  BY <1>6, <1>7, <1>8

\* A text is a prefix of what goes on from it.
LEMMA CatPrefix ==
  ASSUME NEW s \in Text, NEW t \in Text
  PROVE  Cat(s, t) \in Text /\ IsPrefix(s, Cat(s, t))
<1>1. s \in Seq(STRING) /\ t \in Seq(STRING)
  BY DEF Text
<1>2. /\ s \o t \in Seq(STRING) /\ Len(s \o t) = Len(s) + Len(t)
      /\ Len(s) \in Nat /\ Len(t) \in Nat
  BY <1>1, ConcatProperties, LenProperties
<1>3. SubSeq(s, 1, Len(s)) = SubSeq(s \o t, 1, Len(s))
  <2>1. CASE Len(s) = 0
    BY <2>1, SubSeqEmpty
  <2>2. CASE Len(s) # 0
    <3>1. 1 \in 1..Len(s) /\ Len(s) \in 1..Len(s)
      BY <1>2, <2>2
    <3>. QED  BY <1>1, <3>1, SubSeqOfConcat1
  <2>. QED  BY <2>1, <2>2
<1>4. Len(s) <= Len(s \o t)
  BY <1>2
<1>. QED  BY <1>2, <1>3, <1>4 DEF Cat, Text, IsPrefix

\* Joining texts is associative.
LEMMA CatAssociative ==
  ASSUME NEW s \in Text, NEW t \in Text, NEW u \in Text
  PROVE  Cat(Cat(s, t), u) = Cat(s, Cat(t, u)) /\ Cat(t, u) \in Text
<1>1. s \in Seq(STRING) /\ t \in Seq(STRING) /\ u \in Seq(STRING)
  BY DEF Text
<1>2. (s \o t) \o u = s \o (t \o u)
  BY <1>1, ConcatAssociative
<1>3. t \o u \in Seq(STRING)
  BY <1>1, ConcatProperties
<1>. QED  BY <1>2, <1>3 DEF Cat, Text

\* What is said up to an event is a prefix of what is said up to a later one.
LEMMA SaidPrefix ==
  ASSUME NEW page \in Seq(Event), NEW i \in 1..Len(page),
         NEW m \in i..Len(page), NEW n \in m..Len(page)
  PROVE  IsPrefix(Said(page, i, m), Said(page, i, n))
<1>. DEFINE s == Said(page, i, m)
            Good == { d \in 0..(n - m) : \E u \in Text : Said(page, i, m + d) = Cat(s, u) }
<1>1. Len(page) \in Nat /\ m \in Nat /\ n \in Nat /\ n - m \in Nat /\ i \in Nat
  BY PageFacts
<1>2. s \in Text
  BY SaidStep
<1>3. 0 \in Good
  <2>1. <<>> \in Text /\ Cat(s, <<>>) = s
    BY <1>2, EmptySeq, ConcatEmptySeq DEF Text, Cat
  <2>2. m + 0 = m
    BY <1>1
  <2>. QED  BY <1>1, <2>1, <2>2
<1>4. ASSUME NEW d \in 0..(n - m - 1), d \in Good PROVE d + 1 \in Good
  <2>1. PICK u \in Text : Said(page, i, m + d) = Cat(s, u)
    BY <1>4
  <2>. DEFINE k == m + d
              w == Words(page[k + 1])
  <2>2. k \in i..(Len(page) - 1) /\ k + 1 \in 1..Len(page) /\ m + (d + 1) = k + 1
        /\ d + 1 \in 0..(n - m)
    BY <1>1
  <2>3. w \in Text
    <3>1. page[k + 1] \in Event
      BY <2>2, PageFacts
    <3>2. page[k + 1].text \in Text /\ <<>> \in Text
      BY <3>1, EmptySeq DEF Event, Text
    <3>. QED  BY <3>2 DEF Words
  <2>. HIDE DEF k
  <2>4. Said(page, i, k + 1) = Cat(Said(page, i, k), w)
    BY <2>2, SaidStep
  <2>. HIDE DEF w, s
  <2>5. Cat(Cat(s, u), w) = Cat(s, Cat(u, w)) /\ Cat(u, w) \in Text
    BY <1>2, <2>3, CatAssociative
  <2>6. Said(page, i, k) = Cat(s, u)
    BY <2>1 DEF k
  <2>. QED  BY <2>2, <2>4, <2>5, <2>6
<1>5. 0..(n - m) \subseteq Good
  <2>. HIDE DEF Good
  <2>. QED  BY <1>1, <1>3, <1>4, UpTo
<1>6. n - m \in Good /\ m + (n - m) = n
  <2>1. n - m \in 0..(n - m) /\ m + (n - m) = n
    BY <1>1
  <2>. HIDE DEF Good
  <2>. QED  BY <1>5, <2>1
<1>7. PICK u \in Text : Said(page, i, n) = Cat(s, u)
  BY <1>6
<1>. QED  BY <1>2, <1>7, CatPrefix

Links(page, i, n) == { k \in i..n : page[k].do = "start" /\ page[k].href # None }

\* The link a capture has taken by n.
LinkAt(page, i, n) ==
  IF Links(page, i, n) = {} THEN None ELSE page[Min(Links(page, i, n))].href

\* The link of a capture is the first one, if there is any.
LEMMA LinkIs ==
  ASSUME NEW page, NEW i \in Nat, NEW n
  PROVE  \/ Links(page, i, n) = {} /\ LinkAt(page, i, n) = None
         \/ /\ LinkAt(page, i, n) # None
            /\ \E k \in Links(page, i, n) :
                 LinkAt(page, i, n) = page[k].href /\ \A y \in Links(page, i, n) : k <= y
<1>1. CASE Links(page, i, n) = {}
  BY <1>1 DEF LinkAt
<1>2. CASE Links(page, i, n) # {}
  <2>. DEFINE L == Links(page, i, n)
  <2>1. L \subseteq Nat
    BY DEF Links
  <2>. HIDE DEF L
  <2>2. Min(L) \in L /\ \A y \in L : Min(L) <= y
    BY <1>2, <2>1, MinIs DEF L
  <2>3. LinkAt(page, i, n) = page[Min(L)].href
    BY <1>2 DEF LinkAt, L
  <2>4. page[Min(L)].href # None
    BY <2>2 DEF L, Links
  <2>. QED  BY <2>2, <2>3, <2>4 DEF L
<1>. QED  BY <1>1, <1>2

\* How the link of a capture goes on.
LEMMA LinkStep ==
  ASSUME NEW page, NEW i \in Nat, NEW n \in Nat, i <= n + 1
  PROVE  /\ LinkAt(page, i, n + 1) =
              IF LinkAt(page, i, n) = None /\ page[n + 1].do = "start"
              THEN page[n + 1].href ELSE LinkAt(page, i, n)
         /\ LinkAt(page, i, i - 1) = None
<1>. DEFINE L == Links(page, i, n)
            M == Links(page, i, n + 1)
            e == page[n + 1]
<1>1. M = L \cup (IF e.do = "start" /\ e.href # None THEN {n + 1} ELSE {})
  BY DEF Links
<1>2. \A k \in L : k <= n /\ k \in Nat
  BY DEF Links
<1>3. LinkAt(page, i, i - 1) = None
  <2>1. Links(page, i, i - 1) = {}
    BY DEF Links
  <2>. QED  BY <2>1 DEF LinkAt
<1>4. CASE L = {}
  <2>1. LinkAt(page, i, n) = None
    BY <1>4 DEF LinkAt
  <2>2. CASE e.do = "start" /\ e.href # None
    <3>1. M = {n + 1}
      BY <1>1, <1>4, <2>2
    <3>2. PICK k \in M : LinkAt(page, i, n + 1) = page[k].href
      BY <3>1, LinkIs
    <3>. QED  BY <1>3, <2>1, <2>2, <3>1, <3>2
  <2>3. CASE ~(e.do = "start" /\ e.href # None)
    <3>1. M = {}
      BY <1>1, <1>4, <2>3
    <3>2. LinkAt(page, i, n + 1) = None
      BY <3>1 DEF LinkAt
    <3>. QED  BY <1>3, <2>1, <2>3, <3>2
  <2>. QED  BY <2>2, <2>3
<1>5. CASE L # {}
  <2>. HIDE DEF L, M, e
  <2>1. PICK k \in L : /\ LinkAt(page, i, n) # None /\ LinkAt(page, i, n) = page[k].href
                       /\ \A y \in L : k <= y
    BY <1>5, LinkIs DEF L
  <2>2. PICK l \in M : LinkAt(page, i, n + 1) = page[l].href /\ \A y \in M : l <= y
    <3>1. M # {}
      BY <1>1, <1>5
    <3>. QED  BY <3>1, LinkIs DEF M
  <2>3. k \in M /\ l <= k /\ k <= n /\ k \in Nat
    BY <1>1, <1>2, <2>1, <2>2
  <2>4. l # n + 1
    <3>1. l \in Nat
      BY <1>1, <1>2
    <3>. QED  BY <2>3, <3>1
  <2>5. l \in L
    BY <1>1, <2>4
  <2>6. l = k
    <3>1. k <= l /\ l \in Nat
      BY <1>2, <2>1, <2>5
    <3>. QED  BY <2>3, <3>1
  <2>7. LinkAt(page, i, n + 1) = LinkAt(page, i, n)
    BY <2>1, <2>2, <2>6
  <2>. QED  BY <1>3, <2>1, <2>7
<1>. QED  BY <1>4, <1>5

-----------------------------------------------------------------------------
(* Captures that are open, and captures that are over. *)

Started(page, i) == page[i].do = "start" /\ page[i].qa \in DATA_QA_FIELDS
Open(page, i, n) == \A m \in i..n : Depth(page, i, m) > 0
Live(page, n) == { i \in 1..n : Started(page, i) /\ Open(page, i, n) }
Over(page, i, j) == Depth(page, i, j) = 0 /\ Open(page, i, j - 1)
OverAt(page, n, k) == { i \in 1..n : page[i].do = "start" /\ page[i].qa = k /\ Over(page, i, n) }

\* A capture that is open stays open or is over.
LEMMA LiveNext ==
  ASSUME NEW page \in Seq(Event), NEW n \in 0..(Len(page) - 1), NEW i \in 1..n
  PROVE  /\ i \in Live(page, n + 1) <=> i \in Live(page, n) /\ Depth(page, i, n + 1) > 0
         /\ \A k \in DATA_QA_FIELDS :
              i \in OverAt(page, n + 1, k) <=>
                i \in Live(page, n) /\ page[i].qa = k /\ Depth(page, i, n + 1) = 0
<1>1. i..(n + 1) = (i..n) \cup {n + 1} /\ i \in 1..(n + 1) /\ n + 1 - 1 = n
  OBVIOUS
<1>2. Open(page, i, n + 1) <=> Open(page, i, n) /\ Depth(page, i, n + 1) > 0
  BY <1>1 DEF Open
<1>3. i \in Live(page, n + 1) <=> Started(page, i) /\ Open(page, i, n + 1)
  BY <1>1 DEF Live
<1>4. i \in Live(page, n) <=> Started(page, i) /\ Open(page, i, n)
  BY DEF Live
<1>5. Over(page, i, n + 1) <=> Depth(page, i, n + 1) = 0 /\ Open(page, i, n)
  BY <1>1 DEF Over
<1>6. \A k : i \in OverAt(page, n + 1, k) <=>
               page[i].do = "start" /\ page[i].qa = k /\ Over(page, i, n + 1)
  BY <1>1 DEF OverAt
<1>7. \A k \in DATA_QA_FIELDS : page[i].do = "start" /\ page[i].qa = k
                                  <=> Started(page, i) /\ page[i].qa = k
  BY DEF Started
<1>. QED  BY <1>2, <1>3, <1>4, <1>5, <1>6, <1>7

\* An element that starts is open, and not over.
LEMMA LiveNew ==
  ASSUME NEW page \in Seq(Event), NEW n \in 0..(Len(page) - 1)
  PROVE  /\ n + 1 \in Live(page, n + 1) <=> Started(page, n + 1)
         /\ \A k : n + 1 \notin OverAt(page, n + 1, k)
         /\ page[n + 1].do = "start" => Depth(page, n + 1, n + 1) = 1
<1>1. n + 1 \in 1..Len(page) /\ n \in (n + 1 - 1)..(Len(page) - 1) /\ n + 1 - 1 = n
  BY PageFacts
<1>2. page[n + 1].do = "start" => Depth(page, n + 1, n + 1) = 1
  BY <1>1, DepthStep
<1>3. n + 1 \in 1..(n + 1) /\ (n + 1)..(n + 1) = {n + 1}
  OBVIOUS
<1>4. page[n + 1].do = "start" => Open(page, n + 1, n + 1)
  BY <1>2, <1>3 DEF Open
<1>5. n + 1 \in Live(page, n + 1) <=> Started(page, n + 1) /\ Open(page, n + 1, n + 1)
  BY <1>3 DEF Live
<1>6. \A k : n + 1 \notin OverAt(page, n + 1, k)
  BY <1>2 DEF OverAt, Over
<1>. QED  BY <1>2, <1>4, <1>5, <1>6 DEF Started

\* Which captures are open, and which are over, after the next event.
LEMMA LiveStep ==
  ASSUME NEW page \in Seq(Event), NEW n \in 0..(Len(page) - 1), NEW k \in DATA_QA_FIELDS
  PROVE  /\ page[n + 1].do = "start" =>
              /\ Live(page, n + 1) = Live(page, n) \cup (IF page[n + 1].qa \in DATA_QA_FIELDS
                                                         THEN {n + 1} ELSE {})
              /\ OverAt(page, n + 1, k) = {}
         /\ page[n + 1].do = "data" =>
              Live(page, n + 1) = Live(page, n) /\ OverAt(page, n + 1, k) = {}
         /\ page[n + 1].do = "end" =>
              /\ Live(page, n + 1) = { i \in Live(page, n) : Depth(page, i, n + 1) # 0 }
              /\ OverAt(page, n + 1, k) =
                   { i \in Live(page, n) : Depth(page, i, n + 1) = 0 /\ page[i].qa = k }
<1>. DEFINE do == page[n + 1].do
<1>1. Len(page) \in Nat /\ \A i \in 1..(n + 1) : i \in 1..n \/ i = n + 1
  BY PageFacts
<1>2. /\ \A i \in Live(page, n) : i \in 1..n
      /\ \A i \in Live(page, n + 1) : i \in 1..(n + 1)
      /\ \A i \in OverAt(page, n + 1, k) : i \in 1..(n + 1)
  BY DEF Live, OverAt
<1>3. ASSUME NEW i \in Live(page, n)
      PROVE  /\ do = "start" => Depth(page, i, n + 1) > 0
             /\ do = "data" => Depth(page, i, n + 1) > 0
             /\ do = "end" => (Depth(page, i, n + 1) > 0 <=> Depth(page, i, n + 1) # 0)
  <2>1. i \in 1..Len(page) /\ n \in (i - 1)..(Len(page) - 1) /\ n \in i..n
    BY <1>1, <1>2
  <2>2. Depth(page, i, n) > 0
    BY <2>1 DEF Live, Open
  <2>3. /\ Depth(page, i, n) \in Int
        /\ do = "start" => Depth(page, i, n + 1) = Depth(page, i, n) + 1
        /\ do = "end" => Depth(page, i, n + 1) = Depth(page, i, n) - 1
        /\ do = "data" => Depth(page, i, n + 1) = Depth(page, i, n)
    BY <2>1, DepthStep
  <2>. QED  BY <2>2, <2>3
<1>4. ASSUME NEW i \in 1..n
      PROVE  /\ i \in Live(page, n + 1) <=> i \in Live(page, n) /\ Depth(page, i, n + 1) > 0
             /\ i \in OverAt(page, n + 1, k) <=>
                  i \in Live(page, n) /\ page[i].qa = k /\ Depth(page, i, n + 1) = 0
  BY LiveNext
<1>5. /\ n + 1 \in Live(page, n + 1) <=> Started(page, n + 1)
      /\ n + 1 \notin OverAt(page, n + 1, k)
  BY LiveNew
<1>6. \A i \in 1..n : i # n + 1
  OBVIOUS
<1>7. ASSUME do = "start"
      PROVE  /\ Live(page, n + 1) = Live(page, n) \cup (IF page[n + 1].qa \in DATA_QA_FIELDS
                                                         THEN {n + 1} ELSE {})
             /\ OverAt(page, n + 1, k) = {}
  <2>1. \A i \in 1..n : i \in Live(page, n + 1) <=> i \in Live(page, n)
    BY <1>3, <1>4, <1>7
  <2>2. \A i \in 1..n : i \notin OverAt(page, n + 1, k)
    <3>1. \A i \in Live(page, n) : Depth(page, i, n + 1) # 0
      BY <1>3, <1>7
    <3>. QED  BY <1>4, <3>1
  <2>3. n + 1 \in Live(page, n + 1) <=> page[n + 1].qa \in DATA_QA_FIELDS
    BY <1>5, <1>7 DEF Started
  <2>4. OverAt(page, n + 1, k) = {}
    BY <1>1, <1>2, <1>5, <2>2
  <2>5. CASE page[n + 1].qa \in DATA_QA_FIELDS
    <3>1. Live(page, n + 1) = Live(page, n) \cup {n + 1}
      BY <1>1, <1>2, <2>1, <2>3, <2>5
    <3>. QED  BY <2>4, <2>5, <3>1
  <2>6. CASE page[n + 1].qa \notin DATA_QA_FIELDS
    <3>1. Live(page, n + 1) = Live(page, n)
      BY <1>1, <1>2, <2>1, <2>3, <2>6
    <3>. QED  BY <2>4, <2>6, <3>1
  <2>. QED  BY <2>5, <2>6
<1>8. ASSUME do = "data"
      PROVE  Live(page, n + 1) = Live(page, n) /\ OverAt(page, n + 1, k) = {}
  <2>1. \A i \in 1..n : i \in Live(page, n + 1) <=> i \in Live(page, n)
    BY <1>3, <1>4, <1>8
  <2>2. \A i \in 1..n : i \notin OverAt(page, n + 1, k)
    <3>1. \A i \in Live(page, n) : Depth(page, i, n + 1) # 0
      BY <1>3, <1>8
    <3>. QED  BY <1>4, <3>1
  <2>3. n + 1 \notin Live(page, n + 1)
    BY <1>5, <1>8 DEF Started
  <2>4. OverAt(page, n + 1, k) = {}
    BY <1>1, <1>2, <1>5, <2>2
  <2>5. Live(page, n + 1) = Live(page, n)
    BY <1>1, <1>2, <2>1, <2>3
  <2>. QED  BY <2>4, <2>5
<1>9. ASSUME do = "end"
      PROVE  /\ Live(page, n + 1) = { i \in Live(page, n) : Depth(page, i, n + 1) # 0 }
             /\ OverAt(page, n + 1, k) =
                  { i \in Live(page, n) : Depth(page, i, n + 1) = 0 /\ page[i].qa = k }
  <2>1. \A i \in 1..n : i \in Live(page, n + 1) <=>
                          i \in Live(page, n) /\ Depth(page, i, n + 1) # 0
    BY <1>3, <1>4, <1>9
  <2>2. n + 1 \notin Live(page, n + 1)
    BY <1>5, <1>9 DEF Started
  <2>3. Live(page, n + 1) = { i \in Live(page, n) : Depth(page, i, n + 1) # 0 }
    BY <1>1, <1>2, <2>1, <2>2
  <2>4. OverAt(page, n + 1, k) =
          { i \in Live(page, n) : Depth(page, i, n + 1) = 0 /\ page[i].qa = k }
    BY <1>1, <1>2, <1>4, <1>5
  <2>. QED  BY <2>3, <2>4
<1>. QED  BY <1>7, <1>8, <1>9

\* The elements of two sequences joined.
LEMMA ToSetCat ==
  ASSUME NEW S, NEW s \in Seq(S), NEW t \in Seq(S)
  PROVE  /\ Cat(s, t) \in Seq(S)
         /\ ToSet(Cat(s, t)) = ToSet(s) \cup ToSet(t)
         /\ s # <<>> => Cat(s, t)[1] = s[1]
         /\ s = <<>> => Cat(s, t) = t
         /\ t = <<>> => Cat(s, t) = s
<1>1. /\ s \o t \in Seq(S) /\ Len(s \o t) = Len(s) + Len(t)
      /\ \A i \in 1 .. Len(s) + Len(t) :
           (s \o t)[i] = IF i <= Len(s) THEN s[i] ELSE t[i - Len(s)]
  BY ConcatProperties
<1>2. Len(s) \in Nat /\ Len(t) \in Nat /\ (s # <<>> => Len(s) # 0)
  BY LenProperties, EmptySeq
<1>3. s # <<>> => (s \o t)[1] = s[1]
  <2>1. s # <<>> => 1 \in 1..(Len(s) + Len(t)) /\ 1 <= Len(s)
    BY <1>2
  <2>. QED  BY <1>1, <2>1
<1>4. \A u : ToSet(u) = Range(u)
  BY DEF ToSet, Range
<1>5. Range(s \o t) = Range(s) \cup Range(t)
  BY RangeConcatenation
<1>6. s = <<>> => s \o t = t
  BY ConcatEmptySeq
<1>7. t = <<>> => s \o t = s
  BY ConcatEmptySeq
<1>. QED  BY <1>1, <1>3, <1>4, <1>5, <1>6, <1>7 DEF Cat

\* The elements of a sequence.
LEMMA ToSetFacts ==
  ASSUME NEW S, NEW s \in Seq(S)
  PROVE  /\ ToSet(s) \subseteq S
         /\ ToSet(s) = {} <=> s = <<>>
         /\ s # <<>> => s[1] \in ToSet(s)
<1>1. Len(s) \in Nat /\ DOMAIN s = 1..Len(s) /\ (s = <<>> <=> Len(s) = 0)
  BY LenProperties, EmptySeq
<1>2. \A i \in DOMAIN s : s[i] \in S
  BY <1>1, ElementOfSeq
<1>3. s # <<>> => 1 \in DOMAIN s
  BY <1>1
<1>4. s = <<>> => DOMAIN s = {}
  BY <1>1
<1>. QED  BY <1>2, <1>3, <1>4 DEF ToSet

-----------------------------------------------------------------------------
(* What the parser has read after n events. *)

Cap(page, i, n) ==
  [key |-> page[i].qa, depth |-> Depth(page, i, n), text |-> Said(page, i, n),
   href |-> LinkAt(page, i, n)]

CapturesRead(page, n, captures) == ToSet(captures) = { Cap(page, i, n) : i \in Live(page, n) }

\* The texts are those of the captures that are over, the first of them first.
TextsRead(page, n, k, texts) ==
  /\ \A x \in ToSet(texts) :
       x # <<>> /\ \E j \in 1..n : \E i \in OverAt(page, j, k) : x = Said(page, i, j)
  /\ \A j \in 1..n : \A i \in OverAt(page, j, k) :
       Said(page, i, j) # <<>> => Said(page, i, j) \in ToSet(texts)
  /\ texts # <<>> =>
       \E j \in 1..n :
         /\ \E i \in OverAt(page, j, k) : texts[1] = Said(page, i, j)
         /\ \A m \in 1..(j - 1) : \A i \in OverAt(page, m, k) : Said(page, i, m) = <<>>

HrefsRead(page, n, k, hrefs) ==
  /\ \A x \in ToSet(hrefs) :
       x # None /\ \E j \in 1..n : \E i \in OverAt(page, j, k) : x = LinkAt(page, i, j)
  /\ \A j \in 1..n : \A i \in OverAt(page, j, k) :
       LinkAt(page, i, j) # None => LinkAt(page, i, j) \in ToSet(hrefs)

Read(page, n, p) ==
  /\ CapturesRead(page, n, p.captures)
  /\ \A k \in DATA_QA_FIELDS :
       TextsRead(page, n, k, p.texts[k]) /\ HrefsRead(page, n, k, p.hrefs[k])

\* The texts of the captures that are over are put behind the older ones.
LEMMA TextsNext ==
  ASSUME NEW page, NEW n \in Nat, NEW k, NEW old \in Seq(Text), NEW new \in Seq(Text),
         TextsRead(page, n, k, old),
         ToSet(new) = { Said(page, i, n + 1) : i \in OverAt(page, n + 1, k) } \ {<<>>}
  PROVE  TextsRead(page, n + 1, k, Cat(old, new))
<1>. DEFINE all == Cat(old, new)
            O(j) == OverAt(page, j, k)
            T(i, j) == Said(page, i, j)
            N == n + 1
<1>1. ToSet(all) = ToSet(old) \cup ToSet(new)
  BY ToSetCat
<1>2. \A j \in 1..N : j \in 1..n \/ j = N
  OBVIOUS
<1>3. /\ \A x \in ToSet(old) : x # <<>> /\ \E j \in 1..n : \E i \in O(j) : x = T(i, j)
      /\ \A j \in 1..n : \A i \in O(j) : T(i, j) # <<>> => T(i, j) \in ToSet(old)
      /\ old # <<>> => \E j \in 1..n :
                         /\ \E i \in O(j) : old[1] = T(i, j)
                         /\ \A m \in 1..(j - 1) : \A i \in O(m) : T(i, m) = <<>>
  BY DEF TextsRead
<1>4. ToSet(new) = { T(i, N) : i \in O(N) } \ {<<>>}
  OBVIOUS
<1>5. N \in 1..N /\ \A j \in 1..n : j \in 1..N
  OBVIOUS
<1>6. all # <<>> => \/ old # <<>> /\ all[1] = old[1]
                    \/ old = <<>> /\ new # <<>> /\ all[1] = new[1]
  BY ToSetCat
<1>7. /\ new # <<>> => new[1] \in ToSet(new)
      /\ old = <<>> => ToSet(old) = {}
  BY ToSetFacts
<1>. HIDE DEF all, O, T, N
<1>8. \A x \in ToSet(all) : x # <<>> /\ \E j \in 1..N : \E i \in O(j) : x = T(i, j)
  <2>1. ASSUME NEW x \in ToSet(old) PROVE x # <<>> /\ \E j \in 1..N : \E i \in O(j) : x = T(i, j)
    BY <1>3, <1>5
  <2>2. ASSUME NEW x \in ToSet(new) PROVE x # <<>> /\ \E j \in 1..N : \E i \in O(j) : x = T(i, j)
    BY <1>4, <1>5
  <2>. QED  BY <1>1, <2>1, <2>2
<1>9. \A j \in 1..N : \A i \in O(j) : T(i, j) # <<>> => T(i, j) \in ToSet(all)
  <2>1. ASSUME NEW j \in 1..n, NEW i \in O(j), T(i, j) # <<>> PROVE T(i, j) \in ToSet(all)
    BY <1>1, <1>3, <2>1
  <2>2. ASSUME NEW i \in O(N), T(i, N) # <<>> PROVE T(i, N) \in ToSet(all)
    BY <1>1, <1>4, <2>2
  <2>. QED  BY <1>2, <2>1, <2>2
<1>10. all # <<>> => \E j \in 1..N :
                       /\ \E i \in O(j) : all[1] = T(i, j)
                       /\ \A m \in 1..(j - 1) : \A i \in O(m) : T(i, m) = <<>>
  <2>1. ASSUME old # <<>>, all[1] = old[1]
        PROVE  \E j \in 1..N : /\ \E i \in O(j) : all[1] = T(i, j)
                               /\ \A m \in 1..(j - 1) : \A i \in O(m) : T(i, m) = <<>>
    BY <1>3, <1>5, <2>1
  <2>2. ASSUME old = <<>>, new # <<>>, all[1] = new[1]
        PROVE  \E j \in 1..N : /\ \E i \in O(j) : all[1] = T(i, j)
                               /\ \A m \in 1..(j - 1) : \A i \in O(m) : T(i, m) = <<>>
    <3>1. \E i \in O(N) : all[1] = T(i, N)
      BY <1>4, <1>7, <2>2
    <3>2. N - 1 = n
      BY DEF N
    <3>3. \A m \in 1..n : \A i \in O(m) : T(i, m) = <<>>
      BY <1>3, <1>7, <2>2
    <3>. QED  BY <1>5, <3>1, <3>2, <3>3
  <2>. QED  BY <1>6, <2>1, <2>2
<1>. QED  BY <1>8, <1>9, <1>10 DEF TextsRead, all, O, T, N

\* So are their links.
LEMMA HrefsNext ==
  ASSUME NEW page, NEW n \in Nat, NEW k, NEW old \in Seq(Link), NEW new \in Seq(Link),
         HrefsRead(page, n, k, old),
         ToSet(new) = { LinkAt(page, i, n + 1) : i \in OverAt(page, n + 1, k) } \ {None}
  PROVE  HrefsRead(page, n + 1, k, Cat(old, new))
<1>. DEFINE all == Cat(old, new)
            O(j) == OverAt(page, j, k)
            T(i, j) == LinkAt(page, i, j)
            N == n + 1
<1>1. ToSet(all) = ToSet(old) \cup ToSet(new)
  BY ToSetCat
<1>2. \A j \in 1..N : j \in 1..n \/ j = N
  OBVIOUS
<1>3. /\ \A x \in ToSet(old) : x # None /\ \E j \in 1..n : \E i \in O(j) : x = T(i, j)
      /\ \A j \in 1..n : \A i \in O(j) : T(i, j) # None => T(i, j) \in ToSet(old)
  BY DEF HrefsRead
<1>4. ToSet(new) = { T(i, N) : i \in O(N) } \ {None}
  OBVIOUS
<1>5. N \in 1..N /\ \A j \in 1..n : j \in 1..N
  OBVIOUS
<1>. HIDE DEF all, O, T, N
<1>8. \A x \in ToSet(all) : x # None /\ \E j \in 1..N : \E i \in O(j) : x = T(i, j)
  <2>1. ASSUME NEW x \in ToSet(old) PROVE x # None /\ \E j \in 1..N : \E i \in O(j) : x = T(i, j)
    BY <1>3, <1>5
  <2>2. ASSUME NEW x \in ToSet(new) PROVE x # None /\ \E j \in 1..N : \E i \in O(j) : x = T(i, j)
    BY <1>4, <1>5
  <2>. QED  BY <1>1, <2>1, <2>2
<1>9. \A j \in 1..N : \A i \in O(j) : T(i, j) # None => T(i, j) \in ToSet(all)
  <2>1. ASSUME NEW j \in 1..n, NEW i \in O(j), T(i, j) # None PROVE T(i, j) \in ToSet(all)
    BY <1>1, <1>3, <2>1
  <2>2. ASSUME NEW i \in O(N), T(i, N) # None PROVE T(i, N) \in ToSet(all)
    BY <1>1, <1>4, <2>2
  <2>. QED  BY <1>2, <2>1, <2>2
<1>. QED  BY <1>8, <1>9 DEF HrefsRead, all, O, T, N

\* Where no capture is over, the texts and the links stay as they are.
LEMMA NothingOver ==
  ASSUME NEW page, NEW n \in Nat, NEW k, NEW texts \in Seq(Text), NEW hrefs \in Seq(Link),
         TextsRead(page, n, k, texts), HrefsRead(page, n, k, hrefs), OverAt(page, n + 1, k) = {}
  PROVE  TextsRead(page, n + 1, k, texts) /\ HrefsRead(page, n + 1, k, hrefs)
<1>1. <<>> \in Seq(Text) /\ <<>> \in Seq(Link)
  BY EmptySeq
<1>2. ToSet(<<>>) = {}
  BY DEF ToSet
<1>3. /\ ToSet(<<>>) = { Said(page, i, n + 1) : i \in OverAt(page, n + 1, k) } \ {<<>>}
      /\ ToSet(<<>>) = { LinkAt(page, i, n + 1) : i \in OverAt(page, n + 1, k) } \ {None}
  BY <1>2
<1>4. Cat(texts, <<>>) = texts
  BY <1>1, ToSetCat
<1>5. Cat(hrefs, <<>>) = hrefs
  BY <1>1, ToSetCat
<1>6. TextsRead(page, n + 1, k, Cat(texts, <<>>))
  BY <1>1, <1>3, TextsNext
<1>7. HrefsRead(page, n + 1, k, Cat(hrefs, <<>>))
  BY <1>1, <1>3, HrefsNext
<1>. QED  BY <1>4, <1>5, <1>6, <1>7

\* A capture goes on as the page does.
LEMMA CapNext ==
  ASSUME NEW page \in Seq(Event), NEW n \in 0..(Len(page) - 1), NEW i \in Live(page, n)
  PROVE  /\ Cap(page, i, n) \in Capture
         /\ page[n + 1].do = "start" => Cap(page, i, n + 1) = Deeper(Cap(page, i, n), page[n + 1])
         /\ page[n + 1].do = "data" => Cap(page, i, n + 1) = Longer(Cap(page, i, n), page[n + 1])
         /\ page[n + 1].do = "end" => Cap(page, i, n + 1) = [Cap(page, i, n) EXCEPT !.depth = @ - 1]
<1>. DEFINE e == page[n + 1]
            c == Cap(page, i, n)
            d == Cap(page, i, n + 1)
            said == Said(page, i, n)
            link == LinkAt(page, i, n)
            depth == Depth(page, i, n)
            key == page[i].qa
<1>1. /\ Len(page) \in Nat /\ i \in 1..n /\ i \in 1..Len(page) /\ n \in (i - 1)..(Len(page) - 1)
      /\ n \in i..Len(page) /\ n \in i..(Len(page) - 1) /\ n + 1 \in 1..Len(page)
      /\ i \in Nat /\ n \in Nat /\ i <= n + 1
  BY PageFacts DEF Live
<1>2. e \in Event /\ (e.do = "start" \/ e.do = "end" \/ e.do = "data")
  BY <1>1, PageFacts
<1>3. /\ said \in Text
      /\ Said(page, i, n + 1) = Cat(said, Words(e))
  BY <1>1, SaidStep
<1>4. Cat(said, <<>>) = said
  BY <1>3, ConcatEmptySeq DEF Text, Cat
<1>5. LinkAt(page, i, n + 1) = IF link = None /\ e.do = "start" THEN e.href ELSE link
  BY <1>1, LinkStep
<1>6. /\ depth \in Int
      /\ e.do = "start" => Depth(page, i, n + 1) = depth + 1
      /\ e.do = "end" => Depth(page, i, n + 1) = depth - 1
      /\ e.do = "data" => Depth(page, i, n + 1) = depth
  BY <1>1, DepthStep
<1>7. c = [key |-> key, depth |-> depth, text |-> said, href |-> link]
  BY DEF Cap
<1>8. d = [key |-> key, depth |-> Depth(page, i, n + 1), text |-> Said(page, i, n + 1),
           href |-> LinkAt(page, i, n + 1)]
  BY DEF Cap
<1>9. key \in DATA_QA_FIELDS
  BY DEF Live, Started
<1>10. link \in Link
  <2>1. CASE link = None
    BY <2>1 DEF Link
  <2>2. CASE link # None
    <3>1. PICK k \in Links(page, i, n) : link = page[k].href
      BY <1>1, <2>2, LinkIs
    <3>2. k \in 1..Len(page)
      BY <1>1 DEF Links
    <3>3. page[k] \in Event
      BY <3>2, PageFacts
    <3>. QED  BY <3>1, <3>3 DEF Event
  <2>. QED  BY <2>1, <2>2
<1>. HIDE DEF e, c, d, said, link, depth, key
<1>11. c \in Capture
  BY <1>3, <1>6, <1>7, <1>9, <1>10 DEF Capture
<1>12. ASSUME e.do = "start" PROVE d = Deeper(c, e)
  <2>1. Words(e) = <<>>
    BY <1>12 DEF Words
  <2>2. d = [key |-> key, depth |-> depth + 1, text |-> said,
             href |-> IF link = None THEN e.href ELSE link]
    BY <1>3, <1>4, <1>5, <1>6, <1>8, <1>12, <2>1
  <2>3. Deeper(c, e) = [key |-> c.key, depth |-> c.depth + 1, text |-> c.text,
                        href |-> IF c.href = None THEN e.href ELSE c.href]
    BY <1>2, <1>11, DeeperType
  <2>4. c.key = key /\ c.depth = depth /\ c.text = said /\ c.href = link
    BY <1>7
  <2>. QED  BY <2>2, <2>3, <2>4
<1>13. ASSUME e.do = "data" PROVE d = Longer(c, e)
  <2>1. Words(e) = e.text
    BY <1>13 DEF Words
  <2>2. LinkAt(page, i, n + 1) = link
    BY <1>5, <1>13
  <2>3. d = [key |-> key, depth |-> depth, text |-> Cat(said, e.text), href |-> link]
    BY <1>3, <1>6, <1>8, <1>13, <2>1, <2>2
  <2>4. Longer(c, e) = [c EXCEPT !.text = Cat(c.text, e.text)]
    BY DEF Longer, Cat
  <2>5. Longer(c, e) = [key |-> key, depth |-> depth, text |-> Cat(said, e.text), href |-> link]
    BY <1>7, <2>4
  <2>. QED  BY <2>3, <2>5
<1>14. ASSUME e.do = "end" PROVE d = [c EXCEPT !.depth = @ - 1]
  <2>1. Words(e) = <<>>
    BY <1>14 DEF Words
  <2>2. LinkAt(page, i, n + 1) = link
    BY <1>5, <1>14
  <2>3. d = [key |-> key, depth |-> depth - 1, text |-> said, href |-> link]
    BY <1>3, <1>4, <1>6, <1>8, <1>14, <2>1, <2>2
  <2>. QED  BY <1>7, <2>3
<1>. QED  BY <1>11, <1>12, <1>13, <1>14 DEF c, d, e

\* The capture of an element that starts.
LEMMA CapNew ==
  ASSUME NEW page \in Seq(Event), NEW n \in 0..(Len(page) - 1), page[n + 1].do = "start"
  PROVE  Cap(page, n + 1, n + 1) = _HtmlCapture(page[n + 1])
<1>. DEFINE i == n + 1
            e == page[i]
<1>1. i \in 1..Len(page) /\ i \in Nat /\ n \in Nat /\ i <= n + 1 /\ i - 1 = n
  BY PageFacts
<1>2. Depth(page, i, i) = 1
  BY LiveNew
<1>3. Said(page, i, i) = <<>>
  <2>1. Said(page, i, i) = Words(e)
    BY <1>1, SaidStep
  <2>. QED  BY <2>1 DEF Words
<1>4. LinkAt(page, i, i) = e.href
  <2>1. /\ LinkAt(page, i, n + 1) = IF LinkAt(page, i, n) = None /\ page[n + 1].do = "start"
                                   THEN page[n + 1].href ELSE LinkAt(page, i, n)
        /\ LinkAt(page, i, i - 1) = None
    BY <1>1, LinkStep
  <2>. QED  BY <1>1, <2>1
<1>. HIDE DEF i
<1>5. Cap(page, i, i) = [key |-> e.qa, depth |-> 1, text |-> <<>>, href |-> e.href]
  BY <1>2, <1>3, <1>4 DEF Cap
<1>. QED  BY <1>5 DEF _HtmlCapture, i

\* After a start tag the parser holds what the page has said.
LEMMA ReadStart ==
  ASSUME NEW page \in Seq(Event), NEW n \in 0..(Len(page) - 1), page[n + 1].do = "start",
         NEW p \in Parser, Read(page, n, p)
  PROVE  Read(page, n + 1, handle_starttag(p, page[n + 1]))
<1>. DEFINE e == page[n + 1]
            h == handle_starttag(p, e)
            new == [i \in DOMAIN p.captures |-> Deeper(p.captures[i], e)]
            own == IF e.qa \in DATA_QA_FIELDS THEN <<_HtmlCapture(e)>> ELSE <<>>
<1>1. e \in Event /\ n \in Nat
  <2>1. n + 1 \in 1..Len(page)
    BY PageFacts
  <2>. QED  BY <2>1, PageFacts
<1>2. h.texts = p.texts /\ h.hrefs = p.hrefs /\ h.captures = Cat(new, own)
  BY <1>1, StartType DEF NewCaptures, Cat
<1>3. new \in Seq(Capture) /\ own \in Seq(Capture)
  <2>1. p.captures \in Seq(Capture)
    BY DEF Parser
  <2>2. \A i \in DOMAIN p.captures : p.captures[i] \in Capture
    BY <2>1, LenProperties, ElementOfSeq
  <2>3. \A i \in DOMAIN p.captures : new[i] \in Capture
    BY <1>1, <2>2, DeeperType
  <2>4. new = [i \in DOMAIN new |-> new[i]] /\ DOMAIN new = DOMAIN p.captures
    OBVIOUS
  <2>5. new \in Seq(Capture)
    <3>. HIDE DEF new
    <3>. QED  BY <2>1, <2>3, <2>4, MapType
  <2>6. e.qa \in DATA_QA_FIELDS => _HtmlCapture(e) \in Capture
    <3>1. e.href \in Link /\ <<>> \in Text /\ 1 \in Int
      BY <1>1, EmptySeq DEF Event, Text
    <3>. QED  BY <3>1 DEF _HtmlCapture, Capture
  <2>7. own \in Seq(Capture)
    <3>1. CASE e.qa \in DATA_QA_FIELDS
      <4>. DEFINE c == _HtmlCapture(e)
      <4>1. own = <<c>> /\ c \in Capture
        BY <2>6, <3>1
      <4>. HIDE DEF own, c
      <4>. QED  BY <4>1
    <3>2. CASE e.qa \notin DATA_QA_FIELDS
      <4>1. own = <<>>
        BY <3>2
      <4>. HIDE DEF own
      <4>. QED  BY <4>1, EmptySeq
    <3>. QED  BY <3>1, <3>2
  <2>. QED  BY <2>5, <2>7
<1>4. ToSet(h.captures) = ToSet(new) \cup ToSet(own)
  <2>. HIDE DEF new, own
  <2>. QED  BY <1>2, <1>3, ToSetCat
<1>5. ToSet(new) = { Deeper(c, e) : c \in ToSet(p.captures) }
  BY DEF ToSet
<1>6. ToSet(own) = IF e.qa \in DATA_QA_FIELDS THEN {_HtmlCapture(e)} ELSE {}
  <2>1. ToSet(<<_HtmlCapture(e)>>) = {_HtmlCapture(e)} /\ ToSet(<<>>) = {}
    BY DEF ToSet
  <2>. QED  BY <2>1
<1>7. ToSet(p.captures) = { Cap(page, i, n) : i \in Live(page, n) }
  BY DEF Read, CapturesRead
<1>8. \A i \in Live(page, n) : Cap(page, i, n + 1) = Deeper(Cap(page, i, n), e)
  BY CapNext
<1>9. Cap(page, n + 1, n + 1) = _HtmlCapture(e)
  BY CapNew
<1>10. Live(page, n + 1) = Live(page, n) \cup (IF e.qa \in DATA_QA_FIELDS THEN {n + 1} ELSE {})
  <2>1. "title" \in DATA_QA_FIELDS
    BY DEF DATA_QA_FIELDS
  <2>. QED  BY <2>1, LiveStep
<1>11. CapturesRead(page, n + 1, h.captures)
  <2>. HIDE DEF new, own, h, e
  <2>1. ToSet(new) = { Cap(page, i, n + 1) : i \in Live(page, n) }
    BY <1>5, <1>7, <1>8
  <2>2. CASE e.qa \in DATA_QA_FIELDS
    <3>1. ToSet(own) = { Cap(page, n + 1, n + 1) }
      BY <1>6, <1>9, <2>2
    <3>2. Live(page, n + 1) = Live(page, n) \cup {n + 1}
      BY <1>10, <2>2
    <3>3. ToSet(h.captures) = { Cap(page, i, n + 1) : i \in Live(page, n + 1) }
      BY <1>4, <2>1, <3>1, <3>2
    <3>. QED  BY <3>3 DEF CapturesRead
  <2>3. CASE e.qa \notin DATA_QA_FIELDS
    <3>1. ToSet(own) = {} /\ Live(page, n + 1) = Live(page, n)
      BY <1>6, <1>10, <2>3
    <3>3. ToSet(h.captures) = { Cap(page, i, n + 1) : i \in Live(page, n + 1) }
      BY <1>4, <2>1, <3>1
    <3>. QED  BY <3>3 DEF CapturesRead
  <2>. QED  BY <2>2, <2>3
<1>12. ASSUME NEW k \in DATA_QA_FIELDS
       PROVE  TextsRead(page, n + 1, k, h.texts[k]) /\ HrefsRead(page, n + 1, k, h.hrefs[k])
  <2>1. OverAt(page, n + 1, k) = {}
    BY LiveStep
  <2>2. TextsRead(page, n, k, p.texts[k]) /\ HrefsRead(page, n, k, p.hrefs[k])
    BY DEF Read
  <2>3. p.texts[k] \in Seq(Text) /\ p.hrefs[k] \in Seq(Link)
    BY DEF Parser
  <2>4. TextsRead(page, n + 1, k, p.texts[k]) /\ HrefsRead(page, n + 1, k, p.hrefs[k])
    BY <1>1, <2>1, <2>2, <2>3, NothingOver
  <2>. QED  BY <1>2, <2>4
<1>. QED  BY <1>11, <1>12 DEF Read

\* So it does after a text.
LEMMA ReadData ==
  ASSUME NEW page \in Seq(Event), NEW n \in 0..(Len(page) - 1), page[n + 1].do = "data",
         NEW p \in Parser, Read(page, n, p)
  PROVE  Read(page, n + 1, handle_data(p, page[n + 1]))
<1>. DEFINE e == page[n + 1]
            h == handle_data(p, e)
<1>1. e \in Event /\ n \in Nat
  <2>1. n + 1 \in 1..Len(page)
    BY PageFacts
  <2>. QED  BY <2>1, PageFacts
<1>2. /\ h.texts = p.texts /\ h.hrefs = p.hrefs
      /\ h.captures = [i \in DOMAIN p.captures |-> Longer(p.captures[i], e)]
  BY <1>1, DataType
<1>3. ToSet(h.captures) = { Longer(c, e) : c \in ToSet(p.captures) }
  BY <1>2 DEF ToSet
<1>4. ToSet(p.captures) = { Cap(page, i, n) : i \in Live(page, n) }
  BY DEF Read, CapturesRead
<1>5. \A i \in Live(page, n) : Cap(page, i, n + 1) = Longer(Cap(page, i, n), e)
  BY CapNext
<1>6. Live(page, n + 1) = Live(page, n)
  <2>1. "title" \in DATA_QA_FIELDS
    BY DEF DATA_QA_FIELDS
  <2>. QED  BY <2>1, LiveStep
<1>7. CapturesRead(page, n + 1, h.captures)
  <2>. HIDE DEF h, e
  <2>1. ToSet(h.captures) = { Cap(page, i, n + 1) : i \in Live(page, n) }
    BY <1>3, <1>4, <1>5
  <2>. QED  BY <1>6, <2>1 DEF CapturesRead
<1>8. ASSUME NEW k \in DATA_QA_FIELDS
      PROVE  TextsRead(page, n + 1, k, h.texts[k]) /\ HrefsRead(page, n + 1, k, h.hrefs[k])
  <2>1. OverAt(page, n + 1, k) = {}
    BY LiveStep
  <2>2. TextsRead(page, n, k, p.texts[k]) /\ HrefsRead(page, n, k, p.hrefs[k])
    BY DEF Read
  <2>3. p.texts[k] \in Seq(Text) /\ p.hrefs[k] \in Seq(Link)
    BY DEF Parser
  <2>4. TextsRead(page, n + 1, k, p.texts[k]) /\ HrefsRead(page, n + 1, k, p.hrefs[k])
    BY <1>1, <2>1, <2>2, <2>3, NothingOver
  <2>. QED  BY <1>2, <2>4
<1>. QED  BY <1>7, <1>8 DEF Read

\* And after an end tag.
LEMMA ReadEnd ==
  ASSUME NEW page \in Seq(Event), NEW n \in 0..(Len(page) - 1), page[n + 1].do = "end",
         NEW p \in Parser, Read(page, n, p)
  PROVE  Read(page, n + 1, handle_endtag(p, page[n + 1]))
<1>. DEFINE e == page[n + 1]
            h == handle_endtag(p, e)
            D == DOMAIN Rest(p)
            L == Live(page, n)
            C(i) == Cap(page, i, n + 1)
<1>1. e \in Event /\ n \in Nat
  <2>1. n + 1 \in 1..Len(page)
    BY PageFacts
  <2>. QED  BY <2>1, PageFacts
<1>2. /\ h.captures = Pick(Rest(p), NotOver(p))
      /\ \A k \in DATA_QA_FIELDS :
           /\ h.texts[k] = Cat(p.texts[k], Pick(RestText(p), OverTexts(p, k)))
           /\ h.hrefs[k] = Cat(p.hrefs[k], Pick(RestHref(p), OverHrefs(p, k)))
  BY <1>1, EndType
<1>3. /\ Rest(p) \in Seq(Capture) /\ RestText(p) \in Seq(Text) /\ RestHref(p) \in Seq(Link)
      /\ DOMAIN RestText(p) = D /\ DOMAIN RestHref(p) = D /\ D = DOMAIN p.captures
  BY RestType
<1>4. /\ \A x \in D : Rest(p)[x] = [p.captures[x] EXCEPT !.depth = @ - 1]
      /\ \A x \in D : RestText(p)[x] = Rest(p)[x].text /\ RestHref(p)[x] = Rest(p)[x].href
  BY DEF Rest, RestText, RestHref
<1>5. ToSet(p.captures) = { Cap(page, i, n) : i \in L }
  BY DEF Read, CapturesRead
<1>6. \A i \in L : C(i) = [Cap(page, i, n) EXCEPT !.depth = @ - 1]
  BY CapNext
<1>7. \A x \in D : p.captures[x] \in ToSet(p.captures)
  BY <1>3 DEF ToSet
<1>8. \A c \in ToSet(p.captures) : \E x \in D : c = p.captures[x]
  BY <1>3 DEF ToSet
<1>9. ASSUME NEW x \in D PROVE \E i \in L : Rest(p)[x] = C(i)
  <2>1. PICK i \in L : p.captures[x] = Cap(page, i, n)
    BY <1>5, <1>7
  <2>2. Rest(p)[x] = C(i)
    BY <1>4, <1>6, <2>1
  <2>. QED  BY <2>2
<1>10. ASSUME NEW i \in L PROVE \E x \in D : Rest(p)[x] = C(i)
  <2>1. PICK x \in D : p.captures[x] = Cap(page, i, n)
    BY <1>5, <1>8
  <2>2. Rest(p)[x] = C(i)
    BY <1>4, <1>6, <2>1
  <2>. QED  BY <2>2
<1>11. \A i \in L : /\ C(i).depth = Depth(page, i, n + 1) /\ C(i).key = page[i].qa
                    /\ C(i).text = Said(page, i, n + 1) /\ C(i).href = LinkAt(page, i, n + 1)
  BY DEF Cap
<1>. HIDE DEF C, D, L
<1>12. CapturesRead(page, n + 1, h.captures)
  <2>1. Live(page, n + 1) = { i \in L : Depth(page, i, n + 1) # 0 }
    <3>1. "title" \in DATA_QA_FIELDS
      BY DEF DATA_QA_FIELDS
    <3>. QED  BY <3>1, LiveStep DEF L
  <2>2. NotOver(p) = { x \in D : Rest(p)[x].depth # 0 }
    BY DEF NotOver, D
  <2>3. ToSet(h.captures) = { Rest(p)[x] : x \in NotOver(p) \cap D }
    BY <1>2, <1>3, PickType DEF D
  <2>4. ToSet(h.captures) = { Rest(p)[x] : x \in { y \in D : Rest(p)[y].depth # 0 } }
    BY <2>2, <2>3
  <2>5. ASSUME NEW c \in ToSet(h.captures) PROVE \E i \in Live(page, n + 1) : c = C(i)
    <3>1. PICK x \in D : c = Rest(p)[x] /\ Rest(p)[x].depth # 0
      BY <2>4
    <3>2. PICK i \in L : Rest(p)[x] = C(i)
      BY <1>9
    <3>3. i \in Live(page, n + 1)
      BY <1>11, <2>1, <3>1, <3>2
    <3>. QED  BY <3>1, <3>2, <3>3
  <2>6. ASSUME NEW i \in Live(page, n + 1) PROVE C(i) \in ToSet(h.captures)
    <3>1. i \in L /\ Depth(page, i, n + 1) # 0
      BY <2>1
    <3>2. PICK x \in D : Rest(p)[x] = C(i)
      BY <1>10, <3>1
    <3>3. Rest(p)[x].depth # 0
      BY <1>11, <3>1, <3>2
    <3>4. Rest(p)[x] \in ToSet(h.captures)
      BY <2>4, <3>3
    <3>. QED  BY <3>2, <3>4
  <2>7. ToSet(h.captures) = { C(i) : i \in Live(page, n + 1) }
    BY <2>5, <2>6
  <2>. QED  BY <2>7 DEF CapturesRead, C
<1>13. ASSUME NEW k \in DATA_QA_FIELDS
       PROVE  TextsRead(page, n + 1, k, h.texts[k]) /\ HrefsRead(page, n + 1, k, h.hrefs[k])
  <2>. DEFINE text == Pick(RestText(p), OverTexts(p, k))
              href == Pick(RestHref(p), OverHrefs(p, k))
              O == OverAt(page, n + 1, k)
  <2>1. O = { i \in L : Depth(page, i, n + 1) = 0 /\ page[i].qa = k }
    BY LiveStep DEF L
  <2>2. /\ TextsRead(page, n, k, p.texts[k]) /\ HrefsRead(page, n, k, p.hrefs[k])
        /\ p.texts[k] \in Seq(Text) /\ p.hrefs[k] \in Seq(Link)
    BY DEF Read, Parser
  <2>3. /\ text \in Seq(Text)
        /\ ToSet(text) = { RestText(p)[x] : x \in OverTexts(p, k) \cap D }
    BY <1>3, PickType
  <2>4. /\ href \in Seq(Link)
        /\ ToSet(href) = { RestHref(p)[x] : x \in OverHrefs(p, k) \cap D }
    BY <1>3, PickType
  <2>5. \A x \in D : x \in OverTexts(p, k) <=>
          Rest(p)[x].depth = 0 /\ Rest(p)[x].key = k /\ Rest(p)[x].text # <<>>
    BY <1>4 DEF OverTexts, IsOver, D
  <2>6. \A x \in D : x \in OverHrefs(p, k) <=>
          Rest(p)[x].depth = 0 /\ Rest(p)[x].key = k /\ Rest(p)[x].href # None
    BY <1>4 DEF OverHrefs, IsOver, D
  <2>. HIDE DEF text, href, O
  <2>7. ToSet(text) = { Said(page, i, n + 1) : i \in O } \ {<<>>}
    <3>1. ASSUME NEW t \in ToSet(text)
          PROVE  t # <<>> /\ \E i \in O : t = Said(page, i, n + 1)
      <4>1. PICK x \in D : t = RestText(p)[x] /\ x \in OverTexts(p, k)
        BY <2>3
      <4>2. PICK i \in L : Rest(p)[x] = C(i)
        BY <1>9
      <4>3. /\ C(i).depth = 0 /\ C(i).key = k /\ C(i).text # <<>> /\ t = C(i).text
        BY <1>4, <2>5, <4>1, <4>2
      <4>. QED  BY <1>11, <2>1, <4>3
    <3>2. ASSUME NEW i \in O, Said(page, i, n + 1) # <<>>
          PROVE  Said(page, i, n + 1) \in ToSet(text)
      <4>1. i \in L /\ C(i).depth = 0 /\ C(i).key = k /\ C(i).text = Said(page, i, n + 1)
        BY <1>11, <2>1
      <4>2. PICK x \in D : Rest(p)[x] = C(i)
        BY <1>10, <4>1
      <4>3. x \in OverTexts(p, k) /\ RestText(p)[x] = Said(page, i, n + 1)
        BY <1>4, <2>5, <3>2, <4>1, <4>2
      <4>. QED  BY <2>3, <4>3
    <3>. QED  BY <3>1, <3>2
  <2>8. ToSet(href) = { LinkAt(page, i, n + 1) : i \in O } \ {None}
    <3>1. ASSUME NEW t \in ToSet(href)
          PROVE  t # None /\ \E i \in O : t = LinkAt(page, i, n + 1)
      <4>1. PICK x \in D : t = RestHref(p)[x] /\ x \in OverHrefs(p, k)
        BY <2>4
      <4>2. PICK i \in L : Rest(p)[x] = C(i)
        BY <1>9
      <4>3. C(i).depth = 0 /\ C(i).key = k /\ C(i).href # None /\ t = C(i).href
        BY <1>4, <2>6, <4>1, <4>2
      <4>. QED  BY <1>11, <2>1, <4>3
    <3>2. ASSUME NEW i \in O, LinkAt(page, i, n + 1) # None
          PROVE  LinkAt(page, i, n + 1) \in ToSet(href)
      <4>1. i \in L /\ C(i).depth = 0 /\ C(i).key = k /\ C(i).href = LinkAt(page, i, n + 1)
        BY <1>11, <2>1
      <4>2. PICK x \in D : Rest(p)[x] = C(i)
        BY <1>10, <4>1
      <4>3. x \in OverHrefs(p, k) /\ RestHref(p)[x] = LinkAt(page, i, n + 1)
        BY <1>4, <2>6, <3>2, <4>1, <4>2
      <4>. QED  BY <2>4, <4>3
    <3>. QED  BY <3>1, <3>2
  <2>9. TextsRead(page, n + 1, k, Cat(p.texts[k], text))
    BY <1>1, <2>2, <2>3, <2>7, TextsNext DEF O
  <2>10. HrefsRead(page, n + 1, k, Cat(p.hrefs[k], href))
    BY <1>1, <2>2, <2>4, <2>8, HrefsNext DEF O
  <2>. QED  BY <1>2, <2>9, <2>10 DEF text, href
<1>. QED  BY <1>12, <1>13 DEF Read

\* Before the first event it holds nothing.
LEMMA NothingRead ==
  ASSUME NEW page
  PROVE  Read(page, 0, NewParser)
<1>1. ToSet(<<>>) = {}
  BY DEF ToSet
<1>2. Live(page, 0) = {}
  BY DEF Live
<1>3. CapturesRead(page, 0, <<>>)
  BY <1>1, <1>2 DEF CapturesRead
<1>4. \A k : TextsRead(page, 0, k, <<>>) /\ HrefsRead(page, 0, k, <<>>)
  BY <1>1 DEF TextsRead, HrefsRead
<1>. QED  BY <1>3, <1>4 DEF Read, NewParser

\* What the parser holds after each event is what the page has said by then.
LEMMA ReadAlways ==
  ASSUME NEW page \in Seq(Event)
  PROVE  Read(page, Len(page), feed(page))
<1>. DEFINE N == Len(page)
            Good == { n \in 0..N : Read(page, n, Fed(page)[n]) }
<1>1. N \in Nat
  BY PageFacts
<1>2. 0 \in Good
  BY <1>1, NothingRead, FedSteps
<1>3. ASSUME NEW n \in 0..(N - 1), n \in Good PROVE n + 1 \in Good
  <2>. DEFINE p == Fed(page)[n]
              e == page[n + 1]
  <2>1. n + 1 \in 1..N /\ n + 1 \in 0..N /\ n \in 0..N /\ n + 1 - 1 = n
    BY <1>1
  <2>2. p \in Parser /\ Fed(page)[n + 1] = handle(p, e)
    BY <2>1, FedSteps
  <2>3. e \in Event /\ (e.do = "start" \/ e.do = "end" \/ e.do = "data")
    BY <2>1, PageFacts
  <2>4. Read(page, n, p)
    BY <1>3
  <2>. HIDE DEF p
  <2>5. CASE e.do = "start"
    <3>1. Read(page, n + 1, handle_starttag(p, e))
      BY <2>2, <2>4, <2>5, ReadStart
    <3>. QED  BY <2>1, <2>2, <2>3, <2>5, <3>1, HandleType
  <2>6. CASE e.do = "end"
    <3>1. Read(page, n + 1, handle_endtag(p, e))
      BY <2>2, <2>4, <2>6, ReadEnd
    <3>. QED  BY <2>1, <2>2, <2>3, <2>6, <3>1, HandleType
  <2>7. CASE e.do = "data"
    <3>1. Read(page, n + 1, handle_data(p, e))
      BY <2>2, <2>4, <2>7, ReadData
    <3>. QED  BY <2>1, <2>2, <2>3, <2>7, <3>1, HandleType
  <2>. QED  BY <2>3, <2>5, <2>6, <2>7
<1>4. 0..N \subseteq Good
  <2>. HIDE DEF Good, N
  <2>. QED  BY <1>1, <1>2, <1>3, UpTo
<1>5. N \in Good
  <2>1. N \in 0..N
    BY <1>1
  <2>. HIDE DEF Good, N
  <2>. QED  BY <1>4, <2>1
<1>. QED  BY <1>5, FedSteps

-----------------------------------------------------------------------------
(* The elements of a page and the captures that are over. *)

\* An element ends at the first event at which as many are closed as are opened.
LEMMA EndsIs ==
  ASSUME NEW page \in Seq(Event), NEW k, NEW i \in Elements(page, k)
  PROVE  /\ i \in 1..Len(page) /\ page[i].do = "start" /\ page[i].qa = k
         /\ Ends(page, i) \in i..Len(page) /\ Balance(page, i, Ends(page, i)) = 0
         /\ \A j \in i..Len(page) : Balance(page, i, j) = 0 => Ends(page, i) <= j
<1>. DEFINE S == { j \in i..Len(page) : Balance(page, i, j) = 0 }
<1>1. /\ i \in 1..Len(page) /\ page[i].do = "start" /\ page[i].qa = k
      /\ S # {}
  BY PageFacts DEF Elements
<1>2. S \subseteq Nat
  BY <1>1, PageFacts
<1>3. Ends(page, i) = Min(S)
  BY DEF Ends
<1>4. Min(S) \in S /\ \A y \in S : Min(S) <= y
  <2>. HIDE DEF S
  <2>. QED  BY <1>1, <1>2, MinIs
<1>. QED  BY <1>1, <1>3, <1>4

\* What a capture that is over began with is an element that has ended.
LEMMA OverIsElement ==
  ASSUME NEW page \in Seq(Event), NEW k, NEW j \in 1..Len(page), NEW i \in OverAt(page, j, k)
  PROVE  i \in Elements(page, k) /\ Ends(page, i) \in i..j
<1>1. /\ i \in 1..j /\ page[i].do = "start" /\ page[i].qa = k /\ Depth(page, i, j) = 0
  BY DEF OverAt, Over
<1>2. i \in 1..Len(page) /\ j \in i..Len(page) /\ Len(page) \in Nat
  BY <1>1, PageFacts
<1>3. Balance(page, i, j) \in Int /\ Balance(page, i, j) <= 0
  BY <1>1, <1>2, DepthAndBalance
<1>4. \E m \in i..j : Balance(page, i, m) = 0
  <2>. SUFFICES ASSUME \A m \in i..j : Balance(page, i, m) # 0 PROVE FALSE
    OBVIOUS
  <2>1. Balance(page, i, j) > 0
    BY <1>1, <1>2, BalancePositive
  <2>. QED  BY <1>3, <2>1
<1>5. PICK m \in i..j : Balance(page, i, m) = 0
  BY <1>4
<1>6. m \in i..Len(page)
  BY <1>2
<1>7. i \in Elements(page, k)
  BY <1>1, <1>2, <1>5, <1>6, PageFacts DEF Elements
<1>8. Ends(page, i) \in i..Len(page) /\ Ends(page, i) <= m
  BY <1>5, <1>6, <1>7, EndsIs
<1>. QED  BY <1>2, <1>7, <1>8

\* A capture that ends is over at the first event at which its depth is zero, with at
\* least the text of the element.
LEMMA CaptureIsOver ==
  ASSUME NEW page \in Seq(Event), NEW k, NEW i \in Elements(page, k), CaptureEnds(page, i)
  PROVE  \E j \in 1..Len(page) :
           i \in OverAt(page, j, k) /\ IsPrefix(TextOf(page, i), Said(page, i, j))
<1>. DEFINE S == { j \in i..Len(page) : Depth(page, i, j) = 0 }
            z == Min(S)
<1>1. i \in 1..Len(page) /\ page[i].do = "start" /\ page[i].qa = k
  BY EndsIs
<1>2. Len(page) \in Nat /\ i \in Nat /\ DOMAIN page = 1..Len(page)
  BY <1>1, PageFacts
<1>3. S # {}
  <2>1. PICK j \in i..Len(page) : Cardinality({ y \in i..j : page[y].do = "start" })
                                  = Cardinality({ y \in i..j : page[y].do = "end" })
    BY DEF CaptureEnds
  <2>2. /\ { y \in i..j : page[y].do = "start" } = At(page, "start") \cap i..j
        /\ { y \in i..j : page[y].do = "end" } = At(page, "end") \cap i..j
    BY <1>1, <1>2 DEF At
  <2>3. Count(At(page, "start"), i, j) = Count(At(page, "end"), i, j)
    BY <2>1, <2>2 DEF Count
  <2>4. j \in Nat /\ i <= j + 1
    BY <1>2
  <2>5. Count(At(page, "end"), i, j) \in Nat
    BY <1>2, <2>4, CountStep
  <2>6. Depth(page, i, j) = 0
    BY <2>3, <2>5 DEF Depth
  <2>. QED  BY <2>6
<1>4. S \subseteq Nat
  BY <1>2
<1>5. z \in S /\ \A y \in S : z <= y
  <2>. HIDE DEF S
  <2>. QED  BY <1>3, <1>4, MinIs
<1>6. z \in i..Len(page) /\ Depth(page, i, z) = 0
  BY <1>5
<1>7. \A y \in i..(z - 1) : Depth(page, i, y) # 0
  BY <1>2, <1>5, <1>6
<1>. HIDE DEF z, S
<1>8. ASSUME NEW m \in i..(z - 1) PROVE Depth(page, i, m) > 0
  <2>1. m \in i..Len(page) /\ \A y \in i..m : Depth(page, i, y) # 0
    BY <1>2, <1>6, <1>7
  <2>. QED  BY <1>1, <2>1, DepthPositive
<1>9. i \in OverAt(page, z, k) /\ z \in 1..Len(page)
  BY <1>1, <1>2, <1>6, <1>8 DEF OverAt, Over, Open
<1>10. Ends(page, i) \in i..z
  BY <1>9, OverIsElement
<1>11. Ends(page, i) \in i..Len(page) /\ z \in Ends(page, i)..Len(page)
  BY <1>2, <1>6, <1>10
<1>12. IsPrefix(TextOf(page, i), Said(page, i, z))
  BY <1>1, <1>11, SaidPrefix DEF TextOf
<1>. QED  BY <1>9, <1>12

\* On a regular page the capture of an element is over where the element ends.
LEMMA ElementIsOver ==
  ASSUME NEW page \in Seq(Event), Regular(page), NEW k \in DATA_QA_FIELDS,
         NEW i \in Elements(page, k)
  PROVE  Ends(page, i) \in 1..Len(page) /\ i \in OverAt(page, Ends(page, i), k)
<1>. DEFINE z == Ends(page, i)
<1>1. /\ i \in 1..Len(page) /\ page[i].do = "start" /\ page[i].qa = k
      /\ z \in i..Len(page) /\ Balance(page, i, z) = 0
      /\ \A j \in i..Len(page) : Balance(page, i, j) = 0 => z <= j
  BY EndsIs
<1>2. \A j \in i..z : ~Unclosed(page, j)
  BY DEF Regular
<1>. HIDE DEF z
<1>3. Len(page) \in Nat /\ i \in Nat /\ z \in Nat
  BY <1>1, PageFacts
<1>4. ASSUME NEW m \in i..z PROVE Depth(page, i, m) = Balance(page, i, m)
  <2>1. m \in i..Len(page) /\ \A y \in i..m : ~Unclosed(page, y)
    BY <1>1, <1>2, <1>3
  <2>. QED  BY <1>1, <2>1, DepthAndBalance
<1>5. ASSUME NEW m \in i..(z - 1) PROVE Depth(page, i, m) > 0
  <2>1. m \in i..z /\ m \in i..Len(page)
    BY <1>1, <1>3
  <2>2. ASSUME NEW y \in i..m PROVE Balance(page, i, y) # 0
    <3>1. y \in i..Len(page) /\ ~(z <= y)
      BY <1>1, <1>3
    <3>. QED  BY <1>1, <3>1
  <2>3. Balance(page, i, m) > 0
    BY <1>1, <2>1, <2>2, BalancePositive
  <2>. QED  BY <1>4, <2>1, <2>3
<1>6. Depth(page, i, z) = 0
  BY <1>1, <1>3, <1>4
<1>7. Over(page, i, z)
  BY <1>5, <1>6 DEF Over, Open
<1>8. i \in OverAt(page, z, k) /\ z \in 1..Len(page)
  BY <1>1, <1>3, <1>7 DEF OverAt
<1>. QED  BY <1>8 DEF z

\* And nowhere else.
LEMMA OverEnds ==
  ASSUME NEW page \in Seq(Event), Regular(page), NEW k \in DATA_QA_FIELDS,
         NEW j \in 1..Len(page), NEW i \in OverAt(page, j, k)
  PROVE  i \in Elements(page, k) /\ Ends(page, i) = j
<1>1. i \in Elements(page, k) /\ Ends(page, i) \in i..j
  BY OverIsElement
<1>2. i \in OverAt(page, Ends(page, i), k)
  BY <1>1, ElementIsOver
<1>3. Depth(page, i, Ends(page, i)) = 0 /\ Open(page, i, j - 1)
  BY <1>2 DEF OverAt, Over
<1>4. i \in Nat /\ j \in Nat
  BY <1>1, EndsIs, PageFacts
<1>5. ~(Ends(page, i) \in i..(j - 1))
  BY <1>3 DEF Open
<1>. QED  BY <1>1, <1>4, <1>5

\* The texts kept for a field are the texts of its elements.
LEMMA TextsOfElements ==
  ASSUME NEW page \in Seq(Event), NEW k \in DATA_QA_FIELDS
  PROVE  /\ feed(page).texts[k] \in Seq(Text)
         /\ feed(page).texts[k] # <<>> =>
              \E i \in Elements(page, k) : IsPrefix(TextOf(page, i), feed(page).texts[k][1])
         /\ Regular(page) =>
              /\ \A x \in ToSet(feed(page).texts[k]) :
                   x # <<>> /\ \E i \in Elements(page, k) : x = TextOf(page, i)
              /\ \A i \in Elements(page, k) :
                   TextOf(page, i) # <<>> => TextOf(page, i) \in ToSet(feed(page).texts[k])
              /\ feed(page).texts[k] # <<>> =>
                   \E i \in Elements(page, k) :
                     /\ feed(page).texts[k][1] = TextOf(page, i)
                     /\ \A y \in Elements(page, k) :
                          TextOf(page, y) # <<>> => Ends(page, i) <= Ends(page, y)
<1>. DEFINE N == Len(page)
            t == feed(page).texts[k]
<1>1. N \in Nat
  BY PageFacts
<1>2. t \in Seq(Text)
  <2>1. feed(page) \in Parser
    BY <1>1, FedSteps
  <2>. QED  BY <2>1 DEF Parser
<1>3. TextsRead(page, N, k, t)
  BY ReadAlways DEF Read
<1>. HIDE DEF t
<1>4. /\ \A x \in ToSet(t) :
           x # <<>> /\ \E j \in 1..N : \E i \in OverAt(page, j, k) : x = Said(page, i, j)
      /\ \A j \in 1..N : \A i \in OverAt(page, j, k) :
           Said(page, i, j) # <<>> => Said(page, i, j) \in ToSet(t)
      /\ t # <<>> =>
           \E j \in 1..N :
             /\ \E i \in OverAt(page, j, k) : t[1] = Said(page, i, j)
             /\ \A m \in 1..(j - 1) : \A i \in OverAt(page, m, k) : Said(page, i, m) = <<>>
  BY <1>3 DEF TextsRead
<1>5. ASSUME t # <<>> PROVE \E i \in Elements(page, k) : IsPrefix(TextOf(page, i), t[1])
  <2>0. PICK j \in 1..N : \E i \in OverAt(page, j, k) : t[1] = Said(page, i, j)
    BY <1>4, <1>5
  <2>1. PICK i \in OverAt(page, j, k) : t[1] = Said(page, i, j)
    BY <2>0
  <2>2. i \in Elements(page, k) /\ Ends(page, i) \in i..j
    BY OverIsElement
  <2>3. i \in 1..N /\ Ends(page, i) \in i..N
    BY <2>2, EndsIs
  <2>4. j \in Ends(page, i)..N
    BY <1>1, <2>2, <2>3
  <2>5. IsPrefix(Said(page, i, Ends(page, i)), Said(page, i, j))
    BY <2>3, <2>4, SaidPrefix
  <2>. QED  BY <2>1, <2>2, <2>5 DEF TextOf
<1>6. ASSUME Regular(page), NEW x \in ToSet(t)
      PROVE  x # <<>> /\ \E i \in Elements(page, k) : x = TextOf(page, i)
  <2>0. PICK j \in 1..N : \E i \in OverAt(page, j, k) : x = Said(page, i, j)
    BY <1>4
  <2>1. PICK i \in OverAt(page, j, k) : x = Said(page, i, j)
    BY <2>0
  <2>2. i \in Elements(page, k) /\ Ends(page, i) = j
    BY <1>6, OverEnds
  <2>. QED  BY <1>4, <2>1, <2>2 DEF TextOf
<1>7. ASSUME Regular(page), NEW i \in Elements(page, k), TextOf(page, i) # <<>>
      PROVE  TextOf(page, i) \in ToSet(t)
  <2>1. Ends(page, i) \in 1..N /\ i \in OverAt(page, Ends(page, i), k)
    BY <1>7, ElementIsOver
  <2>. QED  BY <1>4, <1>7, <2>1 DEF TextOf
<1>8. ASSUME Regular(page), t # <<>>
      PROVE  \E i \in Elements(page, k) :
               /\ t[1] = TextOf(page, i)
               /\ \A y \in Elements(page, k) :
                    TextOf(page, y) # <<>> => Ends(page, i) <= Ends(page, y)
  <2>1. PICK j \in 1..N :
             /\ \E i \in OverAt(page, j, k) : t[1] = Said(page, i, j)
             /\ \A m \in 1..(j - 1) : \A i \in OverAt(page, m, k) : Said(page, i, m) = <<>>
    BY <1>4, <1>8
  <2>2. PICK i \in OverAt(page, j, k) : t[1] = Said(page, i, j)
    BY <2>1
  <2>3. i \in Elements(page, k) /\ Ends(page, i) = j
    BY <1>8, OverEnds
  <2>4. ASSUME NEW y \in Elements(page, k), TextOf(page, y) # <<>> PROVE j <= Ends(page, y)
    <3>1. Ends(page, y) \in 1..N /\ y \in OverAt(page, Ends(page, y), k)
      BY <1>8, ElementIsOver
    <3>2. Ends(page, y) \notin 1..(j - 1)
      BY <2>1, <2>4, <3>1 DEF TextOf
    <3>. QED  BY <1>1, <3>1, <3>2
  <2>. QED  BY <2>2, <2>3, <2>4 DEF TextOf
<1>9. /\ t \in Seq(Text)
      /\ t # <<>> => \E i \in Elements(page, k) : IsPrefix(TextOf(page, i), t[1])
      /\ Regular(page) =>
           /\ \A x \in ToSet(t) : x # <<>> /\ \E i \in Elements(page, k) : x = TextOf(page, i)
           /\ \A i \in Elements(page, k) : TextOf(page, i) # <<>> => TextOf(page, i) \in ToSet(t)
           /\ t # <<>> =>
                \E i \in Elements(page, k) :
                  /\ t[1] = TextOf(page, i)
                  /\ \A y \in Elements(page, k) :
                       TextOf(page, y) # <<>> => Ends(page, i) <= Ends(page, y)
  BY <1>2, <1>5, <1>6, <1>7, <1>8
<1>. QED  BY <1>9 DEF t

\* A link kept for a field is one of an element of it, and an element with a link has one kept.
LEMMA LinksOfElements ==
  ASSUME NEW page \in Seq(Event), Regular(page), NEW k \in DATA_QA_FIELDS
  PROVE  /\ feed(page).hrefs[k] \in Seq(Link)
         /\ \A x \in ToSet(feed(page).hrefs[k]) :
              \E i \in Elements(page, k) : x \in LinksOf(page, i)
         /\ \A i \in Elements(page, k) : LinksOf(page, i) # {} => feed(page).hrefs[k] # <<>>
<1>. DEFINE N == Len(page)
            h == feed(page).hrefs[k]
<1>1. N \in Nat
  BY PageFacts
<1>2. h \in Seq(Link)
  <2>1. feed(page) \in Parser
    BY <1>1, FedSteps
  <2>. QED  BY <2>1 DEF Parser
<1>3. HrefsRead(page, N, k, h)
  BY ReadAlways DEF Read
<1>. HIDE DEF h
<1>4. /\ \A x \in ToSet(h) :
           x # None /\ \E j \in 1..N : \E i \in OverAt(page, j, k) : x = LinkAt(page, i, j)
      /\ \A j \in 1..N : \A i \in OverAt(page, j, k) :
           LinkAt(page, i, j) # None => LinkAt(page, i, j) \in ToSet(h)
  BY <1>3 DEF HrefsRead
<1>5. ASSUME NEW x \in ToSet(h) PROVE \E i \in Elements(page, k) : x \in LinksOf(page, i)
  <2>0. PICK j \in 1..N : \E i \in OverAt(page, j, k) : x = LinkAt(page, i, j)
    BY <1>4
  <2>1. PICK i \in OverAt(page, j, k) : x = LinkAt(page, i, j)
    BY <2>0
  <2>2. i \in Elements(page, k) /\ Ends(page, i) = j
    BY OverEnds
  <2>3. i \in Nat
    BY <2>2, EndsIs, PageFacts
  <2>4. PICK y \in Links(page, i, j) : x = page[y].href
    BY <1>4, <2>1, <2>3, LinkIs
  <2>. QED  BY <1>4, <2>2, <2>4 DEF LinksOf, Links
<1>6. ASSUME NEW i \in Elements(page, k), LinksOf(page, i) # {} PROVE h # <<>>
  <2>1. Ends(page, i) \in 1..N /\ i \in OverAt(page, Ends(page, i), k) /\ i \in Nat
    BY ElementIsOver, EndsIs, PageFacts
  <2>2. Links(page, i, Ends(page, i)) # {}
    BY <1>6 DEF LinksOf, Links
  <2>3. LinkAt(page, i, Ends(page, i)) # None
    BY <2>1, <2>2, LinkIs
  <2>4. ToSet(h) # {}
    BY <1>4, <2>1, <2>3
  <2>. QED  BY <1>2, <2>4, ToSetFacts
<1>. QED  BY <1>2, <1>5, <1>6 DEF h

-----------------------------------------------------------------------------
(* The scripts of a page. *)

JSONOf(page) == { page[k].json : k \in DOMAIN page } \ {None}

\* The scripts the parser keeps are scripts of the page.
LEMMA ScriptsOfPage ==
  ASSUME NEW page \in Seq(Event)
  PROVE  ToSet(feed(page).scripts) \subseteq JSONOf(page)
<1>. DEFINE N == Len(page)
            g == Fed(page)
            Kept(p) == ToSet(p.scripts) \subseteq JSONOf(page)
                       /\ p.script \in JSONOf(page) \cup {None}
            Good == { n \in 0..N : Kept(g[n]) }
<1>1. N \in Nat /\ DOMAIN page = 1..N /\ \A n \in 1..N : page[n] \in Event
  BY PageFacts
<1>2. /\ feed(page) = g[N] /\ g[0] = NewParser
      /\ \A n \in 0..N : g[n] \in Parser
      /\ \A n \in 1..N : g[n] = handle(g[n - 1], page[n])
  BY FedSteps
<1>3. 0 \in Good
  <2>1. NewParser.scripts = <<>> /\ NewParser.script = None
    BY DEF NewParser
  <2>2. ToSet(NewParser.scripts) = {}
    BY <2>1 DEF ToSet
  <2>. QED  BY <1>1, <1>2, <2>1, <2>2
<1>4. ASSUME NEW p \in Parser, Kept(p), NEW n \in 1..N PROVE Kept(handle(p, page[n]))
  <2>. DEFINE e == page[n]
              J == JSONOf(page)
  <2>1. e \in Event /\ (e.json # None => e.json \in J)
    BY <1>1 DEF JSONOf
  <2>2. p.scripts \in Seq(JSON) /\ p.script \in JSON \cup {None}
    BY DEF Parser
  <2>3. ToSet(p.scripts) \subseteq J /\ p.script \in J \cup {None}
    BY <1>4
  <2>. HIDE DEF e, J
  <2>4. CASE e.do = "start"
    <3>1. handle(p, e) = handle_starttag(p, e)
      BY <2>1, <2>4, HandleType
    <3>2. /\ handle_starttag(p, e).scripts = p.scripts
          /\ handle_starttag(p, e).script
               = IF e.tag = "script" /\ e.json # None THEN e.json ELSE p.script
      BY DEF handle_starttag, Parser
    <3>. QED  BY <2>1, <2>3, <3>1, <3>2 DEF e, J
  <2>5. CASE e.do = "end"
    <3>1. handle(p, e) = handle_endtag(p, e)
      BY <2>1, <2>5, HandleType
    <3>. DEFINE closes == e.tag = "script" /\ p.script # None
    <3>2. /\ handle_endtag(p, e).scripts
               = IF closes THEN Append(p.scripts, p.script) ELSE p.scripts
          /\ handle_endtag(p, e).script = IF closes THEN None ELSE p.script
      BY DEF handle_endtag, Parser
    <3>3. CASE closes
      <4>1. p.script \in JSON /\ p.script \in J
        BY <2>2, <2>3, <3>3
      <4>2. p.scripts \in Seq(ToSet(p.scripts) \cup {p.script})
        <5>1. \A i \in 1..Len(p.scripts) : p.scripts[i] \in ToSet(p.scripts)
          BY <2>2, LenProperties DEF ToSet
        <5>2. p.scripts \in [1..Len(p.scripts) -> JSON] /\ Len(p.scripts) \in Nat
          BY <2>2, LenProperties
        <5>. QED  BY <5>1, <5>2, SeqDef
      <4>. DEFINE U == ToSet(p.scripts) \cup {p.script}
                  x == Append(p.scripts, p.script)
      <4>3. x \in Seq(U)
        BY <4>2, AppendProperties
      <4>4. ToSet(x) \subseteq U
        <5>. HIDE DEF U, x
        <5>. QED  BY <4>3, ToSetFacts
      <4>. QED  BY <2>3, <3>1, <3>2, <3>3, <4>1, <4>4 DEF e, J
    <3>4. CASE ~closes
      BY <2>3, <3>1, <3>2, <3>4 DEF e, J
    <3>. QED  BY <3>3, <3>4
  <2>6. CASE e.do = "data"
    <3>1. handle(p, e) = handle_data(p, e)
      BY <2>1, <2>6, HandleType
    <3>2. handle_data(p, e).scripts = p.scripts /\ handle_data(p, e).script = p.script
      BY DEF handle_data, Parser
    <3>. QED  BY <2>3, <3>1, <3>2 DEF e, J
  <2>7. e.do = "start" \/ e.do = "end" \/ e.do = "data"
    BY <2>1 DEF Event
  <2>. QED  BY <2>4, <2>5, <2>6, <2>7
<1>5. ASSUME NEW n \in 0..(N - 1), n \in Good PROVE n + 1 \in Good
  <2>1. n + 1 \in 1..N /\ n + 1 \in 0..N /\ n \in 0..N /\ n + 1 - 1 = n
    BY <1>1
  <2>2. g[n] \in Parser /\ Kept(g[n]) /\ g[n + 1] = handle(g[n], page[n + 1])
    BY <1>2, <1>5, <2>1
  <2>3. Kept(handle(g[n], page[n + 1]))
    <3>. HIDE DEF Kept, g
    <3>. QED  BY <1>4, <2>1, <2>2
  <2>. QED  BY <2>1, <2>2, <2>3
<1>6. 0..N \subseteq Good
  <2>. HIDE DEF Good, N
  <2>. QED  BY <1>1, <1>3, <1>5, UpTo
<1>. QED  BY <1>1, <1>2, <1>6

-----------------------------------------------------------------------------
(* The candidates of a page, and what is made of them. *)

Candidate == [title : Text, employer_name : Text, employer_url : Link, description : Text,
              archived : BOOLEAN]

\* The first of a sequence is one of its elements.
LEMMA FirstIs ==
  ASSUME NEW S, NEW s \in Seq(S), NEW missing
  PROVE  /\ s # <<>> => First(s, missing) \in ToSet(s) /\ First(s, missing) = s[1]
         /\ s = <<>> => First(s, missing) = missing
         /\ First(s, missing) \in S \cup {missing}
BY ToSetFacts DEF First

\* The candidate of the elements is archived if one of their texts says so.
LEMMA DataQaIs ==
  ASSUME NEW p \in Parser
  PROVE  /\ candidate_from_data_qa(p) \in Candidate
         /\ candidate_from_data_qa(p).archived <=>
              \E k \in DATA_QA_FIELDS : \E x \in ToSet(p.texts[k]) : is_archived_html_text(x)
<1>. DEFINE c == candidate_from_data_qa(p)
            archived == \E k \in DATA_QA_FIELDS :
                          \E i \in DOMAIN p.texts[k] : is_archived_html_text(p.texts[k][i])
            title == Or(First(p.texts["title"], <<>>), p.og_title, <<>>)
            name  == First(p.texts["company"], <<>>)
            url   == First(p.hrefs["company"], None)
            descr == First(p.texts["description"], <<>>)
<1>1. /\ p.og_title \in Text /\ <<>> \in Text /\ None \in Link
      /\ p.texts["title"] \in Seq(Text) /\ p.texts["company"] \in Seq(Text)
      /\ p.texts["description"] \in Seq(Text) /\ p.hrefs["company"] \in Seq(Link)
  BY EmptySeq DEF Parser, DATA_QA_FIELDS, Text, Link
<1>2. name \in Text /\ url \in Link /\ descr \in Text
  BY <1>1, FirstIs
<1>3. title \in Text
  <2>1. First(p.texts["title"], <<>>) \in Text
    BY <1>1, FirstIs
  <2>. QED  BY <1>1, <2>1 DEF Or
<1>4. archived \in BOOLEAN
  OBVIOUS
<1>5. c = [title |-> title, employer_name |-> name, employer_url |-> url, description |-> descr,
           archived |-> archived]
  BY DEF candidate_from_data_qa
<1>6. archived <=> \E k \in DATA_QA_FIELDS : \E x \in ToSet(p.texts[k]) : is_archived_html_text(x)
  BY DEF ToSet
<1>. HIDE DEF c, title, name, url, descr, archived
<1>7. c \in Candidate /\ c.archived = archived
  BY <1>2, <1>3, <1>4, <1>5 DEF Candidate
<1>. QED  BY <1>6, <1>7 DEF c

\* The JSON-LD yields candidates, whatever is in it.
LEMMA JsonLdType ==
  ASSUME NEW p \in Parser
  PROVE  candidates_from_json_ld(p) \in Seq(Candidate)
<1>. DEFINE found_ == [i \in DOMAIN p.scripts |-> iter_json_dicts[p.scripts[i]]]
            dicts == FlattenSeq(found_)
            postings == Pick(dicts, { i \in DOMAIN dicts : dicts[i].posting })
            candidate(d) == [title |-> d.title, employer_name |-> d.name, employer_url |-> d.url,
                             description |-> d.description, archived |-> FALSE]
            all == [i \in DOMAIN postings |-> candidate(postings[i])]
<1>1. p.scripts \in Seq(JSON)
  BY DEF Parser
<1>2. ASSUME NEW i \in DOMAIN p.scripts PROVE found_[i] \in Seq(Dictionary)
  <2>1. p.scripts[i] \in JSON
    BY <1>1, LenProperties, ElementOfSeq
  <2>. QED  BY <2>1, DictsType
<1>3. found_ \in Seq(Seq(Dictionary))
  <2>1. DOMAIN found_ = DOMAIN p.scripts /\ found_ = [i \in DOMAIN found_ |-> found_[i]]
    OBVIOUS
  <2>. HIDE DEF found_
  <2>. QED  BY <1>1, <1>2, <2>1, MapType
<1>4. dicts \in Seq(Dictionary)
  <2>. HIDE DEF found_
  <2>. QED  BY <1>3, FlattenType
<1>5. postings \in Seq(Dictionary)
  <2>. HIDE DEF dicts
  <2>. QED  BY <1>4, PickType
<1>6. ASSUME NEW d \in Dictionary PROVE candidate(d) \in Candidate
  <2>1. d \in Value /\ d.kind = "dict"
    BY HHPageAssumption DEF HHPageAssumption, Dictionary
  <2>2. d.title \in Text /\ d.name \in Text /\ d.url \in Link /\ d.description \in Text
    BY <2>1 DEF Value
  <2>. QED  BY <2>2 DEF Candidate
<1>7. all \in Seq(Candidate)
  <2>. HIDE DEF postings
  <2>1. DOMAIN all = DOMAIN postings /\ all = [i \in DOMAIN all |-> all[i]]
    OBVIOUS
  <2>2. ASSUME NEW i \in DOMAIN postings PROVE all[i] \in Candidate
    <3>1. postings[i] \in Dictionary
      BY <1>5, LenProperties, ElementOfSeq
    <3>. QED  BY <1>6, <3>1
  <2>. HIDE DEF all
  <2>. QED  BY <1>5, <2>1, <2>2, MapType
<1>8. candidates_from_json_ld(p) = all
  BY DEF candidates_from_json_ld
<1>. QED  BY <1>7, <1>8

\* A merged candidate is archived if one of the two is.
LEMMA MergeIs ==
  ASSUME NEW a \in Candidate, NEW b \in Candidate
  PROVE  /\ merge_candidates(a, b) \in Candidate
         /\ merge_candidates(a, b).archived = (a.archived \/ b.archived)
<1>. DEFINE title == Or(a.title, b.title, <<>>)
            name  == Or(a.employer_name, b.employer_name, <<>>)
            url   == Or(a.employer_url, b.employer_url, None)
            descr == Or(a.description, b.description, <<>>)
            archived == a.archived \/ b.archived
<1>1. title \in Text /\ name \in Text /\ url \in Link /\ descr \in Text
  BY DEF Candidate, Or
<1>2. archived \in BOOLEAN
  OBVIOUS
<1>3. merge_candidates(a, b) =
        [title |-> title, employer_name |-> name, employer_url |-> url, description |-> descr,
         archived |-> archived]
  BY DEF merge_candidates
<1>. HIDE DEF title, name, url, descr, archived
<1>4. merge_candidates(a, b) \in Candidate /\ merge_candidates(a, b).archived = archived
  BY <1>1, <1>2, <1>3 DEF Candidate
<1>. QED  BY <1>4 DEF archived

\* A candidate with a title, a name and a link is complete, and stays archived.
LEMMA CompleteIs ==
  ASSUME NEW c \in Candidate
  PROVE  /\ complete_html_candidate(c) \in ParsedHHHtmlVacancy \cup {None}
         /\ complete_html_candidate(c) # None /\ ~complete_html_candidate(c).archived
              => ~c.archived
         /\ c.title # <<>> /\ c.employer_name # <<>> /\ c.employer_url \in Employer
              => complete_html_candidate(c) # None
<1>. DEFINE id == employer_id_from_url(c.employer_url)
            archived == c.archived \/ is_archived_html_text(c.title)
            v == [title |-> c.title, employer_hh_id |-> id, employer_name |-> c.employer_name,
                  description |-> c.description, archived |-> archived]
            lacks == c.title = <<>> \/ c.employer_name = <<>> \/ id = None
<1>1. complete_html_candidate(c) = IF lacks THEN None ELSE v
  BY DEF complete_html_candidate
<1>2. id \in Employer \cup {None} /\ (c.employer_url \in Employer => id = c.employer_url)
  BY DEF employer_id_from_url
<1>3. c.title \in Text /\ c.employer_name \in Text /\ c.description \in Text
  BY DEF Candidate
<1>4. archived \in BOOLEAN /\ (~archived => ~c.archived)
  OBVIOUS
<1>5. None \notin Employer /\ None \notin ParsedHHHtmlVacancy
  BY HHPageAssumption DEF HHPageAssumption
<1>6. lacks <=> (c.title = <<>> \/ c.employer_name = <<>> \/ id = None)
  OBVIOUS
<1>7. v = [title |-> c.title, employer_hh_id |-> id, employer_name |-> c.employer_name,
           description |-> c.description, archived |-> archived]
  OBVIOUS
<1>. HIDE DEF id, archived, v, lacks
<1>8. v.archived = archived
  BY <1>7
<1>9. ~lacks => v \in ParsedHHHtmlVacancy
  BY <1>2, <1>3, <1>4, <1>6, <1>7 DEF ParsedHHHtmlVacancy
<1>10. CASE lacks
  <2>1. complete_html_candidate(c) = None
    BY <1>1, <1>10
  <2>. QED  BY <1>2, <1>5, <1>6, <1>10, <2>1
<1>11. CASE ~lacks
  <2>1. complete_html_candidate(c) = v /\ v \in ParsedHHHtmlVacancy /\ v # None
    BY <1>1, <1>5, <1>9, <1>11
  <2>. QED  BY <1>4, <1>8, <2>1
<1>. QED  BY <1>10, <1>11

\* What is made of a page: it is as archived as its elements say, and a page whose
\* elements say enough is never given up.
LEMMA ParseIs ==
  ASSUME NEW page \in Seq(Event)
  PROVE  /\ parse_hh_vacancy_html(page) \in ParsedHHHtmlVacancy \cup {None}
         /\ parse_hh_vacancy_html(page) # None /\ ~parse_hh_vacancy_html(page).archived
              => ~candidate_from_data_qa(feed(page)).archived
         /\ complete_html_candidate(candidate_from_data_qa(feed(page))) # None
              => parse_hh_vacancy_html(page) # None
<1>. DEFINE p       == feed(page)
            data_qa == candidate_from_data_qa(p)
            json_ld == candidates_from_json_ld(p)
            merged  == [i \in DOMAIN json_ld |-> merge_candidates(json_ld[i], data_qa)]
            all     == merged \o <<data_qa>>
            parsed  == [i \in DOMAIN all |-> complete_html_candidate(all[i])]
            I       == { i \in DOMAIN parsed : parsed[i] # None }
            picked  == Pick(parsed, I)
            Result  == ParsedHHHtmlVacancy \cup {None}
<1>1. p \in Parser
  <2>1. Len(page) \in 0..Len(page)
    BY PageFacts
  <2>. QED  BY <2>1, FedSteps
<1>. HIDE DEF p
<1>2. data_qa \in Candidate /\ json_ld \in Seq(Candidate)
  BY <1>1, DataQaIs, JsonLdType
<1>3. parse_hh_vacancy_html(page) = First(picked, None)
  BY DEF parse_hh_vacancy_html, p
<1>. HIDE DEF data_qa, json_ld
<1>4. ASSUME NEW i \in DOMAIN json_ld
      PROVE  merged[i] \in Candidate /\ (data_qa.archived => merged[i].archived)
  <2>1. json_ld[i] \in Candidate
    BY <1>2, LenProperties, ElementOfSeq
  <2>2. merged[i] = merge_candidates(json_ld[i], data_qa)
    OBVIOUS
  <2>3. merged[i] \in Candidate /\ merged[i].archived = (json_ld[i].archived \/ data_qa.archived)
    BY <1>2, <2>1, <2>2, MergeIs
  <2>. QED  BY <2>3
<1>5. merged \in Seq(Candidate)
  <2>1. DOMAIN merged = DOMAIN json_ld /\ merged = [i \in DOMAIN merged |-> merged[i]]
    OBVIOUS
  <2>. HIDE DEF merged
  <2>. QED  BY <1>2, <1>4, <2>1, MapType
<1>6. \A c \in ToSet(merged) : data_qa.archived => c.archived
  BY <1>4 DEF ToSet
<1>. HIDE DEF merged
<1>7. <<data_qa>> \in Seq(Candidate) /\ ToSet(<<data_qa>>) = {data_qa}
  BY <1>2 DEF ToSet
<1>8. all = Cat(merged, <<data_qa>>)
  BY DEF Cat
<1>. HIDE DEF all
<1>9. all \in Seq(Candidate) /\ ToSet(all) = ToSet(merged) \cup {data_qa}
  <2>. DEFINE last == <<data_qa>>
  <2>1. last \in Seq(Candidate) /\ ToSet(last) = {data_qa} /\ all = Cat(merged, last)
    BY <1>7, <1>8
  <2>. HIDE DEF last, parsed, I, picked
  <2>. QED  BY <1>5, <2>1, ToSetCat
<1>10. \A i \in DOMAIN all : all[i] \in Candidate /\ (data_qa.archived => all[i].archived)
  BY <1>6, <1>9, LenProperties, ElementOfSeq DEF ToSet
<1>11. \E i \in DOMAIN all : all[i] = data_qa
  BY <1>9 DEF ToSet
<1>12. DOMAIN parsed = DOMAIN all /\ parsed = [i \in DOMAIN parsed |-> parsed[i]]
  OBVIOUS
<1>13. ASSUME NEW i \in DOMAIN all
       PROVE  /\ parsed[i] \in Result
              /\ parsed[i] # None /\ ~parsed[i].archived => ~data_qa.archived
  <2>1. parsed[i] = complete_html_candidate(all[i])
    OBVIOUS
  <2>. QED  BY <1>10, <2>1, CompleteIs
<1>14. complete_html_candidate(data_qa) # None => I # {}
  BY <1>11, <1>12
<1>15. \A i \in I : i \in DOMAIN all /\ parsed[i] # None
  BY <1>12
<1>. HIDE DEF parsed
<1>16. parsed \in Seq(Result)
  BY <1>9, <1>12, <1>13, MapType
<1>17. I \subseteq DOMAIN parsed
  OBVIOUS
<1>. HIDE DEF I
<1>18. picked \in Seq(Result) /\ ToSet(picked) = { parsed[i] : i \in I \cap DOMAIN parsed }
  BY <1>16, PickType
<1>. HIDE DEF picked
<1>19. /\ picked # <<>> => First(picked, None) \in ToSet(picked)
       /\ picked = <<>> => First(picked, None) = None
       /\ ToSet(picked) = {} <=> picked = <<>>
  BY <1>18, FirstIs, ToSetFacts
<1>20. ASSUME picked # <<>>
       PROVE  /\ First(picked, None) \in Result /\ First(picked, None) # None
              /\ ~First(picked, None).archived => ~data_qa.archived
  <2>1. PICK i \in I : First(picked, None) = parsed[i]
    BY <1>18, <1>19, <1>20
  <2>. QED  BY <1>13, <1>15, <2>1
<1>21. I # {} => picked # <<>>
  BY <1>17, <1>18, <1>19
<1>22. /\ First(picked, None) \in Result
       /\ First(picked, None) # None /\ ~First(picked, None).archived => ~data_qa.archived
       /\ complete_html_candidate(data_qa) # None => First(picked, None) # None
  BY <1>14, <1>19, <1>20, <1>21
<1>. QED  BY <1>3, <1>22 DEF data_qa, p

\* The links of the JSON-LD candidates are those of the postings in the scripts.
LEMMA JsonLdLinks ==
  ASSUME NEW p \in Parser, NEW c \in ToSet(candidates_from_json_ld(p))
  PROVE  \E value \in ToSet(p.scripts) :
           \E d \in ToSet(iter_json_dicts[value]) : d.posting /\ c.employer_url = d.url
<1>. DEFINE found_ == [i \in DOMAIN p.scripts |-> iter_json_dicts[p.scripts[i]]]
            dicts == FlattenSeq(found_)
            I == { i \in DOMAIN dicts : dicts[i].posting }
            postings == Pick(dicts, I)
            candidate(d) == [title |-> d.title, employer_name |-> d.name, employer_url |-> d.url,
                             description |-> d.description, archived |-> FALSE]
            all == [i \in DOMAIN postings |-> candidate(postings[i])]
            D == UNION { ToSet(iter_json_dicts[v]) : v \in ToSet(p.scripts) }
<1>1. p.scripts \in Seq(JSON)
  BY DEF Parser
<1>2. ASSUME NEW i \in DOMAIN p.scripts PROVE found_[i] \in Seq(D)
  <2>. DEFINE s == iter_json_dicts[p.scripts[i]]
  <2>1. p.scripts[i] \in JSON /\ p.scripts[i] \in ToSet(p.scripts)
    BY <1>1, LenProperties, ElementOfSeq DEF ToSet
  <2>2. s \in Seq(Dictionary) /\ ToSet(s) \subseteq D
    BY <2>1, DictsType
  <2>3. found_[i] = s
    OBVIOUS
  <2>. HIDE DEF s, D, found_
  <2>4. s \in [1..Len(s) -> Dictionary] /\ Len(s) \in Nat /\ DOMAIN s = 1..Len(s)
    BY <2>2, LenProperties
  <2>5. \A n \in 1..Len(s) : s[n] \in D
    BY <2>2, <2>4 DEF ToSet
  <2>. QED  BY <2>3, <2>4, <2>5, SeqDef
<1>3. found_ \in Seq(Seq(D))
  <2>1. DOMAIN found_ = DOMAIN p.scripts /\ found_ = [i \in DOMAIN found_ |-> found_[i]]
    OBVIOUS
  <2>. HIDE DEF found_, D
  <2>. QED  BY <1>1, <1>2, <2>1, MapType
<1>4. dicts \in Seq(D)
  <2>. HIDE DEF found_, D
  <2>. QED  BY <1>3, FlattenType
<1>5. candidates_from_json_ld(p) = all
  BY DEF candidates_from_json_ld
<1>. HIDE DEF D, dicts
<1>6. ToSet(postings) = { dicts[i] : i \in I \cap DOMAIN dicts }
  BY <1>4, PickType
<1>7. PICK n \in DOMAIN postings : c = candidate(postings[n])
  BY <1>5 DEF ToSet
<1>8. postings[n] \in ToSet(postings) /\ c.employer_url = postings[n].url
  BY <1>7 DEF ToSet
<1>. HIDE DEF postings
<1>9. PICK i \in DOMAIN dicts : postings[n] = dicts[i] /\ dicts[i].posting
  BY <1>6, <1>8
<1>10. dicts[i] \in D
  BY <1>4, <1>9, LenProperties, ElementOfSeq
<1>. QED  BY <1>8, <1>9, <1>10 DEF D

\* What raises, when the link of the elements does not, is a script of the page.
LEMMA RaisesIs ==
  ASSUME NEW page \in Seq(Event), raises(feed(page)),
         candidate_from_data_qa(feed(page)).employer_url # "malformed"
  PROVE  ScriptRaises(page)
<1>. DEFINE p == feed(page)
<1>1. p \in Parser
  <2>1. Len(page) \in 0..Len(page)
    BY PageFacts
  <2>. QED  BY <2>1, FedSteps
<1>2. \A value \in ToSet(p.scripts) :
        \E k \in DOMAIN page : page[k].json = value /\ page[k].json # None
  BY ScriptsOfPage DEF JSONOf
<1>. HIDE DEF p
<1>3. ASSUME NEW value \in ToSet(p.scripts), TooDeep(value) PROVE ScriptRaises(page)
  BY <1>2, <1>3 DEF ScriptRaises
<1>4. ASSUME NEW c \in ToSet(candidates_from_json_ld(p)), c.employer_url = "malformed"
      PROVE  ScriptRaises(page)
  <2>1. PICK value \in ToSet(p.scripts) :
          \E d \in ToSet(iter_json_dicts[value]) : d.posting /\ c.employer_url = d.url
    BY <1>1, JsonLdLinks
  <2>2. PICK k \in DOMAIN page : page[k].json = value /\ page[k].json # None
    BY <1>2
  <2>. QED  BY <1>4, <2>1, <2>2 DEF ScriptRaises
<1>. QED  BY <1>3, <1>4 DEF raises, p

\* The notice in a captured element is seen when the capture ends.
LEMMA NoticeIsSeen ==
  ASSUME NEW page \in Seq(Event),
         parse_hh_vacancy_html(page) # None, ~parse_hh_vacancy_html(page).archived,
         NEW k \in DATA_QA_FIELDS, NEW i \in Elements(page, k),
         "archived" \in ToSet(TextOf(page, i))
  PROVE  ~CaptureEnds(page, i)
<1>. SUFFICES ASSUME CaptureEnds(page, i) PROVE FALSE
  OBVIOUS
<1>1. PICK j \in 1..Len(page) :
        i \in OverAt(page, j, k) /\ IsPrefix(TextOf(page, i), Said(page, i, j))
  BY CaptureIsOver
<1>. DEFINE s == TextOf(page, i)
            t == Said(page, i, j)
<1>2. i \in 1..Len(page) /\ Ends(page, i) \in i..Len(page)
  BY EndsIs
<1>3. s \in Seq(STRING) /\ t \in Seq(STRING)
  <2>1. j \in i..Len(page)
    BY <1>1, <1>2 DEF OverAt
  <2>. QED  BY <1>2, <2>1, SaidStep DEF TextOf, Text
<1>4. IsPrefix(s, t) /\ "archived" \in ToSet(s)
  BY <1>1
<1>. HIDE DEF s, t
<1>5. "archived" \in ToSet(t)
  <2>1. PICK n \in DOMAIN s : s[n] = "archived"
    BY <1>4 DEF ToSet
  <2>2. Len(s) <= Len(t) /\ SubSeq(s, 1, Len(s)) = SubSeq(t, 1, Len(s))
    BY <1>4 DEF IsPrefix
  <2>3. n \in 1..Len(s) /\ Len(s) \in Nat /\ Len(t) \in Nat /\ DOMAIN t = 1..Len(t)
    BY <1>3, <2>1, LenProperties
  <2>4. SubSeq(s, 1, Len(s))[n] = s[n] /\ SubSeq(t, 1, Len(s))[n] = t[n]
    BY <1>3, <2>2, <2>3
  <2>5. t[n] = "archived" /\ n \in DOMAIN t
    BY <2>1, <2>2, <2>3, <2>4
  <2>. QED  BY <2>5 DEF ToSet
<1>6. t # <<>>
  BY <1>5 DEF ToSet
<1>7. t \in ToSet(feed(page).texts[k])
  <2>1. TextsRead(page, Len(page), k, feed(page).texts[k])
    BY ReadAlways DEF Read
  <2>. QED  BY <1>1, <1>6, <2>1 DEF TextsRead, t
<1>8. feed(page) \in Parser
  <2>1. Len(page) \in 0..Len(page)
    BY PageFacts
  <2>. QED  BY <2>1, FedSteps
<1>9. candidate_from_data_qa(feed(page)).archived
  BY <1>5, <1>7, <1>8, DataQaIs DEF is_archived_html_text
<1>. QED  BY <1>9, ParseIs

\* A regular page whose elements name the vacancy and its employer, and link the employer.
LEMMA EnoughIsRead ==
  ASSUME NEW page \in Seq(Event), Regular(page),
         \E i \in Elements(page, "title") : TextOf(page, i) # <<>>,
         \E i \in Elements(page, "company") : LinksOf(page, i) # {},
         \A i \in Elements(page, "company") :
           TextOf(page, i) # <<>> /\ LinksOf(page, i) \subseteq Employer
  PROVE  /\ parse_hh_vacancy_html(page) # None
         /\ candidate_from_data_qa(feed(page)).employer_url # "malformed"
<1>. DEFINE p == feed(page)
            t == p.texts["title"]
            n == p.texts["company"]
            h == p.hrefs["company"]
            c == candidate_from_data_qa(p)
<1>1. "title" \in DATA_QA_FIELDS /\ "company" \in DATA_QA_FIELDS
  BY DEF DATA_QA_FIELDS
<1>2. p \in Parser
  <2>1. Len(page) \in 0..Len(page)
    BY PageFacts
  <2>. QED  BY <2>1, FedSteps
<1>3. /\ t \in Seq(Text) /\ n \in Seq(Text)
      /\ \A x \in ToSet(t) : x # <<>>
      /\ \A x \in ToSet(n) : x # <<>>
      /\ \A i \in Elements(page, "title") : TextOf(page, i) # <<>> => TextOf(page, i) \in ToSet(t)
      /\ \A i \in Elements(page, "company") :
           TextOf(page, i) # <<>> => TextOf(page, i) \in ToSet(n)
  BY <1>1, TextsOfElements
<1>4. /\ h \in Seq(Link)
      /\ \A x \in ToSet(h) : \E i \in Elements(page, "company") : x \in LinksOf(page, i)
      /\ \A i \in Elements(page, "company") : LinksOf(page, i) # {} => h # <<>>
  BY <1>1, LinksOfElements
<1>5. c = [title         |-> Or(First(t, <<>>), p.og_title, <<>>),
           employer_name |-> First(n, <<>>),
           employer_url  |-> First(h, None),
           description   |-> First(p.texts["description"], <<>>),
           archived      |-> c.archived]
  BY DEF candidate_from_data_qa
<1>6. c \in Candidate
  BY <1>2, DataQaIs
<1>. HIDE DEF p, t, n, h, c
<1>7. First(t, <<>>) # <<>>
  <2>1. ToSet(t) # {}
    BY <1>3
  <2>2. t # <<>>
    BY <1>3, <2>1, ToSetFacts
  <2>3. First(t, <<>>) \in ToSet(t)
    BY <1>3, <2>2, FirstIs
  <2>. QED  BY <1>3, <2>3
<1>8. c.title # <<>>
  <2>1. Or(First(t, <<>>), p.og_title, <<>>) = First(t, <<>>)
    BY <1>7 DEF Or
  <2>. QED  BY <1>5, <1>7, <2>1
<1>9. c.employer_name # <<>>
  <2>1. ToSet(n) # {}
    BY <1>3
  <2>2. n # <<>>
    BY <1>3, <2>1, ToSetFacts
  <2>3. First(n, <<>>) \in ToSet(n)
    BY <1>3, <2>2, FirstIs
  <2>4. c.employer_name = First(n, <<>>)
    BY <1>5
  <2>. QED  BY <1>3, <2>3, <2>4
<1>10. c.employer_url \in Employer
  <2>1. h # <<>>
    BY <1>4
  <2>2. First(h, None) \in ToSet(h)
    BY <1>4, <2>1, FirstIs
  <2>3. c.employer_url = First(h, None)
    BY <1>5
  <2>. QED  BY <1>4, <2>2, <2>3
<1>11. complete_html_candidate(c) # None
  BY <1>6, <1>8, <1>9, <1>10, CompleteIs
<1>12. c.employer_url # "malformed"
  BY <1>10, HHPageAssumption DEF HHPageAssumption
<1>. QED  BY <1>11, <1>12, ParseIs DEF c, p

-----------------------------------------------------------------------------
(* The run. *)

\* A vacancy whose employer is asked for is open.
OpenIsAskedFor ==
  phase = "api_employer" =>
    IF IsPage
    THEN /\ parse_hh_vacancy_html(answer.page) # None
         /\ ~parse_hh_vacancy_html(answer.page).archived
    ELSE IsOpen(answer.json)

\* A page the run ends at with an error says too little.
ErrorSaysTooLittle ==
  phase = "error" /\ IsPage => parse_hh_vacancy_html(answer.page) = None

\* A page the run ends at in another way has raised.
OtherRaises ==
  phase = "other" /\ IsPage => raises(feed(answer.page))

\* The employer of a vacancy read from its page has been found there.
PageIsFound ==
  /\ phase \in {"api_employer", "page_employer", "found", "no_employer"} =>
       vacancy.source \in {"api", "page"}
  /\ phase \in {"api_employer", "page_employer", "found"} /\ vacancy.source = "page" =>
       vacancy.employer \in found
  /\ phase = "no_employer" => vacancy.source = "api"

Inv == TypeOK /\ OpenIsAskedFor /\ ErrorSaysTooLittle /\ OtherRaises /\ PageIsFound

\* A page is a sequence of events, and not None.
LEMMA PageIs ==
  ASSUME NEW page \in Page
  PROVE  page \in Seq(Event) /\ page # None
BY HHClientAssumption DEF HHClientAssumption

\* What is read from a page names an employer.
LEMMA ParsedIs ==
  ASSUME NEW page \in Page, parse_hh_vacancy_html(page) # None
  PROVE  parse_hh_vacancy_html(page).employer_hh_id \in Employer
<1>1. parse_hh_vacancy_html(page) \in ParsedHHHtmlVacancy
  BY PageIs, ParseIs
<1>. QED  BY <1>1 DEF ParsedHHHtmlVacancy

\* The exceptions of _get_json.
LEMMA RaisedIs ==
  ASSUME NEW o \in Outcomes
  PROVE  Raised(o) \in {"fallback", "other", "error", "not_found"}
<1>1. o.how \in {"status", "timeout", "transport", "undecodable", "too_deep", "not_json",
                 "not_object"}
  BY DEF Outcomes
<1>2. CASE o.how \in {"timeout", "transport"}
  BY <1>2 DEF Raised
<1>3. CASE o.how \in {"undecodable", "too_deep"}
  BY <1>3 DEF Raised
<1>4. CASE o.how \in {"not_json", "not_object"}
  BY <1>4 DEF Raised
<1>5. CASE o.how = "status"
  <2>. DEFINE fallback == is_fallback_status(o.code)
  <2>1. Raised(o) = IF o.code = 404 THEN "not_found"
                    ELSE IF fallback THEN "fallback" ELSE "error"
    BY <1>5 DEF Raised
  <2>. HIDE DEF fallback
  <2>. QED  BY <2>1
<1>. QED  BY <1>1, <1>2, <1>3, <1>4, <1>5

\* The phases a run may pass to without anything kept.
LEMMA FailKeeps ==
  ASSUME Inv, NEW to, Fail(to),
         to \in {"page_vacancy", "loaded", "error", "not_found", "other"}
  PROVE  Inv'
<1>1. phase' = to /\ vacancy' = vacancy /\ known' = known /\ found' = found
  BY DEF Fail, Go
<1>2. answer'.page = None /\ answer'.json = None
  BY DEF Fail, Answer
<1>3. TypeOK'
  BY <1>1, <1>2 DEF Inv, TypeOK
<1>4. ~IsPage'
  BY <1>2 DEF IsPage
<1>. QED  BY <1>1, <1>3, <1>4
             DEF Inv, TypeOK, OpenIsAskedFor, ErrorSaysTooLittle, OtherRaises, PageIsFound

\* A failure of the API ends the run or passes on to the page.
LEMMA GiveIs ==
  ASSUME NEW o \in Outcomes, NEW next, Give(o, next)
  PROVE  \E to \in {next, "error", "not_found", "other"} : Fail(to)
<1>1. CASE Raised(o) = "fallback"
  BY <1>1 DEF Give
<1>2. CASE Raised(o) # "fallback"
  <2>1. Raised(o) \in {"other", "error", "not_found"} /\ Fail(Raised(o))
    BY <1>2, RaisedIs DEF Give
  <2>. QED  BY <2>1
<1>. QED  BY <1>1, <1>2

\* Nothing is answered before the first exchange.
LEMMA InitInv ==
  ASSUME Init
  PROVE  Inv
<1>1. answer.page = None /\ answer.json = None
  BY DEF Init, Answer
<1>. QED
  BY <1>1
     DEF Init, Inv, TypeOK, OpenIsAskedFor, ErrorSaysTooLittle, OtherRaises, PageIsFound, IsPage

\* The exchange for the vacancy: an open one is asked on for its employer.
LEMMA ApiVacancyKeeps ==
  ASSUME Inv, ApiVacancy
  PROVE  Inv'
<1>1. CASE \E o \in Outcomes : Give(o, "page_vacancy")
  <2>1. PICK o \in Outcomes : Give(o, "page_vacancy")
    BY <1>1
  <2>2. PICK to \in {"page_vacancy", "error", "not_found", "other"} : Fail(to)
    BY <2>1, GiveIs
  <2>. QED  BY <2>2, FailKeeps
<1>2. ASSUME NEW p \in Payloads, NEW e \in Employer, answer' = Answer(None, p),
             IF WellFormed(p) THEN Return(e, "api", IsOpen(p)) /\ UNCHANGED found ELSE Go("error")
      PROVE  Inv'
  <2>1. answer'.page = None /\ answer'.json = p
    BY <1>2 DEF Answer
  <2>2. ~IsPage'
    BY <2>1 DEF IsPage
  <2>3. CASE WellFormed(p)
    <3>1. /\ vacancy' = [employer |-> e, source |-> "api"] /\ known' = known \cup {e}
          /\ phase' = IF IsOpen(p) THEN "api_employer" ELSE "closed"
          /\ found' = found
      BY <1>2, <2>3 DEF Return
    <3>2. vacancy'.employer = e /\ vacancy'.source = "api"
      BY <3>1
    <3>3. phase' \in {"api_employer", "closed"} /\ (phase' = "api_employer" => IsOpen(p))
      BY <3>1
    <3>4. TypeOK'
      BY <2>1, <3>1, <3>2, <3>3 DEF Inv, TypeOK
    <3>5. OpenIsAskedFor'
      BY <2>1, <2>2, <3>3 DEF OpenIsAskedFor
    <3>6. ErrorSaysTooLittle' /\ OtherRaises' /\ PageIsFound'
      BY <2>2, <3>2, <3>3 DEF ErrorSaysTooLittle, OtherRaises, PageIsFound
    <3>. QED  BY <3>4, <3>5, <3>6 DEF Inv, TypeOK
  <2>4. CASE ~WellFormed(p)
    <3>1. phase' = "error" /\ vacancy' = vacancy /\ known' = known /\ found' = found
      BY <1>2, <2>4 DEF Go
    <3>2. TypeOK'
      BY <2>1, <3>1 DEF Inv, TypeOK
    <3>. QED  BY <2>2, <3>1, <3>2
                 DEF Inv, TypeOK, OpenIsAskedFor, ErrorSaysTooLittle, OtherRaises, PageIsFound
  <2>. QED  BY <2>3, <2>4
<1>. QED  BY <1>1, <1>2 DEF ApiVacancy

\* The page of the vacancy: its employer is remembered before it is asked for.
LEMMA PageVacancyKeeps ==
  ASSUME Inv, PageVacancy
  PROVE  Inv'
<1>1. CASE Fail("not_found") \/ Fail("error") \/ Fail("other")
  BY <1>1, FailKeeps
<1>2. ASSUME NEW page \in Page, answer' = Answer(page, None),
             parse_hh_vacancy_html(page) = None, Go("error")
      PROVE  Inv'
  <2>1. answer'.page = page /\ answer'.json = None
    BY <1>2 DEF Answer
  <2>2. phase' = "error" /\ vacancy' = vacancy /\ known' = known /\ found' = found
    BY <1>2 DEF Go
  <2>3. TypeOK'
    BY <2>1, <2>2 DEF Inv, TypeOK
  <2>4. OpenIsAskedFor' /\ ErrorSaysTooLittle' /\ OtherRaises' /\ PageIsFound'
    BY <1>2, <2>1, <2>2 DEF OpenIsAskedFor, ErrorSaysTooLittle, OtherRaises, PageIsFound
  <2>. QED  BY <2>3, <2>4 DEF Inv, TypeOK
<1>3. ASSUME NEW page \in Page, answer' = Answer(page, None),
             parse_hh_vacancy_html(page) # None, Remember(parse_hh_vacancy_html(page)),
             Return(parse_hh_vacancy_html(page).employer_hh_id, "page",
                    ~parse_hh_vacancy_html(page).archived)
      PROVE  Inv'
  <2>. DEFINE r == parse_hh_vacancy_html(page)
              e == r.employer_hh_id
  <2>1. answer'.page = page /\ answer'.json = None /\ IsPage'
    BY <1>3, PageIs DEF Answer, IsPage
  <2>2. e \in Employer
    BY <1>3, ParsedIs
  <2>3. /\ vacancy' = [employer |-> e, source |-> "page"] /\ known' = known \cup {e}
        /\ phase' = (IF ~r.archived THEN "api_employer" ELSE "closed")
        /\ found' = found \cup {e}
    BY <1>3 DEF Return, Remember
  <2>4. vacancy'.employer = e /\ vacancy'.source = "page"
    BY <2>3
  <2>5. phase' \in {"api_employer", "closed"} /\ (phase' = "api_employer" => ~r.archived)
    BY <2>3
  <2>6. OpenIsAskedFor'
    BY <1>3, <2>1, <2>5 DEF OpenIsAskedFor
  <2>. HIDE DEF r, e
  <2>7. TypeOK'
    BY <2>1, <2>2, <2>3, <2>4, <2>5 DEF Inv, TypeOK
  <2>8. ErrorSaysTooLittle' /\ OtherRaises' /\ PageIsFound'
    BY <2>3, <2>4, <2>5 DEF ErrorSaysTooLittle, OtherRaises, PageIsFound
  <2>. QED  BY <2>6, <2>7, <2>8 DEF Inv, TypeOK
<1>4. ASSUME NEW page \in Page, answer' = Answer(page, None), raises(feed(page)), Go("other")
      PROVE  Inv'
  <2>1. answer'.page = page /\ answer'.json = None
    BY <1>4 DEF Answer
  <2>2. phase' = "other" /\ vacancy' = vacancy /\ known' = known /\ found' = found
    BY <1>4 DEF Go
  <2>3. TypeOK'
    BY <2>1, <2>2 DEF Inv, TypeOK
  <2>4. OpenIsAskedFor' /\ ErrorSaysTooLittle' /\ OtherRaises' /\ PageIsFound'
    BY <1>4, <2>1, <2>2 DEF OpenIsAskedFor, ErrorSaysTooLittle, OtherRaises, PageIsFound
  <2>. QED  BY <2>3, <2>4 DEF Inv, TypeOK
<1>. QED  BY <1>1, <1>2, <1>3, <1>4 DEF PageVacancy

\* The exchange for the employer.
LEMMA ApiEmployerKeeps ==
  ASSUME Inv, ApiEmployer
  PROVE  Inv'
<1>1. ASSUME NEW to \in {"page_employer", "found"}, Fail(to)
      PROVE  Inv'
  <2>1. phase' = to /\ vacancy' = vacancy /\ known' = known /\ found' = found
    BY <1>1 DEF Fail, Go
  <2>2. answer'.page = None /\ answer'.json = None
    BY <1>1 DEF Fail, Answer
  <2>3. phase = "api_employer"
    BY DEF ApiEmployer
  <2>4. TypeOK'
    BY <2>1, <2>2 DEF Inv, TypeOK
  <2>5. PageIsFound'
    BY <2>1, <2>3 DEF Inv, PageIsFound
  <2>. QED  BY <2>1, <2>4, <2>5 DEF Inv, TypeOK, OpenIsAskedFor, ErrorSaysTooLittle, OtherRaises
<1>2. ASSUME NEW o \in Outcomes,
             Give(o, IF vacancy.employer \in known THEN "page_employer" ELSE "found")
      PROVE  Inv'
  <2>. DEFINE next == IF vacancy.employer \in known THEN "page_employer" ELSE "found"
  <2>1. next \in {"page_employer", "found"} /\ Give(o, next)
    BY <1>2
  <2>. HIDE DEF next
  <2>2. PICK to \in {next, "error", "not_found", "other"} : Fail(to)
    BY <2>1, GiveIs
  <2>3. CASE to = next
    BY <1>1, <2>1, <2>2, <2>3
  <2>4. CASE to # next
    BY <2>2, <2>4, FailKeeps
  <2>. QED  BY <2>3, <2>4
<1>3. CASE Fail("error") \/ Fail("loaded")
  BY <1>3, FailKeeps
<1>. QED  BY <1>2, <1>3 DEF ApiEmployer

\* The page read for the employer adds to what is remembered.
LEMMA PageEmployerKeeps ==
  ASSUME Inv, PageEmployer
  PROVE  Inv'
<1>1. CASE Fail("not_found") \/ Fail("error") \/ Fail("other")
  BY <1>1, FailKeeps
<1>2. ASSUME NEW page \in Page, answer' = Answer(page, None),
             parse_hh_vacancy_html(page) = None, Go("error")
      PROVE  Inv'
  <2>1. answer'.page = page /\ answer'.json = None
    BY <1>2 DEF Answer
  <2>2. phase' = "error" /\ vacancy' = vacancy /\ known' = known /\ found' = found
    BY <1>2 DEF Go
  <2>3. TypeOK'
    BY <2>1, <2>2 DEF Inv, TypeOK
  <2>4. OpenIsAskedFor' /\ ErrorSaysTooLittle' /\ OtherRaises' /\ PageIsFound'
    BY <1>2, <2>1, <2>2 DEF OpenIsAskedFor, ErrorSaysTooLittle, OtherRaises, PageIsFound
  <2>. QED  BY <2>3, <2>4 DEF Inv, TypeOK
<1>3. ASSUME NEW page \in Page, answer' = Answer(page, None),
             parse_hh_vacancy_html(page) # None, Remember(parse_hh_vacancy_html(page)),
             phase' = "found", UNCHANGED <<vacancy, known>>
      PROVE  Inv'
  <2>. DEFINE e == parse_hh_vacancy_html(page).employer_hh_id
  <2>1. answer'.page = page /\ answer'.json = None
    BY <1>3 DEF Answer
  <2>2. e \in Employer /\ found' = found \cup {e}
    BY <1>3, ParsedIs DEF Remember
  <2>3. phase = "page_employer"
    BY DEF PageEmployer
  <2>. HIDE DEF e
  <2>4. TypeOK'
    BY <1>3, <2>1, <2>2 DEF Inv, TypeOK
  <2>5. OpenIsAskedFor' /\ ErrorSaysTooLittle' /\ OtherRaises'
    BY <1>3 DEF OpenIsAskedFor, ErrorSaysTooLittle, OtherRaises
  <2>6. PageIsFound'
    BY <1>3, <2>2, <2>3 DEF Inv, PageIsFound
  <2>. QED  BY <2>4, <2>5, <2>6 DEF Inv, TypeOK
<1>4. ASSUME NEW page \in Page, answer' = Answer(page, None), raises(feed(page)), Go("other")
      PROVE  Inv'
  <2>1. answer'.page = page /\ answer'.json = None
    BY <1>4 DEF Answer
  <2>2. phase' = "other" /\ vacancy' = vacancy /\ known' = known /\ found' = found
    BY <1>4 DEF Go
  <2>3. TypeOK'
    BY <2>1, <2>2 DEF Inv, TypeOK
  <2>4. OpenIsAskedFor' /\ ErrorSaysTooLittle' /\ OtherRaises' /\ PageIsFound'
    BY <1>4, <2>1, <2>2 DEF OpenIsAskedFor, ErrorSaysTooLittle, OtherRaises, PageIsFound
  <2>. QED  BY <2>3, <2>4 DEF Inv, TypeOK
<1>. QED  BY <1>1, <1>2, <1>3, <1>4 DEF PageEmployer

\* Who is not found has not been read from a page.
LEMMA FoundEmployerKeeps ==
  ASSUME Inv, FoundEmployer
  PROVE  Inv'
<1>1. CASE vacancy.employer \in found
  <2>1. Fail("loaded")
    BY <1>1 DEF FoundEmployer
  <2>. QED  BY <2>1, FailKeeps
<1>2. CASE vacancy.employer \notin found
  <2>1. phase = "found" /\ Fail("no_employer")
    BY <1>2 DEF FoundEmployer
  <2>2. phase' = "no_employer" /\ vacancy' = vacancy /\ known' = known /\ found' = found
    BY <2>1 DEF Fail, Go
  <2>3. answer'.page = None /\ answer'.json = None
    BY <2>1 DEF Fail, Answer
  <2>4. TypeOK'
    BY <2>2, <2>3 DEF Inv, TypeOK
  <2>5. PageIsFound'
    BY <1>2, <2>1, <2>2 DEF Inv, PageIsFound
  <2>. QED  BY <2>2, <2>4, <2>5 DEF Inv, TypeOK, OpenIsAskedFor, ErrorSaysTooLittle, OtherRaises
<1>. QED  BY <1>1, <1>2

\* Every step keeps the invariant.
LEMMA NextInv ==
  ASSUME Inv, [Next]_vars
  PROVE  Inv'
<1>1. CASE UNCHANGED vars
  BY <1>1
     DEF Inv, TypeOK, OpenIsAskedFor, ErrorSaysTooLittle, OtherRaises, PageIsFound, IsPage, vars
<1>. QED
  BY <1>1, ApiVacancyKeeps, PageVacancyKeeps, ApiEmployerKeeps, PageEmployerKeeps,
     FoundEmployerKeeps DEF Next

\* So it holds in every behaviour.
LEMMA AlwaysInv ==
  Spec => []Inv
BY InitInv, NextInv, PTL DEF Spec

\* Types, and the employer of a vacancy get_vacancy has returned is among those
\* it remembers, for any pages, any values in their scripts and any status codes.
THEOREM ClientTypes ==
  Spec => []TypeOK
<1>1. Inv => TypeOK
  BY DEF Inv, TypeOK
<1>. QED  BY <1>1, AlwaysInv, PTL

\* However elements nest, follow or repeat each other, the text handle_endtag keeps
\* first for a field is that of the first of its elements to end that says something;
\* where a tag without an end tag stands inside, at least that much.
THEOREM TextsAreOfElements ==
  Spec => []TextOfElements
<1>1. ASSUME NEW page \in Seq(Event), NEW key \in DATA_QA_FIELDS
      PROVE  LET full  == { i \in Elements(page, key) : TextOf(page, i) # <<>> }
                 first == { i \in full : \A j \in full : Ends(page, i) <= Ends(page, j) }
                 text  == First(feed(page).texts[key], <<>>)
             IN  /\ Regular(page) => \/ full = {} /\ text = <<>>
                                     \/ \E i \in first : text = TextOf(page, i)
                 /\ text # <<>> =>
                      \E i \in Elements(page, key) : IsPrefix(TextOf(page, i), text)
  <2>. DEFINE t     == feed(page).texts[key]
              E     == Elements(page, key)
              full  == { i \in E : TextOf(page, i) # <<>> }
              first == { i \in full : \A j \in full : Ends(page, i) <= Ends(page, j) }
              text  == First(t, <<>>)
  <2>1. /\ t \in Seq(Text)
        /\ t # <<>> => \E i \in E : IsPrefix(TextOf(page, i), t[1])
        /\ Regular(page) =>
             /\ \A x \in ToSet(t) : x # <<>> /\ \E i \in E : x = TextOf(page, i)
             /\ \A i \in E : TextOf(page, i) # <<>> => TextOf(page, i) \in ToSet(t)
             /\ t # <<>> =>
                  \E i \in E :
                    /\ t[1] = TextOf(page, i)
                    /\ \A y \in E : TextOf(page, y) # <<>> => Ends(page, i) <= Ends(page, y)
    BY TextsOfElements
  <2>. HIDE DEF t, E
  <2>2. /\ t # <<>> => text \in ToSet(t) /\ text = t[1]
        /\ t = <<>> => text = <<>> /\ ToSet(t) = {}
    BY <2>1, FirstIs, ToSetFacts
  <2>3. text # <<>> => \E i \in E : IsPrefix(TextOf(page, i), text)
    BY <2>1, <2>2
  <2>4. ASSUME Regular(page), t # <<>> PROVE \E i \in first : text = TextOf(page, i)
    <3>1. PICK i \in E :
            /\ t[1] = TextOf(page, i)
            /\ \A y \in E : TextOf(page, y) # <<>> => Ends(page, i) <= Ends(page, y)
      BY <2>1, <2>4
    <3>2. TextOf(page, i) # <<>>
      BY <2>1, <2>2, <2>4, <3>1
    <3>. QED  BY <2>2, <2>4, <3>1, <3>2
  <2>5. ASSUME Regular(page), t = <<>> PROVE full = {} /\ text = <<>>
    BY <2>1, <2>2, <2>5
  <2>. QED  BY <2>3, <2>4, <2>5 DEF t, E
<1>2. Inv => TextOfElements
  <2>. SUFFICES ASSUME Inv, IsPage PROVE TextOfElements
    BY DEF TextOfElements
  <2>1. answer.page \in Seq(Event)
    BY PageIs DEF Inv, TypeOK, IsPage
  <2>. QED  BY <1>1, <2>1 DEF TextOfElements
<1>. QED  BY <1>2, AlwaysInv, PTL

\* A vacancy whose page says in a captured element whose capture ends that it is
\* archived, or whose type the API does not call open, does not go on to its employer:
\* whatever the scripts of the page say, merge_candidates keeps the notice.
THEOREM ClosedStops ==
  Spec => []ClosedIsNotLoaded
<1>1. Inv => ClosedIsNotLoaded
  <2>. SUFFICES ASSUME Inv, phase = "api_employer" PROVE ClosedIsNotLoaded
    BY DEF ClosedIsNotLoaded
  <2>1. CASE IsPage
    <3>. DEFINE page == answer.page
    <3>1. /\ page \in Seq(Event) /\ parse_hh_vacancy_html(page) # None
          /\ ~parse_hh_vacancy_html(page).archived
      BY <2>1, PageIs DEF Inv, TypeOK, OpenIsAskedFor, IsPage
    <3>. HIDE DEF page
    <3>2. \A key \in DATA_QA_FIELDS : \A i \in Elements(page, key) :
            "archived" \in ToSet(TextOf(page, i)) => ~CaptureEnds(page, i)
      BY <3>1, NoticeIsSeen
    <3>. QED  BY <2>1, <3>2 DEF ClosedIsNotLoaded, page
  <2>2. CASE ~IsPage
    BY <2>2 DEF Inv, OpenIsAskedFor, IsOpen, ClosedIsNotLoaded
  <2>. QED  BY <2>1, <2>2
<1>. QED  BY <1>1, AlwaysInv, PTL

\* A regular page whose elements name vacancy and employer and link the employer is
\* given up by parse_hh_vacancy_html only when a script of it is nested too deeply for
\* json.loads or has a link absolute_url refuses, however little its scripts say.
THEOREM ElementsAreEnough ==
  Spec => []ElementsSuffice
<1>1. Inv => ElementsSuffice
  <2>. DEFINE page == answer.page
  <2>. SUFFICES ASSUME Inv, IsPage, Regular(page),
                       \E i \in Elements(page, "title") : TextOf(page, i) # <<>>,
                       \E i \in Elements(page, "company") : LinksOf(page, i) # {},
                       \A i \in Elements(page, "company") :
                         TextOf(page, i) # <<>> /\ LinksOf(page, i) \subseteq Employer
                PROVE  phase # "error" /\ (phase = "other" => ScriptRaises(page))
    BY DEF ElementsSuffice
  <2>1. page \in Seq(Event)
    BY PageIs DEF Inv, TypeOK, IsPage
  <2>2. /\ phase = "error" => parse_hh_vacancy_html(page) = None
        /\ phase = "other" => raises(feed(page))
    BY DEF Inv, ErrorSaysTooLittle, OtherRaises
  <2>. HIDE DEF page
  <2>3. /\ parse_hh_vacancy_html(page) # None
        /\ candidate_from_data_qa(feed(page)).employer_url # "malformed"
    BY <2>1, EnoughIsRead
  <2>. QED  BY <2>1, <2>2, <2>3, RaisesIs
<1>. QED  BY <1>1, AlwaysInv, PTL

\* A run that has read the vacancy from its page is never told by get_employer that
\* there are no data of the employer, for any number of pages read in between.
THEOREM PageEmployerIsKnown ==
  Spec => []EmployerIsRemembered
<1>1. Inv => EmployerIsRemembered
  BY DEF Inv, PageIsFound, EmployerIsRemembered
<1>. QED  BY <1>1, AlwaysInv, PTL

=============================================================================

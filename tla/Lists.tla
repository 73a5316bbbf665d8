-------------------------------- MODULE Lists --------------------------------
(***************************************************************************)
(* Lemmas about lists: induction and recursion over natural numbers, in a   *)
(* form that needs no operator as a parameter, and from them what           *)
(* FlattenSeq computes.                                                    *)
(***************************************************************************)
EXTENDS Integers, SequencesExt, SequenceTheorems, WellFoundedInduction, TLAPS

-----------------------------------------------------------------------------
(* Natural numbers. *)

\* Induction, with a set in the place of a predicate.
LEMMA InductionBySet ==
    ASSUME NEW S, 0 \in S, \A n \in Nat : n \in S => n + 1 \in S
    PROVE  \A n \in Nat : n \in S
  <1> DEFINE R    == OpToRel(<, Nat)
             Rest == Nat \ S
  <1> SUFFICES ASSUME Rest # {}  PROVE FALSE
    OBVIOUS
  <1>1. IsWellFoundedOn(R, Nat)
    BY NatLessThanWellFounded
  <1>2. PICK m \in Rest : \A k \in Rest : <<k, m>> \notin R
    <2> HIDE DEF R
    <2> QED  BY <1>1, WFMin
  <1>3. m # 0 /\ m - 1 \in Nat
    OBVIOUS
  <1>4. <<m - 1, m>> \in R
    BY <1>3 DEF OpToRel
  <1>5. m - 1 \in S
    BY <1>2, <1>3, <1>4
  <1> QED  BY <1>3, <1>5

\* g is the beginning, up to n, of what starts with v and takes the given steps.
Begins(g, n, v, step, V) ==
    /\ g \in [0..n -> V]
    /\ g[0] = v
    /\ \A i \in 0..(n - 1) : g[i + 1] = step[i][g[i]]

\* A beginning can be made longer, and there is only one.
LEMMA Longer ==
    ASSUME NEW V, NEW v \in V, NEW step \in [Nat -> [V -> V]], NEW n \in Nat,
           NEW g, Begins(g, n, v, step, V)
    PROVE  \E h : Begins(h, n + 1, v, step, V)
  <1> DEFINE h == [i \in 0..(n + 1) |-> IF i = n + 1 THEN step[n][g[n]] ELSE g[i]]
  <1>1. g \in [0..n -> V] /\ g[0] = v
    BY DEF Begins
  <1>2. step[n] \in [V -> V] /\ g[n] \in V
    BY <1>1
  <1>3. step[n][g[n]] \in V
    BY <1>2
  <1>4. h \in [0..(n + 1) -> V]
    BY <1>1, <1>3
  <1>5. h[0] = v
    BY <1>1
  <1>6. ASSUME NEW i \in 0..((n + 1) - 1)  PROVE h[i + 1] = step[i][h[i]]
    <2>1. CASE i = n
      BY <2>1
    <2>2. CASE i # n
      <3>1. i \in 0..(n - 1) /\ i + 1 # n + 1 /\ i # n + 1
        BY <2>2
      <3>2. h[i + 1] = g[i + 1] /\ h[i] = g[i]
        BY <3>1
      <3>3. g[i + 1] = step[i][g[i]]
        BY <3>1 DEF Begins
      <3> HIDE DEF h
      <3> QED  BY <3>2, <3>3
    <2> QED  BY <2>1, <2>2
  <1> HIDE DEF h
  <1>7. Begins(h, n + 1, v, step, V)
    BY <1>4, <1>5, <1>6 DEF Begins
  <1> QED  BY <1>7

LEMMA OnlyOne ==
    ASSUME NEW V, NEW v \in V, NEW step \in [Nat -> [V -> V]],
           NEW n \in Nat, NEW m \in Nat, n <= m,
           NEW g, Begins(g, n, v, step, V), NEW h, Begins(h, m, v, step, V)
    PROVE  h[n] = g[n]
  <1> DEFINE S == {i \in Nat : i <= n => h[i] = g[i]}
  <1>1. 0 \in S
    BY DEF Begins
  <1>2. ASSUME NEW i \in Nat, i \in S  PROVE i + 1 \in S
    <2> SUFFICES ASSUME i + 1 <= n  PROVE h[i + 1] = g[i + 1]
      OBVIOUS
    <2>1. h[i] = g[i] /\ i \in 0..(n - 1) /\ i \in 0..(m - 1)
      BY <1>2
    <2> QED  BY <2>1 DEF Begins
  <1> HIDE DEF S
  <1>3. n \in S
    BY <1>1, <1>2, InductionBySet
  <1> QED  BY <1>3 DEF S

\* f is what starts with v and takes the given steps.  There is such a function.
Computes(f, v, step, V) ==
    /\ f \in [Nat -> V]
    /\ f[0] = v
    /\ \A n \in Nat : f[n + 1] = step[n][f[n]]

LEMMA Recursion ==
    ASSUME NEW V, NEW v \in V, NEW step \in [Nat -> [V -> V]]
    PROVE  \E f : Computes(f, v, step, V)
  <1> DEFINE First(n) == CHOOSE g : Begins(g, n, v, step, V)
             f == [n \in Nat |-> First(n)[n]]
             S == {n \in Nat : \E g : Begins(g, n, v, step, V)}
  <1>1. 0 \in S
    <2>1. Begins([i \in 0..0 |-> v], 0, v, step, V)
      BY DEF Begins
    <2> QED  BY <2>1
  <1>2. ASSUME NEW n \in Nat, n \in S  PROVE n + 1 \in S
    BY <1>2, Longer
  <1>3. \A n \in Nat : n \in S
    <2> HIDE DEF S
    <2> QED  BY <1>1, <1>2, InductionBySet
  <1>4. ASSUME NEW n \in Nat  PROVE Begins(First(n), n, v, step, V)
    BY <1>3
  <1> HIDE DEF First
  <1>5. ASSUME NEW n \in Nat  PROVE First(n)[n] \in V
    <2>1. First(n) \in [0..n -> V]
      BY <1>4 DEF Begins
    <2> QED  BY <2>1
  <1>6. f \in [Nat -> V] /\ f[0] = v
    <2>1. First(0)[0] = v
      BY <1>4 DEF Begins
    <2> QED  BY <1>5, <2>1
  <1>7. ASSUME NEW n \in Nat  PROVE f[n + 1] = step[n][f[n]]
    <2>1. n + 1 \in Nat /\ n <= n + 1 /\ n \in 0..((n + 1) - 1)
      OBVIOUS
    <2>2. Begins(First(n), n, v, step, V) /\ Begins(First(n + 1), n + 1, v, step, V)
      BY <1>4, <2>1
    <2>3. First(n + 1)[n] = First(n)[n]
      BY <2>1, <2>2, OnlyOne
    <2>4. First(n + 1)[n + 1] = step[n][First(n + 1)[n]]
      BY <2>1, <2>2 DEF Begins
    <2> QED  BY <2>1, <2>3, <2>4
  <1> HIDE DEF f
  <1>8. Computes(f, v, step, V)
    BY <1>6, <1>7 DEF Computes
  <1> QED  BY <1>8

-----------------------------------------------------------------------------
(* FlattenSeq. *)

\* FlattenSeq joins the sequences one by one.
LEMMA FlattenSteps ==
    ASSUME NEW X, NEW ss \in Seq(Seq(X))
    PROVE  \E f \in [Nat -> Seq(X)] :
              /\ f[0] = <<>>
              /\ \A i \in 0..(Len(ss) - 1) : f[i + 1] = f[i] \o ss[i + 1]
              /\ FlattenSeq(ss) = f[Len(ss)]
  <1> DEFINE joined(i, s) == IF i + 1 \in 1..Len(ss) THEN s \o ss[i + 1] ELSE s
             join == [i \in Nat |-> [s \in Seq(X) |-> joined(i, s)]]
  <1>1. join \in [Nat -> [Seq(X) -> Seq(X)]]
    <2>1. ASSUME NEW i \in Nat, NEW s \in Seq(X)  PROVE joined(i, s) \in Seq(X)
      <3>1. CASE i + 1 \in 1..Len(ss)
        <4>1. ss[i + 1] \in Seq(X)
          BY <3>1, ElementOfSeq
        <4> QED  BY <3>1, <4>1, ConcatProperties
      <3> QED  BY <3>1
    <2> HIDE DEF joined
    <2> QED  BY <2>1
  <1>2. ASSUME NEW i \in Nat, NEW s \in Seq(X)  PROVE join[i][s] = joined(i, s)
    <2> HIDE DEF joined
    <2> QED  OBVIOUS
  <1> HIDE DEF join
  <1>3. <<>> \in Seq(X)
    OBVIOUS
  <1>4. PICK f \in [Nat -> Seq(X)] :
           f[0] = <<>> /\ \A n \in Nat : f[n + 1] = join[n][f[n]]
    <2>1. \E f : Computes(f, <<>>, join, Seq(X))
      BY <1>1, <1>3, Recursion
    <2> QED  BY <2>1 DEF Computes
  <1>5. Len(ss) \in Nat
    OBVIOUS
  <1>6. ASSUME NEW i \in Nat  PROVE f[i] \in Seq(X)
    OBVIOUS
  <1>7. ASSUME NEW i \in 0..(Len(ss) - 1)  PROVE f[i + 1] = f[i] \o ss[i + 1]
    <2>1. i \in Nat /\ i + 1 \in 1..Len(ss)
      BY <1>5
    <2>2. f[i + 1] = joined(i, f[i])
      BY <1>2, <1>4, <1>6, <2>1
    <2> QED  BY <2>1, <2>2
  <1> HIDE DEF joined
  <1>8. FlattenSeq(ss) = f[Len(ss)]
    <2>1. CASE ss = <<>>
      BY <1>4, <2>1 DEF FlattenSeq
    <2>2. CASE ss # <<>>
      <3> DEFINE flatten == CHOOSE g : g = [i \in 1..Len(ss) |->
                               IF i = 1 THEN ss[i] ELSE g[i - 1] \o ss[i]]
                 h == [i \in 1..Len(ss) |-> f[i]]
                 S == {i \in Nat : i < Len(ss) => flatten[i + 1] = f[i + 1]}
      <3>1. FlattenSeq(ss) = flatten[Len(ss)]
        BY <2>2 DEF FlattenSeq
      <3>2. h = [i \in 1..Len(ss) |-> IF i = 1 THEN ss[i] ELSE h[i - 1] \o ss[i]]
        <4>1. ASSUME NEW i \in 1..Len(ss)
              PROVE  f[i] = IF i = 1 THEN ss[i] ELSE h[i - 1] \o ss[i]
          <5>1. i - 1 \in 0..(Len(ss) - 1) /\ (i - 1) + 1 = i
            BY <1>5
          <5>2. f[i] = f[i - 1] \o ss[i]
            BY <1>7, <5>1
          <5>3. CASE i = 1
            <6>1. i - 1 = 0
              BY <5>3
            <6>2. ss[i] \in Seq(X) /\ f[i] = <<>> \o ss[i]
              BY <1>4, <5>2, <6>1, ElementOfSeq
            <6> QED  BY <5>3, <6>2, ConcatEmptySeq
          <5>4. CASE i # 1
            <6>1. i - 1 \in 1..Len(ss)
              BY <1>5, <5>4
            <6>2. h[i - 1] = f[i - 1]
              BY <6>1
            <6> HIDE DEF h
            <6> QED  BY <5>2, <5>4, <6>2
          <5> QED  BY <5>3, <5>4
        <4> QED  BY <4>1
      <3>3. flatten = [i \in 1..Len(ss) |->
                          IF i = 1 THEN ss[i] ELSE flatten[i - 1] \o ss[i]]
        <4> HIDE DEF h
        <4> QED  BY <3>2
      <3> HIDE DEF flatten
      <3>4. Len(ss) # 0
        BY <2>2, EmptySeq
      <3>5. 0 \in S
        <4>1. 1 \in 1..Len(ss)
          BY <1>5, <3>4
        <4>2. flatten[1] = ss[1]
          BY <3>3, <4>1
        <4>3. h[1] = f[1] /\ h[1] = ss[1]
          <5>1. h[1] = f[1]
            BY <4>1
          <5> HIDE DEF h
          <5> QED  BY <3>2, <4>1, <5>1
        <4> HIDE DEF h
        <4>4. flatten[0 + 1] = f[0 + 1]
          <5> 0 + 1 = 1
            OBVIOUS
          <5> QED  BY <4>2, <4>3
        <4> QED  BY <4>4
      <3>6. ASSUME NEW i \in Nat, i \in S  PROVE i + 1 \in S
        <4> SUFFICES ASSUME i + 1 < Len(ss)
                     PROVE  flatten[(i + 1) + 1] = f[(i + 1) + 1]
          OBVIOUS
        <4>1. /\ (i + 1) + 1 \in 1..Len(ss) /\ (i + 1) + 1 # 1
              /\ ((i + 1) + 1) - 1 = i + 1 /\ i + 1 \in 0..(Len(ss) - 1)
          BY <1>5
        <4>2. flatten[i + 1] = f[i + 1]
          BY <1>5, <3>6
        <4>3. flatten[(i + 1) + 1] = flatten[i + 1] \o ss[(i + 1) + 1]
          BY <3>3, <4>1
        <4>4. f[(i + 1) + 1] = f[i + 1] \o ss[(i + 1) + 1]
          BY <1>7, <4>1
        <4> QED  BY <4>2, <4>3, <4>4
      <3> HIDE DEF S
      <3>7. Len(ss) - 1 \in Nat
        BY <1>5, <3>4
      <3>8. Len(ss) - 1 \in S
        BY <3>5, <3>6, <3>7, InductionBySet
      <3>9. flatten[Len(ss)] = f[Len(ss)]
        BY <1>5, <3>7, <3>8 DEF S
      <3> QED  BY <3>1, <3>9
    <2> QED  BY <2>1, <2>2
  <1> QED  BY <1>4, <1>7, <1>8

\* What FlattenSeq makes is a sequence.
LEMMA FlattenType ==
    ASSUME NEW X, NEW ss \in Seq(Seq(X))
    PROVE  FlattenSeq(ss) \in Seq(X)
  <1>1. PICK f \in [Nat -> Seq(X)] : FlattenSeq(ss) = f[Len(ss)]
    BY FlattenSteps
  <1>2. Len(ss) \in Nat
    OBVIOUS
  <1> QED  BY <1>1, <1>2

\* Nothing is joined to nothing, and one sequence to itself.
LEMMA FlattenEmpty == FlattenSeq(<<>>) = <<>>
  BY DEF FlattenSeq

LEMMA FlattenOne ==
    ASSUME NEW X, NEW s \in Seq(X)
    PROVE  FlattenSeq(<<s>>) = s
  <1> DEFINE ss == <<s>>
  <1>1. ss \in Seq(Seq(X)) /\ Len(ss) = 1 /\ ss[1] = s
    OBVIOUS
  <1> HIDE DEF ss
  <1>2. PICK f \in [Nat -> Seq(X)] :
           /\ f[0] = <<>>
           /\ \A i \in 0..(Len(ss) - 1) : f[i + 1] = f[i] \o ss[i + 1]
           /\ FlattenSeq(ss) = f[Len(ss)]
    BY <1>1, FlattenSteps
  <1>3. f[0 + 1] = f[0] \o ss[0 + 1]
    <2> 0 \in 0..(Len(ss) - 1)
      BY <1>1
    <2> QED  BY <1>2
  <1>4. 0 + 1 = 1
    OBVIOUS
  <1>5. FlattenSeq(ss) = <<>> \o s
    BY <1>1, <1>2, <1>3, <1>4
  <1>6. FlattenSeq(ss) = s
    BY <1>5, ConcatEmptySeq
  <1> QED  BY <1>6 DEF ss

\* Concatenation is associative: ConcatAssociative of the library, for an operator
\* that the provers take as it is.
Join(s, t) == s \o t

LEMMA JoinAssociative ==
    ASSUME NEW X, NEW s \in Seq(X), NEW t \in Seq(X), NEW u \in Seq(X)
    PROVE  Join(Join(s, t), u) = Join(s, Join(t, u))
  BY ConcatAssociative DEF Join

\* FlattenSeq distributes over concatenation.
LEMMA FlattenConcat ==
    ASSUME NEW X, NEW p \in Seq(Seq(X)), NEW q \in Seq(Seq(X))
    PROVE  FlattenSeq(p \o q) = FlattenSeq(p) \o FlattenSeq(q)
  <1> DEFINE r == p \o q
  <1>1. /\ r \in Seq(Seq(X)) /\ Len(r) = Len(p) + Len(q)
        /\ Len(p) \in Nat /\ Len(q) \in Nat
        /\ \A i \in 1..Len(p) : r[i] = p[i]
        /\ \A i \in 1..Len(q) : r[Len(p) + i] = q[i]
    BY ConcatProperties
  <1> HIDE DEF r
  <1>2. PICK f \in [Nat -> Seq(X)] :
           /\ f[0] = <<>>
           /\ \A i \in 0..(Len(p) - 1) : f[i + 1] = f[i] \o p[i + 1]
           /\ FlattenSeq(p) = f[Len(p)]
    BY FlattenSteps
  <1>3. PICK g \in [Nat -> Seq(X)] :
           /\ g[0] = <<>>
           /\ \A i \in 0..(Len(q) - 1) : g[i + 1] = g[i] \o q[i + 1]
           /\ FlattenSeq(q) = g[Len(q)]
    BY FlattenSteps
  <1>4. PICK h \in [Nat -> Seq(X)] :
           /\ h[0] = <<>>
           /\ \A i \in 0..(Len(r) - 1) : h[i + 1] = h[i] \o r[i + 1]
           /\ FlattenSeq(r) = h[Len(r)]
    BY <1>1, FlattenSteps
  <1>5. h[Len(p)] = f[Len(p)]
    <2> DEFINE S == {i \in Nat : i <= Len(p) => h[i] = f[i]}
    <2>1. 0 \in S
      BY <1>2, <1>4
    <2>2. ASSUME NEW i \in Nat, i \in S  PROVE i + 1 \in S
      <3> SUFFICES ASSUME i + 1 <= Len(p)  PROVE h[i + 1] = f[i + 1]
        OBVIOUS
      <3>1. /\ i \in 0..(Len(p) - 1) /\ i \in 0..(Len(r) - 1)
            /\ i + 1 \in 1..Len(p) /\ i <= Len(p)
        BY <1>1
      <3>2. h[i] = f[i]
        BY <2>2, <3>1
      <3>3. h[i + 1] = h[i] \o r[i + 1] /\ f[i + 1] = f[i] \o p[i + 1]
        BY <1>2, <1>4, <3>1
      <3> QED  BY <1>1, <3>1, <3>2, <3>3
    <2> HIDE DEF S
    <2>3. Len(p) \in S
      BY <1>1, <2>1, <2>2, InductionBySet
    <2> QED  BY <1>1, <2>3 DEF S
  <1>6. h[Len(p) + Len(q)] = FlattenSeq(p) \o g[Len(q)]
    <2> DEFINE k == Len(p)
               m == Len(q)
               F == FlattenSeq(p)
               both(i) == F \o g[i]
               S == {i \in Nat : i <= m => h[k + i] = both(i)}
    <2>1. F \in Seq(X) /\ h[k] = F
      BY <1>2, <1>5, FlattenType
    <2>2. k \in Nat /\ m \in Nat /\ Len(r) = k + m
      BY <1>1
    <2>3. \A i \in 1..m : r[k + i] = q[i] /\ q[i] \in Seq(X)
      BY <1>1, ElementOfSeq
    <2>4. \A i \in 0..(m - 1) : g[i + 1] = g[i] \o q[i + 1]
      BY <1>3
    <2> HIDE DEF k, m, F
    <2>5. 0 \in S
      <3>1. k + 0 = k /\ F \o g[0] = F
        BY <1>3, <2>1, <2>2, ConcatEmptySeq
      <3>2. h[k + 0] = both(0)
        BY <2>1, <3>1
      <3> HIDE DEF both
      <3> QED  BY <3>2
    <2>6. ASSUME NEW i \in Nat, i \in S  PROVE i + 1 \in S
      <3>1. CASE ~ i + 1 <= m
        BY <3>1
      <3>2. CASE i + 1 <= m
        <4>1. i \in 0..(m - 1) /\ i + 1 \in 1..m /\ i <= m
          BY <2>2, <3>2
        <4>2. k + i \in 0..(Len(r) - 1) /\ (k + i) + 1 = k + (i + 1)
          BY <2>2, <3>2
        <4>3. h[k + i] = F \o g[i]
          <5> HIDE DEF both
          <5>1. h[k + i] = both(i)
            BY <2>6, <4>1
          <5> QED  BY <5>1 DEF both
        <4>4. h[k + (i + 1)] = h[k + i] \o r[k + (i + 1)]
          BY <1>4, <4>2
        <4>5. /\ g[i + 1] = g[i] \o q[i + 1] /\ r[k + (i + 1)] = q[i + 1]
              /\ q[i + 1] \in Seq(X)
          BY <2>3, <2>4, <4>1
        <4>6. g[i] \in Seq(X)
          OBVIOUS
        <4>7. (F \o g[i]) \o q[i + 1] = F \o (g[i] \o q[i + 1])
          <5> DEFINE a == g[i]
                     b == q[i + 1]
          <5>1. F \in Seq(X) /\ a \in Seq(X) /\ b \in Seq(X)
            BY <2>1, <4>5, <4>6
          <5> HIDE DEF a, b
          <5>2. Join(Join(F, a), b) = Join(F, Join(a, b))
            BY <5>1, JoinAssociative
          <5> QED  BY <5>2 DEF a, b, Join
        <4>8. h[k + (i + 1)] = both(i + 1)
          BY <4>3, <4>4, <4>5, <4>7
        <4> HIDE DEF both
        <4>9. i + 1 \in Nat /\ h[k + (i + 1)] = both(i + 1)
          BY <4>8
        <4> HIDE DEF k
        <4> QED  BY <4>9
      <3> QED  BY <3>1, <3>2
    <2> HIDE DEF S, both
    <2>7. m \in S
      BY <2>2, <2>5, <2>6, InductionBySet
    <2>8. h[k + m] = both(m)
      BY <2>2, <2>7 DEF S
    <2> QED  BY <2>8 DEF k, m, F, both
  <1> QED  BY <1>1, <1>3, <1>4, <1>6 DEF r

-----------------------------------------------------------------------------
(* Maps over sequences. *)

Map(m, s)     == [i \in 1..Len(s) |-> m[s[i]]]
FlatMap(m, s) == FlattenSeq(Map(m, s))

\* What a map makes is a sequence, element by element.
LEMMA MapType ==
    ASSUME NEW A, NEW B, NEW m \in [A -> B], NEW s \in Seq(A)
    PROVE  /\ Map(m, s) \in Seq(B) /\ Len(Map(m, s)) = Len(s)
           /\ \A i \in 1..Len(s) : Map(m, s)[i] = m[s[i]]
  <1>1. Len(s) \in Nat /\ \A i \in 1..Len(s) : s[i] \in A
    BY LenProperties, ElementOfSeq
  <1>2. \A i \in 1..Len(s) : m[s[i]] \in B
    BY <1>1
  <1> QED  BY <1>1, <1>2 DEF Map

LEMMA MapEmpty == ASSUME NEW m  PROVE Map(m, <<>>) = <<>>
  BY DEF Map

LEMMA MapOne ==
    ASSUME NEW A, NEW B, NEW m \in [A -> B], NEW a \in A
    PROVE  Map(m, <<a>>) = <<m[a]>>
  BY DEF Map

LEMMA MapConcat ==
    ASSUME NEW A, NEW m, NEW p \in Seq(A), NEW q \in Seq(A)
    PROVE  Map(m, Join(p, q)) = Join(Map(m, p), Map(m, q))
  <1> DEFINE B == {m[a] : a \in A}
  <1>0. ASSUME NEW s \in Seq(A)
        PROVE  /\ Map(m, s) \in Seq(B) /\ Len(Map(m, s)) = Len(s)
               /\ \A i \in 1..Len(s) : Map(m, s)[i] = m[s[i]]
    <2>1. Len(s) \in Nat /\ \A i \in 1..Len(s) : s[i] \in A
      BY LenProperties, ElementOfSeq
    <2>2. \A i \in 1..Len(s) : m[s[i]] \in B
      BY <2>1
    <2> HIDE DEF B
    <2> QED  BY <2>1, <2>2 DEF Map
  <1> HIDE DEF B
  <1> DEFINE r == p \o q
             l == Map(m, r)
             mp == Map(m, p)
             mq == Map(m, q)
             c == mp \o mq
  <1>1. /\ r \in Seq(A) /\ Len(r) = Len(p) + Len(q)
        /\ Len(p) \in Nat /\ Len(q) \in Nat
        /\ \A i \in 1..Len(p) : r[i] = p[i]
        /\ \A i \in 1..Len(q) : r[Len(p) + i] = q[i]
    BY ConcatProperties, LenProperties
  <1> HIDE DEF r
  <1>2. /\ l \in Seq(B) /\ Len(l) = Len(r)
        /\ \A i \in 1..Len(r) : l[i] = m[r[i]]
    BY <1>0, <1>1
  <1>3. /\ mp \in Seq(B) /\ Len(mp) = Len(p)
        /\ \A i \in 1..Len(p) : mp[i] = m[p[i]]
    BY <1>0
  <1>4. /\ mq \in Seq(B) /\ Len(mq) = Len(q)
        /\ \A i \in 1..Len(q) : mq[i] = m[q[i]]
    BY <1>0
  <1> HIDE DEF l, mp, mq
  <1>5. /\ c \in Seq(B) /\ Len(c) = Len(p) + Len(q)
        /\ \A i \in 1..Len(p) : c[i] = mp[i]
        /\ \A i \in 1..Len(q) : c[Len(p) + i] = mq[i]
    <2>1. mp \in Seq(B) /\ mq \in Seq(B)
      BY <1>3, <1>4
    <2>2. /\ c \in Seq(B) /\ Len(c) = Len(mp) + Len(mq)
          /\ \A i \in 1..Len(mp) : c[i] = mp[i]
          /\ \A i \in 1..Len(mq) : c[Len(mp) + i] = mq[i]
      BY <2>1, ConcatProperties
    <2> HIDE DEF c
    <2> QED  BY <1>3, <1>4, <2>2
  <1> HIDE DEF c
  <1>6. ASSUME NEW i \in 1..Len(l)  PROVE l[i] = c[i]
    <2>1. CASE i \in 1..Len(p)
      <3>1. l[i] = m[r[i]] /\ r[i] = p[i]
        BY <1>1, <1>2, <2>1
      <3>2. c[i] = mp[i] /\ mp[i] = m[p[i]]
        BY <1>3, <1>5, <2>1
      <3> QED  BY <3>1, <3>2
    <2>2. CASE i \notin 1..Len(p)
      <3> DEFINE j == i - Len(p)
      <3>1. j \in 1..Len(q) /\ i = Len(p) + j /\ i \in 1..Len(r)
        BY <1>1, <1>2, <2>2
      <3> HIDE DEF j
      <3>2. l[i] = m[q[j]]
        BY <1>1, <1>2, <3>1
      <3>3. c[i] = m[q[j]]
        BY <1>4, <1>5, <3>1
      <3> QED  BY <3>2, <3>3
    <2> QED  BY <2>1, <2>2
  <1>7. l = c
    BY <1>1, <1>2, <1>5, <1>6, SeqEqual
  <1> QED  BY <1>7 DEF r, l, c, mp, mq, Join

\* The same with sequences that are joined.
LEMMA FlatMapType ==
    ASSUME NEW A, NEW B, NEW m \in [A -> Seq(B)], NEW s \in Seq(A)
    PROVE  FlatMap(m, s) \in Seq(B)
  BY MapType, FlattenType DEF FlatMap

LEMMA FlatMapEmpty == ASSUME NEW m  PROVE FlatMap(m, <<>>) = <<>>
  BY MapEmpty, FlattenEmpty DEF FlatMap

LEMMA FlatMapOne ==
    ASSUME NEW A, NEW B, NEW m \in [A -> Seq(B)], NEW a \in A
    PROVE  FlatMap(m, <<a>>) = m[a]
  <1>1. Map(m, <<a>>) = <<m[a]>>
    BY MapOne
  <1>2. m[a] \in Seq(B)
    OBVIOUS
  <1> QED  BY <1>1, <1>2, FlattenOne DEF FlatMap

LEMMA FlatMapConcat ==
    ASSUME NEW A, NEW B, NEW m, \A a \in A : m[a] \in Seq(B),
           NEW p \in Seq(A), NEW q \in Seq(A)
    PROVE  FlatMap(m, Join(p, q)) = Join(FlatMap(m, p), FlatMap(m, q))
  <1>1. Map(m, p) \in Seq(Seq(B)) /\ Map(m, q) \in Seq(Seq(B))
    <2>1. ASSUME NEW s \in Seq(A)  PROVE Map(m, s) \in Seq(Seq(B))
      <3>1. Len(s) \in Nat /\ \A i \in 1..Len(s) : s[i] \in A
        BY LenProperties, ElementOfSeq
      <3>2. \A i \in 1..Len(s) : m[s[i]] \in Seq(B)
        BY <3>1
      <3> QED  BY <3>1, <3>2 DEF Map
    <2> QED  BY <2>1
  <1>2. Map(m, Join(p, q)) = Join(Map(m, p), Map(m, q))
    BY MapConcat
  <1> DEFINE mp == Map(m, p)
             mq == Map(m, q)
  <1>3. mp \in Seq(Seq(B)) /\ mq \in Seq(Seq(B))
    BY <1>1
  <1> HIDE DEF mp, mq
  <1>4. FlattenSeq(mp \o mq) = FlattenSeq(mp) \o FlattenSeq(mq)
    BY <1>3, FlattenConcat
  <1> QED  BY <1>2, <1>4 DEF FlatMap, Join, mp, mq

\* Maps that agree on the elements of a sequence make the same of it.
LEMMA FlatMapEqual ==
    ASSUME NEW m, NEW l, NEW s, \A i \in 1..Len(s) : m[s[i]] = l[s[i]]
    PROVE  FlatMap(m, s) = FlatMap(l, s)
  <1>1. Map(m, s) = Map(l, s)
    BY DEF Map
  <1> QED  BY <1>1 DEF FlatMap

=============================================================================

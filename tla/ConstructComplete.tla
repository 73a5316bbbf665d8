-------------------------- MODULE ConstructComplete --------------------------
(***************************************************************************)
(* Theorems about Construct, for any options: a New without an error has    *)
(* done everything that the options ask for, once and in order, and the     *)
(* error handlers hear of a failed invoke.  What the options ask for is     *)
(* found by recursion over their nesting; New finds it by taking options    *)
(* from a list, one at a time.                                             *)
(***************************************************************************)
EXTENDS ConstructProofs

-----------------------------------------------------------------------------
(* What the options ask for, groups opened. *)

\* How deep groups are nested in an option, that of ValidateApp included.
Level(o) == IF o = ValidateOption THEN 0 ELSE Nesting[o]

\* What is in a group is an option with less in it.
LEMMA LevelFacts ==
    ASSUME NEW o \in AnyOption
    PROVE  /\ Level(o) \in Nat
           /\ o.kind = "group" =>
                 /\ o.arg \in Seq(AnyOption)
                 /\ \A i \in 1..Len(o.arg) : /\ o.arg[i] \in AnyOption
                                             /\ Level(o.arg[i]) < Level(o)
  <1>1. CASE o = ValidateOption
    BY <1>1 DEF Level, ValidateOption
  <1>2. CASE o \in Options /\ o # ValidateOption
    <2>1. Level(o) \in Nat
      BY <1>2, NestingAssumption DEF Level
    <2>2. ASSUME o.kind = "group"
          PROVE  /\ o.arg \in Seq(AnyOption)
                 /\ \A i \in 1..Len(o.arg) : /\ o.arg[i] \in AnyOption
                                             /\ Level(o.arg[i]) < Level(o)
      <3>1. o.arg \in Seq(Options)
        BY <2>2, OptionTypes
      <3>2. \A x \in Options : x # ValidateOption
        BY OptionsAssumption DEF Args, ValidateOption
      <3>3. ASSUME NEW i \in 1..Len(o.arg)
            PROVE  o.arg[i] \in AnyOption /\ Level(o.arg[i]) < Level(o)
        <4>1. o.arg[i] \in Options
          BY <3>1, ElementOfSeq
        <4>2. Nesting[o.arg[i]] < Nesting[o]
          BY <1>2, <2>2, NestingAssumption
        <4> QED  BY <1>2, <3>2, <4>1, <4>2 DEF Level, AnyOption
      <3>4. o.arg \in Seq(AnyOption)
        BY <3>1, SeqMonotonic DEF AnyOption
      <3> QED  BY <3>3, <3>4
    <2> QED  BY <2>1, <2>2
  <1> QED  BY <1>1, <1>2 DEF AnyOption

\* The equation of Leaves.
LeavesBy(f) ==
    [o \in AnyOption |-> IF o.kind = "group" THEN FlatMap(f, o.arg) ELSE <<o>>]

\* It keeps the types.
LEMMA LeavesByType ==
    ASSUME NEW f \in [AnyOption -> Seq(AnyOption)]
    PROVE  LeavesBy(f) \in [AnyOption -> Seq(AnyOption)]
  <1>1. ASSUME NEW o \in AnyOption
        PROVE  (IF o.kind = "group" THEN FlatMap(f, o.arg) ELSE <<o>>) \in Seq(AnyOption)
    <2>1. CASE o.kind = "group"
      BY <2>1, LevelFacts, FlatMapType
    <2>2. CASE o.kind # "group"
      BY <2>2
    <2> QED  BY <2>1, <2>2
  <1> QED  BY <1>1 DEF LeavesBy

\* It has a solution: what is found at the level of an option stays there.
LEMMA LeavesExist ==
    \E g \in [AnyOption -> Seq(AnyOption)] : g = LeavesBy(g)
  <1> DEFINE V == [AnyOption -> Seq(AnyOption)]
             v == [o \in AnyOption |-> <<>>]
             step == [k \in Nat |-> [f \in V |-> LeavesBy(f)]]
  <1>1. v \in V
    OBVIOUS
  <1>2. step \in [Nat -> [V -> V]]
    BY LeavesByType
  <1>3. \A k \in Nat : \A f \in V : step[k][f] = LeavesBy(f)
    OBVIOUS
  <1> HIDE DEF V, v, step
  <1>4. PICK f : Computes(f, v, step, V)
    BY <1>1, <1>2, Recursion
  <1>5. ASSUME NEW k \in Nat
        PROVE  f[k] \in [AnyOption -> Seq(AnyOption)] /\ f[k + 1] = LeavesBy(f[k])
    <2>1. f[k] \in V
      BY <1>4 DEF Computes
    <2>2. f[k + 1] = LeavesBy(f[k])
      BY <1>3, <1>4, <2>1 DEF Computes
    <2> QED  BY <2>1, <2>2 DEF V
  \* Once the level is reached the next step changes nothing.
  <1>6. ASSUME NEW k \in Nat, NEW o \in AnyOption,
               o.kind = "group" =>
                  \A i \in 1..Len(o.arg) : f[k][o.arg[i]] = f[k + 1][o.arg[i]]
        PROVE  f[k + 1][o] = f[k + 2][o]
    <2>1. f[k + 1][o] = IF o.kind = "group" THEN FlatMap(f[k], o.arg) ELSE <<o>>
      BY <1>5 DEF LeavesBy
    <2>2. k + 1 \in Nat /\ (k + 1) + 1 = k + 2
      OBVIOUS
    <2>3. f[k + 2][o] = IF o.kind = "group" THEN FlatMap(f[k + 1], o.arg) ELSE <<o>>
      <3>1. f[k + 2] = LeavesBy(f[k + 1])
        BY <1>5, <2>2
      <3> QED  BY <3>1 DEF LeavesBy
    <2> QED  BY <1>6, <2>1, <2>3, FlatMapEqual
  <1> DEFINE S == {k \in Nat : \A o \in AnyOption :
                      Level(o) <= k => f[k + 1][o] = f[k + 2][o]}
  <1>7. 0 \in S
    <2>1. ASSUME NEW o \in AnyOption, Level(o) <= 0  PROVE f[0 + 1][o] = f[0 + 2][o]
      <3>1. o.kind = "group" => \A i \in 1..Len(o.arg) : FALSE
        BY <2>1, LevelFacts
      <3> QED  BY <1>6, <3>1
    <2> QED  BY <2>1
  <1>8. ASSUME NEW k \in Nat, k \in S  PROVE k + 1 \in S
    <2>1. ASSUME NEW o \in AnyOption, Level(o) <= k + 1
          PROVE  f[(k + 1) + 1][o] = f[(k + 1) + 2][o]
      <3>1. ASSUME o.kind = "group", NEW i \in 1..Len(o.arg)
            PROVE  f[k + 1][o.arg[i]] = f[(k + 1) + 1][o.arg[i]]
        <4> DEFINE a == o.arg[i]
        <4>1. a \in AnyOption /\ Level(a) <= k /\ Level(a) \in Nat
          BY <2>1, <3>1, LevelFacts
        <4> HIDE DEF a
        <4>2. f[k + 1][a] = f[k + 2][a] /\ k + 2 = (k + 1) + 1
          BY <1>8, <4>1
        <4> QED  BY <4>2 DEF a
      <3>2. k + 1 \in Nat
        OBVIOUS
      <3> QED  BY <1>6, <3>1, <3>2
    <2>2. k + 1 \in Nat
      OBVIOUS
    <2> QED  BY <2>1, <2>2
  <1> HIDE DEF S
  <1>9. ASSUME NEW k \in Nat, NEW o \in AnyOption, Level(o) <= k
        PROVE  f[k + 1][o] = f[k + 2][o]
    <2>1. k \in S
      BY <1>7, <1>8, InductionBySet
    <2> QED  BY <1>9, <2>1 DEF S
  <1> DEFINE g == [o \in AnyOption |-> f[Level(o) + 1][o]]
             T(o) == {k \in Nat : Level(o) <= k => f[k + 1][o] = g[o]}
  <1>10. ASSUME NEW k \in Nat, NEW o \in AnyOption, Level(o) <= k
         PROVE  f[k + 1][o] = g[o]
    <2>1. g[o] = f[Level(o) + 1][o] /\ Level(o) \in Nat
      BY LevelFacts
    <2> HIDE DEF g
    <2>2. 0 \in T(o)
      BY <2>1
    <2>3. ASSUME NEW j \in Nat, j \in T(o)  PROVE j + 1 \in T(o)
      <3>1. CASE Level(o) <= j
        <4>1. f[j + 1][o] = g[o] /\ f[j + 1][o] = f[j + 2][o] /\ (j + 1) + 1 = j + 2
          BY <1>9, <2>3, <3>1
        <4>2. f[(j + 1) + 1][o] = g[o] /\ j + 1 \in Nat
          BY <4>1
        <4> QED  BY <4>2
      <3>2. CASE Level(o) = j + 1
        <4>1. f[(j + 1) + 1][o] = g[o] /\ j + 1 \in Nat
          BY <2>1, <3>2
        <4> QED  BY <4>1
      <3>3. CASE ~ Level(o) <= j + 1
        <4>1. j + 1 \in Nat
          OBVIOUS
        <4> QED  BY <3>3, <4>1
      <3> QED  BY <2>1, <3>1, <3>2, <3>3
    <2> HIDE DEF T
    <2>4. k \in T(o)
      BY <2>2, <2>3, InductionBySet
    <2> QED  BY <1>10, <2>4 DEF T
  <1>11. g \in [AnyOption -> Seq(AnyOption)]
    <2>1. ASSUME NEW o \in AnyOption  PROVE f[Level(o) + 1][o] \in Seq(AnyOption)
      <3>1. Level(o) + 1 \in Nat
        BY LevelFacts
      <3> QED  BY <1>5, <3>1
    <2> QED  BY <2>1
  <1>12. ASSUME NEW o \in AnyOption
         PROVE  g[o] = IF o.kind = "group" THEN FlatMap(g, o.arg) ELSE <<o>>
    <2>1. g[o] = f[Level(o) + 1][o] /\ Level(o) \in Nat
      BY LevelFacts
    <2>2. g[o] = IF o.kind = "group" THEN FlatMap(f[Level(o)], o.arg) ELSE <<o>>
      BY <1>5, <2>1 DEF LeavesBy
    <2>3. ASSUME o.kind = "group", NEW i \in 1..Len(o.arg)
          PROVE  f[Level(o)][o.arg[i]] = g[o.arg[i]]
      <3> DEFINE a == o.arg[i]
                 k == Level(o) - 1
      <3>1. a \in AnyOption /\ Level(a) \in Nat /\ Level(a) < Level(o)
        BY <2>3, LevelFacts
      <3>2. k \in Nat /\ Level(a) <= k /\ k + 1 = Level(o)
        BY <2>1, <3>1
      <3> HIDE DEF a, k, g
      <3>3. f[k + 1][a] = g[a]
        BY <1>10, <3>1, <3>2
      <3> QED  BY <3>2, <3>3 DEF a
    <2> HIDE DEF g
    <2>4. o.kind = "group" => FlatMap(f[Level(o)], o.arg) = FlatMap(g, o.arg)
      BY <2>3, FlatMapEqual
    <2> QED  BY <2>2, <2>4
  <1> HIDE DEF g
  <1>13. g = LeavesBy(g)
    BY <1>11, <1>12 DEF LeavesBy
  <1> QED  BY <1>11, <1>13

\* What Leaves gives for an option, and LeavesOf for some.
LEMMA LeavesFacts ==
    /\ Leaves \in [AnyOption -> Seq(AnyOption)]
    /\ \A o \in AnyOption : o.kind # "group" => Leaves[o] = <<o>>
    /\ \A o \in AnyOption : o.kind = "group" => Leaves[o] = LeavesOf(o.arg)
    /\ \A opts : LeavesOf(opts) = FlatMap(Leaves, opts)
  <1>1. \A opts : LeavesOf(opts) = FlatMap(Leaves, opts)
    BY DEF LeavesOf, FlatMap, Map
  <1>2. PICK g \in [AnyOption -> Seq(AnyOption)] : g = LeavesBy(g)
    BY LeavesExist
  <1>3. Leaves = LeavesBy(Leaves)
    <2>1. Leaves = CHOOSE f : f = LeavesBy(f)
      BY DEF Leaves, LeavesBy, FlatMap, Map, AnyOption
    <2> QED  BY <1>2, <2>1
  <1>4. Leaves \in [AnyOption -> Seq(AnyOption)]
    <2> DEFINE S == {k \in Nat : \A o \in AnyOption :
                        Level(o) <= k => Leaves[o] \in Seq(AnyOption)}
    <2>1. ASSUME NEW o \in AnyOption
          PROVE  Leaves[o] = IF o.kind = "group" THEN FlatMap(Leaves, o.arg) ELSE <<o>>
      BY <1>3 DEF LeavesBy
    <2>2. ASSUME NEW o \in AnyOption, o.kind # "group"
          PROVE  Leaves[o] \in Seq(AnyOption)
      <3>1. Leaves[o] = <<o>>
        BY <2>1, <2>2
      <3>2. <<o>> \in Seq(AnyOption)
        OBVIOUS
      <3> QED  BY <3>1, <3>2
    <2>3. 0 \in S
      <3>1. ASSUME NEW o \in AnyOption, Level(o) <= 0  PROVE Leaves[o] \in Seq(AnyOption)
        <4>1. CASE o.kind = "group"
          <5>1. o.arg = <<>>
            <6>1. o.arg \in Seq(AnyOption)
              BY <4>1, LevelFacts
            <6>2. ASSUME NEW i \in 1..Len(o.arg)  PROVE FALSE
              <7>1. /\ o.arg[i] \in AnyOption /\ Level(o.arg[i]) < Level(o)
                    /\ Level(o) \in Nat
                BY <4>1, LevelFacts
              <7>2. Level(o.arg[i]) \in Nat
                BY <7>1, LevelFacts
              <7> QED  BY <3>1, <7>1, <7>2
            <6>3. Len(o.arg) = 0
              BY <6>1, <6>2, LenProperties
            <6> QED  BY <6>1, <6>3, EmptySeq
          <5> QED  BY <2>1, <4>1, <5>1, FlatMapEmpty, EmptySeq
        <4>2. CASE o.kind # "group"
          BY <2>2, <4>2
        <4> QED  BY <4>1, <4>2
      <3> QED  BY <3>1
    <2>4. ASSUME NEW k \in Nat, k \in S  PROVE k + 1 \in S
      <3>1. ASSUME NEW o \in AnyOption, Level(o) <= k + 1
            PROVE  Leaves[o] \in Seq(AnyOption)
        <4>1. CASE o.kind = "group"
          <5> DEFINE l == [a \in AnyOption |-> IF Level(a) <= k THEN Leaves[a] ELSE <<>>]
          <5>1. l \in [AnyOption -> Seq(AnyOption)]
            BY <2>4
          <5>2. ASSUME NEW i \in 1..Len(o.arg)  PROVE Leaves[o.arg[i]] = l[o.arg[i]]
            <6> DEFINE a == o.arg[i]
            <6>1. a \in AnyOption /\ Level(a) < Level(o)
              BY <4>1, LevelFacts
            <6>2. Level(a) \in Nat /\ Level(o) \in Nat
              BY <6>1, LevelFacts
            <6>3. Level(a) <= k
              BY <3>1, <6>1, <6>2
            <6> QED  BY <6>1, <6>3
          <5>3. o.arg \in Seq(AnyOption)
            BY <4>1, LevelFacts
          <5> HIDE DEF l
          <5>4. FlatMap(Leaves, o.arg) = FlatMap(l, o.arg)
            BY <5>2, FlatMapEqual
          <5>5. FlatMap(l, o.arg) \in Seq(AnyOption)
            BY <5>1, <5>3, FlatMapType
          <5> QED  BY <2>1, <4>1, <5>4, <5>5
        <4>2. CASE o.kind # "group"
          BY <2>2, <4>2
        <4> QED  BY <4>1, <4>2
      <3> QED  BY <3>1
    <2> HIDE DEF S
    <2>5. ASSUME NEW o \in AnyOption  PROVE Leaves[o] \in Seq(AnyOption)
      <3>1. Level(o) \in Nat
        BY LevelFacts
      <3>2. Level(o) \in S
        BY <2>3, <2>4, <3>1, InductionBySet
      <3> QED  BY <3>1, <3>2 DEF S
    <2>6. Leaves = [o \in AnyOption |-> Leaves[o]]
      BY <1>3 DEF LeavesBy
    <2> QED  BY <2>5, <2>6
  <1>5. ASSUME NEW o \in AnyOption
        PROVE  /\ o.kind # "group" => Leaves[o] = <<o>>
               /\ o.kind = "group" => Leaves[o] = LeavesOf(o.arg)
    <2>1. Leaves[o] = IF o.kind = "group" THEN FlatMap(Leaves, o.arg) ELSE <<o>>
      BY <1>3 DEF LeavesBy
    <2> QED  BY <1>1, <2>1
  <1> QED  BY <1>1, <1>4, <1>5

\* What options give to a field of the App, groups opened.
Asked(opts, field) == GivesAll(LeavesOf(opts), field)

Anything == Functions \cup Handlers \cup AllErrors

\* What one option gives.
LEMMA GivesTypes ==
    ASSUME NEW o \in AnyOption, NEW field
    PROVE  Gives(o, field) \in Seq(Anything)
  <1>1. CASE o.kind \in {"provide", "invoke"}
    <2>1. o.arg \in Seq(Anything)
      BY <1>1, OptionTypes, SeqMonotonic DEF Anything
    <2> QED  BY <1>1, <2>1 DEF Gives
  <1>2. CASE o.kind = "supply"
    <2>1. o.arg \in Seq(Supplied)
      BY <1>2, OptionTypes
    <2>2. ASSUME NEW i \in 1..Len(o.arg)
          PROVE  newSupplyConstructor(o.arg[i]) \in Anything
      <3>1. o.arg[i] \in Supplied
        BY <2>1
      <3> QED  BY <3>1 DEF newSupplyConstructor, Supplied, Functions, Forms, Anything
    <2>3. Supply(o.arg) \in Seq(Anything)
      BY <2>1, <2>2 DEF Supply
    <2> QED  BY <1>2, <2>3 DEF Gives
  <1>3. CASE o.kind = "errorHook"
    <2>1. o.arg \in Seq(Anything)
      BY <1>3, OptionTypes, SeqMonotonic DEF Anything
    <2> QED  BY <1>3, <2>1 DEF Gives
  <1>4. CASE o.kind = "error"
    <2>1. NonNil(o.arg) \in Seq(Anything)
      BY <1>4, OptionTypes, SeqMonotonic DEF Anything, AllErrors
    <2> QED  BY <1>4, <2>1 DEF Gives
  <1>5. CASE o.kind \notin {"provide", "invoke", "supply", "errorHook", "error"}
    BY <1>5 DEF Gives
  <1> QED  BY <1>1, <1>2, <1>3, <1>4, <1>5

\* What options give is what their leaves give, one after the other.
GivesTo(field) == [o \in AnyOption |-> Gives(o, field)]

LEMMA AskedFacts ==
    ASSUME NEW field
    PROVE  /\ GivesTo(field) \in [AnyOption -> Seq(Anything)]
           /\ \A opts \in Seq(AnyOption) :
                 /\ LeavesOf(opts) \in Seq(AnyOption)
                 /\ Asked(opts, field) = FlatMap(GivesTo(field), FlatMap(Leaves, opts))
                 /\ Asked(opts, field) \in Seq(Anything)
  <1>1. GivesTo(field) \in [AnyOption -> Seq(Anything)]
    BY GivesTypes DEF GivesTo
  <1>2. ASSUME NEW opts \in Seq(AnyOption)
        PROVE  /\ LeavesOf(opts) \in Seq(AnyOption)
               /\ Asked(opts, field) = FlatMap(GivesTo(field), FlatMap(Leaves, opts))
               /\ Asked(opts, field) \in Seq(Anything)
    <2> DEFINE l == LeavesOf(opts)
    <2>1. l = FlatMap(Leaves, opts) /\ l \in Seq(AnyOption)
      BY LeavesFacts, FlatMapType
    <2> HIDE DEF l
    <2>2. GivesAll(l, field) = FlatMap(GivesTo(field), l)
      <3>1. Len(l) \in Nat /\ \A i \in 1..Len(l) : l[i] \in AnyOption
        BY <2>1, LenProperties, ElementOfSeq
      <3>2. [i \in 1..Len(l) |-> Gives(l[i], field)] = Map(GivesTo(field), l)
        BY <3>1 DEF Map, GivesTo
      <3> QED  BY <3>2 DEF GivesAll, FlatMap
    <2>3. FlatMap(GivesTo(field), l) \in Seq(Anything)
      BY <1>1, <2>1, FlatMapType
    <2> QED  BY <2>1, <2>2, <2>3 DEF Asked, l
  <1> QED  BY <1>1, <1>2

\* Nothing is asked by no option,
LEMMA AskedNothing == ASSUME NEW field  PROVE Asked(<<>>, field) = <<>>
  <1>1. <<>> \in Seq(AnyOption)
    BY EmptySeq
  <1>2. Asked(<<>>, field) = FlatMap(GivesTo(field), FlatMap(Leaves, <<>>))
    BY <1>1, AskedFacts
  <1> QED  BY <1>2, FlatMapEmpty

\* options that follow others ask for more,
LEMMA AskedMore ==
    ASSUME NEW field, NEW p \in Seq(AnyOption), NEW q \in Seq(AnyOption)
    PROVE  Asked(Join(p, q), field) = Join(Asked(p, field), Asked(q, field))
  <1> DEFINE lp == FlatMap(Leaves, p)
             lq == FlatMap(Leaves, q)
             m  == GivesTo(field)
             A  == AnyOption
             B  == Anything
  <1>1. Join(p, q) \in Seq(AnyOption)
    BY ConcatProperties DEF Join
  <1>2. FlatMap(Leaves, Join(p, q)) = Join(lp, lq)
    BY LeavesFacts, FlatMapConcat
  <1>3. lp \in Seq(A) /\ lq \in Seq(A) /\ m \in [A -> Seq(B)]
    BY LeavesFacts, AskedFacts, FlatMapType
  <1>4. /\ Asked(Join(p, q), field) = FlatMap(m, FlatMap(Leaves, Join(p, q)))
        /\ Asked(p, field) = FlatMap(m, lp) /\ Asked(q, field) = FlatMap(m, lq)
    BY <1>1, AskedFacts
  <1> HIDE DEF lp, lq, m, A, B
  <1>5. FlatMap(m, Join(lp, lq)) = Join(FlatMap(m, lp), FlatMap(m, lq))
    <2>1. \A a \in A : m[a] \in Seq(B)
      BY <1>3
    <2>2. lp \in Seq(A) /\ lq \in Seq(A)
      BY <1>3
    <2> QED  BY <2>1, <2>2, FlatMapConcat, SMTT(30)
  <1> QED  BY <1>2, <1>4, <1>5

\* and one option asks for what it gives, or for what is in the group.
LEMMA AskedByOne ==
    ASSUME NEW field, NEW o \in AnyOption
    PROVE  /\ o.kind # "group" => Asked(<<o>>, field) = Gives(o, field)
           /\ o.kind = "group" => Asked(<<o>>, field) = Asked(o.arg, field)
  <1>1. <<o>> \in Seq(AnyOption)
    OBVIOUS
  <1>2. FlatMap(Leaves, <<o>>) = Leaves[o]
    BY LeavesFacts, FlatMapOne
  <1>3. Asked(<<o>>, field) = FlatMap(GivesTo(field), Leaves[o])
    BY <1>1, <1>2, AskedFacts
  <1>4. CASE o.kind # "group"
    <2>1. Leaves[o] = <<o>>
      BY <1>4, LeavesFacts
    <2>2. FlatMap(GivesTo(field), <<o>>) = GivesTo(field)[o]
      BY AskedFacts, FlatMapOne
    <2> QED  BY <1>3, <1>4, <2>1, <2>2 DEF GivesTo
  <1>5. CASE o.kind = "group"
    <2>1. Leaves[o] = FlatMap(Leaves, o.arg) /\ o.arg \in Seq(AnyOption)
      BY <1>5, LeavesFacts, LevelFacts
    <2> QED  BY <1>3, <1>5, <2>1, AskedFacts
  <1> QED  BY <1>4, <1>5

\* So the next option, if it is no group, asks for something before the rest does,
\* and a group that is opened asks for what it asked for.
LEMMA AskedNext ==
    ASSUME TypeOK, todo # <<>>, NEW field
    PROVE  /\ Head(todo).kind # "group" =>
                 Asked(todo, field) = Gives(Head(todo), field) \o Asked(Tail(todo), field)
           /\ Head(todo).kind = "group" =>
                 Asked(todo, field) = Asked(Arg \o Tail(todo), field)
  <1> DEFINE o == Head(todo)
             rest == Tail(todo)
  <1>1. /\ o \in AnyOption /\ rest \in Seq(AnyOption) /\ <<o>> \in Seq(AnyOption)
        /\ todo = Join(<<o>>, rest) /\ Arg = o.arg
    <2>1. todo \in Seq(AnyOption) /\ o \in AnyOption /\ rest \in Seq(AnyOption)
      BY NextOption DEF TypeOK
    <2>2. todo = <<o>> \o rest
      BY <2>1, HeadTailProperties
    <2> QED  BY <2>1, <2>2 DEF Join, Arg
  <1> HIDE DEF o, rest
  <1>2. Asked(todo, field) = Join(Asked(<<o>>, field), Asked(rest, field))
    BY <1>1, AskedMore
  <1>3. CASE o.kind # "group"
    BY <1>1, <1>2, <1>3, AskedByOne DEF Join, o, rest
  <1>4. CASE o.kind = "group"
    <2>1. o.arg \in Seq(AnyOption)
      BY <1>1, <1>4, LevelFacts
    <2>2. Asked(Join(o.arg, rest), field) = Join(Asked(o.arg, field), Asked(rest, field))
      BY <1>1, <2>1, AskedMore
    <2> QED  BY <1>1, <1>2, <1>4, <2>2, AskedByOne DEF Join, o, rest
  <1> QED  BY <1>3, <1>4 DEF o

-----------------------------------------------------------------------------
(* What has been collected, what is still asked for and what was given.        *)

TargetOf    == [e \in Entries |-> e.target]
Targets(ps) == Map(TargetOf, ps)

Fields == {"provides", "invokes", "errorHooks", "err"}
Collected(field) ==
    CASE field = "provides"   -> Targets(app.provides)
      [] field = "invokes"    -> app.invokes
      [] field = "errorHooks" -> app.errorHooks
      [] field = "err"        -> app.err

\* Options add to what was collected, in order, until all was; later only errors come.
AskedInv ==
    /\ pc = "options" => \A field \in Fields :
          Collected(field) \o Asked(todo, field) = GivenTo(field)
    /\ pc # "options" => \A field \in Fields \ {"err"} :
          Collected(field) = GivenTo(field)
    /\ pc # "options" /\ app.err = <<>> => GivenTo("err") = <<>>

\* The targets of entries.
LEMMA TargetsTypes ==
    ASSUME NEW ps \in Seq(Entries)
    PROVE  /\ Targets(ps) \in Seq(Functions) /\ Len(Targets(ps)) = Len(ps)
           /\ \A i \in 1..Len(ps) : Targets(ps)[i] = ps[i].target
           /\ \A qs \in Seq(Entries) : Targets(ps \o qs) = Targets(ps) \o Targets(qs)
  <1>1. Len(ps) \in Nat /\ \A i \in 1..Len(ps) : ps[i] \in Entries
    BY LenProperties, ElementOfSeq
  <1>2. \A i \in 1..Len(ps) : TargetOf[ps[i]] = ps[i].target /\ ps[i].target \in Functions
    BY <1>1 DEF TargetOf, Entries
  <1>3. \A qs \in Seq(Entries) : Targets(ps \o qs) = Targets(ps) \o Targets(qs)
    BY MapConcat DEF Targets, Join
  <1> QED  BY <1>1, <1>2, <1>3 DEF Targets, Map

\* The targets of functions that an option provides, and of values that it supplies.
LEMMA TargetsOfArgs ==
    ASSUME NEW fs \in Seq(Functions), NEW b \in BOOLEAN
    PROVE  Targets([i \in 1..Len(fs) |-> [target |-> fs[i], isSupply |-> b]]) = fs
  <1> DEFINE ps == [i \in 1..Len(fs) |-> [target |-> fs[i], isSupply |-> b]]
  <1>1. Len(fs) \in Nat /\ \A i \in 1..Len(fs) : fs[i] \in Functions
    BY LenProperties, ElementOfSeq
  <1>2. /\ ps \in Seq(Entries) /\ Len(ps) = Len(fs)
        /\ \A i \in 1..Len(fs) : ps[i].target = fs[i]
    BY <1>1 DEF Entries
  <1> HIDE DEF ps
  <1>3. Targets(ps) \in Seq(Functions) /\ Len(Targets(ps)) = Len(fs)
    BY <1>2, TargetsTypes
  <1>4. \A i \in 1..Len(fs) : Targets(ps)[i] = fs[i]
    BY <1>2, TargetsTypes
  <1>5. Targets(ps) = fs
    BY <1>3, <1>4, SeqEqual
  <1> QED  BY <1>5 DEF ps

\* What is collected are sequences.
LEMMA CollectedTypes ==
    ASSUME TypeOK, NEW field \in Fields
    PROVE  Collected(field) \in Seq(Anything)
  <1>1. /\ app.provides \in Seq(Entries) /\ app.invokes \in Seq(Functions)
        /\ app.errorHooks \in Seq(Handlers) /\ app.err \in Seq(AllErrors)
    BY AppFields DEF TypeOK
  <1>2. Targets(app.provides) \in Seq(Anything)
    BY <1>1, TargetsTypes, SeqMonotonic DEF Anything
  <1>3. /\ app.invokes \in Seq(Anything) /\ app.errorHooks \in Seq(Anything)
        /\ app.err \in Seq(Anything)
    BY <1>1, SeqMonotonic DEF Anything
  <1> QED  BY <1>2, <1>3 DEF Collected, Fields

\* An option adds what it gives to what is collected, and a group adds nothing itself.
LEMMA ApplyCollects ==
    ASSUME TypeOK, Apply, NEW field \in Fields
    PROVE  /\ Head(todo).kind # "group" =>
                 Collected(field)' = Collected(field) \o Gives(Head(todo), field)
           /\ Head(todo).kind = "group" => Collected(field)' = Collected(field)
  <1> DEFINE o == Head(todo)
  <1>1. /\ app \in AppType /\ o \in AnyOption /\ Arg = o.arg
        /\ app.provides \in Seq(Entries)
        /\ Collected(field) \in Seq(Anything)
    BY ApplySteps, NextOption, AppFields, CollectedTypes DEF TypeOK, Arg
  <1>2. Collected(field) \o <<>> = Collected(field)
    BY <1>1, ConcatEmptySeq
  <1>3. ASSUME UNCHANGED <<app.provides, app.invokes, app.errorHooks, app.err>>
        PROVE  Collected(field)' = Collected(field)
    BY <1>3 DEF Collected
  <1> HIDE DEF o
  <1> USE DEF Applying, Applied, Fields
  <1>4. CASE ApplyProvide
    <2> DEFINE x == [i \in 1..Len(Arg) |-> [target |-> Arg[i], isSupply |-> FALSE]]
    <2>1. Arg \in Seq(Functions) /\ o.kind = "provide"
      BY <1>1, <1>4, OptionTypes DEF ApplyProvide, o
    <2>2. x \in Seq(Entries)
      BY <2>1 DEF Entries
    <2>3. Targets(x) = Arg
      BY <2>1, TargetsOfArgs
    <2> HIDE DEF x
    <2>4. /\ app'.provides = app.provides \o x
          /\ UNCHANGED <<app.invokes, app.errorHooks, app.err>>
      BY <1>1, <1>4 DEF ApplyProvide, AppType, x
    <2>5. Targets(app'.provides) = Targets(app.provides) \o Arg
      BY <1>1, <2>2, <2>3, <2>4, TargetsTypes
    <2>6. Gives(o, field) = IF field = "provides" THEN Arg ELSE <<>>
      BY <1>1, <2>1 DEF Gives
    <2> QED  BY <1>2, <2>1, <2>4, <2>5, <2>6 DEF Collected, o
  <1>5. CASE ApplySupply
    <2> DEFINE x == [i \in 1..Len(Supply(Arg)) |->
                        [target |-> Supply(Arg)[i], isSupply |-> TRUE]]
    <2>1. Arg \in Seq(Supplied) /\ o.kind = "supply"
      BY <1>1, <1>5, OptionTypes DEF ApplySupply, o
    <2>2. ASSUME NEW i \in 1..Len(Arg)  PROVE newSupplyConstructor(Arg[i]) \in Functions
      <3>1. Arg[i] \in Supplied
        BY <2>1
      <3> QED  BY <3>1 DEF newSupplyConstructor, Supplied, Functions, Forms
    <2>3. Supply(Arg) \in Seq(Functions) /\ Len(Supply(Arg)) = Len(Arg)
      BY <2>1, <2>2 DEF Supply
    <2>4. x \in Seq(Entries)
      BY <2>3 DEF Entries
    <2>5. Targets(x) = Supply(Arg)
      BY <2>3, TargetsOfArgs
    <2>6. /\ app'.provides = app.provides \o x
          /\ UNCHANGED <<app.invokes, app.errorHooks, app.err>>
      BY <1>1, <1>5, <2>3 DEF ApplySupply, AppType
    <2> HIDE DEF x
    <2>7. Targets(app'.provides) = Targets(app.provides) \o Supply(Arg)
      BY <1>1, <2>4, <2>5, <2>6, TargetsTypes
    <2>8. Gives(o, field) = IF field = "provides" THEN Supply(Arg) ELSE <<>>
      BY <1>1, <2>1 DEF Gives
    <2> QED  BY <1>2, <2>1, <2>6, <2>7, <2>8 DEF Collected, o
  <1>6. CASE ApplyInvoke
    <2>1. /\ app'.invokes = app.invokes \o Arg /\ o.kind = "invoke"
          /\ UNCHANGED <<app.provides, app.errorHooks, app.err>>
      BY <1>1, <1>6 DEF ApplyInvoke, AppType, o
    <2>2. Gives(o, field) = IF field = "invokes" THEN Arg ELSE <<>>
      BY <1>1, <2>1 DEF Gives
    <2> QED  BY <1>2, <2>1, <2>2 DEF Collected, o
  <1>7. CASE ApplyError
    <2>1. /\ app'.err = app.err \o NonNil(Arg) /\ o.kind = "error"
          /\ UNCHANGED <<app.provides, app.invokes, app.errorHooks>>
      BY <1>1, <1>7 DEF ApplyError, AppType, o
    <2>2. Gives(o, field) = IF field = "err" THEN NonNil(Arg) ELSE <<>>
      BY <1>1, <2>1 DEF Gives
    <2> QED  BY <1>2, <2>1, <2>2 DEF Collected, o
  <1>8. CASE ApplyErrorHook
    <2>1. /\ app'.errorHooks = app.errorHooks \o Arg /\ o.kind = "errorHook"
          /\ UNCHANGED <<app.provides, app.invokes, app.err>>
      BY <1>1, <1>8 DEF ApplyErrorHook, AppType, o
    <2>2. Gives(o, field) = IF field = "errorHooks" THEN Arg ELSE <<>>
      BY <1>1, <2>1 DEF Gives
    <2> QED  BY <1>2, <2>1, <2>2 DEF Collected, o
  <1>9. CASE ApplyGroup
    <2>1. o.kind = "group" /\ app' = app
      BY <1>9 DEF ApplyGroup, o
    <2> QED  BY <1>3, <2>1 DEF o
  <1>10. CASE \/ ApplyStartTimeout \/ ApplyStopTimeout \/ ApplyWithLogger
              \/ ApplyLogger \/ ApplyValidate
    <2>1. o.kind \in {"startTimeout", "stopTimeout", "withLogger", "logger", "validate"}
      BY <1>10 DEF ApplyStartTimeout, ApplyStopTimeout, ApplyWithLogger, ApplyLogger,
                   ApplyValidate, o
    <2>2. UNCHANGED <<app.provides, app.invokes, app.errorHooks, app.err>>
      BY <1>1, <1>10 DEF ApplyStartTimeout, ApplyStopTimeout, ApplyWithLogger,
                         ApplyLogger, ApplyValidate, AppType
    <2>3. Gives(o, field) = <<>>
      BY <2>1 DEF Gives
    <2> QED  BY <1>2, <1>3, <2>1, <2>2, <2>3 DEF o
  <1> QED  BY <1>4, <1>5, <1>6, <1>7, <1>8, <1>9, <1>10 DEF Apply

\* No step loses or adds anything of what was given.
LEMMA StepAsked ==
    ASSUME TypeOK, ErrorsAreKnown, AskedInv, [Next]_vars
    PROVE  AskedInv'
  <1>1. given' = given
    BY ApplySteps, AskedIsKept, NextSplits DEF vars
  <1>2. \A field : GivenTo(field)' = GivenTo(field)
    BY <1>1 DEF GivenTo
  <1>3. CASE Apply
    <2>1. pc = "options" /\ pc' = pc /\ todo # <<>>
      BY <1>3, ApplySteps
    <2>2. ASSUME NEW field \in Fields
          PROVE  Collected(field)' \o Asked(todo', field) = GivenTo(field)
      <3> DEFINE c == Collected(field)
                 g == Gives(Head(todo), field)
                 a == Asked(Tail(todo), field)
      <3>1. c \in Seq(Anything) /\ g \in Seq(Anything) /\ a \in Seq(Anything)
        BY <2>1, <2>2, CollectedTypes, NextOption, GivesTypes, AskedFacts
      <3>2. c \o Asked(todo, field) = GivenTo(field)
        BY <2>1, <2>2 DEF AskedInv
      <3>3. CASE Head(todo).kind = "group"
        <4>1. Asked(todo', field) = Asked(todo, field)
          BY <1>3, <2>1, <3>3, ApplySteps, AskedNext
        <4>2. Collected(field)' = c
          BY <1>3, <2>2, <3>3, ApplyCollects
        <4> QED  BY <3>2, <4>1, <4>2
      <3>4. CASE Head(todo).kind # "group"
        <4>1. Asked(todo', field) = a /\ Asked(todo, field) = g \o a
          BY <1>3, <2>1, <3>4, ApplySteps, AskedNext
        <4>2. Collected(field)' = c \o g
          BY <1>3, <2>2, <3>4, ApplyCollects
        <4> HIDE DEF c, g, a
        <4>3. Join(Join(c, g), a) = Join(c, Join(g, a))
          BY <3>1, JoinAssociative
        <4> QED  BY <3>2, <4>1, <4>2, <4>3 DEF Join
      <3> QED  BY <3>3, <3>4
    <2>3. \A field \in Fields : Asked(todo, field)' = Asked(todo', field)
      BY DEF Asked
    <2> QED  BY <1>2, <2>1, <2>2, <2>3 DEF AskedInv
  <1>4. CASE Prepare
    <2>1. pc = "options" /\ todo = <<>> /\ pc' = "provides"
      BY <1>4 DEF Prepare
    <2>2. ASSUME NEW field \in Fields  PROVE Collected(field) = GivenTo(field)
      <3>1. Collected(field) \o <<>> = Collected(field)
        BY <2>2, CollectedTypes, ConcatEmptySeq
      <3>2. Asked(todo, field) = <<>>
        BY <2>1, AskedNothing
      <3> QED  BY <2>1, <2>2, <3>1, <3>2 DEF AskedInv
    <2>3. UNCHANGED <<app.provides, app.invokes, app.errorHooks, app.err>>
      BY <1>4 DEF Prepare, TypeOK, AppType
    <2>4. \A field \in Fields : Collected(field)' = Collected(field)
      BY <2>3 DEF Collected
    <2>5. app.err = GivenTo("err")
      BY <2>2 DEF Collected, Fields
    <2> QED  BY <1>2, <2>1, <2>2, <2>3, <2>4, <2>5 DEF AskedInv
  <1>5. CASE Later /\ ~ Prepare
    <2>1. /\ pc # "options" /\ pc' # "options"
          /\ UNCHANGED <<app.provides, app.invokes, app.errorHooks>>
      BY <1>5, AskedIsKept
    <2>2. \A field \in Fields \ {"err"} : Collected(field)' = Collected(field)
      BY <2>1 DEF Collected, Fields
    <2>3. app'.err = <<>> => app.err = <<>>
      BY ErrGrows
    <2> QED  BY <1>2, <2>1, <2>2, <2>3 DEF AskedInv
  <1>6. CASE UNCHANGED vars
    <2>1. \A field \in Fields : Collected(field)' = Collected(field)
                                /\ Asked(todo, field)' = Asked(todo, field)
      BY <1>6 DEF vars, Collected, Asked
    <2> QED  BY <1>2, <1>6, <2>1 DEF vars, AskedInv
  <1> QED  BY <1>3, <1>4, <1>5, <1>6, NextSplits

\* Nothing is collected before the first option.
LEMMA InitAsked == ASSUME Init  PROVE AskedInv
  <1>1. TypeOK /\ pc = "options" /\ todo = given
    BY InitTypes DEF Init
  <1>2. ASSUME NEW field \in Fields  PROVE Collected(field) = <<>>
    <2>1. Targets(<<>>) = <<>>
      BY MapEmpty DEF Targets
    <2> QED  BY <2>1, <1>2 DEF Init, Collected, Fields
  <1>3. ASSUME NEW field \in Fields  PROVE <<>> \o Asked(todo, field) = GivenTo(field)
    <2>1. Asked(given, field) = GivenTo(field)
      BY DEF Asked, GivenTo
    <2>2. Asked(given, field) \in Seq(Anything)
      BY <1>1, AskedFacts DEF TypeOK
    <2> HIDE DEF Asked
    <2> QED  BY <1>1, <2>1, <2>2, ConcatEmptySeq
  <1> QED  BY <1>1, <1>2, <1>3 DEF AskedInv

-----------------------------------------------------------------------------
(* What a New without an error has put into the container and told of.         *)

LoggerCtor == IF Ctor = NoCtor THEN <<>> ELSE <<Ctor>>

\* es ends with the events of the first m invokes, and has no others of that type.
Told(es, fs, m) ==
    /\ m <= Len(es) /\ m <= Len(fs)
    /\ \A i \in 1..Len(es) : es[i].type = "Invoke" <=> i > Len(es) - m
    /\ \A i \in 1..m : es[Len(es) - m + i].of = fs[i]

\* The container has what was asked for, and then the constructor of WithLogger.
ContainerDone ==
    /\ pc = "logger" /\ app.err = <<>> => container = Targets(AllProvides)
    /\ pc = "custom" => Ctor # NoCtor
    /\ pc \in {"custom", "check", "invokes", "invoking", "done"} /\ app.err = <<>> =>
          container = Targets(AllProvides) \o LoggerCtor

\* The events tell of the invokes that New has come to.
InvokesTold ==
    /\ pc \in {"options", "provides", "logger", "custom", "noCustom", "check"} =>
          Told(emitted, app.invokes, 0)
    /\ pc = "invokes" => Told(emitted, app.invokes, n - 1)
    /\ pc = "invoking" => Told(emitted, app.invokes, n)
    /\ pc = "done" /\ app.err = <<>> =>
          Told(emitted, app.invokes, Len(app.invokes))

\* An event of another type keeps it that there was no invoke, and the event of the
\* next invoke comes last.
LEMMA ToldNext ==
    ASSUME NEW es \in Seq(Events), NEW fs \in Seq(Functions), NEW m \in Nat,
           Told(es, fs, m), NEW e \in Events
    PROVE  /\ m = 0 /\ e.type # "Invoke" => Told(Append(es, e), fs, 0)
           /\ e.type = "Invoke" /\ m + 1 <= Len(fs) /\ e.of = fs[m + 1] =>
                 Told(Append(es, e), fs, m + 1)
  <1> DEFINE es1 == Append(es, e)
  <1>1. /\ Len(es1) = Len(es) + 1 /\ Len(es) \in Nat /\ Len(fs) \in Nat
        /\ \A i \in 1..Len(es) : es1[i] = es[i]
        /\ es1[Len(es) + 1] = e
    BY AppendProperties, LenProperties
  <1> HIDE DEF es1
  <1>2. ASSUME m = 0, e.type # "Invoke"  PROVE Told(es1, fs, 0)
    <2>1. ASSUME NEW i \in 1..Len(es1)  PROVE es1[i].type # "Invoke"
      <3>1. CASE i = Len(es) + 1
        BY <1>1, <1>2, <3>1
      <3>2. CASE i \in 1..Len(es)
        BY <1>1, <1>2, <3>2 DEF Told
      <3> QED  BY <1>1, <3>1, <3>2
    <2> QED  BY <1>1, <2>1 DEF Told
  <1>3. ASSUME e.type = "Invoke", m + 1 <= Len(fs), e.of = fs[m + 1]
        PROVE  Told(es1, fs, m + 1)
    <2>1. ASSUME NEW i \in 1..Len(es1)
          PROVE  es1[i].type = "Invoke" <=> i > Len(es1) - (m + 1)
      <3>1. CASE i = Len(es) + 1
        BY <1>1, <1>3, <3>1
      <3>2. CASE i \in 1..Len(es)
        <4>1. es[i].type = "Invoke" <=> i > Len(es) - m
          BY <3>2 DEF Told
        <4> QED  BY <1>1, <3>2, <4>1
      <3> QED  BY <1>1, <3>1, <3>2
    <2>2. ASSUME NEW i \in 1..(m + 1)  PROVE es1[Len(es1) - (m + 1) + i].of = fs[i]
      <3>1. Len(es1) - (m + 1) + i = Len(es) - m + i
        BY <1>1
      <3>2. CASE i = m + 1
        <4>1. Len(es) - m + i = Len(es) + 1
          BY <1>1, <3>2
        <4> QED  BY <1>1, <1>3, <3>1, <3>2, <4>1
      <3>3. CASE i \in 1..m
        <4>1. Len(es) - m + i \in 1..Len(es)
          BY <1>1, <3>3 DEF Told
        <4>2. es[Len(es) - m + i].of = fs[i]
          BY <3>3 DEF Told
        <4> QED  BY <1>1, <3>1, <4>1, <4>2
      <3> QED  BY <3>2, <3>3
    <2> QED  BY <1>1, <1>3, <2>1, <2>2 DEF Told
  <1> QED  BY <1>2, <1>3 DEF es1
\* Constructors are added in the order of AllProvides, and nothing is added later.
LEMMA StepContainerDone ==
    ASSUME TypeOK, ErrorsAreKnown, Progress, ContainerDone, [Next]_vars
    PROVE  ContainerDone'
  <1>0. /\ app \in AppType /\ container \in Seq(Functions) /\ n \in Nat \ {0}
        /\ AllProvides \in Seq(Entries) /\ Len(AllProvides) \in Nat
        /\ Ctor \in Functions \cup {NoCtor}
    BY AppFields, ProvideTypes, LenProperties DEF TypeOK, Ctor
  <1>1. /\ Targets(AllProvides) \in Seq(Functions)
        /\ Len(Targets(AllProvides)) = Len(AllProvides)
        /\ \A i \in 1..Len(AllProvides) : Targets(AllProvides)[i] = AllProvides[i].target
    BY <1>0, TargetsTypes
  <1>2. Later => /\ Targets(AllProvides)' = Targets(AllProvides)
                 /\ Ctor' = Ctor /\ LoggerCtor' = LoggerCtor
    BY AskedIsKept DEF Targets, Map, LoggerCtor
  <1>3. app'.err = <<>> => app.err = <<>>
    BY ErrGrows
  <1>4. CASE Apply
    BY <1>4, ApplySteps DEF ContainerDone
  <1>5. CASE Prepare \/ ProvideSkip \/ ProvideRejected \/ ProvidePanic \/ ProvideOk
    BY <1>5 DEF Prepare, ProvideSkip, ProvideRejected, ProvidePanic, ProvideOk,
                Providing, ContainerDone
  <1>6. CASE ProvidesDone
    <2>1. /\ pc = "provides" /\ pc' = "logger" /\ n > Len(AllProvides)
          /\ app' = app /\ container' = container
      BY <1>6 DEF ProvidesDone, Elsewhere
    <2>2. ASSUME app.err = <<>>  PROVE container = Targets(AllProvides)
      <3>1. Len(container) = n - 1 /\ InOrder(container, AllProvides, n - 1)
        BY <2>1, <2>2 DEF Progress
      <3>2. n - 1 = Len(AllProvides)
        BY <1>0, <2>1, <3>1 DEF InOrder
      <3>3. \A i \in 1..Len(AllProvides) : container[i] = AllProvides[i].target
        BY <3>1, <3>2 DEF InOrder
      <3> QED  BY <1>0, <1>1, <3>1, <3>2, <3>3, SeqEqual
    <2> QED  BY <1>2, <1>6, <2>1, <2>2 DEF Later, ContainerDone
  <1>7. CASE NoCustomLogger
    <2>1. /\ pc = "logger" /\ pc' = "check" /\ app' = app /\ container' = container
          /\ LoggerCtor = <<>>
      BY <1>7 DEF NoCustomLogger, Elsewhere, LoggerCtor
    <2>2. Targets(AllProvides) \o <<>> = Targets(AllProvides)
      BY <1>1, ConcatEmptySeq
    <2> QED  BY <1>2, <1>7, <2>1, <2>2 DEF Later, ContainerDone
  <1>8. CASE BuildLogger \/ BuildLoggerDry
    <2>1. /\ pc = "logger" /\ pc' = "custom" /\ Ctor # NoCtor
          /\ app'.err = app.err /\ container' = Append(container, Ctor)
      BY <1>0, <1>8 DEF BuildLogger, BuildLoggerDry, WithCtor, AppType
    <2>2. container' = container \o <<Ctor>> /\ LoggerCtor = <<Ctor>>
      BY <1>0, <2>1, AppendIsConcat DEF LoggerCtor
    <2> QED  BY <1>2, <1>8, <2>1, <2>2 DEF Later, ContainerDone
  <1>9. CASE BuildLoggerFails
    BY <1>9 DEF BuildLoggerFails, ContainerDone
  <1>10. CASE CustomLogger \/ CheckErr \/ InvokeNext \/ InvokesDone \/ InvokeOk
    <2>1. /\ pc \in {"custom", "check", "invokes", "invoking"}
          /\ pc' \in {"check", "invokes", "invoking", "done"}
          /\ app' = app /\ container' = container
      BY <1>10 DEF CustomLogger, CheckErr, InvokeNext, InvokesDone, InvokeOk, Elsewhere
    <2> QED  BY <1>2, <1>10, <2>1 DEF Later, ContainerDone
  <1>11. CASE CustomLoggerError \/ InvokeFails \/ HandleError \/ HandlersDone
    <2>1. pc' \in {"done", "handle"} /\ (pc' = "done" => app.err # <<>>)
      BY <1>11 DEF CustomLoggerError, InvokeFails, HandleError, HandlersDone,
                   ErrorsAreKnown
    <2> QED  BY <1>3, <2>1 DEF ContainerDone
  <1>12. CASE UNCHANGED vars
    BY <1>12 DEF vars, ContainerDone, Targets, Map, AllProvides, LoggerCtor, Ctor
  <1> QED
    BY <1>4, <1>5, <1>6, <1>7, <1>8, <1>9, <1>10, <1>11, <1>12, NextSplits DEF Later

\* The events of the invokes come after all others, one each and in order.
LEMMA StepTold ==
    ASSUME TypeOK, ErrorsAreKnown, InvokesTold, [Next]_vars
    PROVE  InvokesTold'
  <1>0. /\ app \in AppType /\ n \in Nat \ {0} /\ emitted \in Seq(Events)
        /\ app.invokes \in Seq(Functions) /\ Len(app.invokes) \in Nat
        /\ Len(emitted) \in Nat
    BY AppFields, LenProperties DEF TypeOK, BufferType
  <1>1. Later => app'.invokes = app.invokes
    BY AskedIsKept
  <1>2. app'.err = <<>> => app.err = <<>>
    BY ErrGrows
  <1> DEFINE Before == {"options", "provides", "logger", "custom", "noCustom", "check"}
  <1>3. ASSUME Told(emitted, app.invokes, 0), emitted' = emitted,
               app' \in AppType
        PROVE  Told(emitted', app'.invokes, 0)
    <2>1. Len(app'.invokes) \in Nat
      BY <1>3, LenProperties DEF AppType
    <2> QED  BY <1>3, <2>1 DEF Told
  <1>4. CASE Apply
    BY <1>3, <1>4, ApplySteps DEF InvokesTold
  <1>5. CASE Later /\ pc \in Before \ {"check"}
    <2>1. Told(emitted, app.invokes, 0)
      BY <1>5 DEF InvokesTold
    <2>2. Told(emitted', app.invokes, 0)
      <3>1. ASSUME NEW e \in Events, emitted' = Append(emitted, e), e.type # "Invoke"
            PROVE  Told(emitted', app.invokes, 0)
        BY <1>0, <2>1, <3>1, ToldNext
      <3>2. \/ emitted' = emitted
            \/ \E e \in Events : emitted' = Append(emitted, e) /\ e.type # "Invoke"
        BY <1>5, EmittedGrows DEF InvokeNext
      <3> QED  BY <2>1, <3>1, <3>2
    <2>3. pc' \in Before \cup {"panic"} \/ (pc' = "done" /\ CustomLoggerError)
      BY <1>5 DEF Later, Prepare, ProvideSkip, ProvideRejected, ProvidePanic,
         ProvideOk, ProvidesDone, NoCustomLogger, BuildLogger, BuildLoggerDry,
         BuildLoggerFails, CustomLogger, CustomLoggerError, CheckErr, InvokeNext,
         InvokesDone, InvokeOk, InvokeFails, HandleError, HandlersDone, Providing
    <2>4. CustomLoggerError => app.err # <<>>
      BY DEF CustomLoggerError, ErrorsAreKnown
    <2> QED  BY <1>1, <1>2, <1>5, <2>2, <2>3, <2>4 DEF InvokesTold
  <1>6. CASE CheckErr
    <2>1. /\ Told(emitted, app.invokes, 0) /\ emitted' = emitted /\ app' = app
          /\ n' - 1 = 0
          /\ pc' = "invokes" \/ (pc' = "done" /\ app.err # <<>>)
      BY <1>6 DEF CheckErr, InvokesTold, bufferVars
    <2> QED  BY <2>1 DEF InvokesTold
  <1>7. CASE InvokeNext
    <2> DEFINE m == n - 1
               e == Event("Invoke", Fn)
    <2>1. /\ m \in Nat /\ m + 1 = n /\ n <= Len(app.invokes) /\ n' = n /\ app' = app
          /\ pc' = "invoking" /\ emitted' = Append(emitted, e)
          /\ Told(emitted, app.invokes, m)
      BY <1>0, <1>7 DEF InvokeNext, Elsewhere, Log, InvokesTold
    <2>2. e \in Events /\ e.type = "Invoke" /\ e.of = app.invokes[n]
      BY <2>1, EventTypes, FnTypes DEF Types, Event, Fn
    <2> HIDE DEF m, e
    <2>3. Told(emitted', app.invokes, m + 1)
      BY <1>0, <2>1, <2>2, ToldNext
    <2> QED  BY <2>1, <2>3 DEF InvokesTold
  <1>8. CASE InvokesDone
    <2>1. /\ pc' = "done" /\ emitted' = emitted /\ app' = app
          /\ n > Len(app.invokes) /\ Told(emitted, app.invokes, n - 1)
      BY <1>8 DEF InvokesDone, InvokesTold, bufferVars
    <2>2. n - 1 = Len(app.invokes)
      BY <1>0, <2>1 DEF Told
    <2> QED  BY <2>1, <2>2 DEF InvokesTold
  <1>9. CASE InvokeOk
    <2>1. /\ pc = "invoking" /\ pc' = "invokes" /\ n' - 1 = n /\ emitted' = emitted
          /\ app' = app
      BY <1>0, <1>9 DEF InvokeOk, bufferVars
    <2> QED  BY <2>1 DEF InvokesTold
  <1>10. CASE InvokeFails \/ HandleError \/ HandlersDone
    <2>1. pc' = "handle" \/ (pc' = "done" /\ app.err # <<>>)
      BY <1>10 DEF InvokeFails, HandleError, HandlersDone, ErrorsAreKnown
    <2> QED  BY <1>2, <2>1 DEF InvokesTold
  <1>11. CASE UNCHANGED vars
    BY <1>11 DEF vars, bufferVars, InvokesTold
  <1>12. Later => \/ pc \in Before \ {"check"} \/ CheckErr \/ InvokeNext \/ InvokesDone
                  \/ InvokeOk \/ InvokeFails \/ HandleError \/ HandlersDone
    BY DEF Later, Prepare, ProvideSkip, ProvideRejected, ProvidePanic, ProvideOk,
           ProvidesDone, NoCustomLogger, BuildLogger, BuildLoggerDry, BuildLoggerFails,
           CustomLogger, CustomLoggerError, Providing
  <1> QED  BY <1>4, <1>5, <1>6, <1>7, <1>8, <1>9, <1>10, <1>11, <1>12, NextSplits
-----------------------------------------------------------------------------
(* The invariant and what follows from it. *)

CompleteInv == NewInv /\ AskedInv /\ ContainerDone /\ InvokesTold

\* New keeps it, for any options.
THEOREM CompleteInvariant == Spec => []CompleteInv
  <1>1. ASSUME Init  PROVE CompleteInv
    <2>1. NewInv /\ AskedInv
      BY <1>1, InitInv, InitAsked
    <2>2. ContainerDone
      BY <1>1 DEF Init, ContainerDone
    <2>3. InvokesTold
      <3>1. emitted = <<>> /\ app.invokes = <<>> /\ pc = "options"
        BY <1>1 DEF Init
      <3>2. Told(<<>>, <<>>, 0)
        BY DEF Told
      <3> QED  BY <3>1, <3>2 DEF InvokesTold
    <2> QED  BY <2>1, <2>2, <2>3 DEF CompleteInv
  <1>2. ASSUME CompleteInv, [Next]_vars  PROVE CompleteInv'
    BY <1>2, StepInv, StepAsked, StepContainerDone, StepTold DEF CompleteInv, NewInv
  <1> QED  BY <1>1, <1>2, PTL DEF Spec

\* The constructors of the App are those that the options gave, and then Fx's own.
LEMMA AllTargets ==
    ASSUME app \in AppType
    PROVE  Targets(AllProvides)
              = Targets(app.provides) \o [i \in 1..Len(Defaults) |-> Defaults[i].target]
  <1>1. Defaults \in Seq(Entries)
    BY DEF Defaults, Default, Entries, Functions, Forms, FxKeys
  <1>2. app.provides \in Seq(Entries)
    BY AppFields
  <1> HIDE DEF Defaults
  <1>3. Targets(app.provides \o Defaults) = Targets(app.provides) \o Targets(Defaults)
    BY <1>1, <1>2, TargetsTypes
  <1>4. /\ Targets(Defaults) = [i \in 1..Len(Defaults) |-> TargetOf[Defaults[i]]]
        /\ \A i \in 1..Len(Defaults) : Defaults[i] \in Entries
    BY <1>1, ElementOfSeq DEF Targets, Map
  <1>5. Targets(Defaults) = [i \in 1..Len(Defaults) |-> Defaults[i].target]
    BY <1>4 DEF TargetOf
  <1> QED  BY <1>3, <1>5 DEF AllProvides

\* If New returns without an error, no option gave one, and everything that the
\* options ask for was done, once and in order, however they are grouped and however
\* deep: constructors, events of the invokes and calls.
THEOREM CleanIsComplete == Spec => []CleanMeansComplete
  <1>1. ASSUME CompleteInv, pc = "done", app.err = <<>>
        PROVE  /\ GivenTo("err") = <<>>
               /\ container = GivenTo("provides")
                     \o [i \in 1..Len(Defaults) |-> Defaults[i].target]
                     \o IF Ctor = NoCtor THEN <<>> ELSE <<Ctor>>
               /\ LET k == Len(emitted) - Len(GivenTo("invokes"))
                  IN  /\ {i \in 1..Len(emitted) : emitted[i].type = "Invoke"}
                             = (k + 1)..Len(emitted)
                      /\ [i \in 1..Len(GivenTo("invokes")) |-> emitted[k + i].of]
                             = GivenTo("invokes")
               /\ ~ DryRun => called = GivenTo("invokes")
    <2>1. /\ app \in AppType /\ emitted \in Seq(Events)
          /\ app.invokes \in Seq(Functions)
          /\ Len(emitted) \in Nat /\ Len(app.invokes) \in Nat
      BY <1>1, AppFields, LenProperties DEF CompleteInv, NewInv, TypeOK, BufferType
    <2>2. /\ GivenTo("err") = <<>>
          /\ \A field \in Fields \ {"err"} : Collected(field) = GivenTo(field)
      BY <1>1 DEF CompleteInv, AskedInv
    <2>3. GivenTo("provides") = Targets(app.provides) /\ GivenTo("invokes") = app.invokes
      BY <2>2 DEF Fields, Collected
    <2>4. container = Targets(AllProvides) \o LoggerCtor
      BY <1>1 DEF CompleteInv, ContainerDone
    <2>5. container = GivenTo("provides")
                         \o [i \in 1..Len(Defaults) |-> Defaults[i].target]
                         \o IF Ctor = NoCtor THEN <<>> ELSE <<Ctor>>
      BY <2>1, <2>3, <2>4, AllTargets DEF LoggerCtor
    <2> DEFINE k == Len(emitted) - Len(app.invokes)
    <2>6. Told(emitted, app.invokes, Len(app.invokes))
      BY <1>1 DEF CompleteInv, InvokesTold
    <2>7. k \in Nat /\ \A i \in 1..Len(emitted) : emitted[i].type = "Invoke" <=> i > k
      BY <2>1, <2>6 DEF Told
    <2>8. \A i \in 1..Len(app.invokes) : emitted[k + i].of = app.invokes[i]
      BY <2>6 DEF Told
    <2> HIDE DEF k
    <2>9. {i \in 1..Len(emitted) : emitted[i].type = "Invoke"} = (k + 1)..Len(emitted)
      <3>1. (k + 1)..Len(emitted) = {i \in 1..Len(emitted) : i > k}
        BY <2>1, <2>7
      <3> QED  BY <2>7, <3>1
    <2>10. [i \in 1..Len(app.invokes) |-> emitted[k + i].of] = app.invokes
      <3>1. app.invokes = [i \in 1..Len(app.invokes) |-> app.invokes[i]]
        BY <2>1
      <3> QED  BY <2>8, <3>1
    <2>11. ~ DryRun => called = app.invokes
      BY <1>1 DEF CompleteInv, NewInv, DryRunKnown, Progress
    <2> QED  BY <2>2, <2>3, <2>5, <2>9, <2>10, <2>11 DEF k
  <1>2. CompleteInv => CleanMeansComplete
    BY <1>1 DEF CleanMeansComplete
  <1> QED  BY <1>2, CompleteInvariant, PTL

\* When New returns, every error handler that the options gave has heard of an invoke
\* that failed, once and in order, after its event, and of nothing else.
THEOREM HandlersAreCalled == Spec => []HandlersHear
  <1>1. ASSUME CompleteInv
        PROVE  /\ pc = "done" =>
                    heard = IF InvokeFailed(emitted) THEN GivenTo("errorHooks") ELSE <<>>
               /\ heard # <<>> => InvokeFailed(emitted)
    <2>1. pc = "done" => app.errorHooks = GivenTo("errorHooks")
      BY <1>1 DEF CompleteInv, AskedInv, Fields, Collected
    <2>2. pc = "done" =>
             heard = IF InvokeFailed(emitted) THEN app.errorHooks ELSE <<>>
      BY <1>1 DEF CompleteInv, NewInv, HandlersProgress
    <2>3. heard # <<>> => InvokeFailed(emitted)
      BY <1>1 DEF CompleteInv, NewInv, HandlersProgress
    <2> QED  BY <2>1, <2>2, <2>3
  <1>2. CompleteInv => HandlersHear
    BY <1>1 DEF HandlersHear, InvokeFailed
  <1> QED  BY <1>2, CompleteInvariant, PTL


=============================================================================

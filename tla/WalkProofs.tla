----------------------------- MODULE WalkProofs -----------------------------
(***************************************************************************)
(* Theorems about the three walks of MCWalks, each for any input:           *)
(*   Extract       what fx.Extract and fx.Populate fill, and that nothing   *)
(*                 is filled unless everything can be;                     *)
(*   Stack         the caller that is named is the innermost frame of a     *)
(*                 client, if the stack was read so far;                   *)
(*   AllFxEvents   the analyser reports exactly the loggers that handle     *)
(*                 some events and not all.                                *)
(***************************************************************************)
EXTENDS Extract, Stack, AllFxEvents, FiniteSetTheorems, FunctionTheorems,
        SequenceTheorems, TLAPS

-----------------------------------------------------------------------------
(* Extract and Populate: the invariant of the walk, and of the function that it
   generates. *)

Count    == Len(job.items)
Offset   == IF job.op = "extract" THEN 1 ELSE 0
Taken(i) == \E t \in 1..Len(targets) : targets[t] = i
ToFill   == {i \in 1..Count : Wanted(i)}
Given    == Keys \cup {"preset", "zero"}

\* The function has begun to copy.
Copying == xpc \in {"fill", "done"} \/ (xpc = "panic" /\ job.op = "populate")

ExtractType ==
    /\ job \in Jobs
    /\ xpc \in {"walk", "failed", "panic", "fill", "done"}
    /\ x \in Nat \ {0}
    /\ fields \in Seq(Keys \cup {"In"})
    /\ targets \in Seq(Nat)
    /\ value \in [1..Count -> Given]

\* The two lists go together, and no item is in them twice.
SideBySide ==
    /\ Len(fields) = Len(targets) + Offset
    /\ \A t \in 1..Len(targets) :
          /\ targets[t] \in ToFill
          /\ fields[t + Offset] = job.items[targets[t]].key
          /\ job.op = "populate" =>
                job.items[targets[t]].shape \in {"pointer", "nilPointer"}
    /\ \A s, t \in 1..Len(targets) : s < t => targets[s] < targets[t]

\* The walk takes every item that is wanted.
WalkTakesAll ==
    /\ xpc = "walk" =>
          /\ \A t \in 1..Len(targets) : targets[t] < x
          /\ \A i \in ToFill : i < x => Taken(i)
    /\ Copying =>
          /\ \A i \in ToFill : Taken(i)
          /\ \A t \in 1..Len(targets) : Available(targets[t])

\* The targets before x have their values, the other items are as they were.
CopiedSoFar ==
    /\ xpc \in {"walk", "failed"} => \A i \in 1..Count : value[i] = "preset"
    /\ xpc = "panic" =>
          IF job.op = "extract" THEN job.shape \in {"nil", "nilPointer"}
          ELSE x <= Len(targets) /\ job.items[targets[x]].shape = "nilPointer"
    /\ xpc = "done" => x = Len(targets) + 1
    /\ Copying =>
          /\ x <= Len(targets) + 1
          /\ \A t \in 1..Len(targets) : t < x =>
                /\ value[targets[t]] = Passed(job.items[targets[t]].key)
                /\ job.op = "populate" => job.items[targets[t]].shape = "pointer"
          /\ \A i \in 1..Count :
                (\A t \in 1..Len(targets) : t < x => targets[t] # i)
                => value[i] = "preset"

ExtractInv == ExtractType /\ SideBySide /\ WalkTakesAll /\ CopiedSoFar

-----------------------------------------------------------------------------
\* What a call is made of.
LEMMA JobType ==
    ASSUME job \in Jobs
    PROVE  /\ Count \in Nat
           /\ Offset \in {0, 1}
           /\ job.op \in {"extract", "populate"}
           /\ \A i \in 1..Count : job.items[i].key \in Keys
           /\ \A i \in 1..Count : job.op = "extract" =>
                 (Kept(job.items[i]) <=> Wanted(i))
           /\ \A i \in 1..Count : job.op = "populate" =>
                 /\ Wanted(i)
                 /\ job.items[i].shape \in {"pointer", "nilPointer", "nil", "other"}
           /\ job.op = "extract" =>
                 job.shape \in {"structPointer", "other", "nil", "nilPointer"}
  <1>1. CASE job.op = "extract"
    <2>1. /\ job.items \in Seq(FieldItems)
          /\ job.shape \in {"structPointer", "other", "nil", "nilPointer"}
          /\ \A i \in 1..Len(job.items) :
                job.items[i].anonymous \/ job.items[i].noPkgPath = job.items[i].upper
      BY <1>1, JobsAssumption
    <2>2. \A i \in 1..Count : job.items[i] \in FieldItems
      BY <2>1, ElementOfSeq DEF Count
    <2>3. \A i \in 1..Count : job.items[i].key \in Keys
      BY <2>2 DEF FieldItems
    <2>4. \A i \in 1..Count : Kept(job.items[i]) <=> Wanted(i)
      BY <1>1, <2>1, <2>2 DEF FieldItems, Kept, Wanted, Count
    <2>5. Count \in Nat /\ Offset = 1
      BY <1>1, <2>1, LenProperties DEF Count, Offset
    <2> QED  BY <1>1, <2>1, <2>3, <2>4, <2>5
  <1>2. CASE job.op = "populate"
    <2>1. job.items \in Seq(TargetItems)
      BY <1>2, JobsAssumption
    <2>2. \A i \in 1..Count : job.items[i] \in TargetItems
      BY <2>1, ElementOfSeq DEF Count
    <2>3. \A i \in 1..Count :
             /\ job.items[i].key \in Keys
             /\ job.items[i].shape \in {"pointer", "nilPointer", "nil", "other"}
      BY <2>2 DEF TargetItems
    <2>4. Count \in Nat /\ Offset = 0
      BY <1>2, <2>1, LenProperties DEF Count, Offset
    <2> QED  BY <1>2, <2>3, <2>4 DEF Wanted
  <1> QED  BY <1>1, <1>2, JobsAssumption

\* The walk starts with an empty list of targets.
LEMMA ExtractInitInv == ASSUME ExtractInit  PROVE ExtractInv
  <1>1. PICK j \in Jobs : ExtractStart(j)
    BY DEF ExtractInit
  <1>2. /\ job \in Jobs /\ xpc = "walk" /\ x = 1 /\ targets = << >>
        /\ fields = IF job.op = "extract" THEN <<"In">> ELSE << >>
        /\ value = [i \in 1..Count |-> "preset"]
    BY <1>1 DEF ExtractStart, Count
  <1>3. Count \in Nat /\ job.op \in {"extract", "populate"}
    BY <1>2, JobType
  <1>4. ExtractType
    <2>1. <<"In">> \in Seq(Keys \cup {"In"}) /\ << >> \in Seq(Keys \cup {"In"})
      OBVIOUS
    <2>2. fields \in {<<"In">>, << >>}
      BY <1>2, <1>3
    <2>3. fields \in Seq(Keys \cup {"In"})
      BY <2>1, <2>2
    <2>4. targets \in Seq(Nat)
      BY <1>2
    <2>5. value \in [1..Count -> Given]
      BY <1>2 DEF Given
    <2> QED  BY <1>2, <2>3, <2>4, <2>5 DEF ExtractType
  <1>5. SideBySide
    BY <1>2, <1>3 DEF SideBySide, Offset
  <1>6. WalkTakesAll /\ CopiedSoFar
    BY <1>2, <1>3 DEF WalkTakesAll, CopiedSoFar, Copying, ToFill
  <1> QED  BY <1>4, <1>5, <1>6 DEF ExtractInv

-----------------------------------------------------------------------------
\* An item is kept: it is the last of both lists.
LEMMA Keeping ==
    ASSUME ExtractInv, xpc = "walk", x <= Count, Wanted(x),
           job.op = "populate" => job.items[x].shape \in {"pointer", "nilPointer"},
           fields' = Append(fields, job.items[x].key), targets' = Append(targets, x),
           x' = x + 1, UNCHANGED <<job, xpc, value>>
    PROVE  ExtractInv'
  <1>1. /\ fields \in Seq(Keys \cup {"In"}) /\ targets \in Seq(Nat)
        /\ x \in 1..Count /\ Count \in Nat /\ job.items[x].key \in Keys
        /\ Offset \in {0, 1} /\ Len(targets) \in Nat
    BY JobType, LenProperties DEF ExtractInv, ExtractType
  <1>2. /\ fields' \in Seq(Keys \cup {"In"}) /\ Len(fields') = Len(fields) + 1
        /\ \A i \in 1..Len(fields) : fields'[i] = fields[i]
        /\ fields'[Len(fields) + 1] = job.items[x].key
    <2> DEFINE key == job.items[x].key
    <2>1. key \in Keys \cup {"In"}
      BY <1>1
    <2>2. fields' = Append(fields, key)
      OBVIOUS
    <2> HIDE DEF key
    <2>3. /\ fields' \in Seq(Keys \cup {"In"}) /\ Len(fields') = Len(fields) + 1
          /\ \A i \in 1..Len(fields) : fields'[i] = fields[i]
          /\ fields'[Len(fields) + 1] = key
      BY <1>1, <2>1, <2>2, AppendProperties
    <2> QED  BY <2>3 DEF key
  <1>3. /\ targets' \in Seq(Nat) /\ Len(targets') = Len(targets) + 1
        /\ \A i \in 1..Len(targets) : targets'[i] = targets[i]
        /\ targets'[Len(targets) + 1] = x
    BY <1>1, AppendProperties
  <1>4. /\ Count' = Count /\ Offset' = Offset /\ ToFill' = ToFill
        /\ x \in ToFill /\ ~ Copying /\ ~ Copying'
    BY <1>1 DEF Count, Offset, Wanted, Copying, ToFill
  <1>5. ExtractType'
    BY <1>1, <1>2, <1>3, <1>4 DEF ExtractInv, ExtractType
  <1>6. SideBySide'
    <2>1. Len(fields') = Len(targets') + Offset'
      BY <1>1, <1>2, <1>3, <1>4 DEF ExtractInv, SideBySide
    <2>2. ASSUME NEW t \in 1..Len(targets')
          PROVE  /\ targets'[t] \in ToFill'
                 /\ fields'[t + Offset'] = job'.items[targets'[t]].key
                 /\ job'.op = "populate" =>
                       job'.items[targets'[t]].shape \in {"pointer", "nilPointer"}
      <3>1. CASE t = Len(targets) + 1
        <4>1. fields'[t + Offset'] = job.items[x].key
          BY <1>1, <1>2, <1>4, <3>1 DEF ExtractInv, SideBySide
        <4> QED  BY <1>1, <1>3, <1>4, <3>1, <4>1
      <3>2. CASE t \in 1..Len(targets)
        <4>1. targets'[t] = targets[t] /\ fields'[t + Offset'] = fields[t + Offset]
          BY <1>1, <1>2, <1>3, <1>4, <3>2 DEF ExtractInv, SideBySide
        <4> QED  BY <1>4, <3>2, <4>1 DEF ExtractInv, SideBySide
      <3>3. t = Len(targets) + 1 \/ t \in 1..Len(targets)
        BY <1>1, <1>3
      <3> QED  BY <3>1, <3>2, <3>3
    <2>3. \A s, t \in 1..Len(targets') : s < t => targets'[s] < targets'[t]
      <3>1. TAKE s, t \in 1..Len(targets')
      <3>2. HAVE s < t
      <3>3. s \in 1..Len(targets) /\ targets'[s] = targets[s]
        BY <1>1, <1>3, <3>2
      <3>4. CASE t = Len(targets) + 1
        BY <1>3, <3>3, <3>4 DEF ExtractInv, WalkTakesAll
      <3>5. CASE t \in 1..Len(targets)
        BY <1>3, <3>2, <3>3, <3>5 DEF ExtractInv, SideBySide
      <3>6. t = Len(targets) + 1 \/ t \in 1..Len(targets)
        BY <1>1, <1>3
      <3> QED  BY <3>4, <3>5, <3>6
    <2> QED  BY <2>1, <2>2, <2>3 DEF SideBySide
  <1>7. \A i \in ToFill : i < x' => Taken(i)'
    <2>1. TAKE i \in ToFill
    <2>2. HAVE i < x'
    <2>3. CASE i = x
      BY <1>1, <1>3, <2>3 DEF Taken
    <2>4. CASE i < x
      <3>1. PICK t \in 1..Len(targets) : targets[t] = i
        BY <2>2, <2>4 DEF ExtractInv, WalkTakesAll, Taken, ToFill
      <3>2. t \in 1..Len(targets') /\ targets'[t] = i
        BY <1>1, <1>3, <3>1
      <3> QED  BY <3>2 DEF Taken
    <2> QED  BY <1>1, <2>2, <2>3, <2>4 DEF ToFill
  <1>8. ASSUME NEW t \in 1..Len(targets')  PROVE targets'[t] < x'
    <2>1. CASE t = Len(targets) + 1
      BY <1>1, <1>3, <2>1
    <2>2. CASE t \in 1..Len(targets)
      <3>1. targets[t] < x /\ targets'[t] = targets[t]
        BY <1>1, <1>3, <2>2 DEF ExtractInv, WalkTakesAll
      <3>2. targets[t] \in Nat /\ x \in Nat
        BY <1>1, <2>2 DEF ExtractInv, ExtractType
      <3> QED  BY <1>1, <3>1, <3>2
    <2> QED  BY <1>1, <1>3, <1>8, <2>1, <2>2
  <1>9. WalkTakesAll' /\ CopiedSoFar'
    BY <1>4, <1>7, <1>8 DEF ExtractInv, WalkTakesAll, CopiedSoFar
  <1> QED  BY <1>5, <1>6, <1>9 DEF ExtractInv

\* A value is copied to its target.
LEMMA Copies ==
    ASSUME ExtractInv, xpc = "fill", x <= Len(targets),
           job.op = "populate" => job.items[targets[x]].shape = "pointer",
           value' = [value EXCEPT ![targets[x]] = Passed(fields[x + Offset])],
           x' = x + 1, UNCHANGED <<job, xpc, fields, targets>>
    PROVE  ExtractInv'
  <1>1. /\ targets \in Seq(Nat) /\ Len(targets) \in Nat /\ x \in 1..Len(targets)
        /\ Count \in Nat /\ \A i \in 1..Count : job.items[i].key \in Keys
        /\ value \in [1..Count -> Given]
    BY JobType, LenProperties DEF ExtractInv, ExtractType
  <1>2. /\ Count' = Count /\ Offset' = Offset /\ ToFill' = ToFill
        /\ Copying /\ Copying'
    BY DEF Count, Offset, Wanted, ToFill, Copying
  <1>3. targets[x] \in 1..Count /\ fields[x + Offset] = job.items[targets[x]].key
    BY <1>1 DEF ExtractInv, SideBySide, ToFill
  <1>4. Passed(fields[x + Offset]) \in Given
    BY <1>1, <1>3 DEF Passed, Given
  <1>5. /\ value' \in [1..Count -> Given]
        /\ value'[targets[x]] = Passed(job.items[targets[x]].key)
        /\ \A i \in 1..Count : i # targets[x] => value'[i] = value[i]
    BY <1>1, <1>3, <1>4
  <1>6. ExtractType'
    BY <1>1, <1>2, <1>5 DEF ExtractInv, ExtractType
  <1>7. SideBySide' /\ WalkTakesAll'
    BY <1>2 DEF ExtractInv, SideBySide, WalkTakesAll, Taken, Available
  <1>8. ASSUME NEW t \in 1..Len(targets), t < x + 1
        PROVE  /\ value'[targets[t]] = Passed(job.items[targets[t]].key)
               /\ job.op = "populate" => job.items[targets[t]].shape = "pointer"
    <2>1. CASE t = x
      BY <1>5, <2>1
    <2>2. CASE t < x
      <3>1. targets[t] \in 1..Count /\ targets[t] # targets[x]
        BY <1>1, <2>2 DEF ExtractInv, SideBySide, ToFill
      <3>2. /\ value[targets[t]] = Passed(job.items[targets[t]].key)
            /\ job.op = "populate" => job.items[targets[t]].shape = "pointer"
        BY <1>2, <2>2 DEF ExtractInv, CopiedSoFar
      <3> QED  BY <1>5, <3>1, <3>2
    <2> QED  BY <1>1, <1>8, <2>1, <2>2
  <1>9. ASSUME NEW i \in 1..Count,
               \A t \in 1..Len(targets) : t < x + 1 => targets[t] # i
        PROVE  value'[i] = "preset"
    <2>1. i # targets[x] /\ \A t \in 1..Len(targets) : t < x => targets[t] # i
      BY <1>1, <1>9
    <2>2. value[i] = "preset"
      BY <1>2, <2>1 DEF ExtractInv, CopiedSoFar
    <2> QED  BY <1>5, <2>1, <2>2
  <1>10. CopiedSoFar'
    BY <1>1, <1>2, <1>8, <1>9 DEF CopiedSoFar, Passed
  <1> QED  BY <1>6, <1>7, <1>10 DEF ExtractInv

\* Every step of the walk, and of the function, keeps the invariant.
LEMMA ExtractStepInv ==
    ASSUME ExtractInv, [ExtractNext]_extractVars  PROVE ExtractInv'
  <1>1. /\ job \in Jobs /\ x \in Nat \ {0} /\ Count \in Nat
        /\ Len(targets) \in Nat /\ job.op \in {"extract", "populate"}
    BY JobType, LenProperties DEF ExtractInv, ExtractType
  <1>2. job' = job
    BY DEF ExtractNext, extractVars, BadStruct, NilStruct, SkipField, KeepField,
           BadTarget, KeepTarget, InvokeFill, InvokeMissing, FillField, FillTarget,
           FillPanics, Filled, Fails, Panics
  <1>3. Count' = Count /\ Offset' = Offset /\ ToFill' = ToFill
    BY <1>2 DEF Count, Offset, Wanted, ToFill
  <1>4. /\ \A i : Available(i)' <=> Available(i)
        /\ \A k : Passed(k)' = Passed(k)
        /\ UNCHANGED targets => \A i : Taken(i)' <=> Taken(i)
    BY <1>2 DEF Available, Passed, Taken
  <1> DEFINE Same == UNCHANGED <<job, fields, targets, value>>
  <1>5. ASSUME Same  PROVE SideBySide'
    BY <1>3, <1>5 DEF ExtractInv, SideBySide
  <1>6. CASE xpc = "walk" /\ Fails
    <2>1. ExtractType' /\ WalkTakesAll' /\ CopiedSoFar'
      BY <1>1, <1>3, <1>6
         DEF Fails, ExtractInv, ExtractType, WalkTakesAll, CopiedSoFar, Copying
    <2> QED  BY <1>5, <1>6, <2>1 DEF ExtractInv, Fails
  <1>7. CASE NilStruct
    <2>1. ExtractType' /\ WalkTakesAll' /\ CopiedSoFar'
      BY <1>1, <1>3, <1>7
         DEF NilStruct, Walking, Panics, ExtractInv, ExtractType, WalkTakesAll,
             CopiedSoFar, Copying
    <2> QED  BY <1>5, <1>7, <2>1 DEF ExtractInv, NilStruct, Panics
  <1>8. CASE SkipField
    <2>1. /\ xpc = "walk" /\ xpc' = "walk" /\ x' = x + 1 /\ x \in 1..Count /\ Same
          /\ job.op = "extract" /\ ~ Kept(job.items[x])
      BY <1>1, <1>8 DEF SkipField, FieldLeft, Walking, Item, Count
    <2>2. x \notin ToFill
      BY <1>1, <2>1, JobType DEF ToFill
    <2>3. \A i \in ToFill' : i < x' => Taken(i)'
      BY <1>1, <1>3, <1>4, <2>1, <2>2 DEF ExtractInv, WalkTakesAll, ToFill
    <2>4. \A t \in 1..Len(targets) : targets[t] < x'
      BY <1>1, <2>1 DEF ExtractInv, ExtractType, SideBySide, WalkTakesAll, ToFill
    <2>5. ExtractType' /\ WalkTakesAll' /\ CopiedSoFar'
      BY <1>1, <1>3, <2>1, <2>3, <2>4
         DEF ExtractInv, ExtractType, WalkTakesAll, CopiedSoFar, Copying
    <2> QED  BY <1>5, <2>1, <2>5 DEF ExtractInv
  <1>9. CASE KeepField
    <2>1. Wanted(x)
      BY <1>1, <1>9, JobType DEF KeepField, FieldLeft, Walking, Item, Count
    <2> QED  BY <1>9, <2>1, Keeping DEF KeepField, FieldLeft, Walking, Item, Count
  <1>10. CASE KeepTarget
    <2>1. Wanted(x)
      BY <1>10 DEF KeepTarget, Walking, Wanted
    <2> QED  BY <1>10, <2>1, Keeping DEF KeepTarget, Walking, Item, Count
  <1>11. CASE InvokeFill
    <2>1. /\ xpc = "walk" /\ xpc' = "fill" /\ x' = 1 /\ Same /\ x > Count
          /\ \A t \in 1..Len(targets) : Available(targets[t])
      BY <1>11 DEF InvokeFill, Ready, Count
    <2>2. \A i \in ToFill' : Taken(i)'
      BY <1>1, <1>3, <1>4, <2>1 DEF ExtractInv, WalkTakesAll, ToFill
    <2>3. ExtractType' /\ WalkTakesAll' /\ CopiedSoFar'
      BY <1>1, <1>3, <1>4, <2>1, <2>2
         DEF ExtractInv, ExtractType, WalkTakesAll, CopiedSoFar, Copying
    <2> QED  BY <1>5, <2>1, <2>3 DEF ExtractInv
  <1>12. CASE FillField
    <2>1. x <= Len(targets) /\ Offset = 1
      BY <1>1, <1>12 DEF FillField, ExtractInv, SideBySide, Offset
    <2> QED  BY <1>12, <2>1, Copies DEF FillField
  <1>13. CASE FillTarget
    <2>1. x <= Len(targets) /\ Offset = 0 /\ x + Offset = x
      BY <1>1, <1>13 DEF FillTarget, Filling, ExtractInv, SideBySide, Offset
    <2> QED  BY <1>13, <2>1, Copies DEF FillTarget, Filling
  <1>14. CASE FillPanics
    <2>1. /\ xpc = "fill" /\ xpc' = "panic" /\ UNCHANGED x /\ Same /\ job.op = "populate"
          /\ x <= Len(targets) /\ job.items[targets[x]].shape = "nilPointer"
      BY <1>1, <1>14
         DEF FillPanics, Filling, Panics, ExtractInv, SideBySide, Offset
    <2>2. ExtractType' /\ WalkTakesAll' /\ CopiedSoFar'
      BY <1>1, <1>3, <1>4, <2>1
         DEF ExtractInv, ExtractType, WalkTakesAll, CopiedSoFar, Copying
    <2> QED  BY <1>5, <2>1, <2>2 DEF ExtractInv
  <1>15. CASE Filled
    <2>1. /\ xpc = "fill" /\ xpc' = "done" /\ UNCHANGED x /\ Same /\ x > Len(targets)
      BY <1>15 DEF Filled
    <2>2. ExtractType' /\ WalkTakesAll' /\ CopiedSoFar'
      BY <1>1, <1>3, <1>4, <2>1
         DEF ExtractInv, ExtractType, WalkTakesAll, CopiedSoFar, Copying
    <2> QED  BY <1>5, <2>1, <2>2 DEF ExtractInv
  <1>16. CASE UNCHANGED extractVars
    <2>1. Same /\ UNCHANGED <<xpc, x>>
      BY <1>16 DEF extractVars
    <2>2. ExtractType' /\ WalkTakesAll' /\ CopiedSoFar'
      BY <1>1, <1>3, <1>4, <2>1
         DEF ExtractInv, ExtractType, WalkTakesAll, CopiedSoFar, Copying
    <2> QED  BY <1>5, <2>1, <2>2 DEF ExtractInv
  <1>17. BadStruct \/ BadTarget \/ InvokeMissing => xpc = "walk" /\ Fails
    BY DEF BadStruct, BadTarget, InvokeMissing, Walking, Ready
  <1> QED
    BY <1>6, <1>7, <1>8, <1>9, <1>10, <1>11, <1>12, <1>13, <1>14, <1>15, <1>16, <1>17
       DEF ExtractNext

\* The walk of the items, and the function it generates, keep their invariant.
THEOREM ExtractInvariant == ExtractSpec => []ExtractInv
  <1>1. ExtractInit => ExtractInv
    BY ExtractInitInv
  <1>2. ExtractInv /\ [ExtractNext]_extractVars => ExtractInv'
    BY ExtractStepInv
  <1> QED  BY <1>1, <1>2, PTL DEF ExtractSpec

-----------------------------------------------------------------------------
\* Every exported field and every target gets the value of its own type, and no
\* other field is touched, for any call of Extract or Populate.
THEOREM Fills == ExtractSpec => []ExtractFills
  <1>1. ASSUME ExtractInv, xpc = "done", NEW i \in 1..Count
        PROVE  value[i] = IF Wanted(i) THEN Passed(job.items[i].key) ELSE "preset"
    <2>1. Copying /\ x = Len(targets) + 1 /\ Len(targets) \in Nat
      <3>1. targets \in Seq(Nat) /\ Copying /\ x = Len(targets) + 1
        BY <1>1 DEF Copying, ExtractInv, ExtractType, CopiedSoFar
      <3> QED  BY <3>1, LenProperties
    <2>2. CASE Wanted(i)
      <3>1. PICK t \in 1..Len(targets) : targets[t] = i
        BY <1>1, <2>1, <2>2 DEF ExtractInv, WalkTakesAll, Taken, ToFill
      <3> QED  BY <1>1, <2>1, <2>2, <3>1 DEF ExtractInv, CopiedSoFar
    <2>3. CASE ~ Wanted(i)
      <3>1. \A t \in 1..Len(targets) : targets[t] # i
        BY <1>1, <2>3 DEF ExtractInv, SideBySide, ToFill
      <3> QED  BY <1>1, <2>1, <2>3, <3>1 DEF ExtractInv, CopiedSoFar
    <2> QED  BY <2>2, <2>3
  <1>2. ExtractInv => ExtractFills
    BY <1>1 DEF ExtractFills, Count
  <1> QED  BY <1>2, ExtractInvariant, PTL

\* Nothing is written unless every target can be, for any call; a nil pointer given
\* to Populate is the exception, and panics after the targets before it are written.
THEOREM AllOrNothing == ExtractSpec => []ExtractAllOrNothing
  <1> DEFINE NilPointer(i) == job.items[i].shape = "nilPointer"
  <1>1. ASSUME ExtractInv, xpc = "done", NEW i \in 1..Count, Wanted(i)
        PROVE  Available(i) /\ (job.op = "populate" => job.items[i].shape = "pointer")
    <2>1. Copying /\ x = Len(targets) + 1 /\ Len(targets) \in Nat
      <3>1. targets \in Seq(Nat) /\ Copying /\ x = Len(targets) + 1
        BY <1>1 DEF Copying, ExtractInv, ExtractType, CopiedSoFar
      <3> QED  BY <3>1, LenProperties
    <2>2. PICK t \in 1..Len(targets) : targets[t] = i
      BY <1>1, <2>1 DEF ExtractInv, WalkTakesAll, Taken, ToFill
    <2>3. Available(i)
      BY <1>1, <2>1, <2>2 DEF ExtractInv, WalkTakesAll
    <2>4. job.op = "populate" => job.items[i].shape = "pointer"
      BY <1>1, <2>1, <2>2 DEF ExtractInv, CopiedSoFar
    <2> QED  BY <2>3, <2>4
  <1>2. ASSUME ExtractInv, xpc = "panic", job.op = "populate"
        PROVE  \E i \in 1..Count :
                  /\ NilPointer(i) /\ \A j \in 1..(i - 1) : ~ NilPointer(j)
                  /\ \A j \in i..Count : value[j] = "preset"
    <2>1. /\ Copying /\ Len(targets) \in Nat /\ x \in 1..Len(targets)
          /\ targets \in Seq(Nat) /\ Count \in Nat
          /\ job.items[targets[x]].shape = "nilPointer"
      BY <1>2, LenProperties, JobType
         DEF Copying, ExtractInv, ExtractType, CopiedSoFar
    <2>2. targets[x] \in 1..Count
      BY <1>2, <2>1 DEF ExtractInv, SideBySide, ToFill
    <2>3. ASSUME NEW j \in 1..(targets[x] - 1)  PROVE ~ NilPointer(j)
      <3>1. j \in 1..Count /\ Wanted(j) /\ j < targets[x]
        BY <1>2, <2>1, <2>2 DEF Wanted
      <3>2. PICK t \in 1..Len(targets) : targets[t] = j
        BY <1>2, <2>1, <3>1 DEF ExtractInv, WalkTakesAll, Taken, ToFill
      <3>3. x < t => targets[x] < targets[t]
        BY <1>2, <2>1 DEF ExtractInv, SideBySide
      <3>4. t < x
        BY <2>1, <2>2, <3>1, <3>2, <3>3
      <3> QED  BY <1>2, <2>1, <3>2, <3>4 DEF ExtractInv, CopiedSoFar
    <2>4. ASSUME NEW j \in targets[x]..Count  PROVE value[j] = "preset"
      <3>1. \A t \in 1..Len(targets) : t < x => targets[t] < targets[x]
        BY <1>2, <2>1 DEF ExtractInv, SideBySide
      <3>2. \A t \in 1..Len(targets) : t < x => targets[t] # j
        <4>1. TAKE t \in 1..Len(targets)
        <4>2. targets[t] \in Int /\ targets[x] \in Int
          BY <1>2, <2>2 DEF ExtractInv, SideBySide, ToFill
        <4>3. j \in Int /\ targets[x] <= j
          BY <2>4, <4>2
        <4>4. t < x => targets[t] < targets[x]
          BY <3>1
        <4> QED  BY <4>2, <4>3, <4>4
      <3>3. (\A t \in 1..Len(targets) : t < x => targets[t] # j) => value[j] = "preset"
        <4>1. j \in 1..Count
          BY <2>1, <2>2, <2>4
        <4> QED  BY <1>2, <2>1, <4>1 DEF ExtractInv, CopiedSoFar
      <3> QED  BY <3>2, <3>3
    <2> QED  BY <2>1, <2>2, <2>3, <2>4
  <1>3. ASSUME ExtractInv  PROVE ExtractAllOrNothing
    <2>1. xpc = "failed" => \A i \in 1..Count : value[i] = "preset"
      BY <1>3 DEF ExtractInv, CopiedSoFar
    <2>2. xpc = "panic" /\ job.op = "extract" => job.shape \in {"nil", "nilPointer"}
      BY <1>3 DEF ExtractInv, CopiedSoFar
    <2>3. job.op \in {"extract", "populate"}
      BY <1>3, JobType DEF ExtractInv, ExtractType
    <2> QED  BY <1>1, <1>2, <1>3, <2>1, <2>2, <2>3 DEF ExtractAllOrNothing, Count
  <1> QED  BY <1>3, ExtractInvariant, PTL

-----------------------------------------------------------------------------
(* The call stack: the invariant of the two loops. *)

StackType ==
    /\ frames \in Seq(Frames)
    /\ depth \in Int
    /\ next \in Nat \ {0}
    /\ pcs \in Nat
    /\ result \in Seq(Nat)

\* The frames are kept in order, all but the last.
KeptFrames ==
    /\ spc \in {"callers", "frames"} => Len(result) = next - 1
    /\ spc = "callers" => next = 1
    /\ spc # "callers" => pcs = Least(Asked, Len(frames))
    /\ spc = "frames" => next = 1 \/ next <= pcs
    /\ spc \in {"name", "named", "panic"} =>
          Len(result) = IF pcs = 0 THEN 0 ELSE pcs - 1
    /\ \A i \in 1..Len(result) : result[i] = i

\* No frame passed over is a client's.
PassedFrames ==
    /\ spc \in {"callers", "frames", "name"} => caller = 0
    /\ spc \in {"name", "named", "panic"} => next <= Len(result) + 1
    /\ spc \in {"name", "named", "panic"} => \A j \in 1..(next - 1) : ~ Client(j)
    /\ spc = "named" => IF caller = 0 THEN next = Len(result) + 1
                        ELSE caller = next /\ next <= Len(result) /\ Client(next)
    /\ spc = "panic" => /\ next <= Len(result)
                        /\ Client(next) /\ frames[next].owner = "unnamed"

StackInv == StackType /\ KeptFrames /\ PassedFrames

\* How many program counters there are.
LEMMA AskedType ==
    ASSUME StackType
    PROVE  Asked \in Nat /\ Len(frames) \in Nat /\ Least(Asked, Len(frames)) \in Nat
  <1>1. Asked \in Nat /\ Len(frames) \in Nat
    BY DepthsAssumption, LenProperties DEF StackType, Asked
  <1> QED  BY <1>1 DEF Least

\* A frame that is not passed over is a client's.
LEMMA IgnoredIsNoClient ==
    ASSUME StackType, NEW i \in 1..Len(frames)
    PROVE  /\ shouldIgnoreFrame(frames[i]) <=> ~ Client(i)
           /\ shouldIgnorePanics(frames[i]) =>
                 Client(i) /\ frames[i].owner = "unnamed"
  <1>1. frames[i] \in Frames
    BY ElementOfSeq DEF StackType
  <1> QED  BY <1>1 DEF Frames, shouldIgnoreFrame, shouldIgnorePanics, Client

\* The walk starts with nothing kept.
LEMMA StackInitInv == ASSUME StackInit  PROVE StackInv
  <1>1. PICK fs \in Stacks, d \in Depths : StackStart(fs, d)
    BY DEF StackInit
  <1>2. fs \in Seq(Frames) /\ d \in Int
    BY StacksAssumption, DepthsAssumption
  <1> QED  BY <1>1, <1>2 DEF StackStart, StackInv, StackType, KeptFrames, PassedFrames

\* Every step of the two loops keeps the invariant.
LEMMA StackStepInv == ASSUME StackInv, [StackNext]_stackVars  PROVE StackInv'
  <1>1. /\ frames \in Seq(Frames) /\ depth \in Int /\ next \in Nat \ {0}
        /\ pcs \in Nat /\ result \in Seq(Nat) /\ Len(result) \in Nat
        /\ Asked \in Nat /\ Len(frames) \in Nat /\ Least(Asked, Len(frames)) \in Nat
    BY AskedType, LenProperties DEF StackInv, StackType
  <1>2. frames' = frames /\ Asked' = Asked /\ depth' = depth
    BY DEF StackNext, Callers, NextFrame, LastFrame, SkipFrame, NamePanics, NameFrame,
           NoCaller, stackVars, Asked
  <1>3. \A i : Client(i)' <=> Client(i)
    BY <1>2 DEF Client
  <1>4. CASE Callers
    <2>1. StackType'
      BY <1>1, <1>2, <1>4 DEF Callers, StackType
    <2>2. KeptFrames' /\ PassedFrames'
      BY <1>1, <1>2, <1>4 DEF Callers, StackInv, KeptFrames, PassedFrames
    <2> QED  BY <2>1, <2>2 DEF StackInv
  <1>5. CASE NextFrame
    <2>1. /\ result' \in Seq(Nat) /\ Len(result') = Len(result) + 1
          /\ \A i \in 1..Len(result) : result'[i] = result[i]
          /\ result'[Len(result) + 1] = next
      BY <1>1, <1>5, AppendProperties DEF NextFrame
    <2>2. StackType'
      BY <1>1, <1>2, <1>5, <2>1 DEF NextFrame, StackType
    <2>3. Len(result) = next - 1
      BY <1>5 DEF NextFrame, StackInv, KeptFrames
    <2>4. \A i \in 1..Len(result') : result'[i] = i
      <3>1. TAKE i \in 1..Len(result')
      <3>2. i = Len(result) + 1 \/ i \in 1..Len(result)
        BY <1>1, <2>1
      <3>3. i \in 1..Len(result) => result[i] = i
        BY DEF StackInv, KeptFrames
      <3> QED  BY <1>1, <2>1, <2>3, <3>2, <3>3
    <2>5. KeptFrames' /\ PassedFrames'
      BY <1>1, <1>2, <1>5, <2>1, <2>3, <2>4
         DEF NextFrame, StackInv, KeptFrames, PassedFrames
    <2> QED  BY <2>2, <2>5 DEF StackInv
  <1>6. CASE LastFrame
    <2>1. Len(result) = IF pcs = 0 THEN 0 ELSE pcs - 1
      BY <1>1, <1>6 DEF LastFrame, StackInv, KeptFrames
    <2>2. StackType'
      BY <1>1, <1>2, <1>6 DEF LastFrame, StackType
    <2>3. KeptFrames' /\ PassedFrames'
      BY <1>1, <1>2, <1>6, <2>1 DEF LastFrame, StackInv, KeptFrames, PassedFrames
    <2> QED  BY <2>2, <2>3 DEF StackInv
  <1>7. ASSUME spc = "name", next <= Len(result)
        PROVE  next \in 1..Len(frames) /\ result[next] = next
    BY <1>1, <1>7 DEF StackInv, KeptFrames, Least
  <1>8. CASE SkipFrame
    <2>1. ~ Client(next)
      BY <1>7, <1>8, IgnoredIsNoClient DEF SkipFrame, StackInv
    <2>2. StackType'
      BY <1>1, <1>2, <1>8 DEF SkipFrame, StackType
    <2>3. \A j \in 1..(next' - 1) : ~ Client(j)'
      BY <1>1, <1>3, <1>8, <2>1 DEF SkipFrame, StackInv, PassedFrames
    <2>4. KeptFrames' /\ PassedFrames'
      BY <1>1, <1>2, <1>8, <2>3 DEF SkipFrame, StackInv, KeptFrames, PassedFrames
    <2> QED  BY <2>2, <2>4 DEF StackInv
  <1>9. CASE NamePanics
    <2>1. Client(next) /\ frames[next].owner = "unnamed"
      BY <1>7, <1>9, IgnoredIsNoClient DEF NamePanics, StackInv
    <2>2. StackType'
      BY <1>1, <1>2, <1>9 DEF NamePanics, StackType
    <2>3. KeptFrames' /\ PassedFrames'
      BY <1>1, <1>2, <1>3, <1>9, <2>1
         DEF NamePanics, StackInv, KeptFrames, PassedFrames
    <2> QED  BY <2>2, <2>3 DEF StackInv
  <1>10. CASE NameFrame
    <2>1. Client(next) /\ caller' = next
      BY <1>7, <1>10, IgnoredIsNoClient DEF NameFrame, StackInv
    <2>2. StackType'
      BY <1>1, <1>2, <1>10 DEF NameFrame, StackType
    <2>3. KeptFrames' /\ PassedFrames'
      BY <1>1, <1>2, <1>3, <1>10, <2>1
         DEF NameFrame, StackInv, KeptFrames, PassedFrames
    <2> QED  BY <2>2, <2>3 DEF StackInv
  <1>11. CASE NoCaller
    <2>1. StackType'
      BY <1>1, <1>2, <1>11 DEF NoCaller, StackType
    <2>2. KeptFrames' /\ PassedFrames'
      BY <1>1, <1>2, <1>3, <1>11 DEF NoCaller, StackInv, KeptFrames, PassedFrames
    <2> QED  BY <2>1, <2>2 DEF StackInv
  <1>12. CASE UNCHANGED stackVars
    BY <1>2, <1>3, <1>12
       DEF stackVars, StackInv, StackType, KeptFrames, PassedFrames
  <1> QED  BY <1>4, <1>5, <1>6, <1>8, <1>9, <1>10, <1>11, <1>12 DEF StackNext

\* The loops of CallerStack and CallerName keep their invariant.
THEOREM StackInvariant == StackSpec => []StackInv
  <1>1. StackInit => StackInv
    BY StackInitInv
  <1>2. StackInv /\ [StackNext]_stackVars => StackInv'
    BY StackStepInv
  <1> QED  BY <1>1, <1>2, PTL DEF StackSpec

\* CallerName names the innermost frame of a client, for any call stack and depth;
\* it finds none only if Fx's own frames fill the stack that deep.
THEOREM CallerNamed == StackSpec => []CallerIsInnermostClient
  <1>1. ASSUME StackInv  PROVE CallerIsInnermostClient
    <2>1. /\ next \in Nat \ {0} /\ pcs \in Nat /\ Len(result) \in Nat
          /\ Asked \in Nat /\ Len(frames) \in Nat
      BY <1>1, AskedType, LenProperties DEF StackInv, StackType
    <2>2. ASSUME spc \in {"named", "panic"}
          PROVE  /\ pcs = Least(Asked, Len(frames))
                 /\ Len(result) = IF pcs = 0 THEN 0 ELSE pcs - 1
                 /\ \A j \in 1..(next - 1) : ~ Client(j)
      BY <1>1, <2>2 DEF StackInv, KeptFrames, PassedFrames
    <2>3. ASSUME spc = "named", caller # 0
          PROVE  /\ Client(caller) /\ \A j \in 1..(caller - 1) : ~ Client(j)
                 /\ caller < Asked /\ caller < Len(frames)
      <3>1. caller = next /\ next <= Len(result) /\ Client(next)
        BY <1>1, <2>3 DEF StackInv, PassedFrames
      <3> QED  BY <2>1, <2>2, <2>3, <3>1 DEF Least
    <2>4. ASSUME spc = "named", caller = 0, NEW i \in 1..Len(frames), Client(i)
          PROVE  ~ (i < Asked /\ i < Len(frames))
      <3>1. next = Len(result) + 1
        BY <1>1, <2>4 DEF StackInv, PassedFrames
      <3> QED  BY <2>1, <2>2, <2>4, <3>1 DEF Least
    <2>5. ASSUME spc = "panic"
          PROVE  /\ next \in 1..Len(frames)
                 /\ Client(next) /\ \A j \in 1..(next - 1) : ~ Client(j)
                 /\ frames[next].owner = "unnamed"
      <3>1. next <= Len(result) /\ Client(next) /\ frames[next].owner = "unnamed"
        BY <1>1, <2>5 DEF StackInv, PassedFrames
      <3> QED  BY <2>1, <2>2, <2>5, <3>1 DEF Least
    <2> QED  BY <2>3, <2>4, <2>5 DEF CallerIsInnermostClient
  <1> QED  BY <1>1, StackInvariant, PTL

-----------------------------------------------------------------------------
(* The analyser: the invariant of the visitor. *)

AllEvents == Events(pkg.scope)

\* What is to be reported of a declaration, and of which.
Report(d)  == [logger |-> d.recv, missing |-> AllEvents \ Handled(d)]
Partial(d) == IsLogEvent(d) /\ Handled(d) # {} /\ Handled(d) # AllEvents

Inside      == apc \in {"decl", "body", "panic"}
FilesBefore == {f \in 1..Len(pkg.files) : f < file /\ ~ pkg.files[f].test}
FirstDecls(p, f, n) == {p.files[f].decls[i] : i \in 1..n}

\* The declarations that the visitor has left behind.
DeclsOfFilesBefore ==
    UNION {FirstDecls(pkg, f, Len(pkg.files[f].decls)) : f \in FilesBefore}
DeclsBefore ==
    DeclsOfFilesBefore \cup IF Inside THEN FirstDecls(pkg, file, decl - 1) ELSE {}

AnalyserType ==
    /\ pkg \in Packages
    /\ apc \in {"run", "file", "decl", "body", "panic", "done"}
    /\ file \in Nat \ {0} /\ decl \in Nat \ {0} /\ clause \in Nat \ {0}

\* Where the visitor is in the package.
Position ==
    /\ apc = "run" => file = 1
    /\ apc \notin {"run", "done"} => pkg.imports
    /\ apc = "done" => IF pkg.imports THEN file > Len(pkg.files) ELSE file = 1
    /\ Inside => file <= Len(pkg.files) /\ ~ File.test /\ decl <= Len(File.decls) + 1
    /\ apc \in {"body", "panic"} => decl <= Len(File.decls)
    /\ apc = "body" => clause <= Len(Decl.clauses) + 1
    /\ apc = "panic" => Decl.kind = "var" /\ Decl.clauses # << >>

\* In a method the set holds the events of no clause met so far.
MethodSet ==
    apc = "body" /\ Decl.kind = "func" =>
        /\ IsLogEvent(Decl)
        /\ loggerType = Decl.recv
        /\ funcEvents = AllEvents \ UNION {Decl.clauses[k] : k \in 1..(clause - 1)}

ReportsSoFar == reports = {Report(d) : d \in {e \in DeclsBefore : Partial(e)}}

AnalyserInv == AnalyserType /\ Position /\ MethodSet /\ ReportsSoFar

-----------------------------------------------------------------------------
(* Lemmas. *)

\* The files, declarations and clauses of a package are sequences.
LEMMA PackageType ==
    ASSUME pkg \in Packages
    PROVE  /\ Len(pkg.files) \in Nat
           /\ \A f \in 1..Len(pkg.files) :
                 /\ Len(pkg.files[f].decls) \in Nat
                 /\ \A i \in 1..Len(pkg.files[f].decls) :
                       /\ pkg.files[f].decls[i].kind \in {"func", "var"}
                       /\ Len(pkg.files[f].decls[i].clauses) \in Nat
                       /\ pkg.files[f].decls[i].clauses \in Seq(SUBSET STRING)
  <1> DEFINE Files == [test : BOOLEAN, decls : Seq(Declarations)]
  <1>1. pkg.files \in Seq(Files) /\ Len(pkg.files) \in Nat
    BY PackagesAssumption, LenProperties
  <1>2. ASSUME NEW f \in 1..Len(pkg.files)
        PROVE  pkg.files[f].decls \in Seq(Declarations)
    <2>1. pkg.files[f] \in Files
      BY <1>1, ElementOfSeq
    <2> QED  BY <2>1
  <1>3. ASSUME NEW f \in 1..Len(pkg.files), NEW i \in 1..Len(pkg.files[f].decls)
        PROVE  /\ pkg.files[f].decls[i].kind \in {"func", "var"}
               /\ pkg.files[f].decls[i].clauses \in Seq(SUBSET STRING)
    <2>1. pkg.files[f].decls[i] \in Declarations
      BY <1>2, ElementOfSeq
    <2> QED  BY <2>1 DEF Declarations
  <1> QED  BY <1>1, <1>2, <1>3, LenProperties

\* There are finitely many events.
LEMMA EventsFinite == ASSUME pkg \in Packages  PROVE IsFiniteSet(AllEvents)
  <1> DEFINE S == {u \in pkg.scope : /\ u.name # "Event" /\ u.exported
                                     /\ u.converts \in {"value", "pointer"}}
             f == [t \in S |-> t.name]
  <1>1. AllEvents = {t.name : t \in S}
    BY DEF AllEvents, Events
  <1>2. IsFiniteSet(S)
    <2>1. IsFiniteSet(pkg.scope) /\ S \in SUBSET pkg.scope
      BY PackagesAssumption
    <2> QED  BY <2>1, FS_Subset
  <1>3. f \in Surjection(S, AllEvents)
    BY <1>1 DEF Surjection
  <1> HIDE DEF S, f
  <1> QED  BY <1>2, <1>3, FS_Surjection

\* A set of missing events has the size of none, or of all, if it is none, or all.
LEMMA AllOrNone ==
    ASSUME pkg \in Packages, NEW d
    PROVE  Cardinality(AllEvents \ Handled(d)) \in {0, Cardinality(AllEvents)}
           <=> Handled(d) \in {{}, AllEvents}
  <1> DEFINE missing == AllEvents \ Handled(d)
  <1>1. Handled(d) \subseteq AllEvents /\ missing \in SUBSET AllEvents
    BY DEF Handled, AllEvents
  <1>2. IsFiniteSet(AllEvents)
    BY EventsFinite
  <1>3. IsFiniteSet(missing) /\ (Cardinality(AllEvents) = Cardinality(missing)
                                    => AllEvents = missing)
    BY <1>1, <1>2, FS_Subset
  <1>4. Cardinality(missing) = 0 <=> missing = {}
    BY <1>3, FS_EmptySet
  <1> QED  BY <1>1, <1>3, <1>4

\* Nothing is seen when the visitor starts.
LEMMA AnalyserInitInv == ASSUME AnalyserInit  PROVE AnalyserInv
  <1>1. PICK p \in Packages : AnalyserStart(p)
    BY DEF AnalyserInit
  <1>2. FilesBefore = {} /\ ~ Inside
    BY <1>1, PackageType DEF AnalyserStart, FilesBefore, Inside
  <1>3. reports = {} /\ DeclsBefore = {}
    BY <1>1, <1>2 DEF AnalyserStart, DeclsBefore, DeclsOfFilesBefore
  <1> QED
    BY <1>1, <1>2, <1>3
       DEF AnalyserStart, AnalyserInv, AnalyserType, Position, MethodSet,
           ReportsSoFar, Inside

\* No step touches the package.
LEMMA SamePackage ==
    ASSUME [AnalyserNext]_analyserVars
    PROVE  /\ pkg' = pkg /\ AllEvents' = AllEvents
           /\ \A d : Handled(d)' = Handled(d)
           /\ \A d : Report(d)' = Report(d)
           /\ \A d : Partial(d)' <=> Partial(d)
  <1>1. pkg' = pkg
    BY DEF AnalyserNext, analyserVars, RunSkip, RunPass, SkipTestFile, NextFile,
           EnterFile, LeaveFile, Finish, FuncSkip, FuncEnter, VarEnter, VisitClause,
           VisitPanics, VarLeave, FuncExit
  <1>2. AllEvents' = AllEvents /\ \A d : Handled(d)' = Handled(d)
    BY <1>1 DEF AllEvents, Handled
  <1>3. \A d : Report(d)' = Report(d)
    BY <1>2 DEF Report
  <1>4. \A d : Partial(d)' <=> Partial(d)
    BY <1>2 DEF Partial
  <1> QED  BY <1>1, <1>2, <1>3, <1>4

-----------------------------------------------------------------------------
(* The steps. *)

\* A declaration is left behind.
LEMMA DeclLeft ==
    ASSUME AnalyserInv, [AnalyserNext]_analyserVars, Inside, Inside',
           decl' = decl + 1, UNCHANGED file
    PROVE  DeclsBefore' = DeclsBefore \cup {Decl}
  <1>1. decl \in Nat \ {0} /\ pkg' = pkg
    BY SamePackage DEF AnalyserInv, AnalyserType
  <1>2. FilesBefore' = FilesBefore /\ decl' - 1 = decl
    BY <1>1 DEF FilesBefore
  <1>3. FirstDecls(pkg, file, decl) = FirstDecls(pkg, file, decl - 1) \cup {Decl}
    BY <1>1 DEF FirstDecls, Decl, File
  <1>4. DeclsOfFilesBefore' = DeclsOfFilesBefore
    BY <1>1, <1>2 DEF DeclsOfFilesBefore
  <1> QED  BY <1>1, <1>2, <1>3, <1>4 DEF DeclsBefore

\* A declaration of which no report is due is left behind.
LEMMA PassedOver ==
    ASSUME AnalyserInv, [AnalyserNext]_analyserVars, Inside, Inside',
           decl' = decl + 1, UNCHANGED <<file, reports>>, ~ IsLogEvent(Decl)
    PROVE  ReportsSoFar'
  <1>1. DeclsBefore' = DeclsBefore \cup {Decl}
    BY DeclLeft
  <1>2. ~ Partial(Decl)
    BY DEF Partial
  <1>3. reports = {Report(d) : d \in {e \in DeclsBefore : Partial(e)}}
    BY DEF AnalyserInv, ReportsSoFar
  <1> QED  BY <1>1, <1>2, <1>3, SamePackage DEF ReportsSoFar

\* The visitor moves on without leaving a declaration.
LEMMA NothingLeft ==
    ASSUME AnalyserInv, [AnalyserNext]_analyserVars,
           DeclsBefore' = DeclsBefore, UNCHANGED reports
    PROVE  ReportsSoFar'
  <1>1. reports = {Report(d) : d \in {e \in DeclsBefore : Partial(e)}}
    BY DEF AnalyserInv, ReportsSoFar
  <1> QED  BY <1>1, SamePackage DEF ReportsSoFar

\* A LogEvent method is left: its report, if one is due, is the set that was kept.
LEMMA MethodReported ==
    ASSUME AnalyserInv, FuncExit
    PROVE  ReportsSoFar'
  <1>1. /\ pkg \in Packages /\ file \in 1..Len(pkg.files) /\ decl \in 1..Len(File.decls)
        /\ Len(Decl.clauses) \in Nat /\ clause = Len(Decl.clauses) + 1
    <2>1. pkg \in Packages /\ file \in 1..Len(pkg.files) /\ decl \in 1..Len(File.decls)
      BY PackageType DEF AnalyserInv, AnalyserType, Position, FuncExit, Inside, File
    <2>2. Len(Decl.clauses) \in Nat
      BY <2>1, PackageType DEF Decl, File
    <2> QED  BY <2>1, <2>2 DEF AnalyserInv, AnalyserType, Position, FuncExit
  <1>2. /\ IsLogEvent(Decl) /\ loggerType = Decl.recv
        /\ funcEvents = AllEvents \ Handled(Decl)
    BY <1>1 DEF AnalyserInv, MethodSet, FuncExit, Handled, AllEvents
  <1>3. [AnalyserNext]_analyserVars
    BY DEF AnalyserNext
  <1>4. DeclsBefore' = DeclsBefore \cup {Decl}
    BY <1>1, <1>3, DeclLeft DEF FuncExit, Inside, AnalyserInv
  <1>5. Cardinality(funcEvents) \in {0, Cardinality(AllEvents)} <=> ~ Partial(Decl)
    BY <1>1, <1>2, AllOrNone DEF Partial
  <1>6. reports' = reports \cup IF Partial(Decl) THEN {Report(Decl)} ELSE {}
    BY <1>2, <1>5 DEF FuncExit, Report, AllEvents
  <1>7. reports = {Report(d) : d \in {e \in DeclsBefore : Partial(e)}}
    BY DEF AnalyserInv, ReportsSoFar
  <1>8. reports' = {Report(d) : d \in {e \in DeclsBefore \cup {Decl} : Partial(e)}}
    BY <1>6, <1>7
  <1> QED  BY <1>3, <1>4, <1>8, SamePackage DEF ReportsSoFar

\* A file is entered: nothing is left behind yet.
LEMMA FileEntered == ASSUME AnalyserInv, EnterFile  PROVE DeclsBefore' = DeclsBefore
  <1>1. pkg' = pkg /\ file' = file /\ FilesBefore' = FilesBefore
    BY DEF EnterFile, FilesBefore
  <1>2. DeclsOfFilesBefore' = DeclsOfFilesBefore
    BY <1>1 DEF DeclsOfFilesBefore
  <1>3. FirstDecls(pkg', file', decl' - 1) = {}
    BY DEF EnterFile, FirstDecls
  <1>4. Inside' /\ ~ Inside
    BY DEF EnterFile, Inside
  <1> QED  BY <1>2, <1>3, <1>4 DEF DeclsBefore

\* A file is left: all its declarations were.
LEMMA FileLeft ==
    ASSUME AnalyserInv, SkipTestFile \/ LeaveFile  PROVE DeclsBefore' = DeclsBefore
  <1>1. /\ pkg' = pkg /\ file' = file + 1 /\ file \in 1..Len(pkg.files) /\ ~ Inside'
        /\ Len(pkg.files) \in Nat
    BY PackageType
       DEF SkipTestFile, LeaveFile, NextFile, AnalyserInv, AnalyserType, Position, Inside
  <1>2. CASE SkipTestFile
    <2>1. FilesBefore' = FilesBefore /\ ~ Inside
      BY <1>1, <1>2 DEF SkipTestFile, FilesBefore, Inside, File
    <2>2. DeclsOfFilesBefore' = DeclsOfFilesBefore
      BY <1>1, <2>1 DEF DeclsOfFilesBefore
    <2> QED  BY <1>1, <2>1, <2>2 DEF DeclsBefore
  <1>3. CASE LeaveFile
    <2>1. Inside /\ ~ pkg.files[file].test /\ decl - 1 = Len(pkg.files[file].decls)
      BY <1>1, <1>3, PackageType
         DEF LeaveFile, Inside, File, AnalyserInv, AnalyserType, Position
    <2>2. FilesBefore' = FilesBefore \cup {file}
      BY <1>1, <2>1 DEF FilesBefore
    <2>3. DeclsOfFilesBefore' = DeclsOfFilesBefore \cup FirstDecls(pkg, file, decl - 1)
      BY <1>1, <2>1, <2>2 DEF DeclsOfFilesBefore
    <2> QED  BY <1>1, <2>1, <2>3 DEF DeclsBefore
  <1> QED  BY <1>2, <1>3
\* Every step of the visitor keeps the invariant.
LEMMA AnalyserStepInv ==
    ASSUME AnalyserInv, [AnalyserNext]_analyserVars  PROVE AnalyserInv'
  <1>1. /\ pkg \in Packages /\ pkg' = pkg /\ AllEvents' = AllEvents
        /\ file \in Nat \ {0} /\ decl \in Nat \ {0} /\ clause \in Nat \ {0}
        /\ Len(pkg.files) \in Nat
    BY SamePackage, PackageType DEF AnalyserInv, AnalyserType
  <1>2. ASSUME Inside
        PROVE  /\ file \in 1..Len(pkg.files) /\ Len(File.decls) \in Nat
               /\ ~ File.test /\ pkg.imports /\ decl <= Len(File.decls) + 1
               /\ decl <= Len(File.decls) =>
                     /\ Decl.kind \in {"func", "var"} /\ Len(Decl.clauses) \in Nat
                     /\ Decl.clauses \in Seq(SUBSET STRING)
    <2>1. /\ file \in 1..Len(pkg.files) /\ ~ File.test /\ pkg.imports
          /\ decl <= Len(File.decls) + 1
      BY <1>1, <1>2 DEF AnalyserInv, Position, Inside
    <2>2. Len(File.decls) \in Nat
      BY <1>1, <2>1, PackageType DEF File
    <2>3. ASSUME decl <= Len(File.decls)
          PROVE  /\ Decl.kind \in {"func", "var"} /\ Len(Decl.clauses) \in Nat
                 /\ Decl.clauses \in Seq(SUBSET STRING)
      <3>1. decl \in 1..Len(pkg.files[file].decls)
        BY <1>1, <2>2, <2>3 DEF File
      <3> QED  BY <1>1, <2>1, <3>1, PackageType DEF File, Decl
    <2> QED  BY <2>1, <2>2, <2>3
  <1>3. UNCHANGED file => File' = File
    BY <1>1 DEF File
  <1>4. UNCHANGED <<file, decl>> => Decl' = Decl
    BY <1>3 DEF Decl
  <1>5. CASE RunSkip
    <2>1. DeclsBefore' = DeclsBefore
      BY <1>5 DEF RunSkip, DeclsBefore, DeclsOfFilesBefore, FilesBefore, Inside
    <2>2. AnalyserType' /\ Position' /\ MethodSet'
      BY <1>1, <1>5
         DEF RunSkip, AnalyserInv, AnalyserType, Position, MethodSet, Inside
    <2> QED  BY <1>5, <2>1, <2>2, NothingLeft DEF RunSkip, AnalyserInv
  <1>6. CASE RunPass
    <2>1. DeclsBefore' = DeclsBefore
      BY <1>6 DEF RunPass, DeclsBefore, DeclsOfFilesBefore, FilesBefore, Inside
    <2>2. AnalyserType' /\ Position' /\ MethodSet'
      BY <1>1, <1>6
         DEF RunPass, AnalyserInv, AnalyserType, Position, MethodSet, Inside
    <2> QED  BY <1>6, <2>1, <2>2, NothingLeft DEF RunPass, AnalyserInv
  <1>7. CASE SkipTestFile \/ LeaveFile
    <2>1. /\ apc' = "file" /\ file' = file + 1 /\ pkg.imports
          /\ UNCHANGED <<decl, clause, reports>>
      BY <1>2, <1>7
         DEF SkipTestFile, LeaveFile, NextFile, AnalyserInv, Position, Inside
    <2>2. AnalyserType' /\ Position' /\ MethodSet'
      BY <1>1, <2>1 DEF AnalyserType, Position, MethodSet, Inside
    <2> QED  BY <1>7, <2>1, <2>2, FileLeft, NothingLeft DEF AnalyserInv
  <1>8. CASE EnterFile
    <2>1. AnalyserType' /\ Position' /\ MethodSet'
      <3>1. Len(File.decls) \in Nat
        BY <1>1, <1>8, PackageType DEF EnterFile, File
      <3> QED
        BY <1>1, <1>3, <1>8, <3>1
           DEF EnterFile, AnalyserInv, AnalyserType, Position, MethodSet, Inside
    <2> QED  BY <1>8, <2>1, FileEntered, NothingLeft DEF EnterFile, AnalyserInv
  <1>9. CASE Finish
    <2>1. DeclsBefore' = DeclsBefore
      BY <1>9 DEF Finish, DeclsBefore, DeclsOfFilesBefore, FilesBefore, Inside
    <2>2. AnalyserType' /\ Position' /\ MethodSet'
      BY <1>1, <1>9
         DEF Finish, AnalyserInv, AnalyserType, Position, MethodSet, Inside
    <2> QED  BY <1>9, <2>1, <2>2, NothingLeft DEF Finish, AnalyserInv
  <1>10. CASE FuncSkip \/ VarLeave
    <2>1. /\ Inside /\ apc' = "decl" /\ decl' = decl + 1 /\ ~ IsLogEvent(Decl)
          /\ decl <= Len(File.decls) /\ UNCHANGED <<file, clause, reports>>
      BY <1>10
         DEF FuncSkip, VarLeave, AtDecl, Inside, IsLogEvent, AnalyserInv, Position
    <2>2. AnalyserType' /\ Position' /\ MethodSet'
      BY <1>1, <1>2, <1>3, <2>1 DEF AnalyserType, Position, MethodSet, Inside
    <2>3. Inside'
      BY <2>1 DEF Inside
    <2> QED  BY <2>1, <2>2, <2>3, PassedOver DEF AnalyserInv
  <1>11. CASE FuncEnter \/ VarEnter
    <2>1. /\ Inside /\ Inside' /\ apc' = "body" /\ clause' = 1
          /\ decl <= Len(File.decls) /\ UNCHANGED <<file, decl, reports>>
          /\ Decl.kind = "func" =>
                /\ IsLogEvent(Decl) /\ loggerType' = Decl.recv
                /\ funcEvents' = AllEvents
      BY <1>11 DEF FuncEnter, VarEnter, AtDecl, Inside, AllEvents
    <2>2. DeclsBefore' = DeclsBefore
      BY <1>1, <2>1 DEF DeclsBefore, DeclsOfFilesBefore, FilesBefore
    <2>3. AnalyserType' /\ Position'
      BY <1>1, <1>2, <1>3, <1>4, <2>1 DEF AnalyserType, Position, Inside
    <2>4. MethodSet'
      BY <1>1, <1>4, <2>1 DEF MethodSet
    <2> QED  BY <2>1, <2>2, <2>3, <2>4, NothingLeft DEF AnalyserInv
  <1>12. CASE VisitClause
    <2>1. /\ Inside /\ Inside' /\ apc = "body" /\ apc' = "body" /\ clause' = clause + 1
          /\ clause <= Len(Decl.clauses) /\ decl <= Len(File.decls)
          /\ funcEvents' = IF Clause = {} THEN funcEvents ELSE funcEvents \ Clause
          /\ UNCHANGED <<file, decl, loggerType, reports>>
      BY <1>12 DEF VisitClause, AtClause, Inside, AnalyserInv, Position
    <2>2. DeclsBefore' = DeclsBefore
      BY <1>1, <2>1 DEF DeclsBefore, DeclsOfFilesBefore, FilesBefore
    <2>3. AnalyserType' /\ Position'
      BY <1>1, <1>2, <1>3, <1>4, <2>1 DEF AnalyserType, Position, Inside
    <2>4. MethodSet'
      <3>1. UNION {Decl.clauses[k] : k \in 1..clause}
            = Clause \cup UNION {Decl.clauses[k] : k \in 1..(clause - 1)}
        <4>1. 1..clause = {clause} \cup 1..(clause - 1)
          BY <1>1
        <4> QED  BY <4>1 DEF Clause
      <3>2. clause' - 1 = clause
        BY <1>1, <2>1
      <3>3. Decl' = Decl
        BY <1>4, <2>1
      <3>4. ASSUME Decl.kind = "func"
            PROVE  funcEvents' = AllEvents \ UNION {Decl.clauses[k] : k \in 1..clause}
        <4>1. funcEvents = AllEvents \ UNION {Decl.clauses[k] : k \in 1..(clause - 1)}
          BY <2>1, <3>4 DEF AnalyserInv, MethodSet
        <4> QED  BY <2>1, <3>1, <4>1
      <3>5. Decl.kind = "func" => IsLogEvent(Decl) /\ loggerType = Decl.recv
        BY <2>1 DEF AnalyserInv, MethodSet
      <3>6. IsLogEvent(Decl)' <=> IsLogEvent(Decl)
        BY <3>3 DEF IsLogEvent
      <3> QED  BY <1>1, <2>1, <3>2, <3>3, <3>4, <3>5, <3>6 DEF MethodSet
    <2> QED  BY <2>1, <2>2, <2>3, <2>4, NothingLeft DEF AnalyserInv
  <1>13. CASE VisitPanics
    <2>1. /\ Inside /\ Inside' /\ apc = "body" /\ apc' = "panic"
          /\ clause <= Len(Decl.clauses) /\ decl <= Len(File.decls)
          /\ funcEvents = NilSet /\ UNCHANGED <<file, decl, clause, reports>>
      BY <1>13 DEF VisitPanics, AtClause, Inside, AnalyserInv, Position
    <2>2. DeclsBefore' = DeclsBefore
      BY <1>1, <2>1 DEF DeclsBefore, DeclsOfFilesBefore, FilesBefore
    <2>3. Decl.kind # "func"
      <3>1. \A S \in SUBSET AllEvents : S # NilSet
        BY <1>1, NilSetAssumption DEF AllEvents
      <3> QED  BY <2>1, <3>1 DEF AnalyserInv, MethodSet
    <2>4. Decl.kind = "var" /\ Decl.clauses # << >>
      BY <1>1, <1>2, <2>1, <2>3
    <2>5. AnalyserType' /\ Position' /\ MethodSet'
      BY <1>1, <1>2, <1>3, <1>4, <2>1, <2>4
         DEF AnalyserType, Position, MethodSet, Inside
    <2> QED  BY <2>1, <2>2, <2>5, NothingLeft DEF AnalyserInv
  <1>14. CASE FuncExit
    <2>1. /\ Inside /\ apc' = "decl" /\ decl' = decl + 1
          /\ decl <= Len(File.decls) /\ UNCHANGED <<file, clause>>
      BY <1>14 DEF FuncExit, Inside, AnalyserInv, Position
    <2>2. AnalyserType' /\ Position' /\ MethodSet'
      BY <1>1, <1>2, <1>3, <2>1 DEF AnalyserType, Position, MethodSet, Inside
    <2> QED  BY <1>14, <2>2, MethodReported DEF AnalyserInv
  <1>15. CASE UNCHANGED analyserVars
    <2>1. DeclsBefore' = DeclsBefore
      BY <1>1, <1>15
         DEF analyserVars, DeclsBefore, DeclsOfFilesBefore, FilesBefore, Inside
    <2>2. AnalyserType' /\ Position' /\ MethodSet'
      BY <1>1, <1>3, <1>4, <1>15
         DEF analyserVars, AnalyserInv, AnalyserType, Position, MethodSet, Inside
    <2> QED  BY <1>15, <2>1, <2>2, NothingLeft DEF analyserVars, AnalyserInv
  <1> QED
    BY <1>5, <1>6, <1>7, <1>8, <1>9, <1>10, <1>11, <1>12, <1>13, <1>14, <1>15
       DEF AnalyserNext

\* The visitor keeps its invariant, over any package.
THEOREM AnalyserInvariant == AnalyserSpec => []AnalyserInv
  <1>1. AnalyserInit => AnalyserInv
    BY AnalyserInitInv
  <1>2. AnalyserInv /\ [AnalyserNext]_analyserVars => AnalyserInv'
    BY AnalyserStepInv
  <1> QED  BY <1>1, <1>2, PTL DEF AnalyserSpec

\* Whatever the package: the reports are the loggers that handle some events and not
\* all, each with those it misses, and a package whose clauses are all in functions
\* makes no panic.
THEOREM ReportsAreExact == AnalyserSpec => []ReportsExact
  <1>1. ASSUME AnalyserInv, apc = "done", ~ pkg.imports  PROVE reports = {}
    <2>1. DeclsBefore = {}
      BY <1>1, PackageType
         DEF AnalyserInv, AnalyserType, Position, DeclsBefore, DeclsOfFilesBefore,
             FilesBefore, Inside
    <2> QED  BY <1>1, <2>1 DEF AnalyserInv, ReportsSoFar
  <1>2. ASSUME AnalyserInv, apc = "done", pkg.imports  PROVE DeclsBefore = Decls
    <2>1. file \in Nat /\ file > Len(pkg.files) /\ Len(pkg.files) \in Nat /\ ~ Inside
      BY <1>2, PackageType DEF AnalyserInv, AnalyserType, Position, Inside
    <2>2. FilesBefore = {g \in 1..Len(pkg.files) : ~ pkg.files[g].test}
      BY <2>1 DEF FilesBefore
    <2> QED  BY <2>1, <2>2 DEF DeclsBefore, DeclsOfFilesBefore, FirstDecls, Decls
  <1>3. ASSUME AnalyserInv, apc = "done", pkg.imports
        PROVE  reports =
             {[logger |-> d.recv, missing |-> Events(pkg.scope) \ Handled(d)] :
                 d \in {e \in Decls : /\ IsLogEvent(e)
                                      /\ Handled(e) # {}
                                      /\ Handled(e) # Events(pkg.scope)}}
    <2>1. reports = {Report(d) : d \in {e \in Decls : Partial(e)}}
      BY <1>2, <1>3 DEF AnalyserInv, ReportsSoFar
    <2> QED  BY <2>1 DEF Report, Partial, AllEvents
  <1>4. ASSUME AnalyserInv, apc = "panic"
        PROVE  \E d \in Decls : d.kind = "var" /\ d.clauses # << >>
    <2>1. /\ Decl.kind = "var" /\ Decl.clauses # << >> /\ ~ File.test
          /\ file \in 1..Len(pkg.files) /\ decl \in 1..Len(File.decls)
      BY <1>4, PackageType DEF AnalyserInv, AnalyserType, Position, Inside, File
    <2>2. Decl \in Decls
      BY <2>1 DEF Decls, Decl, File
    <2> QED  BY <2>1, <2>2
  <1>5. AnalyserInv => ReportsExact
    BY <1>1, <1>3, <1>4 DEF ReportsExact
  <1> QED  BY <1>5, AnalyserInvariant, PTL

=============================================================================

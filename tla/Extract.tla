------------------------------- MODULE Extract -------------------------------
(***************************************************************************)
(* fx.Extract and fx.Populate (src/extract.go, src/populate.go): both walk  *)
(* their targets, generate a function whose arguments are the values wanted, *)
(* and have it invoked; the function copies its arguments into the targets. *)
(* Extract keeps two lists side by side, the fields of the generated struct *)
(* and the fields of the target they go to.                                *)
(*                                                                         *)
(* An item is a field of Extract's struct or a target of Populate.         *)
(***************************************************************************)
EXTENDS Integers, Sequences

CONSTANTS
    Keys,       \* what dig looks a value up by: the types of the items
    Jobs        \* bound: the calls of Extract and Populate

VARIABLES
    job,        \* the call: op, shape of Extract's target, items, what dig can provide
    xpc,        \* where it is
    x,          \* index of the loop it is in
    fields,     \* fields of the generated struct (args of Populate's function)
    targets,    \* the item each of them is for
    value       \* per item: "preset", "zero" or the key of the value it was given

extractVars == <<job, xpc, x, fields, targets, value>>

FieldItems ==
    [anonymous : BOOLEAN, upper : BOOLEAN, noPkgPath : BOOLEAN,
     key : Keys, optional : BOOLEAN, shape : {"field"}]
TargetItems ==
    [key : Keys, shape : {"pointer", "nilPointer", "nil", "other"}, optional : {FALSE}]

\* Of a field that is not embedded, PkgPath tells if it is exported.
ASSUME JobsAssumption ==
    \A j \in Jobs :
        \/ /\ j.op = "extract"
           /\ j.shape \in {"structPointer", "other", "nil", "nilPointer"}
           /\ j.items \in Seq(FieldItems)
           /\ \A i \in 1..Len(j.items) :
                 j.items[i].anonymous \/ j.items[i].noPkgPath = j.items[i].upper
        \/ j.op = "populate" /\ j.items \in Seq(TargetItems)

ExtractStart(j) ==
    /\ job = j
    /\ xpc = "walk"
    /\ x = 1
    /\ fields = IF j.op = "extract" THEN <<"In">> ELSE <<>>
    /\ targets = <<>>
    /\ value = [i \in 1..Len(j.items) |-> "preset"]

ExtractInit == \E j \in Jobs : ExtractStart(j)

Item       == job.items[x]
Walking(op) == xpc = "walk" /\ job.op = op

\* An embedded field is exported if its type is; PkgPath does not tell.
Kept(field) == IF field.anonymous THEN field.upper ELSE field.noPkgPath

\* Faulty variant of FillField: the field of In is forgotten in the index.
FillFieldShifted ==
    /\ xpc = "fill" /\ job.op = "extract" /\ x < Len(fields)
    /\ value' = [value EXCEPT ![targets[x]] =
                    IF fields[x] \in job.provided THEN fields[x] ELSE "zero"]
    /\ x' = x + 1
    /\ UNCHANGED <<job, xpc, fields, targets>>

\* Faulty variant of BadTarget: a target that cannot be set is left out.
BadTargetLeftOut ==
    /\ xpc = "walk" /\ job.op = "populate" /\ x <= Len(job.items)
    /\ job.items[x].shape \in {"nil", "other"}
    /\ x' = x + 1
    /\ UNCHANGED <<job, xpc, fields, targets, value>>

-----------------------------------------------------------------------------
(* Building the function. *)

Fails == xpc' = "failed" /\ UNCHANGED <<job, x, fields, targets, value>>

Panics == xpc' = "panic" /\ UNCHANGED <<job, x, fields, targets, value>>

\* Extract wants a pointer to a struct: otherwise its option is an invoke that
\* returns an error.
BadStruct == Walking("extract") /\ job.shape = "other" /\ Fails

\* An untyped nil has no type to look at, a nil pointer no struct.
NilStruct == Walking("extract") /\ job.shape \in {"nil", "nilPointer"} /\ Panics

FieldLeft == Walking("extract") /\ job.shape = "structPointer"
             /\ x <= Len(job.items)

SkipField ==
    /\ FieldLeft /\ ~ Kept(Item)
    /\ x' = x + 1
    /\ UNCHANGED <<job, xpc, fields, targets, value>>

KeepField ==
    /\ FieldLeft /\ Kept(Item)
    /\ fields' = Append(fields, Item.key)
    /\ targets' = Append(targets, x)
    /\ x' = x + 1
    /\ UNCHANGED <<job, xpc, value>>

\* Populate refuses nil and what is not a pointer.  A nil pointer is not refused.
BadTarget == Walking("populate") /\ x <= Len(job.items)
             /\ Item.shape \in {"nil", "other"} /\ Fails

KeepTarget ==
    /\ Walking("populate") /\ x <= Len(job.items)
    /\ Item.shape \in {"pointer", "nilPointer"}
    /\ fields' = Append(fields, Item.key)
    /\ targets' = Append(targets, x)
    /\ x' = x + 1
    /\ UNCHANGED <<job, xpc, value>>

-----------------------------------------------------------------------------
(* Having it invoked. *)

Ready == /\ xpc = "walk" /\ x > Len(job.items)
         /\ job.op = "extract" => job.shape = "structPointer"

\* dig looks every argument up; only an optional field may be missing, and is
\* then passed as the zero value.
Available(i) == job.items[i].key \in job.provided \/ job.items[i].optional

InvokeFill ==
    /\ Ready /\ \A t \in 1..Len(targets) : Available(targets[t])
    /\ xpc' = "fill"
    /\ x' = 1
    /\ UNCHANGED <<job, fields, targets, value>>

InvokeMissing == Ready /\ (\E t \in 1..Len(targets) : ~ Available(targets[t])) /\ Fails

Passed(key) == IF key \in job.provided THEN key ELSE "zero"

\* result.Field(i) goes to targets[i-1], from i = 1: field 0 is In.
FillField ==
    /\ xpc = "fill" /\ job.op = "extract" /\ x < Len(fields)
    /\ value' = [value EXCEPT ![targets[x]] = Passed(fields[x + 1])]
    /\ x' = x + 1
    /\ UNCHANGED <<job, xpc, fields, targets>>

Filling == xpc = "fill" /\ job.op = "populate" /\ x <= Len(fields)

\* Set on what a nil pointer points to.
FillPanics == Filling /\ job.items[targets[x]].shape = "nilPointer" /\ Panics

FillTarget ==
    /\ Filling /\ job.items[targets[x]].shape = "pointer"
    /\ value' = [value EXCEPT ![targets[x]] = Passed(fields[x])]
    /\ x' = x + 1
    /\ UNCHANGED <<job, xpc, fields, targets>>

Filled ==
    /\ xpc = "fill"
    /\ x > Len(targets)
    /\ xpc' = "done"
    /\ UNCHANGED <<job, x, fields, targets, value>>

ExtractNext ==
    \/ BadStruct \/ NilStruct \/ SkipField \/ KeepField \/ BadTarget \/ KeepTarget
    \/ InvokeFill \/ InvokeMissing \/ FillField \/ FillTarget \/ FillPanics \/ Filled

ExtractSpec == ExtractInit /\ [][ExtractNext]_extractVars

-----------------------------------------------------------------------------
\* Which items are to be filled: the exported fields, every Populate target.
Wanted(i) == job.op = "populate" \/ job.items[i].upper

\* "Only exported fields will be filled", and all of them, each with the value of
\* its own type, whatever fields are skipped between them.
ExtractFills ==
    xpc = "done" => \A i \in 1..Len(job.items) :
        value[i] = IF Wanted(i) THEN Passed(job.items[i].key) ELSE "preset"

\* Nothing is written unless everything can be: one bad or missing target leaves
\* all the others as they were, and is not passed over in silence.  A nil pointer is
\* the exception: it panics, when the targets before it have been written.
ExtractAllOrNothing ==
    LET NilPointer(i) == job.items[i].shape = "nilPointer" IN
    /\ xpc = "failed" => \A i \in 1..Len(job.items) : value[i] = "preset"
    /\ xpc = "done" => \A i \in 1..Len(job.items) :
          Wanted(i) => Available(i) /\ (job.op = "populate" =>
                                           job.items[i].shape = "pointer")
    /\ xpc = "panic" =>
          IF job.op = "extract" THEN job.shape \in {"nil", "nilPointer"}
          ELSE \E i \in 1..Len(job.items) :
                  /\ NilPointer(i) /\ \A j \in 1..(i - 1) : ~ NilPointer(j)
                  /\ \A j \in i..Len(job.items) : value[j] = "preset"

============================================================================

----------------------------- MODULE AllFxEvents -----------------------------
(***************************************************************************)
(* The analyser of src/tools/analysis/passes/allfxevents: it reports every  *)
(* LogEvent method of an fxevent.Logger that handles some events and not    *)
(* all.  A visitor is called for the nodes of a package in source order and *)
(* keeps one set, the events not yet met in the method it is in.           *)
(*                                                                         *)
(* The inspector calls Visit(n, true) for files, functions, case clauses and *)
(* type assertions; where that returns false it skips what is below n, and  *)
(* Visit(n, false).  Only files and LogEvent methods return true, so a node *)
(* is a file, a declaration or an outermost clause of one.                 *)
(*                                                                         *)
(* A package is a record: whether it imports fxevent (or is fxevent), what  *)
(* fxevent declares, and its files.  A declaration is a function, or a      *)
(* variable whose value has clauses; a clause is the set of types it names. *)
(***************************************************************************)
EXTENDS Integers, Sequences, FiniteSets

CONSTANTS
    Packages,   \* bound: the packages that are analysed
    NilSet      \* the nil *typeSet

VARIABLES
    pkg,        \* the package
    apc,        \* where the visitor is
    file,       \* index of the file it is in
    decl,       \* index of the declaration
    clause,     \* index of the clause
    funcEvents, \* the events not met, or NilSet
    loggerType, \* the receiver of the last LogEvent method entered
    reports     \* what was reported: a logger and the events it misses

analyserVars ==
    <<pkg, apc, file, decl, clause, funcEvents, loggerType, reports>>

Declarations ==
    [kind : {"func"}, recv : STRING, name : STRING, implements : BOOLEAN,
     clauses : Seq(SUBSET STRING)]
    \cup [kind : {"var"}, clauses : Seq(SUBSET STRING)]

\* inspectFxevent: exported names, except Event, of types that convert to Event,
\* themselves or their pointers.
Events(scope) ==
    {t.name : t \in {u \in scope : /\ u.name # "Event" /\ u.exported
                                   /\ u.converts \in {"value", "pointer"}}}

ASSUME PackagesAssumption ==
    \A p \in Packages :
        /\ p.imports \in BOOLEAN
        /\ IsFiniteSet(p.scope)
        /\ p.files \in Seq([test : BOOLEAN, decls : Seq(Declarations)])

\* nil is no set of events.
ASSUME NilSetAssumption ==
    \A p \in Packages : \A S \in SUBSET Events(p.scope) : S # NilSet

AnalyserStart(p) ==
    /\ pkg = p
    /\ apc = "run"
    /\ file = 1
    /\ decl = 1
    /\ clause = 1
    /\ funcEvents = NilSet
    /\ loggerType = "nil"
    /\ reports = {}

AnalyserInit == \E p \in Packages : AnalyserStart(p)

File   == pkg.files[file]
Decl   == File.decls[decl]
Clause == Decl.clauses[clause]

\* The methods that are looked into.
IsLogEvent(d) ==
    d.kind = "func" /\ d.recv # "nil" /\ d.name = "LogEvent" /\ d.implements

-----------------------------------------------------------------------------
(* Faulty variants of steps below, used by no specification. *)

\* The set is not cloned for each method: it goes on from the method before.
FuncEnterShared ==
    /\ apc = "decl" /\ decl <= Len(File.decls)
    /\ IsLogEvent(Decl)
    /\ apc' = "body"
    /\ clause' = 1
    /\ loggerType' = Decl.recv
    /\ funcEvents' = IF funcEvents = NilSet THEN Events(pkg.scope) ELSE funcEvents
    /\ UNCHANGED <<pkg, file, decl, reports>>

-----------------------------------------------------------------------------
(* run, and Visit for files. *)

\* A package that does not import fxevent is not looked at.
RunSkip ==
    /\ apc = "run" /\ ~ pkg.imports
    /\ apc' = "done"
    /\ UNCHANGED <<pkg, file, decl, clause, funcEvents, loggerType, reports>>

RunPass ==
    /\ apc = "run" /\ pkg.imports
    /\ apc' = "file"
    /\ UNCHANGED <<pkg, file, decl, clause, funcEvents, loggerType, reports>>

NextFile ==
    /\ file' = file + 1
    /\ UNCHANGED <<pkg, decl, clause, funcEvents, loggerType, reports>>

SkipTestFile ==
    /\ apc = "file" /\ file <= Len(pkg.files) /\ File.test
    /\ UNCHANGED apc
    /\ NextFile

EnterFile ==
    /\ apc = "file" /\ file <= Len(pkg.files) /\ ~ File.test
    /\ apc' = "decl"
    /\ decl' = 1
    /\ UNCHANGED <<pkg, file, clause, funcEvents, loggerType, reports>>

LeaveFile ==
    /\ apc = "decl" /\ decl > Len(File.decls)
    /\ apc' = "file"
    /\ NextFile

Finish ==
    /\ apc = "file" /\ file > Len(pkg.files)
    /\ apc' = "done"
    /\ UNCHANGED <<pkg, file, decl, clause, funcEvents, loggerType, reports>>

-----------------------------------------------------------------------------
(* Visit for functions and clauses. *)

AtDecl == apc = "decl" /\ decl <= Len(File.decls)

\* Functions, and methods that are not a Logger's LogEvent, are not entered.
FuncSkip ==
    /\ AtDecl /\ Decl.kind = "func" /\ ~ IsLogEvent(Decl)
    /\ decl' = decl + 1
    /\ UNCHANGED <<pkg, apc, file, clause, funcEvents, loggerType, reports>>

\* The method gets its own copy of the events.
FuncEnter ==
    /\ AtDecl /\ IsLogEvent(Decl)
    /\ apc' = "body"
    /\ clause' = 1
    /\ loggerType' = Decl.recv
    /\ funcEvents' = Events(pkg.scope)
    /\ UNCHANGED <<pkg, file, decl, reports>>

\* A variable is no node that Visit is called for; its clauses are.
VarEnter ==
    /\ AtDecl /\ Decl.kind = "var"
    /\ apc' = "body"
    /\ clause' = 1
    /\ UNCHANGED <<pkg, file, decl, funcEvents, loggerType, reports>>

AtClause == apc = "body" /\ clause <= Len(Decl.clauses)

\* default, and the x.(type) of a switch, name no type and touch no set.
VisitClause ==
    /\ AtClause /\ (Clause = {} \/ funcEvents # NilSet)
    /\ funcEvents' = IF Clause = {} THEN funcEvents ELSE funcEvents \ Clause
    /\ clause' = clause + 1
    /\ UNCHANGED <<pkg, apc, file, decl, loggerType, reports>>

\* Remove on the nil set.
VisitPanics ==
    /\ AtClause /\ Clause # {} /\ funcEvents = NilSet
    /\ apc' = "panic"
    /\ UNCHANGED <<pkg, file, decl, clause, funcEvents, loggerType, reports>>

VarLeave ==
    /\ apc = "body" /\ Decl.kind = "var" /\ clause > Len(Decl.clauses)
    /\ apc' = "decl"
    /\ decl' = decl + 1
    /\ UNCHANGED <<pkg, file, clause, funcEvents, loggerType, reports>>

\* Nothing is reported of a logger that handles every event, or none.
FuncExit ==
    /\ apc = "body" /\ Decl.kind = "func" /\ clause > Len(Decl.clauses)
    /\ apc' = "decl"
    /\ decl' = decl + 1
    /\ reports' = reports \cup
          IF Cardinality(funcEvents) \in {0, Cardinality(Events(pkg.scope))} THEN {}
          ELSE {[logger |-> loggerType, missing |-> funcEvents]}
    /\ UNCHANGED <<pkg, file, clause, funcEvents, loggerType>>

AnalyserNext ==
    \/ RunSkip \/ RunPass \/ SkipTestFile \/ EnterFile \/ LeaveFile \/ Finish
    \/ FuncSkip \/ FuncEnter \/ VarEnter
    \/ VisitClause \/ VisitPanics \/ VarLeave \/ FuncExit

AnalyserSpec == AnalyserInit /\ [][AnalyserNext]_analyserVars

-----------------------------------------------------------------------------
(* Properties. *)

\* The declarations outside test files.
Decls == UNION {{pkg.files[f].decls[i] : i \in 1..Len(pkg.files[f].decls)} :
                   f \in {g \in 1..Len(pkg.files) : ~ pkg.files[g].test}}

Handled(d) == (UNION {d.clauses[i] : i \in 1..Len(d.clauses)}) \cap Events(pkg.scope)

\* "An fxevent.Logger implementation handles all known fxevent types", except "no-op
\* or fake" ones: the reports are the loggers that handle some events and not all,
\* each with the events it misses, whatever was visited before it.  A package whose
\* clauses are all in functions is analysed to the end.
ReportsExact ==
    /\ apc = "done" =>
          reports = IF ~ pkg.imports THEN {} ELSE
             {[logger |-> d.recv, missing |-> Events(pkg.scope) \ Handled(d)] :
                 d \in {e \in Decls : /\ IsLogEvent(e)
                                      /\ Handled(e) # {}
                                      /\ Handled(e) # Events(pkg.scope)}}
    /\ (\A d \in Decls : d.kind = "var" => d.clauses = <<>>) => apc # "panic"

============================================================================

------------------------------- MODULE MCWalks -------------------------------
(* TLC instances of the three walks: Extract and Populate, the call stack, and the
   analyser, which is also run on the loggers that Fx ships.  A behaviour takes one
   of them; the other two stay at a trivial input. *)
EXTENDS Extract, Stack, AllFxEvents, FxEvent, FiniteSetsExt

VARIABLE walk   \* the walk of this behaviour

SeqsUpTo(S, k) == UNION {[1..i -> S] : i \in 0..k}

-----------------------------------------------------------------------------
(* Fields and targets. *)

Field(anonymous, upper, noPkgPath, key, optional) ==
    [anonymous |-> anonymous, upper |-> upper, noPkgPath |-> noPkgPath,
     key |-> key, optional |-> optional, shape |-> "field"]

SomeFields ==
    {Field(FALSE, up, up, "a", FALSE) : up \in BOOLEAN}
    \cup {Field(FALSE, TRUE, TRUE, "b", opt) : opt \in BOOLEAN}
    \cup {Field(TRUE, up, path, "b", FALSE) : up, path \in BOOLEAN}

SomeTargets == {[key |-> k, shape |-> sh, optional |-> FALSE] :
                   k \in {"a", "b"}, sh \in {"pointer", "nilPointer", "nil", "other"}}

SomeJobs ==
    {[op |-> "extract", shape |-> "structPointer", items |-> fs, provided |-> p] :
        fs \in SeqsUpTo(SomeFields, 3), p \in SUBSET {"a", "b"}}
    \cup {[op |-> "extract", shape |-> sh, items |-> <<>>, provided |-> {}] :
             sh \in {"other", "nil", "nilPointer"}}
    \cup {[op |-> "populate", shape |-> "targets", items |-> ts, provided |-> p] :
             ts \in SeqsUpTo(SomeTargets, 3), p \in SUBSET {"a", "b"}}

-----------------------------------------------------------------------------
(* Stacks. *)

SomeStacks == SeqsUpTo(Frames, 4)

-----------------------------------------------------------------------------
(* Packages. *)

Name(n, exported, converts) == [name |-> n, exported |-> exported,
                                converts |-> converts]
Method(recv, name, implements, clauses) ==
    [kind |-> "func", recv |-> recv, name |-> name, implements |-> implements,
     clauses |-> clauses]
Var(clauses) == [kind |-> "var", clauses |-> clauses]

\* Events Foo and Bar, and names that are none.
SomeScope == {Name("Foo", TRUE, "pointer"), Name("Bar", TRUE, "value"),
              Name("Event", TRUE, "value"), Name("quux", FALSE, "pointer"),
              Name("Logger", TRUE, "no")}

SomeDecls ==
    {Method("full", "LogEvent", TRUE, <<{}, {"Foo", "int"}, {"Bar"}>>),
     Method("part", "LogEvent", TRUE, <<{"Foo"}>>),
     Method("rest", "LogEvent", TRUE, <<{}, {"Bar"}, {"quux"}>>),
     Method("nop", "LogEvent", TRUE, <<{}>>),
     Method("notALogger", "LogEvent", FALSE, <<{"Foo"}>>),
     Method("part", "String", TRUE, <<{"Bar"}>>),
     Method("nil", "LogEvent", FALSE, <<{"Foo"}>>),
     Var(<<{}, {"Bar"}>>),
     Var(<<>>)}

SomeFiles(k) == {[test |-> t, decls |-> ds] : t \in BOOLEAN, ds \in SeqsUpTo(SomeDecls, k)}

\* Fx's own package.
LogEventOf(recv, clauses) ==
    Method(recv, "LogEvent", TRUE,
           FoldSet(LAMBDA t, seq : Append(seq, {t}), <<{}>>, DOMAIN clauses))
Shipped ==
    [imports |-> TRUE,
     scope |-> {Name(t, TRUE, "pointer") : t \in EventTypes}
               \cup {Name("Event", TRUE, "value"), Name("Logger", TRUE, "no"),
                     Name("ConsoleLogger", TRUE, "no"), Name("ZapLogger", TRUE, "no"),
                     Name("NopLogger", TRUE, "no"), Name("nopLogger", FALSE, "no")},
     files |-> <<[test |-> FALSE, decls |->
                    <<Method("ConsoleLogger", "logf", TRUE, <<>>),
                      LogEventOf("ConsoleLogger", ConsoleClauses)>>],
                 [test |-> FALSE, decls |-> <<Method("nopLogger", "LogEvent", TRUE, <<>>)>>],
                 [test |-> FALSE, decls |-> <<LogEventOf("ZapLogger", ZapClauses)>>]>>]

SomePackages ==
    {[imports |-> i, scope |-> SomeScope, files |-> fs] :
        i \in BOOLEAN,
        fs \in {<<f>> : f \in SomeFiles(3)} \cup
               {<<f, g>> : f, g \in SomeFiles(1)} \cup {<<>>}}
    \cup {Shipped}

-----------------------------------------------------------------------------
NoJob  == [op |-> "populate", shape |-> "targets", items |-> <<>>, provided |-> {}]
NoPkg  == [imports |-> FALSE, scope |-> {}, files |-> <<>>]

WalksInit ==
    \/ walk = "extract" /\ ExtractInit /\ StackStart(<<>>, 0) /\ AnalyserStart(NoPkg)
    \/ walk = "stack" /\ StackInit /\ ExtractStart(NoJob) /\ AnalyserStart(NoPkg)
    \/ walk = "analyser" /\ AnalyserInit /\ ExtractStart(NoJob) /\ StackStart(<<>>, 0)

WalksNext ==
    /\ UNCHANGED walk
    /\ \/ walk = "extract" /\ ExtractNext /\ UNCHANGED <<stackVars, analyserVars>>
       \/ walk = "stack" /\ StackNext /\ UNCHANGED <<extractVars, analyserVars>>
       \/ walk = "analyser" /\ AnalyserNext /\ UNCHANGED <<extractVars, stackVars>>

WalksSpec == WalksInit /\ [][WalksNext]_<<walk, extractVars, stackVars, analyserVars>>

-----------------------------------------------------------------------------
\* The loggers Fx ships pass its own analyser: each has a clause for every event.
\* And no clause drops the error of its event.
ShippedLoggersComplete ==
    /\ pkg = Shipped /\ apc = "done" => reports = {}
    /\ \A l \in Loggers, t \in EventTypes :
          t \in DOMAIN l => Fields[t] \cap {"Err", "StartErr"} \subseteq l[t]

============================================================================

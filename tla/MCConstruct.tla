----------------------------- MODULE MCConstruct -----------------------------
(* Option lists for Construct. *)
EXTENDS Construct

Fun(form, key, needs, fails) ==
    [form |-> form, key |-> key, needs |-> needs, fails |-> fails]
Opt(kind, arg) == [kind |-> kind, arg |-> arg]

\* A constructor of a, one of b that needs a and fails, one of a value that Fx
\* provides too, and the shapes that app.provide or dig refuse.
MakeA    == Fun("func", "a", {}, FALSE)
MakeB    == Fun("func", "b", {"a"}, TRUE)
MakeLC   == Fun("func", "Lifecycle", {}, FALSE)
GroupA   == Fun("grouped", "a", {}, FALSE)
Bad(form) == Fun(form, "a", {}, FALSE)

UseNone  == Fun("func", "none", {}, FALSE)
UseA     == Fun("func", "none", {"a"}, FALSE)
UseAB    == Fun("func", "none", {"a", "b"}, FALSE)
UseFails == Fun("func", "none", {}, TRUE)

Logging  == {Fun("func", "Logger", {"Lifecycle"}, FALSE),
             Fun("func", "Logger", {"a"}, FALSE),
             Fun("func", "Logger", {}, TRUE),
             Fun("func", "c", {}, FALSE),
             Fun("returnsAnnotated", "Logger", {}, FALSE),
             Fun("named", "Logger", {}, FALSE),
             Fun("value", "Logger", {}, FALSE)}

Invokes == {<<UseNone, UseA>>, <<UseAB>>, <<UseFails, UseNone>>,
            <<Fun("option", "none", {}, FALSE)>>}

Pool ==
    {Opt("provide", fs) : fs \in {<<MakeA>>, <<MakeA, MakeB>>, <<MakeLC>>,
                                  <<GroupA>>}}
    \cup {Opt("provide", <<Bad(form)>>) :
             form \in {"option", "both", "nil"}}
    \cup {Opt("supply", <<[ann |-> a, key |-> "a"]>>) : a \in {"func", "grouped", "both"}}
    \cup {Opt("invoke", fs) : fs \in Invokes}
    \cup {Opt("error", es) : es \in {<<"nil">>, <<"nil", "option">>}}
    \cup {Opt("withLogger", f) : f \in Logging}
    \cup {Opt("logger", "printer"), Opt("startTimeout", "given"),
          Opt("stopTimeout", "given"),
          Opt("errorHook", <<"h1", "h2">>),
          Opt("group", <<Opt("group", <<Opt("provide", <<MakeA>>)>>),
                         Opt("invoke", <<UseA>>)>>)}

\* Also those inside the group, and one that is only used below.
AllOptions == Pool \cup {Opt("invoke", <<UseA>>), Opt("invoke", <<UseFails>>),
                         Opt("group", <<Opt("provide", <<MakeA>>)>>)}
SomeNesting == [o \in AllOptions |-> IF o.kind # "group" THEN 0
                                     ELSE IF o.arg[1].kind # "group" THEN 1 ELSE 2]

Lists == (UNION {[1..k -> Pool] : k \in 0..2}) \cup
         {<<x, y, z>> : x \in {o \in Pool : o.kind \in {"provide", "group", "error"}},
                        y \in {o \in Pool : o.kind \in {"withLogger", "logger"}},
                        z \in {o \in Pool : o.kind \in {"invoke", "errorHook", "withLogger"}}}

SomeLists == Lists \cup {<<o, Opt("invoke", <<UseFails>>)>> \o l :
                            o \in {Opt("errorHook", <<"h1", "h2">>)},
                            l \in UNION {[1..k -> Pool] : k \in 0..1}}

============================================================================

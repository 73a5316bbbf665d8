------------------------------- MODULE FxEvent -------------------------------
(***************************************************************************)
(* The events of src/fxevent, and which of their fields the loggers that    *)
(* Fx ships write: each logger is a type switch with a clause per event.   *)
(***************************************************************************)

\* The types with a method event(), which their pointers have.
Fields ==
    [LifecycleHookExecuting |-> {"FunctionName", "CallerName", "Method"},
     LifecycleHookExecuted  |-> {"FunctionName", "CallerName", "Method", "Runtime",
                                 "Err"},
     ProvideError           |-> {"Err"},
     Supply                 |-> {"TypeName"},
     Provide                |-> {"Constructor", "OutputTypeNames"},
     Invoke                 |-> {"Function"},
     InvokeError            |-> {"Function", "Err", "Stacktrace"},
     StartError             |-> {"Err"},
     StopSignal             |-> {"Signal"},
     StopError              |-> {"Err"},
     Rollback               |-> {"StartErr"},
     RollbackError          |-> {"Err"},
     Running                |-> {},
     CustomLoggerError      |-> {"Err"},
     CustomLogger           |-> {"Function"}]

EventTypes == DOMAIN Fields

\* Faulty variant of ConsoleClauses: the clause of an event is missing.
ConsoleForgetsSignal == [t \in EventTypes \ {"StopSignal"} |-> Fields[t]]

\* ConsoleLogger.LogEvent: the fields a clause writes, of an event whose error is set.
ConsoleClauses ==
    [LifecycleHookExecuting |-> {"Method", "FunctionName", "CallerName"},
     LifecycleHookExecuted  |-> {"Method", "FunctionName", "CallerName", "Runtime",
                                 "Err"},
     ProvideError           |-> {"Err"},
     Supply                 |-> {"TypeName"},
     Provide                |-> {"OutputTypeNames", "Constructor"},
     Invoke                 |-> {"Function"},
     InvokeError            |-> {"Function", "Stacktrace", "Err"},
     StartError             |-> {"Err"},
     StopSignal             |-> {"Signal"},
     StopError              |-> {"Err"},
     RollbackError          |-> {"Err"},
     Rollback               |-> {"StartErr"},
     Running                |-> {},
     CustomLoggerError      |-> {"Err"},
     CustomLogger           |-> {"Function"}]

\* ZapLogger.LogEvent: the run time of a hook that failed is not written.
ZapClauses ==
    [LifecycleHookExecuting |-> {"Method", "FunctionName", "CallerName"},
     LifecycleHookExecuted  |-> {"Method", "FunctionName", "CallerName", "Err"},
     ProvideError           |-> {"Err"},
     Supply                 |-> {"TypeName"},
     Provide                |-> {"Constructor", "OutputTypeNames"},
     Invoke                 |-> {"Function"},
     InvokeError            |-> {"Err", "Stacktrace", "Function"},
     StartError             |-> {"Err"},
     StopSignal             |-> {"Signal"},
     StopError              |-> {"Err"},
     RollbackError          |-> {"Err"},
     Rollback               |-> {"StartErr"},
     Running                |-> {},
     CustomLoggerError      |-> {"Err"},
     CustomLogger           |-> {"Function"}]

Loggers == {ConsoleClauses, ZapClauses}

============================================================================

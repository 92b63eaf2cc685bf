----------------------------- MODULE MCEnvoyRun -----------------------------
(***************************************************************************)
(* EnvoyRun under TLC, with what the comments and the documentation of the *)
(* repository say of a run where the code does something else.             *)
(***************************************************************************)
EXTENDS EnvoyRun

MCHookKinds == {"default", "user"}
MCUserHook == {"user"}
MCAnyOutcome == {"ok", "err", "panic", "canceled", "goexit"}
MCReturningOutcome == MCAnyOutcome \ {"goexit"}

\* internal/runtime/run.go:54 "Returns nil when Envoy exits cleanly, including
\* when interrupted by signals (SIGINT/SIGTERM)": not if /ready failed before.
InterruptReturnsNil ==
  main = "returned" /\ ctx = "canceled" /\ proc = "killed" /\ hookOutcome = "none"
    => result = "nil"

\* internal/api/admin.go:48 "Startup hooks are considered mandatory and will stop
\* the run with error if failed": Envoy goes on until somebody else stops it.
HookFailureStopsRun ==
  (hookKind = "user" /\ hookOutcome \in {"err", "panic"}) ~> (main = "returned")
=============================================================================

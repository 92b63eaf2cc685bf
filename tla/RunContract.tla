---------------------------- MODULE RunContract ----------------------------
(***************************************************************************)
(* What envoy.Runtime.Run promises its caller, without the goroutines, the *)
(* contexts and the channel that keep the promise: Envoy is launched at    *)
(* most once, the startup hook is called at most once and only while the   *)
(* call is in progress, the call returns only after Envoy is gone and the  *)
(* hook is over, a failed hook is always reported, and nil means that      *)
(* Envoy exited with status zero or that the caller cancelled.  EnvoyRun   *)
(* implements this specification.                                          *)
(***************************************************************************)

VARIABLES
  phase,        \* where the call is: "new", "running" or "over"
  child,        \* the Envoy process: "none", "alive", "clean" or "dirty"
  hook,         \* the startup hook: "idle", "running", "fine" or "failed"
  interrupted,  \* has the caller cancelled its context?
  result        \* what the call returned: "none", "nil" or "error"

vars == <<phase, child, hook, interrupted, result>>

TypeOK ==
  /\ phase \in {"new", "running", "over"}
  /\ child \in {"none", "alive", "clean", "dirty"}
  /\ hook \in {"idle", "running", "fine", "failed"}
  /\ interrupted \in BOOLEAN
  /\ result \in {"none", "nil", "error"}

Init ==
  /\ phase = "new"
  /\ child = "none"
  /\ hook = "idle"
  /\ interrupted \in BOOLEAN
  /\ result = "none"

\* The arguments are refused or Envoy cannot be executed.
Refuse ==
  /\ phase = "new"
  /\ phase' = "over"
  /\ result' = "error"
  /\ UNCHANGED <<child, hook, interrupted>>

Launch ==
  /\ phase = "new"
  /\ phase' = "running"
  /\ child' = "alive"
  /\ UNCHANGED <<hook, interrupted, result>>

ChildEnds ==
  /\ child = "alive"
  /\ child' \in {"clean", "dirty"}
  /\ UNCHANGED <<phase, hook, interrupted, result>>

HookStarts ==
  /\ phase = "running"
  /\ hook = "idle"
  /\ hook' = "running"
  /\ UNCHANGED <<phase, child, interrupted, result>>

HookEnds ==
  /\ hook = "running"
  /\ hook' \in {"fine", "failed"}
  /\ UNCHANGED <<phase, child, interrupted, result>>

Interrupt ==
  /\ ~interrupted
  /\ interrupted' = TRUE
  /\ UNCHANGED <<phase, child, hook, result>>

Return ==
  /\ phase = "running"
  /\ child \in {"clean", "dirty"}
  /\ hook # "running"
  /\ phase' = "over"
  /\ result' \in {"nil", "error"}
  /\ result' = "nil" => hook # "failed" /\ (child = "clean" \/ interrupted)
  /\ UNCHANGED <<child, hook, interrupted>>

Next ==
  \/ Refuse \/ Launch \/ Return
  \/ ChildEnds \/ HookStarts \/ HookEnds \/ Interrupt

Spec == Init /\ [][Next]_vars
=============================================================================

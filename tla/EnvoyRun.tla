------------------------------ MODULE EnvoyRun ------------------------------
(***************************************************************************)
(* One call of envoy.Runtime.Run (internal/envoy/run.go).  The goroutine   *)
(* of the caller prepares the arguments, starts Envoy, waits for it and    *)
(* then for the answer of the monitor; the monitor goroutine polls the     *)
(* admin address file, polls /ready, calls the startup hook and sends one  *)
(* answer on hookErrCh.  The Envoy process, the processes it starts, the   *)
(* caller's context, the HTTP transport and the body of the hook are the   *)
(* environment.                                                            *)
(*                                                                         *)
(* Errors are known by their origin: "hook" and "panic" come from the      *)
(* startup hook, "notready" is the last failure of /ready, "canceled" and  *)
(* "deadline" are the two errors of a context, "exit" is the exit error of *)
(* Envoy, "ctx" the context error of exec.Cmd.Wait.                        *)
(***************************************************************************)

CONSTANTS
  HookKinds,         \* "default": NewRuntime's own hook; "user": the caller's
  HookOutcomes,      \* how the body of a hook may end
  RemoveOutcomes,    \* does os.RemoveAll of a stale address file succeed?
  TransportTimeouts, \* can the caller's HTTP transport time out by itself?
  Inheritors         \* may a process that Envoy starts keep Envoy's output open?

ASSUME HookKindsAssumption == HookKinds \subseteq {"default", "user"}
ASSUME HookOutcomesAssumption ==
  HookOutcomes \subseteq {"ok", "err", "panic", "canceled", "goexit"}
ASSUME RemoveOutcomesAssumption == RemoveOutcomes \subseteq BOOLEAN
ASSUME TransportTimeoutsAssumption == TransportTimeouts \in BOOLEAN
ASSUME InheritorsAssumption == Inheritors \subseteq BOOLEAN

VARIABLES
  main,         \* where Run is
  ctx,          \* the caller's context
  monCtx,       \* monitorCtx, a child of ctx that Run cancels itself
  exitErr,      \* what cmd.Wait returned
  hookErr,      \* what Run received from hookErrCh
  result,       \* what Run returned
  mon,          \* where the monitor goroutine is
  client,       \* the admin endpoint of its AdminClient
  lastErr,      \* AwaitReady: did an earlier IsReady fail?
  reply,        \* the answer on its way to the /ready request in flight
  pending,      \* the monitor's answer, on its way to hookErrCh
  hookErrCh,    \* the channel of capacity one
  hookKind,     \* which hook this Runtime has
  hookOutcome,  \* the hook: "none" before it is called, then "running", ...
  args,         \* Envoy's arguments: "ok", "noConfig" or "invalid"
  removable,    \* can an address file that is there be removed?
  proc,         \* the Envoy process
  admin,        \* its admin server
  addrFile,     \* the content of the admin address file
  inherited,    \* does (or will) another process hold Envoy's stdout or stderr?
  readySeen,    \* history: did IsReady succeed?
  timedOut      \* history: did a request time out under a live context?

callVars == <<exitErr, hookErr, result>>
monVars == <<client, lastErr, reply, pending>>
hookVars == <<hookKind, hookOutcome>>
envoyVars == <<proc, admin, addrFile, inherited>>
histVars == <<readySeen, timedOut>>
vars == <<main, ctx, monCtx, mon, hookErrCh, args, removable,
          callVars, monVars, hookVars, envoyVars, histVars>>

\* What no step of Run's goroutine, of the monitor, of the environment changes.
MainFrame == UNCHANGED <<ctx, monVars, hookVars, args, removable, admin, inherited, histVars>>
MonitorFrame ==
  UNCHANGED <<main, ctx, monCtx, callVars, hookKind, args, removable, envoyVars>>
EnvironmentFrame ==
  UNCHANGED <<main, callVars, mon, client, lastErr, pending, hookErrCh, hookVars,
              args, removable, histVars>>

Dead == {"exit0", "exitN", "killed"}
Reports == {"nil", "notready", "deadline", "hook", "panic"}

TypeOK ==
  /\ main \in {"prepare", "start", "wait", "cancel", "receive", "decide", "returned"}
  /\ ctx \in {"live", "canceled", "deadline"}
  /\ monCtx \in {"live", "canceled", "deadline"}
  /\ exitErr \in {"nil", "exit", "ctx"}
  /\ hookErr \in Reports
  /\ result \in Reports \cup {"none", "args", "start", "exit", "ctx"}
  /\ mon \in {"none", "poll", "await", "probe", "hook", "send", "done", "gone"}
  /\ client \in {"none", "own", "stale"}
  /\ lastErr \in BOOLEAN
  /\ reply \in {"none", "live", "other"}
  /\ pending \in Reports
  /\ hookErrCh \in Reports \cup {"empty"}
  /\ hookKind \in {"default", "user"}
  /\ hookOutcome \in {"none", "running", "ok", "err", "panic", "canceled", "goexit"}
  /\ args \in {"ok", "noConfig", "invalid"}
  /\ removable \in BOOLEAN
  /\ proc \in {"none", "running"} \cup Dead
  /\ admin \in {"starting", "live", "draining"}
  /\ addrFile \in {"missing", "stale", "empty", "own", "pipe"}
  /\ inherited \in BOOLEAN
  /\ readySeen \in BOOLEAN
  /\ timedOut \in BOOLEAN

\* A caller may hand over a context that is already done, and a run with the
\* same RunID may have left its address file in the same directory.
Init ==
  /\ main = "prepare"
  /\ ctx \in {"live", "canceled", "deadline"}
  /\ monCtx = ctx
  /\ exitErr = "nil" /\ hookErr = "nil" /\ result = "none"
  /\ mon = "none"
  /\ client = "none" /\ lastErr = FALSE /\ reply = "none" /\ pending = "nil"
  /\ hookErrCh = "empty"
  /\ hookKind \in HookKinds /\ hookOutcome = "none"
  /\ args \in {"ok", "noConfig", "invalid"} /\ removable \in RemoveOutcomes
  /\ proc = "none" /\ admin = "starting" /\ addrFile \in {"missing", "stale"}
  /\ inherited \in Inheritors
  /\ readySeen = FALSE /\ timedOut = FALSE

-----------------------------------------------------------------------------
(* The goroutine that called Run.                                          *)
(* A definition named Fault... is a plausible slip in the definition that  *)
(* follows it; no action uses it, it shows that a property can fail.       *)

Prepared(address) ==
  /\ main = "prepare"
  /\ \/ /\ args = "invalid"
        /\ main' = "returned" /\ result' = "args"
        /\ UNCHANGED addrFile
     \/ /\ args # "invalid"
        /\ main' = "start"
        /\ addrFile' = address
        /\ UNCHANGED result
  /\ UNCHANGED <<monCtx, exitErr, hookErr, mon, hookErrCh, proc>> /\ MainFrame

FaultNoRemoveAll == Prepared(addrFile)

\* ensureAdminAddress, then os.RemoveAll, whose error is ignored.  Without a
\* configuration the path is empty and nothing is removed.
Prepare == Prepared(IF args = "ok" /\ removable THEN "missing" ELSE addrFile)

\* The binary cannot be executed, or the context is done already.
StartFails ==
  /\ main = "start"
  /\ main' = "returned" /\ result' = "start"
  /\ UNCHANGED <<monCtx, exitErr, hookErr, mon, hookErrCh, proc, addrFile>> /\ MainFrame

StartEnvoy ==
  /\ main = "start" /\ ctx = "live"
  /\ main' = "wait"
  /\ proc' = "running"
  /\ mon' = "poll"
  /\ UNCHANGED <<monCtx, callVars, hookErrCh, addrFile>> /\ MainFrame

Waited(outputClosed) ==
  /\ main = "wait" /\ proc \in Dead /\ outputClosed
  /\ main' = "cancel"
  /\ exitErr' \in IF proc # "exit0" THEN {"exit"}
                  ELSE IF ctx = "live" THEN {"nil"} ELSE {"nil", "ctx"}
  /\ UNCHANGED <<monCtx, hookErr, result, mon, hookErrCh, proc, addrFile>> /\ MainFrame

FaultOutputNotAwaited == Waited(TRUE)

\* Out and Err are no files: exec.Cmd.Wait copies them until every process that
\* holds them has closed them, and cmd.WaitDelay, which would cut that, is zero.
\* Wait returns the context's error when Envoy exits with status zero just as the
\* context ends and is killed, too late.
WaitReturns == Waited(~inherited)

Cancelled(context) ==
  /\ main = "cancel"
  /\ main' = "receive"
  /\ monCtx' = context
  /\ UNCHANGED <<callVars, mon, hookErrCh, proc, addrFile>> /\ MainFrame

FaultMonitorNotCancelled == Cancelled(monCtx)

CancelMonitor == Cancelled(IF monCtx = "live" THEN "canceled" ELSE monCtx)

Received(err) ==
  /\ main = "receive"
  /\ main' = "decide"
  /\ hookErr' = err
  /\ hookErrCh' = "empty"
  /\ UNCHANGED <<monCtx, exitErr, result, mon, proc, addrFile>> /\ MainFrame

FaultReceiveWithoutWaiting == Received(IF hookErrCh = "empty" THEN "nil" ELSE hookErrCh)

ReceiveHookErr == hookErrCh # "empty" /\ Received(hookErrCh)

Returned(err) ==
  /\ main = "decide"
  /\ main' = "returned"
  /\ result' = err
  /\ UNCHANGED <<monCtx, exitErr, hookErr, mon, hookErrCh, proc, addrFile>> /\ MainFrame

FaultAnyDoneIsClean ==
  Returned(IF hookErr # "nil" THEN hookErr
           ELSE IF exitErr = "nil" \/ ctx # "live" THEN "nil" ELSE exitErr)
FaultCancelHidesHook ==
  Returned(IF ctx = "canceled" THEN "nil"
           ELSE IF hookErr # "nil" THEN hookErr ELSE exitErr)
FaultCancelNotClean == Returned(IF hookErr # "nil" THEN hookErr ELSE exitErr)
FaultHookErrDropped ==
  Returned(IF exitErr = "nil" \/ ctx = "canceled" THEN "nil" ELSE exitErr)

\* The context is read here, not when Envoy died.
Return ==
  Returned(IF hookErr # "nil" THEN hookErr
           ELSE IF exitErr = "nil" \/ ctx = "canceled" THEN "nil" ELSE exitErr)

-----------------------------------------------------------------------------
(* The monitor goroutine. *)

FaultCancelReported(err) == err

\* Context cancellation is not reported, every other error is.
Reported(err) == IF err = "canceled" THEN "nil" ELSE err

Polled(silent) ==
  /\ mon = "poll" /\ args = "ok"
  /\ \/ /\ addrFile \in {"own", "stale"}
        /\ client' = addrFile /\ mon' = "await"
        /\ UNCHANGED pending
     \/ /\ addrFile \in silent
        /\ pending' = "nil" /\ mon' = "send"
        /\ UNCHANGED client
  /\ UNCHANGED <<lastErr, reply, hookErrCh, hookOutcome, histVars>> /\ MonitorFrame

FaultEmptyFileGivesUp == Polled({"pipe", "empty"})

\* A tick that finds no file, or an empty one, leaves the loop where it is.  An
\* address without a port (a Unix domain socket) ends the monitor quietly.
PollTick == Polled({"pipe"})

FaultPollFallsThrough ==
  /\ mon = "poll" /\ monCtx # "live"
  /\ hookErrCh' = "nil"
  /\ pending' = "panic" /\ mon' = "send"
  /\ UNCHANGED <<client, lastErr, reply, hookOutcome, histVars>> /\ MonitorFrame

\* The error of NewAdminClient is dropped: cmd.Wait has the better one.
PollDone ==
  /\ mon = "poll" /\ monCtx # "live"
  /\ pending' = "nil" /\ mon' = "send"
  /\ UNCHANGED <<client, lastErr, reply, hookErrCh, hookOutcome, histVars>> /\ MonitorFrame

\* Both branches of AwaitReady's select may be ready: the choice is free.
AwaitTick ==
  /\ mon = "await"
  /\ mon' = "probe"
  /\ UNCHANGED <<monVars, hookErrCh, hookOutcome, histVars>> /\ MonitorFrame

AwaitDone ==
  /\ mon = "await" /\ monCtx # "live"
  /\ pending' = Reported(IF lastErr THEN "notready" ELSE monCtx)
  /\ mon' = "send"
  /\ UNCHANGED <<client, lastErr, reply, hookErrCh, hookOutcome, histVars>> /\ MonitorFrame

ProbeSucceeds ==
  /\ mon = "probe" /\ reply = "live"
  /\ mon' = "hook" /\ hookOutcome' = "running"
  /\ reply' = "none" /\ readySeen' = TRUE
  /\ UNCHANGED <<client, lastErr, pending, hookErrCh, timedOut>> /\ MonitorFrame

\* Can the endpoint be reached, if only to say that Envoy is not ready?
Serving == client = "stale" \/ (proc = "running" /\ admin # "starting")

FaultStatusIgnored ==
  /\ mon = "probe" /\ reply = "other"
  /\ mon' = "hook" /\ hookOutcome' = "running" /\ reply' = "none"
  /\ UNCHANGED <<client, lastErr, pending, hookErrCh, histVars>> /\ MonitorFrame

\* Another status or body than LIVE, no connection, or one that breaks.
ProbeFails ==
  /\ mon = "probe"
  /\ reply = "other" \/ client = "stale" \/ ~Serving
  /\ lastErr' = TRUE
  /\ mon' = "await" /\ reply' = "none"
  /\ UNCHANGED <<client, pending, hookErrCh, hookOutcome, histVars>> /\ MonitorFrame

\* IsReady fails with the error of a context, or a time-out that errors.Is takes
\* for context.DeadlineExceeded: AwaitReady returns lastErr, nil the first time.
ProbeCut ==
  /\ mon = "probe"
  /\ monCtx # "live" \/ (TransportTimeouts /\ reply = "none")
  /\ IF lastErr
       THEN mon' = "send" /\ pending' = Reported("notready") /\ UNCHANGED hookOutcome
       ELSE mon' = "hook" /\ hookOutcome' = "running" /\ UNCHANGED pending
  /\ timedOut' = (timedOut \/ monCtx = "live")
  /\ reply' = "none"
  /\ UNCHANGED <<client, lastErr, hookErrCh, readySeen>> /\ MonitorFrame

RawHook(outcome) ==
  IF outcome = "ok" THEN "nil" ELSE IF outcome = "err" THEN "hook" ELSE outcome

FaultErrorNotSwallowed(outcome) == RawHook(outcome)

\* safeStartupHook recovers, logs and swallows every failure of its delegate.
SafeHook(outcome) == "nil"

\* A panic skips Reported: the deferred function sends it.  Goexit sends nothing.
HookReturns(outcome) ==
  /\ mon = "hook"
  /\ hookOutcome' = outcome
  /\ \/ /\ outcome = "goexit" /\ hookKind = "user"
        /\ mon' = "gone" /\ UNCHANGED pending
     \/ /\ outcome # "goexit"
        /\ mon' = "send"
        /\ pending' = Reported(IF hookKind = "default" THEN SafeHook(outcome)
                                                       ELSE RawHook(outcome))
  /\ UNCHANGED <<client, lastErr, reply, hookErrCh, histVars>> /\ MonitorFrame

Send ==
  /\ mon = "send" /\ hookErrCh = "empty"
  /\ hookErrCh' = pending
  /\ mon' = "done"
  /\ UNCHANGED <<monVars, hookOutcome, histVars>> /\ MonitorFrame

-----------------------------------------------------------------------------
(* The environment. *)

\* The caller's context ends, and its children with it.
CtxEnds ==
  /\ ctx = "live" /\ main # "returned"
  /\ ctx' \in {"canceled", "deadline"}
  /\ monCtx' = IF monCtx = "live" THEN ctx' ELSE monCtx
  /\ UNCHANGED <<reply, envoyVars>> /\ EnvironmentFrame

FaultPlainCommand == FALSE /\ UNCHANGED vars

\* exec.CommandContext kills the process when its context is done.
KillOnDone ==
  /\ proc = "running" /\ ctx # "live"
  /\ proc' = "killed"
  /\ UNCHANGED <<ctx, monCtx, reply, admin, addrFile, inherited>> /\ EnvironmentFrame

EnvoyExits ==
  /\ proc = "running"
  /\ proc' \in {"exit0", "exitN"}
  /\ UNCHANGED <<ctx, monCtx, reply, admin, addrFile, inherited>> /\ EnvironmentFrame

\* Envoy creates the file before it writes its address.
EnvoyWritesAddress ==
  /\ proc = "running" /\ args = "ok"
  /\ \/ addrFile \in {"missing", "stale"} /\ addrFile' = "empty"
     \/ addrFile = "empty" /\ addrFile' \in {"own", "pipe"}
  /\ UNCHANGED <<ctx, monCtx, reply, proc, admin, inherited>> /\ EnvironmentFrame

EnvoyAdminMoves ==
  /\ proc = "running"
  /\ \/ admin = "starting" /\ admin' \in {"live", "draining"}
     \/ admin = "live" /\ admin' = "draining"
  /\ UNCHANGED <<ctx, monCtx, reply, proc, addrFile, inherited>> /\ EnvironmentFrame

\* The last other process that holds Envoy's output closes it, or exits.
OutputCloses ==
  /\ proc # "none" /\ inherited
  /\ inherited' = FALSE
  /\ UNCHANGED <<ctx, monCtx, reply, proc, admin, addrFile>> /\ EnvironmentFrame

\* Behind a stale address may be anything, another Envoy included.
Answer ==
  /\ mon = "probe" /\ reply = "none" /\ Serving
  /\ reply' \in IF client = "stale" THEN {"live", "other"}
                ELSE IF admin = "live" THEN {"live"} ELSE {"other"}
  /\ UNCHANGED <<ctx, monCtx, envoyVars>> /\ EnvironmentFrame

-----------------------------------------------------------------------------

MainStep ==
  \/ Prepare \/ StartFails \/ StartEnvoy \/ WaitReturns
  \/ CancelMonitor \/ ReceiveHookErr \/ Return

MonitorStep ==
  \/ PollTick \/ PollDone \/ AwaitTick \/ AwaitDone
  \/ ProbeSucceeds \/ ProbeFails \/ ProbeCut
  \/ \E outcome \in HookOutcomes : HookReturns(outcome)
  \/ Send

EnvironmentStep ==
  \/ CtxEnds \/ KillOnDone \/ EnvoyExits
  \/ EnvoyWritesAddress \/ EnvoyAdminMoves \/ OutputCloses \/ Answer

\* What runtime.Goexit leaves behind: Run waits for an answer that never comes.
Abandoned == mon = "gone" /\ main = "receive"

\* The states in which nothing is left to do.
Terminated ==
  /\ Abandoned \/ (main = "returned" /\ mon \in {"none", "done"})
  /\ UNCHANGED vars

Next == MainStep \/ MonitorStep \/ EnvironmentStep \/ Terminated

Spec == Init /\ [][Next]_vars

(***************************************************************************)
(* Fairness.  Runnable goroutines are scheduled; exec's watcher kills a    *)
(* process whose context is done; a live admin server answers; a request   *)
(* ends when its context does; a select whose Done channel stays ready     *)
(* picks it in the end, at random, which is the strong fairness of         *)
(* AwaitDone; the default hook ends because of its three second timeout.   *)
(* That a caller's hook ends after its context does is an assumption about *)
(* the caller.  Nothing makes Envoy exit, become ready or write its file,  *)
(* and nothing makes another process close the output it inherited.        *)
(***************************************************************************)
Fairness ==
  /\ WF_vars(MainStep)
  /\ WF_vars(PollTick \/ PollDone)
  /\ WF_vars(AwaitTick \/ AwaitDone) /\ SF_vars(AwaitDone)
  /\ WF_vars(ProbeSucceeds \/ ProbeFails \/ (monCtx # "live" /\ ProbeCut))
  /\ WF_vars(Send)
  /\ WF_vars(KillOnDone)
  /\ WF_vars(admin = "live" /\ Answer)
  /\ WF_vars(\E outcome \in HookOutcomes : hookKind = "default" /\ HookReturns(outcome))

CooperativeHook ==
  WF_vars(\E outcome \in HookOutcomes : monCtx # "live" /\ HookReturns(outcome))

FairSpec == Spec /\ Fairness /\ CooperativeHook

-----------------------------------------------------------------------------
(* Safety *)

\* A call that launched Envoy never returns while the process is alive, while
\* anything may still be written to its logs, or while the monitor is at work, in
\* the hook or before it (run.go:86-89): a caller that reads the logs, or deletes
\* the run directory, races with nobody.
ReturnsQuiescent ==
  main = "returned" /\ result \notin {"args", "start"} =>
    proc \in Dead /\ mon = "done" /\ ~inherited

\* However the monitor ends, by the polling error, by AwaitReady, by the hook or
\* by its panic, it finds room in hookErrCh (run.go:48-84): it sends only once.
SenderNeverBlocks == mon = "send" => hookErrCh = "empty"

\* The error or the panic of a caller's hook is what the call returns, whatever
\* the exit status and whether or not the context was cancelled (run.go:91-94).
HookFailureNeverLost ==
  main = "returned" /\ hookKind = "user" =>
    /\ hookOutcome = "err" => result = "hook"
    /\ hookOutcome = "panic" => result = "panic"

\* A nil result means that Envoy exited with status zero or that the context was
\* cancelled, not merely timed out (run.go:96-100).
NilMeansCleanEnd ==
  main = "returned" /\ result = "nil" => proc = "exit0" \/ ctx = "canceled"

\* After a cancellation the exit error of a killed Envoy is never returned: an
\* error can only come from the hook or from the last failed /ready.
InterruptErrorOnlyFromMonitor ==
  main = "returned" /\ ctx = "canceled" /\ proc # "none" =>
    result \in {"nil", "notready", "hook", "panic"}

\* The default hook, which saves the config dump, never fails a run, whether it
\* fails, panics or times out (startup.go:28-46).
DefaultHookNeverFailsRun == hookKind = "default" => result \notin {"hook", "panic"}

\* What the result of a call says of the hook, of Envoy and of the context: a
\* failed hook is never hidden, nil never hides a failure, an interrupt is no
\* failure, and the default hook is none either (run.go:91-100).
ResultIsHonest ==
  /\ HookFailureNeverLost /\ NilMeansCleanEnd
  /\ InterruptErrorOnlyFromMonitor /\ DefaultHookNeverFailsRun

\* When a stale address file can be removed, the client handed to the hook never
\* points at the admin server of an earlier run (run.go:29-30, admin.go:215-230).
ClientNeverStale == removable => client # "stale"

\* The hook meets an Envoy that was never ready in one case only: the very first
\* /ready request was cut short by a context or a time-out (admin.go:118-121).
UnreadyHookOnlyWhenCut ==
  hookOutcome # "none" /\ ~readySeen => ~lastErr /\ (monCtx # "live" \/ timedOut)

-----------------------------------------------------------------------------
(* Refinement *)

phaseBar ==
  IF main \in {"prepare", "start"} THEN "new"
  ELSE IF main = "returned" THEN "over" ELSE "running"
childBar ==
  IF proc = "none" THEN "none" ELSE IF proc = "running" THEN "alive"
  ELSE IF proc = "exit0" THEN "clean" ELSE "dirty"
hookBar ==
  IF hookOutcome = "none" THEN "idle"
  ELSE IF hookOutcome \in {"running", "goexit"} THEN "running"
  ELSE IF hookKind = "user" /\ hookOutcome \in {"err", "panic"} THEN "failed"
  ELSE "fine"
resultBar == IF result \in {"none", "nil"} THEN result ELSE "error"

Contract == INSTANCE RunContract WITH
  phase <- phaseBar, child <- childBar, hook <- hookBar,
  interrupted <- (ctx = "canceled"), result <- resultBar

\* The two goroutines, their contexts and the channel keep the contract of Run.
ContractSpec == Contract!Spec

-----------------------------------------------------------------------------
(* Liveness, under FairSpec *)

\* When Envoy and its output end, the monitor is stopped wherever it is and the
\* call returns, unless the hook has left by runtime.Goexit: no panic, no error and
\* no time-out of a hook or of /ready keeps the call (run.go:55-89).
ExitEndsRun == (proc \in Dead /\ ~inherited) ~> (main = "returned" \/ Abandoned)

\* When the context ends, Envoy is killed and the call returns, with the same
\* exception, once no process of Envoy's that lives on holds its output.
CtxEndsRun == (ctx # "live" /\ ~inherited) ~> (main = "returned" \/ Abandoned)

\* An Envoy that writes its address, becomes ready and stays so meets the hook:
\* no early look at a missing or empty file, and no early /ready, loses it.
HookEventuallyRuns ==
  <>[](/\ proc = "running" /\ admin = "live" /\ ctx = "live"
       /\ addrFile = "own" /\ client # "stale" /\ ~timedOut)
    => <>(hookOutcome # "none")
=============================================================================

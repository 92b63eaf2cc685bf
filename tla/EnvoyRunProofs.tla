--------------------------- MODULE EnvoyRunProofs ---------------------------
(***************************************************************************)
(* Proofs about EnvoyRun, for any set of hooks and of hook outcomes, and   *)
(* whatever the transport and os.RemoveAll do.                             *)
(*                                                                         *)
(* The safety properties speak of the state in which Run has returned; the *)
(* invariant carries what happened before: which goroutine holds the one   *)
(* answer of the monitor, where that answer came from, and what Run knew   *)
(* of Envoy's exit when it decided.                                        *)
(***************************************************************************)
EXTENDS EnvoyRun, TLAPS

Unlaunched == main \in {"prepare", "start"} \/ result \in {"args", "start"}

\* Where Run is tells what has become of the process and of the result.
MainInv ==
  /\ result \in {"args", "start"} => main = "returned"
  /\ main # "returned" => result = "none"
  /\ Unlaunched <=> proc = "none"
  /\ proc = "none" <=> mon = "none"
  /\ main \notin {"prepare", "start", "wait"} /\ ~Unlaunched => proc \in Dead /\ ~inherited
  /\ main \in {"cancel", "receive", "decide"} => (exitErr = "nil" => proc = "exit0")

\* hookErrCh holds the monitor's answer from the moment it is sent until Run
\* takes it, and Run returns on the strength of that answer.
ChannelInv ==
  /\ hookErrCh # "empty" => mon = "done" /\ hookErrCh = pending
  /\ mon = "done" /\ hookErrCh = "empty" => main \in {"decide", "returned"}
  /\ main \in {"decide", "returned"} /\ ~Unlaunched => mon = "done" /\ hookErrCh = "empty"
  /\ main = "decide" => hookErr = pending

\* The result, the monitor's answer and the end of Envoy.
ResultInv ==
  main = "returned" /\ ~Unlaunched =>
    /\ pending # "nil" => result = pending
    /\ pending = "nil" /\ ctx = "canceled" => result = "nil"
    /\ pending = "nil" => result \in {"nil", "exit", "ctx"}
    /\ result = "nil" => pending = "nil" /\ (proc = "exit0" \/ ctx = "canceled")

\* Where the monitor is tells what has become of the hook, and the answer tells
\* how a caller's hook ended.
HookInv ==
  /\ mon \in {"none", "poll", "await", "probe"} => hookOutcome = "none"
  /\ mon = "hook" <=> hookOutcome = "running"
  /\ mon = "gone" <=> hookOutcome = "goexit"
  /\ mon \notin {"send", "done"} => pending = "nil"
  /\ mon \in {"send", "done"} /\ hookKind = "user" =>
       /\ hookOutcome = "err" => pending = "hook"
       /\ hookOutcome = "panic" => pending = "panic"
  /\ pending = "hook" => hookKind = "user" /\ hookOutcome = "err"
  /\ pending = "panic" => hookKind = "user" /\ hookOutcome = "panic"

\* The monitor's context ends with its parent, or by Run's own cancellation.
ContextInv ==
  /\ monCtx = "deadline" => ctx = "deadline"
  /\ ctx # "live" => monCtx # "live"
  /\ pending = "deadline" => ctx = "deadline"

\* A stale address file does not survive Prepare.
StaleInv ==
  /\ mon \in {"none", "poll"} => client = "none"
  /\ removable /\ args = "ok" /\ main # "prepare" => addrFile # "stale"
  /\ ClientNeverStale

IInv ==
  /\ TypeOK
  /\ MainInv
  /\ ChannelInv
  /\ ResultInv
  /\ HookInv
  /\ ContextInv
  /\ StaleInv
  /\ UnreadyHookOnlyWhenCut

USE DEF Dead, Reports, callVars, monVars, hookVars, envoyVars, histVars, vars

USE DEF MainFrame, MonitorFrame, EnvironmentFrame, Prepared, Waited, Cancelled, Received,
        Returned, Reported, Polled, RawHook, SafeHook

\* Every constant that Init draws from is within its type.
LEMMA TypeInit == Init => TypeOK
  BY HookKindsAssumption, InheritorsAssumption, RemoveOutcomesAssumption DEF Init, TypeOK

\* No step of any goroutine, of Envoy or of the context leaves the types.
LEMMA TypeNext == TypeOK /\ [Next]_vars => TypeOK'
  <1> SUFFICES ASSUME TypeOK, [Next]_vars PROVE TypeOK'
    OBVIOUS
  <1> USE DEF TypeOK
  <1>1. CASE MainStep
    <2>1. CASE Prepare
      BY <2>1 DEF Prepare
    <2>2. CASE StartFails \/ StartEnvoy
      BY <2>2 DEF StartFails, StartEnvoy
    <2>3. CASE WaitReturns
      BY <2>3 DEF WaitReturns
    <2>4. CASE CancelMonitor \/ ReceiveHookErr \/ Return
      BY <2>4 DEF CancelMonitor, ReceiveHookErr, Return
    <2> QED
      BY <1>1, <2>1, <2>2, <2>3, <2>4 DEF MainStep
  <1>2. CASE MonitorStep
    <2>1. CASE PollTick \/ PollDone
      BY <2>1 DEF PollTick, PollDone
    <2>2. CASE AwaitTick \/ AwaitDone
      BY <2>2 DEF AwaitTick, AwaitDone
    <2>3. CASE ProbeSucceeds \/ ProbeFails \/ ProbeCut
      BY <2>3 DEF ProbeSucceeds, ProbeFails, ProbeCut
    <2>4. CASE \E outcome \in HookOutcomes : HookReturns(outcome)
      BY <2>4, HookOutcomesAssumption DEF HookReturns
    <2>5. CASE Send
      BY <2>5 DEF Send
    <2> QED
      BY <1>2, <2>1, <2>2, <2>3, <2>4, <2>5 DEF MonitorStep
  <1>3. CASE EnvironmentStep
    <2>1. CASE CtxEnds \/ KillOnDone \/ EnvoyExits
      BY <2>1 DEF CtxEnds, KillOnDone, EnvoyExits
    <2>2. CASE EnvoyWritesAddress \/ EnvoyAdminMoves \/ OutputCloses \/ Answer
      BY <2>2 DEF EnvoyWritesAddress, EnvoyAdminMoves, OutputCloses, Answer
    <2> QED
      BY <1>3, <2>1, <2>2 DEF EnvironmentStep
  <1>4. CASE Terminated \/ UNCHANGED vars
    BY <1>4 DEF Terminated
  <1> QED
    BY <1>1, <1>2, <1>3, <1>4 DEF Next

\* The variables of every component stay within their types.
THEOREM TypeCorrect == Spec => []TypeOK
  BY TypeInit, TypeNext, PTL DEF Spec

-----------------------------------------------------------------------------

\* Before Run launches Envoy there is no monitor and no answer of it.
LEMMA InitInv == Init => IInv
  BY TypeInit DEF Init, IInv, Unlaunched, MainInv, ChannelInv, ResultInv, HookInv,
     ContextInv, StaleInv, ClientNeverStale, UnreadyHookOnlyWhenCut

\* ChannelInv is needed for the monitor, which stops before Run returns.
LEMMA MainInvNext == MainInv /\ ChannelInv /\ TypeOK /\ [Next]_vars => MainInv'
  <1> SUFFICES ASSUME MainInv, ChannelInv, TypeOK, [Next]_vars PROVE MainInv'
    OBVIOUS
  <1> USE DEF MainInv, ChannelInv, Unlaunched
  <1>1. CASE Prepare
    BY <1>1 DEF Prepare, TypeOK
  <1>2. CASE StartFails \/ StartEnvoy
    BY <1>2 DEF StartFails, StartEnvoy, TypeOK
  <1>3. CASE WaitReturns \/ CancelMonitor
    BY <1>3 DEF WaitReturns, CancelMonitor, TypeOK
  <1>4. CASE ReceiveHookErr
    BY <1>4 DEF ReceiveHookErr
  <1>5. CASE Return
    BY <1>5 DEF Return, TypeOK
  <1>6. CASE PollTick \/ PollDone
    BY <1>6 DEF PollTick, PollDone
  <1>7. CASE AwaitTick \/ AwaitDone
    BY <1>7 DEF AwaitTick, AwaitDone
  <1>8. CASE ProbeSucceeds \/ ProbeFails
    BY <1>8 DEF ProbeSucceeds, ProbeFails
  <1>9. CASE ProbeCut
    BY <1>9 DEF ProbeCut
  <1>10. CASE \E outcome \in HookOutcomes : HookReturns(outcome)
    BY <1>10, HookOutcomesAssumption DEF HookReturns
  <1>11. CASE Send
    BY <1>11 DEF Send
  <1>12. CASE CtxEnds
    BY <1>12 DEF CtxEnds
  <1>13. CASE KillOnDone \/ EnvoyExits
    BY <1>13 DEF KillOnDone, EnvoyExits
  <1>14. CASE EnvoyWritesAddress \/ EnvoyAdminMoves \/ OutputCloses \/ Answer
    BY <1>14 DEF EnvoyWritesAddress, EnvoyAdminMoves, OutputCloses, Answer
  <1>15. CASE Terminated \/ UNCHANGED vars
    BY <1>15 DEF Terminated
  <1> QED
    BY <1>1, <1>2, <1>3, <1>4, <1>5, <1>6, <1>7, <1>8, <1>9, <1>10, <1>11, <1>12, <1>13, <1>14, <1>15
    DEF Next, MainStep, MonitorStep, EnvironmentStep

\* Run leaves ReceiveHookErr with the answer the monitor sent.
LEMMA ChannelInvNext == MainInv /\ ChannelInv /\ TypeOK /\ [Next]_vars => ChannelInv'
  <1> SUFFICES ASSUME MainInv, ChannelInv, TypeOK, [Next]_vars PROVE ChannelInv'
    OBVIOUS
  <1> USE DEF MainInv, ChannelInv, Unlaunched
  <1>1. CASE Prepare
    BY <1>1 DEF Prepare
  <1>2. CASE StartFails \/ StartEnvoy
    BY <1>2 DEF StartFails, StartEnvoy
  <1>3. CASE WaitReturns \/ CancelMonitor
    BY <1>3 DEF WaitReturns, CancelMonitor
  <1>4. CASE ReceiveHookErr
    BY <1>4 DEF ReceiveHookErr, TypeOK
  <1>5. CASE Return
    BY <1>5 DEF Return, TypeOK
  <1>6. CASE PollTick \/ PollDone
    BY <1>6 DEF PollTick, PollDone
  <1>7. CASE AwaitTick \/ AwaitDone
    BY <1>7 DEF AwaitTick, AwaitDone
  <1>8. CASE ProbeSucceeds \/ ProbeFails
    BY <1>8 DEF ProbeSucceeds, ProbeFails
  <1>9. CASE ProbeCut
    BY <1>9 DEF ProbeCut
  <1>10. CASE \E outcome \in HookOutcomes : HookReturns(outcome)
    BY <1>10, HookOutcomesAssumption DEF HookReturns
  <1>11. CASE Send
    BY <1>11 DEF Send, TypeOK
  <1>12. CASE CtxEnds
    BY <1>12 DEF CtxEnds
  <1>13. CASE KillOnDone \/ EnvoyExits
    BY <1>13 DEF KillOnDone, EnvoyExits
  <1>14. CASE EnvoyWritesAddress \/ EnvoyAdminMoves \/ OutputCloses \/ Answer
    BY <1>14 DEF EnvoyWritesAddress, EnvoyAdminMoves, OutputCloses, Answer
  <1>15. CASE Terminated \/ UNCHANGED vars
    BY <1>15 DEF Terminated
  <1> QED
    BY <1>1, <1>2, <1>3, <1>4, <1>5, <1>6, <1>7, <1>8, <1>9, <1>10, <1>11, <1>12, <1>13, <1>14, <1>15
    DEF Next, MainStep, MonitorStep, EnvironmentStep

\* Once Run has returned nothing its result depends on changes.
LEMMA ResultInvNext == MainInv /\ ChannelInv /\ ResultInv /\ TypeOK /\ [Next]_vars => ResultInv'
  <1> SUFFICES ASSUME MainInv, ChannelInv, ResultInv, TypeOK, [Next]_vars PROVE ResultInv'
    OBVIOUS
  <1> USE DEF MainInv, ChannelInv, ResultInv, Unlaunched
  <1>1. CASE Prepare
    BY <1>1 DEF Prepare
  <1>2. CASE StartFails \/ StartEnvoy
    BY <1>2 DEF StartFails, StartEnvoy
  <1>3. CASE WaitReturns \/ CancelMonitor
    BY <1>3 DEF WaitReturns, CancelMonitor
  <1>4. CASE ReceiveHookErr
    BY <1>4 DEF ReceiveHookErr
  <1>5. CASE Return
    BY <1>5 DEF Return, TypeOK
  <1>6. CASE PollTick \/ PollDone
    BY <1>6 DEF PollTick, PollDone
  <1>7. CASE AwaitTick \/ AwaitDone
    BY <1>7 DEF AwaitTick, AwaitDone
  <1>8. CASE ProbeSucceeds \/ ProbeFails
    BY <1>8 DEF ProbeSucceeds, ProbeFails
  <1>9. CASE ProbeCut
    BY <1>9 DEF ProbeCut
  <1>10. CASE \E outcome \in HookOutcomes : HookReturns(outcome)
    BY <1>10, HookOutcomesAssumption DEF HookReturns
  <1>11. CASE Send
    BY <1>11 DEF Send
  <1>12. CASE CtxEnds
    BY <1>12 DEF CtxEnds
  <1>13. CASE KillOnDone \/ EnvoyExits
    BY <1>13 DEF KillOnDone, EnvoyExits
  <1>14. CASE EnvoyWritesAddress \/ EnvoyAdminMoves \/ OutputCloses \/ Answer
    BY <1>14 DEF EnvoyWritesAddress, EnvoyAdminMoves, OutputCloses, Answer
  <1>15. CASE Terminated \/ UNCHANGED vars
    BY <1>15 DEF Terminated
  <1> QED
    BY <1>1, <1>2, <1>3, <1>4, <1>5, <1>6, <1>7, <1>8, <1>9, <1>10, <1>11, <1>12, <1>13, <1>14, <1>15
    DEF Next, MainStep, MonitorStep, EnvironmentStep

\* The answer of a hook is its own.
LEMMA HookInvNext == MainInv /\ ChannelInv /\ HookInv /\ TypeOK /\ [Next]_vars => HookInv'
  <1> SUFFICES ASSUME MainInv, ChannelInv, HookInv, TypeOK, [Next]_vars PROVE HookInv'
    OBVIOUS
  <1> USE DEF HookInv, MainInv, Unlaunched
  <1>1. CASE Prepare
    BY <1>1 DEF Prepare
  <1>2. CASE StartFails \/ StartEnvoy
    BY <1>2 DEF StartFails, StartEnvoy
  <1>3. CASE WaitReturns \/ CancelMonitor
    BY <1>3 DEF WaitReturns, CancelMonitor
  <1>4. CASE ReceiveHookErr
    BY <1>4 DEF ReceiveHookErr
  <1>5. CASE Return
    BY <1>5 DEF Return
  <1>6. CASE PollTick \/ PollDone
    BY <1>6 DEF PollTick, PollDone
  <1>7. CASE AwaitTick \/ AwaitDone
    BY <1>7 DEF AwaitTick, AwaitDone, TypeOK
  <1>8. CASE ProbeSucceeds \/ ProbeFails
    BY <1>8 DEF ProbeSucceeds, ProbeFails
  <1>9. CASE ProbeCut
    BY <1>9 DEF ProbeCut
  <1>10. CASE \E outcome \in HookOutcomes : HookReturns(outcome)
    BY <1>10, HookOutcomesAssumption DEF HookReturns, TypeOK
  <1>11. CASE Send
    BY <1>11 DEF Send
  <1>12. CASE CtxEnds
    BY <1>12 DEF CtxEnds
  <1>13. CASE KillOnDone \/ EnvoyExits
    BY <1>13 DEF KillOnDone, EnvoyExits
  <1>14. CASE EnvoyWritesAddress \/ EnvoyAdminMoves \/ OutputCloses \/ Answer
    BY <1>14 DEF EnvoyWritesAddress, EnvoyAdminMoves, OutputCloses, Answer
  <1>15. CASE Terminated \/ UNCHANGED vars
    BY <1>15 DEF Terminated
  <1> QED
    BY <1>1, <1>2, <1>3, <1>4, <1>5, <1>6, <1>7, <1>8, <1>9, <1>10, <1>11, <1>12, <1>13, <1>14, <1>15
    DEF Next, MainStep, MonitorStep, EnvironmentStep

\* A deadline of the monitor is a deadline of the caller.
LEMMA ContextInvNext == ContextInv /\ TypeOK /\ [Next]_vars => ContextInv'
  <1> SUFFICES ASSUME ContextInv, TypeOK, [Next]_vars PROVE ContextInv'
    OBVIOUS
  <1> USE DEF ContextInv
  <1>1. CASE Prepare
    BY <1>1 DEF Prepare
  <1>2. CASE StartFails \/ StartEnvoy
    BY <1>2 DEF StartFails, StartEnvoy
  <1>3. CASE WaitReturns \/ CancelMonitor
    BY <1>3 DEF WaitReturns, CancelMonitor, TypeOK
  <1>4. CASE ReceiveHookErr
    BY <1>4 DEF ReceiveHookErr
  <1>5. CASE Return
    BY <1>5 DEF Return
  <1>6. CASE PollTick \/ PollDone
    BY <1>6 DEF PollTick, PollDone
  <1>7. CASE AwaitTick \/ AwaitDone
    BY <1>7 DEF AwaitTick, AwaitDone, TypeOK
  <1>8. CASE ProbeSucceeds \/ ProbeFails
    BY <1>8 DEF ProbeSucceeds, ProbeFails
  <1>9. CASE ProbeCut
    BY <1>9 DEF ProbeCut
  <1>10. CASE \E outcome \in HookOutcomes : HookReturns(outcome)
    BY <1>10, HookOutcomesAssumption DEF HookReturns
  <1>11. CASE Send
    BY <1>11 DEF Send
  <1>12. CASE CtxEnds
    BY <1>12 DEF CtxEnds, TypeOK
  <1>13. CASE KillOnDone \/ EnvoyExits
    BY <1>13 DEF KillOnDone, EnvoyExits
  <1>14. CASE EnvoyWritesAddress \/ EnvoyAdminMoves \/ OutputCloses \/ Answer
    BY <1>14 DEF EnvoyWritesAddress, EnvoyAdminMoves, OutputCloses, Answer
  <1>15. CASE Terminated \/ UNCHANGED vars
    BY <1>15 DEF Terminated
  <1> QED
    BY <1>1, <1>2, <1>3, <1>4, <1>5, <1>6, <1>7, <1>8, <1>9, <1>10, <1>11, <1>12, <1>13, <1>14, <1>15
    DEF Next, MainStep, MonitorStep, EnvironmentStep

\* The client is made from a file this run's Envoy wrote.
LEMMA StaleInvNext == MainInv /\ StaleInv /\ [Next]_vars => StaleInv'
  <1> SUFFICES ASSUME MainInv, StaleInv, [Next]_vars PROVE StaleInv'
    OBVIOUS
  <1> USE DEF StaleInv, MainInv, Unlaunched, ClientNeverStale
  <1>1. CASE Prepare
    BY <1>1 DEF Prepare
  <1>2. CASE StartFails \/ StartEnvoy
    BY <1>2 DEF StartFails, StartEnvoy
  <1>3. CASE WaitReturns \/ CancelMonitor
    BY <1>3 DEF WaitReturns, CancelMonitor
  <1>4. CASE ReceiveHookErr
    BY <1>4 DEF ReceiveHookErr
  <1>5. CASE Return
    BY <1>5 DEF Return
  <1>6. CASE PollTick \/ PollDone
    BY <1>6 DEF PollTick, PollDone
  <1>7. CASE AwaitTick \/ AwaitDone
    BY <1>7 DEF AwaitTick, AwaitDone
  <1>8. CASE ProbeSucceeds \/ ProbeFails
    BY <1>8 DEF ProbeSucceeds, ProbeFails
  <1>9. CASE ProbeCut
    BY <1>9 DEF ProbeCut
  <1>10. CASE \E outcome \in HookOutcomes : HookReturns(outcome)
    BY <1>10, HookOutcomesAssumption DEF HookReturns
  <1>11. CASE Send
    BY <1>11 DEF Send
  <1>12. CASE CtxEnds
    BY <1>12 DEF CtxEnds
  <1>13. CASE KillOnDone \/ EnvoyExits
    BY <1>13 DEF KillOnDone, EnvoyExits
  <1>14. CASE EnvoyWritesAddress \/ EnvoyAdminMoves \/ OutputCloses \/ Answer
    BY <1>14 DEF EnvoyWritesAddress, EnvoyAdminMoves, OutputCloses, Answer
  <1>15. CASE Terminated \/ UNCHANGED vars
    BY <1>15 DEF Terminated
  <1> QED
    BY <1>1, <1>2, <1>3, <1>4, <1>5, <1>6, <1>7, <1>8, <1>9, <1>10, <1>11, <1>12, <1>13, <1>14, <1>15
    DEF Next, MainStep, MonitorStep, EnvironmentStep

\* Only ProbeCut calls the hook without an answer from /ready.
LEMMA UnreadyInvNext == UnreadyHookOnlyWhenCut /\ HookInv /\ TypeOK /\ [Next]_vars => UnreadyHookOnlyWhenCut'
  <1> SUFFICES ASSUME UnreadyHookOnlyWhenCut, HookInv, TypeOK, [Next]_vars PROVE UnreadyHookOnlyWhenCut'
    OBVIOUS
  <1> USE DEF UnreadyHookOnlyWhenCut, HookInv
  <1>1. CASE Prepare
    BY <1>1 DEF Prepare
  <1>2. CASE StartFails \/ StartEnvoy
    BY <1>2 DEF StartFails, StartEnvoy
  <1>3. CASE WaitReturns \/ CancelMonitor
    BY <1>3 DEF WaitReturns, CancelMonitor
  <1>4. CASE ReceiveHookErr
    BY <1>4 DEF ReceiveHookErr
  <1>5. CASE Return
    BY <1>5 DEF Return
  <1>6. CASE PollTick \/ PollDone
    BY <1>6 DEF PollTick, PollDone
  <1>7. CASE AwaitTick \/ AwaitDone
    BY <1>7 DEF AwaitTick, AwaitDone
  <1>8. CASE ProbeSucceeds \/ ProbeFails
    BY <1>8 DEF ProbeSucceeds, ProbeFails
  <1>9. CASE ProbeCut
    BY <1>9 DEF ProbeCut
  <1>10. CASE \E outcome \in HookOutcomes : HookReturns(outcome)
    BY <1>10, HookOutcomesAssumption DEF HookReturns
  <1>11. CASE Send
    BY <1>11 DEF Send
  <1>12. CASE CtxEnds
    BY <1>12 DEF CtxEnds, TypeOK
  <1>13. CASE KillOnDone \/ EnvoyExits
    BY <1>13 DEF KillOnDone, EnvoyExits
  <1>14. CASE EnvoyWritesAddress \/ EnvoyAdminMoves \/ OutputCloses \/ Answer
    BY <1>14 DEF EnvoyWritesAddress, EnvoyAdminMoves, OutputCloses, Answer
  <1>15. CASE Terminated \/ UNCHANGED vars
    BY <1>15 DEF Terminated
  <1> QED
    BY <1>1, <1>2, <1>3, <1>4, <1>5, <1>6, <1>7, <1>8, <1>9, <1>10, <1>11, <1>12, <1>13, <1>14, <1>15
    DEF Next, MainStep, MonitorStep, EnvironmentStep

\* Each part of IInv holds after a step that starts in IInv.
LEMMA NextInv == IInv /\ [Next]_vars => IInv'
  BY TypeNext, MainInvNext, ChannelInvNext, ResultInvNext, HookInvNext, ContextInvNext,
     StaleInvNext, UnreadyInvNext DEF IInv

\* IInv holds in every reachable state.
THEOREM Invariance == Spec => []IInv
  BY InitInv, NextInv, PTL DEF Spec

-----------------------------------------------------------------------------

\* A call that launched Envoy returns only when Envoy is gone and the monitor has
\* nothing left to do.
THEOREM Quiescence == Spec => []ReturnsQuiescent
  <1>1. IInv => ReturnsQuiescent
    BY DEF IInv, MainInv, ChannelInv, Unlaunched, ReturnsQuiescent
  <1> QED
    BY <1>1, Invariance, PTL

\* The monitor is never blocked on hookErrCh.
THEOREM ChannelNeverFull == Spec => []SenderNeverBlocks
  <1>1. IInv => SenderNeverBlocks
    BY DEF IInv, ChannelInv, SenderNeverBlocks
  <1> QED
    BY <1>1, Invariance, PTL

\* What the result of a call says of the hook, of Envoy and of the context.
THEOREM ResultsAreHonest == Spec => []ResultIsHonest
  <1>1. IInv => HookFailureNeverLost
    BY DEF IInv, TypeOK, MainInv, ChannelInv, ResultInv, HookInv, Unlaunched, HookFailureNeverLost
  <1>2. IInv => NilMeansCleanEnd
    BY DEF IInv, ResultInv, Unlaunched, NilMeansCleanEnd
  <1>3. IInv => InterruptErrorOnlyFromMonitor
    BY DEF IInv, TypeOK, MainInv, ResultInv, ContextInv, Unlaunched, InterruptErrorOnlyFromMonitor
  <1>4. IInv => DefaultHookNeverFailsRun
    BY DEF IInv, TypeOK, MainInv, ResultInv, HookInv, Unlaunched, DefaultHookNeverFailsRun
  <1>5. IInv => ResultIsHonest
    BY <1>1, <1>2, <1>3, <1>4 DEF ResultIsHonest
  <1> QED
    BY <1>5, Invariance, PTL

\* The hook is given the admin server of this run's Envoy, never that of an earlier one.
THEOREM HookMeetsItsEnvoy == Spec => []ClientNeverStale
  <1>1. IInv => ClientNeverStale
    BY DEF IInv, StaleInv
  <1> QED
    BY <1>1, Invariance, PTL

\* The hook is given an Envoy that was ready, unless the first /ready request was cut
\* short by the end of the run.
THEOREM HookAfterReady == Spec => []UnreadyHookOnlyWhenCut
  <1>1. IInv => UnreadyHookOnlyWhenCut
    BY DEF IInv
  <1> QED
    BY <1>1, Invariance, PTL

-----------------------------------------------------------------------------

\* A call that has not begun is a call that has not begun in the contract.
LEMMA InitRefines == Init => Contract!Init
  BY DEF Init, Contract!Init, phaseBar, childBar, hookBar, resultBar

\* A step of Run's goroutine launches, refuses or returns, or is not seen.
LEMMA MainStepRefines == IInv /\ MainStep => [Contract!Next]_(Contract!vars)
  <1> SUFFICES ASSUME IInv, MainStep PROVE [Contract!Next]_(Contract!vars)
    OBVIOUS
  <1> USE DEF Contract!vars, Contract!Next, phaseBar, childBar, hookBar, resultBar,
              IInv, MainInv, Unlaunched
  <1>1. CASE Prepare
    BY <1>1 DEF Prepare, Contract!Refuse
  <1>2. CASE StartFails
    BY <1>2 DEF StartFails, Contract!Refuse
  <1>3. CASE StartEnvoy
    BY <1>3 DEF StartEnvoy, Contract!Launch
  <1>4. CASE WaitReturns \/ CancelMonitor \/ ReceiveHookErr
    BY <1>4 DEF WaitReturns, CancelMonitor, ReceiveHookErr
  <1>5. CASE Return
    <2>1. Contract!Return
      BY <1>5 DEF Return, Contract!Return, TypeOK, ChannelInv, HookInv
    <2> QED
      BY <2>1
  <1> QED
    BY <1>1, <1>2, <1>3, <1>4, <1>5 DEF MainStep

\* A step of the monitor starts the hook, ends it, or is not seen.
LEMMA MonitorStepRefines == IInv /\ MonitorStep => [Contract!Next]_(Contract!vars)
  <1> SUFFICES ASSUME IInv, MonitorStep PROVE [Contract!Next]_(Contract!vars)
    OBVIOUS
  <1> USE DEF Contract!vars, Contract!Next, phaseBar, childBar, hookBar, resultBar,
              IInv, MainInv, ChannelInv, HookInv, Unlaunched
  <1>1. CASE PollTick \/ PollDone
    BY <1>1 DEF PollTick, PollDone
  <1>2. CASE AwaitTick \/ AwaitDone \/ ProbeFails
    BY <1>2 DEF AwaitTick, AwaitDone, ProbeFails
  <1>3. CASE ProbeSucceeds \/ ProbeCut
    BY <1>3 DEF ProbeSucceeds, ProbeCut, Contract!HookStarts
  <1>4. CASE \E outcome \in HookOutcomes : HookReturns(outcome)
    BY <1>4, HookOutcomesAssumption DEF HookReturns, Contract!HookEnds
  <1>5. CASE Send
    BY <1>5 DEF Send
  <1> QED
    BY <1>1, <1>2, <1>3, <1>4, <1>5 DEF MonitorStep

\* A step of the environment ends Envoy, interrupts the call, or is not seen.
LEMMA EnvironmentStepRefines ==
  IInv /\ EnvironmentStep => [Contract!Next]_(Contract!vars)
  <1> SUFFICES ASSUME IInv, EnvironmentStep PROVE [Contract!Next]_(Contract!vars)
    OBVIOUS
  <1> USE DEF Contract!vars, Contract!Next, phaseBar, childBar, hookBar, resultBar
  <1>1. CASE CtxEnds
    BY <1>1 DEF CtxEnds, Contract!Interrupt
  <1>2. CASE KillOnDone \/ EnvoyExits
    BY <1>2 DEF KillOnDone, EnvoyExits, Contract!ChildEnds
  <1>3. CASE EnvoyWritesAddress \/ EnvoyAdminMoves \/ OutputCloses \/ Answer
    BY <1>3 DEF EnvoyWritesAddress, EnvoyAdminMoves, OutputCloses, Answer
  <1> QED
    BY <1>1, <1>2, <1>3 DEF EnvironmentStep

\* Every step of Run, its monitor and Envoy is a step of the contract or a stutter.
LEMMA NextRefines == IInv /\ [Next]_vars => [Contract!Next]_(Contract!vars)
  <1> SUFFICES ASSUME IInv, [Next]_vars PROVE [Contract!Next]_(Contract!vars)
    OBVIOUS
  <1>1. CASE Terminated \/ UNCHANGED vars
    BY <1>1 DEF Terminated, Contract!vars, phaseBar, childBar, hookBar, resultBar
  <1> QED
    BY <1>1, MainStepRefines, MonitorStepRefines, EnvironmentStepRefines DEF Next

\* Run keeps its contract, for every hook and every transport.
THEOREM Refinement == Spec => ContractSpec
  <1>1. Spec => Contract!Spec
    BY InitRefines, NextRefines, Invariance, PTL DEF Spec, Contract!Spec
  <1> QED
    BY <1>1 DEF ContractSpec
=============================================================================

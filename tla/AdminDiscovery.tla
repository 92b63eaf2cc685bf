--------------------------- MODULE AdminDiscovery ---------------------------
(***************************************************************************)
(* NewAdminClient (experimental/admin/admin.go): a poller looks among the  *)
(* children of a func-e process for the Envoy of a run, while that process *)
(* forks, executes and reaps them, and then waits for the address of its   *)
(* admin server (internal/admin/admin.go).  It lists the children first    *)
(* and then reads their command lines one by one: a child has the command  *)
(* line of func-e before it executes Envoy, and none once it is a zombie.  *)
(* What the flags of a command line are is in AdminArgs.                   *)
(***************************************************************************)
EXTENDS Naturals, FiniteSets

CONSTANTS
  Children,  \* the processes func-e may fork
  RunIDs,    \* their run identifiers
  AnyRun     \* the empty runID of a poller that takes any run

ASSUME AnyAssumption == AnyRun \notin RunIDs
ASSUME ChildrenAssumption == IsFiniteSet(Children)

VARIABLES
  stage,       \* of each child: "none", "forked", "envoy", "zombie" or "gone"
  tag,         \* the --run-id of its Envoy
  hasPath,     \* does its Envoy have an --admin-address-path?
  address,     \* what is in that file: "none", "empty", "own" or "pipe"
  runID,       \* what the poller looks for
  ctx,         \* is the poller's context done?
  pc,          \* the poller: "wait", "read", "address" or "over"
  listed,      \* children whose command line it has yet to read
  candidates,  \* those that turned out to be a tagged Envoy
  found,       \* {} or the child it chose
  outcome,     \* "none", "client", "unusable", "multiple" or "timeout"
  steady       \* history: Envoys all the time since the children were listed

processes == <<stage, tag, hasPath, address>>
poller == <<runID, ctx, pc, listed, candidates, found, outcome>>
vars == <<processes, poller, steady>>

TypeOK ==
  /\ stage \in [Children -> {"none", "forked", "envoy", "zombie", "gone"}]
  /\ tag \in [Children -> RunIDs] /\ hasPath \in [Children -> BOOLEAN]
  /\ address \in [Children -> {"none", "empty", "own", "pipe"}]
  /\ runID \in RunIDs \cup {AnyRun}
  /\ ctx \in {"live", "done"}
  /\ pc \in {"wait", "read", "address", "over"}
  /\ listed \subseteq Children /\ candidates \subseteq Children
  /\ found \subseteq Children
  /\ outcome \in {"none", "client", "unusable", "multiple", "timeout"}
  /\ steady \subseteq Children

Init ==
  /\ stage = [c \in Children |-> "none"]
  /\ tag \in [Children -> RunIDs] /\ hasPath \in [Children -> BOOLEAN]
  /\ address = [c \in Children |-> "none"]
  /\ runID \in RunIDs \cup {AnyRun}
  /\ ctx = "live" /\ pc = "wait"
  /\ listed = {} /\ candidates = {} /\ found = {} /\ outcome = "none"
  /\ steady = {}

-----------------------------------------------------------------------------
(* The children.                                                           *)

Becomes(c, from, to) ==
  /\ stage[c] = from
  /\ stage' = [stage EXCEPT ![c] = to]
  /\ steady' = steady \ {c}
  /\ UNCHANGED <<tag, hasPath, address, poller>>

Fork(c) == Becomes(c, "none", "forked")
Exec(c) == Becomes(c, "forked", "envoy")
Exit(c) == Becomes(c, "forked", "zombie") \/ Becomes(c, "envoy", "zombie")
Reap(c) == Becomes(c, "zombie", "gone")

\* Run has removed what an earlier Envoy left; this one creates its file and then
\* writes it, and nobody removes it when Envoy is gone.
WritesAddress(c) ==
  /\ stage[c] = "envoy" /\ hasPath[c]
  /\ \/ address[c] = "none" /\ address' = [address EXCEPT ![c] = "empty"]
     \/ address[c] = "empty" /\ \E a \in {"own", "pipe"} : address' = [address EXCEPT ![c] = a]
  /\ UNCHANGED <<stage, tag, hasPath, poller, steady>>

-----------------------------------------------------------------------------
(* The poller.                                                             *)

Listing(children, ifNone) ==
  /\ pc = "wait"
  /\ listed' = children /\ candidates' = {}
  /\ pc' = IF children = {} THEN ifNone ELSE "read"
  /\ steady' = {c \in Children : stage[c] = "envoy"}
  /\ UNCHANGED <<processes, runID, ctx, found, outcome>>

Alive == {c \in Children : stage[c] \in {"forked", "envoy", "zombie"}}

FaultNoChildGivesUp == Listing(Alive, "over")

\* Without children yet, the next tick tries again.
ListChildren == Listing(Alive, "wait")

\* So it does when the process table cannot be read.
ListFails == Listing({}, "wait")

ReadTaggedBy(c, tagged) ==
  /\ pc = "read" /\ c \in listed
  /\ listed' = listed \ {c}
  /\ candidates' = IF tagged THEN candidates \cup {c} ELSE candidates
  /\ UNCHANGED <<processes, runID, ctx, pc, found, outcome, steady>>

FaultUntaggedCounts(c) == ReadTaggedBy(c, stage[c] \in {"forked", "envoy"})

\* A command line that cannot be read any more, or has no tag, is skipped.
ReadCmdline(c) == ReadTaggedBy(c, stage[c] = "envoy")

Found(c) == found' = {c} /\ pc' = "address" /\ UNCHANGED outcome
TryAgain == pc' = "wait" /\ UNCHANGED <<found, outcome>>
Multiple == pc' = "over" /\ outcome' = "multiple" /\ UNCHANGED found

Selecting(step) ==
  /\ pc = "read" /\ listed = {}
  /\ step
  /\ UNCHANGED <<processes, runID, ctx, listed, candidates, steady>>

Addressed == {c \in candidates : hasPath[c]}

\* With a runID the first child that has it decides, address or not; the children
\* come in any order.
SelectRun ==
  LET matching == {c \in candidates : tag[c] = runID}
  IN  \/ matching = {} /\ TryAgain
      \/ \E c \in matching : IF hasPath[c] THEN Found(c) ELSE TryAgain

FaultFirstIsTaken ==
  Selecting(IF runID # AnyRun THEN SelectRun
            ELSE IF Addressed = {} THEN TryAgain ELSE \E c \in Addressed : Found(c))

FaultNilIsFound ==
  Selecting(IF runID # AnyRun THEN SelectRun
            ELSE IF Cardinality(Addressed) > 1 THEN Multiple
            ELSE IF Addressed = {} THEN Found(AnyRun) ELSE \E c \in Addressed : Found(c))

\* Without one, there must not be two tagged children with an address.
selectEnvoyProcess ==
  Selecting(IF runID # AnyRun THEN SelectRun
            ELSE IF Cardinality(Addressed) > 1 THEN Multiple
            ELSE IF Addressed = {} THEN TryAgain ELSE \E c \in Addressed : Found(c))

ReadAs(usable, unusable) ==
  /\ pc = "address"
  /\ \E c \in found :
       \/ address[c] \in usable /\ outcome' = "client"
       \/ address[c] \in unusable /\ outcome' = "unusable"
  /\ pc' = "over"
  /\ UNCHANGED <<processes, runID, ctx, listed, candidates, found, steady>>

FaultEmptyIsUnusable == ReadAs({"own"}, {"pipe", "empty"})

\* pollAdminAddressPathForPort: a missing or empty file is looked at again.  That
\* Envoy has exited in the meantime goes unnoticed.
ReadAddress == ReadAs({"own"}, {"pipe"})

\* A break would leave the select, not the loop.
FaultBreak == pc \in {"wait", "address"} /\ ctx = "done" /\ UNCHANGED vars

\* The select of a tick that is due and of a context that is done.
TimesOut ==
  /\ pc \in {"wait", "address"} /\ ctx = "done"
  /\ pc' = "over" /\ outcome' = "timeout"
  /\ UNCHANGED <<processes, runID, ctx, listed, candidates, found, steady>>

ContextEnds ==
  /\ ctx = "live"
  /\ ctx' = "done"
  /\ UNCHANGED <<processes, runID, pc, listed, candidates, found, outcome, steady>>

-----------------------------------------------------------------------------

Poll ==
  \/ ListChildren \/ ListFails \/ selectEnvoyProcess \/ ReadAddress \/ TimesOut
  \/ \E c \in Children : ReadCmdline(c)

Next ==
  \/ Poll \/ ContextEnds
  \/ \E c \in Children : Fork(c) \/ Exec(c) \/ Exit(c) \/ Reap(c) \/ WritesAddress(c)

Spec == Init /\ [][Next]_vars

\* The ticker goes on; the process table can be read again and again; a select
\* whose context is done picks it in the end.
FairSpec ==
  /\ Spec
  /\ SF_vars(ListChildren) /\ SF_vars(TimesOut)
  /\ WF_vars(selectEnvoyProcess) /\ WF_vars(ReadAddress)
  /\ WF_vars(\E c \in Children : ReadCmdline(c))

-----------------------------------------------------------------------------

\* Whoever looks for a run is given an Envoy of that run that has an address,
\* however the children come and go while their command lines are read
\* (admin.go:342-352, 377-404).
FoundIsOfTheRun ==
  \A c \in found : (runID # AnyRun => tag[c] = runID) /\ hasPath[c] /\ stage[c] # "forked"

\* Two Envoys with an address that were there all along, from the listing of the
\* children to the choice, are never told apart by chance (admin.go:326-329).
AmbiguityIsReported ==
  [][/\ pc = "read" /\ pc' \in {"address", "over"}
     /\ runID = AnyRun /\ Cardinality({c \in steady : hasPath[c]}) > 1
     => outcome' = "multiple"]_vars

\* The Envoy of a run that stays and writes its address is given to the caller,
\* unless the context ends first: no early look at a process that is not there yet,
\* or not yet Envoy, or at a file that is missing or empty, is the last.
StayingEnvoyIsFound ==
  \A c \in Children :
    <>[](/\ stage[c] = "envoy" /\ address[c] = "own" /\ ctx = "live"
         /\ tag[c] = runID /\ \A d \in Children \ {c} : tag[d] # runID)
      => <>(outcome = "client")

\* The poller always ends once its context does, even if the Envoy it has found
\* exits before it writes its address.
PollerEnds == (ctx = "done") ~> (outcome # "none")
=============================================================================

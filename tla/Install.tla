------------------------------ MODULE Install ------------------------------
(***************************************************************************)
(* InstallIfNeeded (internal/envoy/install.go) in several func-e processes *)
(* that share a data directory, for one version directory: that of a       *)
(* release, whose build never changes, or the one of the nightly builds,   *)
(* shared by the versions dev and dev-latest.  Dates are days; the build   *)
(* released on day d is d, and its tarball is Chunks pieces of d.          *)
(* A process may break off at any point: killed, interrupted, or failing.  *)
(* A server that stalls holds it until then: no request has a time-out.    *)
(***************************************************************************)
EXTENDS Naturals

CONSTANTS
  Procs,    \* the func-e processes
  Wanted,   \* {"release"}, or a subset of {"dev", "dev-latest"}
  Chunks,   \* how many writes it takes to extract bin/envoy
  Days,     \* bound: the last day
  Runs,     \* bound: invocations, of all processes together
  Faults    \* what goes wrong: a subset of {"break", "stall", "corrupt", "tail"}

ASSUME ChunksAssumption == Chunks \in Nat \ {0}
ASSUME DaysAssumption == Days \in Nat \ {0}
ASSUME RunsAssumption == Runs \in Nat
ASSUME WantedAssumption == Wanted \subseteq {"release", "dev", "dev-latest"}
ASSUME FaultsAssumption == Faults \subseteq {"break", "stall", "corrupt", "tail"}

VARIABLES
  today, released,    \* the current day, and that of the build on offer
  dirDate,            \* mtime of the version directory, 0 if it is missing
  mode,               \* bin/envoy: "absent", "exec" or "plain" (not executable)
  data,               \* the content of bin/envoy
  pc,                 \* where each invocation is
  want,               \* the version each invocation was asked for, "none" before and after
  found,              \* does it ask for the newest build, with one in place when it began?
  build,              \* the build it read in the version list, 0 before that
  tarball,            \* what it downloads: the content and the mode of bin/envoy
  retried,            \* has httpGet used its only retry?
  pos,                \* the number of chunks it has written
  stalled,            \* the invocations that wait for a server which sends no more
  outcome,            \* how its last invocation ended
  runs,               \* invocations so far
  torn,               \* history: has an extraction failed or broken off?
  overlapped          \* history: were two invocations ever in progress at once?

disk == <<dirDate, mode, data>>
clock == <<today, released>>
locals == <<want, found, build, tarball, retried, pos, stalled>>
history == <<torn, overlapped>>
vars == <<clock, disk, pc, locals, outcome, runs, history>>

Hole == 0            \* nothing written here since the file was truncated
Corrupt == Days + 1  \* a chunk of no build
Content == 0 .. Days + 1
NoTarball == [content |-> Hole, mode |-> "absent"]

TypeOK ==
  /\ today \in 1 .. Days /\ released \in 1 .. Days
  /\ dirDate \in 0 .. Days
  /\ mode \in {"absent", "exec", "plain"}
  /\ data \in [1 .. Chunks -> Content]
  /\ pc \in [Procs -> {"idle", "lookup", "mkdir", "get", "open", "copy",
                       "digest", "chtimes", "verify"}]
  /\ want \in [Procs -> Wanted \cup {"none"}]
  /\ found \in [Procs -> BOOLEAN]
  /\ build \in [Procs -> 0 .. Days]
  /\ tarball \in [Procs -> [content : Content, mode : {"absent", "exec", "plain"}]]
  /\ retried \in [Procs -> BOOLEAN]
  /\ pos \in [Procs -> 0 .. Chunks]
  /\ stalled \subseteq Procs
  /\ outcome \in [Procs -> {"none", "error", "good", "broken"}]
  /\ runs \in 0 .. Runs
  /\ torn \in BOOLEAN /\ overlapped \in BOOLEAN

Init ==
  /\ today \in 1 .. Days /\ released \in 1 .. today
  /\ dirDate = 0 /\ mode = "absent" /\ data = [i \in 1 .. Chunks |-> Hole]
  /\ pc = [p \in Procs |-> "idle"]
  /\ want = [p \in Procs |-> "none"]
  /\ found = [p \in Procs |-> FALSE]
  /\ build = [p \in Procs |-> 0]
  /\ tarball = [p \in Procs |-> NoTarball]
  /\ retried = [p \in Procs |-> FALSE]
  /\ pos = [p \in Procs |-> 0]
  /\ stalled = {}
  /\ outcome = [p \in Procs |-> "none"]
  /\ runs = 0
  /\ torn = FALSE /\ overlapped = FALSE

Goto(p, label) == pc' = [pc EXCEPT ![p] = label] /\ UNCHANGED outcome

\* All that is left of an invocation is how it ended.
Ends(p, how) ==
  /\ pc' = [pc EXCEPT ![p] = "idle"]
  /\ outcome' = [outcome EXCEPT ![p] = how]
  /\ want' = [want EXCEPT ![p] = "none"]
  /\ found' = [found EXCEPT ![p] = FALSE]
  /\ build' = [build EXCEPT ![p] = 0]
  /\ tarball' = [tarball EXCEPT ![p] = NoTarball]
  /\ retried' = [retried EXCEPT ![p] = FALSE]
  /\ pos' = [pos EXCEPT ![p] = 0]
  /\ stalled' = stalled \ {p}

-----------------------------------------------------------------------------

StatThen(p, there) ==
  /\ pc[p] = "idle" /\ runs < Runs
  /\ \E v \in Wanted :
       /\ want' = [want EXCEPT ![p] = v]
       /\ pc' = [pc EXCEPT ![p] = IF there /\ v # "dev-latest" THEN "verify" ELSE "lookup"]
       /\ found' = [found EXCEPT ![p] = there /\ v = "dev-latest"]
  /\ outcome' = [outcome EXCEPT ![p] = "none"]
  /\ runs' = runs + 1
  /\ overlapped' = (overlapped \/ \E q \in Procs \ {p} : pc[q] # "idle")
  /\ UNCHANGED <<clock, disk, build, tarball, retried, pos, stalled, torn>>

FaultAlwaysDownloads(p) == StatThen(p, FALSE)

\* os.Stat of bin/envoy decides: a file, whole or not, is "already downloaded".
Stat(p) == StatThen(p, mode # "absent")

TransientError(p, mayRetry, hasRetried) ==
  /\ pc[p] \in {"lookup", "get"}
  /\ IF mayRetry
       THEN /\ retried' = [retried EXCEPT ![p] = hasRetried]
            /\ UNCHANGED <<pc, outcome, want, found, build, tarball, pos, stalled>>
       ELSE Ends(p, "error")
  /\ UNCHANGED <<clock, disk, runs, history>>

FaultRetriesForever(p) == TransientError(p, TRUE, ~retried[p])

\* httpGet retries a network error once.
NetError(p) == TransientError(p, ~retried[p], TRUE)

LookedUp(p, fresh) ==
  /\ pc[p] = "lookup"
  /\ found' = [found EXCEPT ![p] = FALSE]
  /\ build' = [build EXCEPT ![p] = released]
  /\ retried' = [retried EXCEPT ![p] = FALSE]
  /\ Goto(p, IF fresh THEN "verify" ELSE "mkdir")
  /\ UNCHANGED <<clock, disk, want, tarball, pos, stalled, runs, history>>

FaultAnyDateIsFresh(p) == LookedUp(p, found[p])

\* The version list has this version, a checksum and a date.  dev-latest keeps
\* the build it found if its directory bears the date of the one on offer.
Lookup(p) == LookedUp(p, found[p] /\ dirDate = released)

\* A status other than 200, or no such version, platform, checksum or date.
Refused(p) ==
  /\ pc[p] \in {"lookup", "get"}
  /\ Ends(p, "error")
  /\ UNCHANGED <<clock, disk, runs, history>>

MakeDir(p) ==
  /\ pc[p] = "mkdir"
  /\ dirDate' = IF dirDate = 0 THEN today ELSE dirDate
  /\ Goto(p, "get")
  /\ UNCHANGED <<clock, mode, data, locals, runs, history>>

\* The tarball with the listed checksum, or another one.
Get(p) ==
  /\ pc[p] = "get"
  /\ \E c \in {build[p]} \cup (IF "corrupt" \in Faults THEN {Corrupt} ELSE {}),
        m \in {"exec", "plain"} :
       /\ m = "plain" => c = Corrupt
       /\ tarball' = [tarball EXCEPT ![p] = [content |-> c, mode |-> m]]
  /\ retried' = [retried EXCEPT ![p] = FALSE]
  /\ Goto(p, "open")
  /\ UNCHANGED <<clock, disk, want, found, build, pos, stalled, runs, history>>

\* extractFile truncates bin/envoy in place.  Making bin/ touches its directory,
\* and a file that exists keeps its mode.
Open(p) ==
  /\ pc[p] = "open"
  /\ Goto(p, "copy")
  /\ data' = [i \in 1 .. Chunks |-> Hole]
  /\ mode' = IF mode = "absent" THEN tarball[p].mode ELSE mode
  /\ dirDate' = IF mode = "absent" THEN today ELSE dirDate
  /\ UNCHANGED <<clock, locals, runs, history>>

CopyUntil(p, last) ==
  /\ pc[p] = "copy"
  /\ data' = [data EXCEPT ![pos[p] + 1] = tarball[p].content]
  /\ pos' = [pos EXCEPT ![p] = @ + 1]
  /\ Goto(p, IF pos[p] + 1 = last THEN "digest" ELSE "copy")
  /\ UNCHANGED <<clock, dirDate, mode, want, found, build, tarball, retried, stalled,
                 runs, history>>

FaultStopsEarly(p) == CopyUntil(p, IF Chunks = 1 THEN 1 ELSE Chunks - 1)

FaultOneWriteMore(p) == CopyUntil(p, Chunks + 1)

\* extractFile copies the entry to its end.
Copy(p) == CopyUntil(p, Chunks)

Digested(p, matches) ==
  /\ pc[p] = "digest"
  /\ IF matches THEN Goto(p, "chtimes") /\ UNCHANGED <<locals, torn>>
                ELSE Ends(p, "error") /\ torn' = TRUE
  /\ UNCHANGED <<clock, disk, runs, overlapped>>

FaultDigestNotCompared(p) == Digested(p, TRUE)

\* UntarAndVerify compares, after extracting it, the checksum of what it has read
\* of the stream, and leaves what it extracted behind.  The tar reader stops at
\* the end of the archive: what follows it (padding, the trailer of the
\* compression) is in the sum only if it came with the last read of the bufio
\* below the decompressor, as a file does and a connection may not.
Digest(p) ==
  \E tailRead \in {TRUE} \cup (IF "tail" \in Faults THEN {FALSE} ELSE {}) :
    Digested(p, tarball[p].content # Corrupt /\ tailRead)

Chtimes(p) ==
  /\ pc[p] = "chtimes"
  /\ dirDate' = build[p]
  /\ Goto(p, "verify")
  /\ UNCHANGED <<clock, mode, data, locals, runs, history>>

\* Is bin/envoy one whole build, and the one on offer if that was asked for?
Whole == \E d \in 1 .. Days : \A i \in 1 .. Chunks : data[i] = d
Serves(p) == Whole /\ (want[p] = "dev-latest" => data[1] = build[p])

\* verifyEnvoy looks at the mode of bin/envoy and hands out its path.
Verify(p) ==
  /\ pc[p] = "verify"
  /\ Ends(p, IF mode # "exec" THEN "error" ELSE IF Serves(p) THEN "good" ELSE "broken")
  /\ UNCHANGED <<clock, disk, runs, history>>

\* The process is killed or its context ends; the network or the disk fails.
BreakOff(p) ==
  /\ "break" \in Faults
  /\ pc[p] # "idle"
  /\ Ends(p, "error")
  /\ torn' = (torn \/ pc[p] \in {"copy", "digest", "chtimes"})
  /\ UNCHANGED <<clock, disk, runs, overlapped>>

\* The server sends no more, neither an answer nor the rest of one, and leaves the
\* connection open: the requests have no time-out and their context no deadline.
Stall(p) ==
  /\ "stall" \in Faults
  /\ pc[p] \in {"lookup", "get", "open", "copy", "digest"} /\ p \notin stalled
  /\ stalled' = stalled \cup {p}
  /\ UNCHANGED <<clock, disk, pc, want, found, build, tarball, retried, pos, outcome,
                 runs, history>>

\* Days pass, and a nightly build may be released.
NextDay ==
  /\ today < Days
  /\ today' = today + 1
  /\ released' \in IF Wanted = {"release"} THEN {released} ELSE {released, today + 1}
  /\ UNCHANGED <<disk, pc, locals, outcome, runs, history>>

-----------------------------------------------------------------------------

Step(p) ==
  /\ p \notin stalled
  /\ \/ NetError(p) \/ Lookup(p) \/ Refused(p) \/ MakeDir(p) \/ Get(p)
     \/ Open(p) \/ Copy(p) \/ Digest(p) \/ Chtimes(p) \/ Verify(p)

Next ==
  \/ NextDay
  \/ \E p \in Procs : Stat(p) \/ Step(p) \/ Stall(p) \/ BreakOff(p)

Spec == Init /\ [][Next]_vars

\* An invocation that has begun goes on, unless it waits for a server that has
\* stalled: any other request is answered or fails.
FairSpec == Spec /\ \A p \in Procs : WF_vars(Step(p))

-----------------------------------------------------------------------------

\* The path handed out is that of a whole build, of the build on offer for
\* dev-latest, as long as no extraction was cut short or refused and no two
\* invocations overlapped (install.go:22-102).
BrokenOnlyAfterFault ==
  (\E p \in Procs : outcome[p] = "broken") => torn \/ overlapped

\* A corrupt piece of bin/envoy was refused, or is still to be, and a gap in it is
\* still to be filled, by an invocation that has not written so far: however many
\* extract into the same file at once and truncate it for each other, what they
\* leave when all is well has neither (tar.go:41-52, 133-145).
DamageIsNoticed ==
  \A i \in 1 .. Chunks :
    /\ data[i] = Corrupt =>
         torn \/ \E p \in Procs : pc[p] \in {"copy", "digest"} /\ tarball[p].content = Corrupt
    /\ data[i] = Hole /\ mode # "absent" =>
         torn \/ \E p \in Procs : pc[p] = "copy" /\ pos[p] < i

\* A whole build is overwritten only for dev-latest, unless invocations overlap:
\* what is installed is not downloaded again (install.go:31, 95-96).
WholeBuildIsKept ==
  [][Whole /\ data' # data =>
       overlapped \/ \E p \in Procs : pc[p] = "open" /\ want[p] = "dev-latest"]_vars

\* A build that dev-latest takes for fresh by the date of its directory alone is
\* the one on offer, unless an extraction was torn or invocations overlapped.
FreshMeansOnOffer ==
  \A p \in Procs :
    pc[p] = "verify" /\ want[p] = "dev-latest" /\ tarball[p] = NoTarball =>
      torn \/ overlapped \/ \A i \in 1 .. Chunks : data[i] = build[p]

-----------------------------------------------------------------------------
(* Refinement: to one process after the other an installation is a lookup, *)
(* a download into the directory and a look at what is there.              *)

stageBar ==
  [p \in Procs |->
    IF pc[p] \in {"idle", "verify"} THEN pc[p]
    ELSE IF pc[p] \in {"lookup", "mkdir"} THEN "look" ELSE "fetch"]

Contract == INSTANCE InstallContract WITH
  Callers <- Procs, Builds <- {"envoy"},
  dirs <- IF dirDate = 0 THEN {} ELSE {"envoy"},
  bins <- IF mode = "absent" THEN {} ELSE {"envoy"},
  stage <- stageBar,
  asked <- [p \in Procs |-> IF pc[p] = "idle" THEN {}
                            ELSE {[build |-> "envoy", newest |-> want[p] = "dev-latest"]}],
  served <- {p \in Procs : outcome[p] \in {"good", "broken"}}

\* With retries, torn extractions and refused checksums, invocations that overlap
\* still keep the contract of an installation.
ContractSpec == Contract!Spec

-----------------------------------------------------------------------------

\* Every invocation ends, or waits for a server that has stalled, which only an
\* interruption ends: a server that keeps failing is asked twice, no more
\* (http.go:29-44).
InvocationEnds ==
  \A p \in Procs : (pc[p] # "idle") ~> (pc[p] = "idle" \/ p \in stalled)
=============================================================================

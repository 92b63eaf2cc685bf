------------------------------- MODULE RunDirs -------------------------------
(***************************************************************************)
(* The directories of runs: what several calls of runtime.Run              *)
(* (internal/runtime/run.go) share when their run identifiers are equal,   *)
(* at once or one after the other.  The files of a run are its admin       *)
(* address file, its logs, of which there is one here (stdout.log and      *)
(* stderr.log are treated alike), and config_dump.json.  A file is known   *)
(* by the runs whose Envoy wrote it, the log line by line.                 *)
(***************************************************************************)
EXTENDS Integers, Sequences

CONSTANTS
  Runs,      \* the calls
  Seconds,   \* bound: the clock has the seconds 1 .. Seconds
  Micros,    \* microseconds in a second: 10^6 in the code
  Kept,      \* how many of them an identifier tells apart: 1000
  Lines,     \* bound: the lines an Envoy writes
  Custom,    \* may a caller choose the identifier?
  Undying    \* the calls of a func-e whose Envoy outlives it: not on Linux

ASSUME ClockAssumption ==
  Seconds \in Nat \ {0} /\ Micros \in Nat \ {0} /\ Kept \in 1 .. Micros
ASSUME LinesAssumption == Lines \in Nat
ASSUME CustomAssumption == Custom \in BOOLEAN
ASSUME UndyingAssumption == Undying \subseteq Runs

VARIABLES
  now,      \* the clock
  pc,       \* where each call is
  born,     \* when its identifier was made
  id,       \* its run identifier
  envoy,    \* its Envoy: "none", "up" or "gone"
  written,  \* how many lines its Envoy has logged
  client,   \* whose admin address it has read: {} or {run}
  dumped,   \* has it saved a config dump?
  addr,     \* by identifier: "missing", "empty", or {run}
  log,      \* by identifier: the lines of the log
  dump,     \* by identifier: whose config dump, {} or {run}
  alone     \* history: while it was in progress no other call with its identifier
            \* was, nor was the Envoy of one alive

calls == <<pc, born, id, envoy, written, client, dumped, alone>>
disk == <<addr, log, dump>>
vars == <<now, calls, disk>>

Instants == [second : 1 .. Seconds, micro : 0 .. Micros - 1]
CustomId == <<0, 0>>
Ids == {CustomId} \cup ((1 .. Seconds) \X (0 .. Kept - 1))
Owner == {{}} \cup {{r} : r \in Runs}

TypeOK ==
  /\ now \in Instants
  /\ pc \in [Runs -> {"new", "mkdirs", "open", "remove", "start", "running", "over"}]
  /\ born \in [Runs -> Instants]
  /\ id \in [Runs -> Ids]
  /\ envoy \in [Runs -> {"none", "up", "gone"}]
  /\ written \in [Runs -> 0 .. Lines]
  /\ client \in [Runs -> Owner]
  /\ dumped \in [Runs -> BOOLEAN]
  /\ addr \in [Ids -> [exists : BOOLEAN, of : Owner]]
  /\ log \in [Ids -> Seq(Runs)]
  /\ dump \in [Ids -> Owner]
  /\ alone \in [Runs -> BOOLEAN]

NoFile == [exists |-> FALSE, of |-> {}]

Init ==
  /\ now = [second |-> 1, micro |-> 0]
  /\ pc = [r \in Runs |-> "new"]
  /\ born = [r \in Runs |-> now]
  /\ id = [r \in Runs |-> CustomId]
  /\ envoy = [r \in Runs |-> "none"]
  /\ written = [r \in Runs |-> 0]
  /\ client = [r \in Runs |-> {}]
  /\ dumped = [r \in Runs |-> FALSE]
  /\ addr = [i \in Ids |-> NoFile]
  /\ log = [i \in Ids |-> <<>>]
  /\ dump = [i \in Ids |-> {}]
  /\ alone = [r \in Runs |-> TRUE]

InProgress(r) == pc[r] \notin {"new", "over"}
Busy(r) == InProgress(r) \/ envoy[r] = "up"
Goto(r, label) == pc' = [pc EXCEPT ![r] = label]

-----------------------------------------------------------------------------
(* One call.                                                               *)

FaultMillis(t) == <<t.second, t.micro \div Kept>>
FaultNotCut(t) == <<t.second, t.micro>>

\* The second, and the last digits of the microseconds.
GenerateRunID(t) == <<t.second, t.micro % Kept>>

Begin(r) ==
  /\ pc[r] = "new"
  /\ Goto(r, "mkdirs")
  /\ born' = [born EXCEPT ![r] = now]
  /\ \E i \in {GenerateRunID(now)} \cup (IF Custom THEN {CustomId} ELSE {}) :
       LET others == {q \in Runs \ {r} : Busy(q) /\ id[q] = i}
       IN  /\ id' = [id EXCEPT ![r] = i]
           /\ alone' = [q \in Runs |->
                IF q = r THEN others = {} ELSE alone[q] /\ q \notin others]
  /\ UNCHANGED <<now, envoy, written, client, dumped, disk>>

\* A directory that exists is as good as a new one.
Mkdirs(r) ==
  /\ pc[r] = "mkdirs"
  /\ Goto(r, "open")
  /\ UNCHANGED <<now, born, id, envoy, written, client, dumped, alone, disk>>

\* The logs are opened for writing, neither truncated nor appended to.
OpenLogs(r) ==
  /\ pc[r] = "open"
  /\ Goto(r, "remove")
  /\ written' = [written EXCEPT ![r] = 0]
  /\ UNCHANGED <<now, born, id, envoy, client, dumped, alone, disk>>

Removed(r, file) ==
  /\ pc[r] = "remove"
  /\ Goto(r, "start")
  /\ addr' = [addr EXCEPT ![id[r]] = file]
  /\ UNCHANGED <<now, born, id, envoy, written, client, dumped, alone, log, dump>>

FaultNotRemoved(r) == Removed(r, addr[id[r]])

RemoveAddress(r) == Removed(r, NoFile)

Start(r) ==
  /\ pc[r] = "start"
  /\ Goto(r, "running")
  /\ envoy' = [envoy EXCEPT ![r] = "up"]
  /\ UNCHANGED <<now, born, id, written, client, dumped, alone, disk>>

\* Mkdirs, opening the logs or starting Envoy fails.
Fail(r) ==
  /\ pc[r] \in {"mkdirs", "open", "start"}
  /\ Goto(r, "over")
  /\ UNCHANGED <<now, born, id, envoy, written, client, dumped, alone, disk>>

\* pollAdminAddressPathForPort finds a file that is not empty.
ReadAddress(r) ==
  /\ pc[r] = "running" /\ client[r] = {} /\ addr[id[r]].of # {}
  /\ client' = [client EXCEPT ![r] = addr[id[r]].of]
  /\ UNCHANGED <<now, pc, born, id, envoy, written, dumped, alone, disk>>

\* The default hook saves what the Envoy behind its client answers.
SaveConfigDump(r) ==
  /\ pc[r] = "running" /\ ~dumped[r]
  /\ \E q \in client[r] : envoy[q] = "up"
  /\ dumped' = [dumped EXCEPT ![r] = TRUE]
  /\ dump' = [dump EXCEPT ![id[r]] = client[r]]
  /\ UNCHANGED <<now, pc, born, id, envoy, written, client, alone, addr, log>>

Return(r) ==
  /\ pc[r] = "running" /\ envoy[r] = "gone"
  /\ Goto(r, "over")
  /\ UNCHANGED <<now, born, id, envoy, written, client, dumped, alone, disk>>

KilledWith(r, outlives) ==
  /\ InProgress(r)
  /\ Goto(r, "over")
  /\ envoy' = [envoy EXCEPT ![r] = IF @ = "up" /\ ~outlives THEN "gone" ELSE @]
  /\ UNCHANGED <<now, born, id, written, client, dumped, alone, disk>>

FaultNoPdeathsig(r) == KilledWith(r, TRUE)

\* func-e is killed.  On Linux Pdeathsig kills its Envoy too, elsewhere it lives on.
Killed(r) == KilledWith(r, r \in Undying)

-----------------------------------------------------------------------------
(* Its Envoy, and the clock.                                               *)

LoggedAt(r, line) ==
  /\ envoy[r] = "up" /\ pc[r] = "running" /\ written[r] < Lines
  /\ written' = [written EXCEPT ![r] = @ + 1]
  /\ LET lines == log[id[r]]
     IN  log' = [log EXCEPT ![id[r]] =
           IF line <= Len(lines) THEN [lines EXCEPT ![line] = r] ELSE Append(lines, r)]
  /\ UNCHANGED <<now, pc, born, id, envoy, client, dumped, alone, addr, dump>>

FaultAppended(r) == LoggedAt(r, Len(log[id[r]]) + 1)

\* func-e copies the lines to where this run's file offset is, over whatever was
\* there.  What an Envoy without func-e writes goes nowhere.
EnvoyLogs(r) == LoggedAt(r, written[r] + 1)

EnvoyCreatesAddress(r) ==
  /\ envoy[r] = "up" /\ addr[id[r]].of # {r}
  /\ addr' = [addr EXCEPT ![id[r]] = [exists |-> TRUE, of |-> {}]]
  /\ UNCHANGED <<now, calls, log, dump>>

EnvoyWritesAddress(r) ==
  /\ envoy[r] = "up" /\ addr[id[r]].exists
  /\ addr' = [addr EXCEPT ![id[r]].of = {r}]
  /\ UNCHANGED <<now, calls, log, dump>>

EnvoyExits(r) ==
  /\ envoy[r] = "up"
  /\ envoy' = [envoy EXCEPT ![r] = "gone"]
  /\ UNCHANGED <<now, pc, born, id, written, client, dumped, alone, disk>>

Tick ==
  /\ \/ now.micro < Micros - 1 /\ now' = [now EXCEPT !.micro = @ + 1]
     \/ now.second < Seconds /\ now' = [second |-> now.second + 1, micro |-> 0]
  /\ UNCHANGED <<calls, disk>>

-----------------------------------------------------------------------------

Call(r) ==
  \/ Begin(r) \/ Mkdirs(r) \/ OpenLogs(r) \/ RemoveAddress(r) \/ Start(r) \/ Fail(r)
  \/ ReadAddress(r) \/ SaveConfigDump(r) \/ Return(r) \/ Killed(r)

Envoy(r) ==
  EnvoyLogs(r) \/ EnvoyCreatesAddress(r) \/ EnvoyWritesAddress(r) \/ EnvoyExits(r)

Next == Tick \/ \E r \in Runs : Call(r) \/ Envoy(r)

Spec == Init /\ [][Next]_vars

-----------------------------------------------------------------------------

\* Identifiers made at different instants less than Kept microseconds apart are
\* different: runs started in a row do not collide (paths.go:72-74).
CloseRunsDiffer ==
  \A r, q \in Runs :
    /\ CustomId \notin {id[r], id[q]}
    /\ born[r].second = born[q].second
    /\ born[r].micro < born[q].micro /\ born[q].micro - born[r].micro < Kept
    => id[r] # id[q]

\* On Linux no Envoy is left behind, however func-e ends: its port, its files and
\* its directory are free for the next call (proc_attr_linux.go:8-13).
NoEnvoyLeftBehind ==
  \A r \in Runs \ Undying : pc[r] = "over" => envoy[r] # "up"

\* Unless another call with its identifier was in progress at the same time, or
\* had left its Envoy behind, a call talks to its own Envoy only, whatever files
\* earlier calls with that identifier left (run.go:29-30).
ClientIsOwn == \A r \in Runs : alone[r] => client[r] \subseteq {r}

\* Under the same condition its logs begin with the lines its Envoy wrote, and
\* the config dump it saved is still in its directory (runtime/run.go:64, 72).
OutputIsKept ==
  \A r \in Runs :
    alone[r] /\ InProgress(r) =>
      /\ \A line \in 1 .. written[r] : log[id[r]][line] = r
      /\ dumped[r] => dump[id[r]] = {r}
=============================================================================

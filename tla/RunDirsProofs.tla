---------------------------- MODULE RunDirsProofs ----------------------------
(***************************************************************************)
(* Proofs about RunDirs, for any number of runs, seconds, microseconds and *)
(* lines, and for any number of digits that an identifier keeps.           *)
(*                                                                         *)
(* That a run sees its own Envoy needs three facts about the others: an    *)
(* Envoy is up only in a call that has started it, or outlives its func-e; *)
(* a call in progress knows of every other such Envoy and call with its    *)
(* identifier (it is not alone); and once a call has removed the address   *)
(* file only its own Envoy writes it again.                                *)
(***************************************************************************)
EXTENDS RunDirs, TLAPS

\* An Envoy that is up belongs to a call that still waits for it, unless it may
\* outlive its func-e.
ProgressInv ==
  \A r \in Runs :
    /\ envoy[r] = "up" => pc[r] = "running" \/ (pc[r] = "over" /\ r \in Undying)
    /\ pc[r] \notin {"running", "over"} =>
         client[r] = {} /\ dumped[r] = FALSE /\ written[r] = 0

\* A call in progress knows of every other one, and of every Envoy left behind,
\* with its identifier.
AloneInv ==
  \A r, q \in Runs :
    r # q /\ InProgress(r) /\ Busy(q) /\ id[r] = id[q] => alone[r] = FALSE

\* Nobody but its Envoy writes the address file of a call that has removed it.
AddressInv ==
  \A r \in Runs :
    pc[r] \in {"start", "running"} /\ alone[r] = TRUE => addr[id[r]].of \subseteq {r}

\* The log begins with the lines the call's Envoy has written.
LogInv ==
  \A r \in Runs :
    alone[r] = TRUE /\ InProgress(r) =>
      /\ written[r] <= Len(log[id[r]])
      /\ \A line \in 1 .. written[r] : log[id[r]][line] = r

\* The dump of a call that has saved one is still there.
DumpInv ==
  \A r \in Runs :
    alone[r] = TRUE /\ InProgress(r) /\ dumped[r] = TRUE => dump[id[r]] = {r}

\* An identifier that was not chosen was generated when the call began.
IdInv == \A r \in Runs : id[r] # CustomId => id[r] = GenerateRunID(born[r])

IInv ==
  /\ TypeOK /\ ProgressInv /\ AloneInv /\ AddressInv /\ ClientIsOwn
  /\ LogInv /\ DumpInv /\ IdInv

USE DEF vars, calls, disk, Goto, LoggedAt

-----------------------------------------------------------------------------
(* Types.                                                                  *)

\* An identifier that is generated is one, and is not the custom one.
LEMMA GeneratedIsId ==
  \A t \in Instants : GenerateRunID(t) \in Ids /\ GenerateRunID(t) # CustomId
  <1> SUFFICES ASSUME NEW t \in Instants
               PROVE GenerateRunID(t) \in Ids /\ GenerateRunID(t) # CustomId
    OBVIOUS
  <1>1. t.second \in 1 .. Seconds /\ t.micro \in 0 .. Micros - 1
    BY DEF Instants
  <1>2. t.micro % Kept \in 0 .. Kept - 1
    BY <1>1, ClockAssumption
  <1> QED
    BY <1>1, <1>2, ClockAssumption DEF GenerateRunID, Ids, CustomId

\* The initial values are within their types.
LEMMA TypeInit == Init => TypeOK
  <1> SUFFICES ASSUME Init PROVE TypeOK
    OBVIOUS
  <1>1. now \in Instants /\ CustomId \in Ids
    BY ClockAssumption DEF Init, Instants, Ids
  <1>2. <<>> \in Seq(Runs) /\ NoFile \in [exists : BOOLEAN, of : Owner] /\ {} \in Owner
    BY DEF NoFile, Owner
  <1> QED
    BY <1>1, <1>2, LinesAssumption DEF Init, TypeOK

\* The log after r's Envoy has written its line of that number.
Logged(lines, r, line) ==
  IF line <= Len(lines) THEN [lines EXCEPT ![line] = r] ELSE Append(lines, r)

\* What an Envoy logs leaves a log of runs.
LEMMA LoggedIsLog ==
  ASSUME NEW lines \in Seq(Runs), NEW r \in Runs, NEW line \in Nat \ {0}
  PROVE  Logged(lines, r, line) \in Seq(Runs)
  BY DEF Logged

\* A line more of the same Envoy goes behind those it has written.
LEMMA OneMoreLine ==
  ASSUME NEW lines \in Seq(Runs), NEW r \in Runs, NEW n \in Nat, n <= Len(lines),
         \A l \in 1 .. n : lines[l] = r
  PROVE  /\ n + 1 <= Len(Logged(lines, r, n + 1))
         /\ \A l \in 1 .. n + 1 : Logged(lines, r, n + 1)[l] = r
  <1>1. CASE n + 1 <= Len(lines)
    <2>1. Logged(lines, r, n + 1) = [lines EXCEPT ![n + 1] = r] /\ n + 1 \in 1 .. Len(lines)
      BY <1>1 DEF Logged
    <2> QED
      BY <2>1
  <1>2. CASE ~(n + 1 <= Len(lines))
    <2>1. Logged(lines, r, n + 1) = Append(lines, r) /\ Len(lines) = n
      BY <1>2 DEF Logged
    <2> QED
      BY <2>1
  <1> QED
    BY <1>1, <1>2

\* No step of a call, of its Envoy or of the clock leaves the types.
LEMMA TypeNext == TypeOK /\ [Next]_vars => TypeOK'
  <1> SUFFICES ASSUME TypeOK, [Next]_vars PROVE TypeOK'
    OBVIOUS
  <1> USE DEF TypeOK
  <1>1. CASE Tick
    BY <1>1, ClockAssumption DEF Tick, Instants
  <1>2. ASSUME NEW r \in Runs, Call(r) PROVE TypeOK'
    <2>1. CASE Begin(r)
      <3>1. PICK i \in {GenerateRunID(now)} \cup (IF Custom THEN {CustomId} ELSE {}) :
              /\ id' = [id EXCEPT ![r] = i]
              /\ \E others \in SUBSET Runs :
                   alone' = [q \in Runs |->
                     IF q = r THEN others = {} ELSE alone[q] /\ q \notin others]
        BY <2>1 DEF Begin
      <3>2. i \in Ids
        BY GeneratedIsId DEF Ids
      <3>3. alone' \in [Runs -> BOOLEAN]
        BY <3>1
      <3>4. /\ pc' = [pc EXCEPT ![r] = "mkdirs"] /\ born' = [born EXCEPT ![r] = now]
            /\ UNCHANGED <<now, envoy, written, client, dumped, addr, log, dump>>
        BY <2>1 DEF Begin
      <3>5. id' \in [Runs -> Ids]
        BY <3>1, <3>2
      <3>6. /\ pc' \in [Runs -> {"new", "mkdirs", "open", "remove", "start", "running", "over"}]
            /\ born' \in [Runs -> Instants]
        BY <3>4
      <3> QED
        BY <3>3, <3>4, <3>5, <3>6
    <2>2. CASE Mkdirs(r) \/ Fail(r) \/ Return(r)
      <3>1. pc' = [pc EXCEPT ![r] = "open"] \/ pc' = [pc EXCEPT ![r] = "over"]
        BY <2>2 DEF Mkdirs, Fail, Return
      <3>2. UNCHANGED <<now, born, id, envoy, written, client, dumped, alone, disk>>
        BY <2>2 DEF Mkdirs, Fail, Return
      <3> QED
        BY <3>1, <3>2
    <2>3. CASE Start(r)
      BY <2>3 DEF Start
    <2>4. CASE OpenLogs(r)
      BY <2>4, LinesAssumption DEF OpenLogs
    <2>5. CASE RemoveAddress(r)
      BY <2>5 DEF RemoveAddress, Removed, NoFile, Owner
    <2>6. CASE ReadAddress(r)
      BY <2>6 DEF ReadAddress
    <2>7. CASE SaveConfigDump(r)
      BY <2>7 DEF SaveConfigDump
    <2>8. CASE Killed(r)
      BY <2>8 DEF Killed, KilledWith
    <2> QED
      BY <1>2, <2>1, <2>2, <2>3, <2>4, <2>5, <2>6, <2>7, <2>8 DEF Call
  <1>3. ASSUME NEW r \in Runs, Envoy(r) PROVE TypeOK'
    <2>1. CASE EnvoyLogs(r)
      <3>1. written[r] + 1 \in 0 .. Lines /\ written[r] + 1 \in Nat \ {0}
        BY <2>1, LinesAssumption DEF EnvoyLogs
      <3>2. Logged(log[id[r]], r, written[r] + 1) \in Seq(Runs)
        BY <3>1, LoggedIsLog
      <3>3. log' = [log EXCEPT ![id[r]] = Logged(log[id[r]], r, written[r] + 1)]
        BY <2>1 DEF EnvoyLogs, Logged
      <3>4. log' \in [Ids -> Seq(Runs)]
        BY <3>2, <3>3
      <3> QED
        BY <2>1, <3>1, <3>4 DEF EnvoyLogs
    <2>2. CASE EnvoyCreatesAddress(r) \/ EnvoyWritesAddress(r)
      <3>1. {} \in Owner /\ {r} \in Owner
        BY DEF Owner
      <3>2. addr[id[r]] \in [exists : BOOLEAN, of : Owner]
        OBVIOUS
      <3>3. CASE EnvoyCreatesAddress(r)
        BY <3>1, <3>3 DEF EnvoyCreatesAddress
      <3>4. CASE EnvoyWritesAddress(r)
        <4>1. [addr[id[r]] EXCEPT !.of = {r}] \in [exists : BOOLEAN, of : Owner]
          BY <3>1, <3>2
        <4>2. addr' = [addr EXCEPT ![id[r]] = [addr[id[r]] EXCEPT !.of = {r}]]
          BY <3>4 DEF EnvoyWritesAddress
        <4> QED
          BY <3>4, <4>1, <4>2 DEF EnvoyWritesAddress
      <3> QED
        BY <2>2, <3>3, <3>4
    <2>3. CASE EnvoyExits(r)
      BY <2>3 DEF EnvoyExits
    <2> QED
      BY <1>3, <2>1, <2>2, <2>3 DEF Envoy
  <1>4. CASE UNCHANGED vars
    BY <1>4
  <1> QED
    BY <1>1, <1>2, <1>3, <1>4 DEF Next

\* The variables of RunDirs stay within their types.
THEOREM TypeCorrect == Spec => []TypeOK
  BY TypeInit, TypeNext, PTL DEF Spec

-----------------------------------------------------------------------------
(* The invariant.                                                          *)

\* At first no call is in progress.
LEMMA InitInv == Init => IInv
  <1> SUFFICES ASSUME Init PROVE IInv
    OBVIOUS
  <1>1. \A r \in Runs : InProgress(r) = FALSE
    BY DEF Init, InProgress
  <1>2. TypeOK
    BY TypeInit
  <1> QED
    BY <1>1, <1>2 DEF Init, IInv, ProgressInv, AloneInv, AddressInv, ClientIsOwn,
       LogInv, DumpInv, IdInv, CustomId

\* Envoy is started by a call that waits for it, and killed with it.
LEMMA ProgressNext == TypeOK /\ ProgressInv /\ [Next]_vars => ProgressInv'
  <1> SUFFICES ASSUME TypeOK, ProgressInv, [Next]_vars, NEW s \in Runs
               PROVE  /\ envoy'[s] = "up" =>
                           pc'[s] = "running" \/ (pc'[s] = "over" /\ s \in Undying)
                      /\ pc'[s] \notin {"running", "over"} =>
                           client'[s] = {} /\ dumped'[s] = FALSE /\ written'[s] = 0
    BY DEF ProgressInv
  <1> USE DEF TypeOK, ProgressInv
  <1>1. CASE Tick \/ UNCHANGED vars
    BY <1>1 DEF Tick
  <1>2. ASSUME NEW r \in Runs, Call(r)
        PROVE  /\ envoy'[s] = "up" =>
                    pc'[s] = "running" \/ (pc'[s] = "over" /\ s \in Undying)
               /\ pc'[s] \notin {"running", "over"} =>
                    client'[s] = {} /\ dumped'[s] = FALSE /\ written'[s] = 0
    <2>1. CASE Begin(r)
      BY <2>1 DEF Begin
    <2>2. CASE Mkdirs(r) \/ Start(r) \/ Fail(r) \/ Return(r)
      BY <2>2 DEF Mkdirs, Start, Fail, Return
    <2>3. CASE OpenLogs(r)
      BY <2>3 DEF OpenLogs
    <2>4. CASE RemoveAddress(r)
      BY <2>4 DEF RemoveAddress, Removed
    <2>5. CASE ReadAddress(r) \/ SaveConfigDump(r)
      BY <2>5 DEF ReadAddress, SaveConfigDump
    <2>6. CASE Killed(r)
      BY <2>6 DEF Killed, KilledWith
    <2> QED
      BY <1>2, <2>1, <2>2, <2>3, <2>4, <2>5, <2>6 DEF Call
  <1>3. ASSUME NEW r \in Runs, Envoy(r)
        PROVE  /\ envoy'[s] = "up" =>
                    pc'[s] = "running" \/ (pc'[s] = "over" /\ s \in Undying)
               /\ pc'[s] \notin {"running", "over"} =>
                    client'[s] = {} /\ dumped'[s] = FALSE /\ written'[s] = 0
    BY <1>3 DEF Envoy, EnvoyLogs, EnvoyCreatesAddress, EnvoyWritesAddress, EnvoyExits
  <1> QED
    BY <1>1, <1>2, <1>3 DEF Next

\* What Begin does to the calls: it takes itself and the others in progress with
\* its identifier for calls that are not alone.
LEMMA BeginFacts ==
  ASSUME TypeOK, NEW r \in Runs, Begin(r)
  PROVE  /\ pc[r] = "new" /\ pc' = [pc EXCEPT ![r] = "mkdirs"]
         /\ \A q \in Runs : q # r => id'[q] = id[q]
         /\ \A q \in Runs : alone'[q] = TRUE /\ q # r => alone[q] = TRUE
         /\ \A q \in Runs : q # r /\ Busy(q) /\ id[q] = id'[r] =>
              alone'[q] = FALSE /\ alone'[r] = FALSE
  <1> USE DEF TypeOK
  <1>1. PICK i \in {GenerateRunID(now)} \cup (IF Custom THEN {CustomId} ELSE {}) :
          /\ id' = [id EXCEPT ![r] = i]
          /\ alone' = [q \in Runs |->
               IF q = r THEN {p \in Runs \ {r} : Busy(p) /\ id[p] = i} = {}
               ELSE alone[q] /\ q \notin {p \in Runs \ {r} : Busy(p) /\ id[p] = i}]
    BY DEF Begin
  <1>2. id'[r] = i /\ \A q \in Runs : q # r => id'[q] = id[q]
    BY <1>1
  <1>3. \A q \in Runs : q # r /\ Busy(q) /\ id[q] = i =>
          alone'[q] = FALSE /\ alone'[r] = FALSE
    BY <1>1
  <1>4. \A q \in Runs : alone'[q] = TRUE /\ q # r => alone[q] = TRUE
    BY <1>1
  <1> QED
    BY <1>2, <1>3, <1>4 DEF Begin

\* A step other than Begin leaves identifiers and history alone, and no call
\* comes to be in progress by it, nor to leave an Envoy behind if it was not.
LEMMA OtherFacts ==
  ASSUME TypeOK, [Next]_vars, \A r \in Runs : ~Begin(r)
  PROVE  /\ id' = id /\ alone' = alone
         /\ \A q \in Runs : (InProgress(q)' => InProgress(q)) /\ (Busy(q)' => Busy(q))
  <1> USE DEF TypeOK, InProgress, Busy
  <1>1. CASE Tick \/ UNCHANGED vars
    BY <1>1 DEF Tick
  <1>2. ASSUME NEW r \in Runs, Call(r)
        PROVE /\ id' = id /\ alone' = alone
              /\ \A q \in Runs : (InProgress(q)' => InProgress(q)) /\ (Busy(q)' => Busy(q))
    BY <1>2 DEF Call, Mkdirs, OpenLogs, RemoveAddress, Removed, Start, Fail,
       ReadAddress, SaveConfigDump, Return, Killed, KilledWith
  <1>3. ASSUME NEW r \in Runs, Envoy(r)
        PROVE /\ id' = id /\ alone' = alone
              /\ \A q \in Runs : (InProgress(q)' => InProgress(q)) /\ (Busy(q)' => Busy(q))
    BY <1>3 DEF Envoy, EnvoyLogs, EnvoyCreatesAddress, EnvoyWritesAddress, EnvoyExits
  <1> QED
    BY <1>1, <1>2, <1>3 DEF Next

\* Begin notes every call that it joins; no other step lets a call join.
LEMMA AloneNext == TypeOK /\ AloneInv /\ [Next]_vars => AloneInv'
  <1> SUFFICES ASSUME TypeOK, AloneInv, [Next]_vars PROVE AloneInv'
    OBVIOUS
  <1> USE DEF AloneInv
  <1>1. CASE \A r \in Runs : ~Begin(r)
    BY <1>1, OtherFacts
  <1>2. ASSUME NEW r \in Runs, Begin(r) PROVE AloneInv'
    <2> SUFFICES ASSUME NEW s \in Runs, NEW q \in Runs, s # q,
                        InProgress(s)', Busy(q)', id'[s] = id'[q]
                 PROVE  alone'[s] = FALSE
      OBVIOUS
    <2>1. /\ \A p \in Runs : p # r => id'[p] = id[p]
          /\ \A p \in Runs : alone'[p] = TRUE /\ p # r => alone[p] = TRUE
          /\ \A p \in Runs : p # r /\ Busy(p) /\ id[p] = id'[r] =>
               alone'[p] = FALSE /\ alone'[r] = FALSE
      BY <1>2, BeginFacts
    <2>2. \A p \in Runs : p # r =>
            (InProgress(p)' => InProgress(p)) /\ (Busy(p)' => Busy(p))
      BY <1>2 DEF Begin, Busy, InProgress, TypeOK
    <2>3. CASE s = r \/ q = r
      BY <2>1, <2>2, <2>3 DEF Busy
    <2>4. CASE s # r /\ q # r
      <3>1. alone[s] = FALSE
        BY <2>1, <2>2, <2>4
      <3>2. alone'[s] \in BOOLEAN
        BY TypeNext DEF TypeOK
      <3> QED
        BY <2>1, <2>4, <3>1, <3>2
    <2> QED
      BY <2>3, <2>4
  <1> QED
    BY <1>1, <1>2

\* A call in progress that is alone is the only one that is busy with its identifier.
LEMMA SharedIsSame ==
  ASSUME TypeOK, AloneInv, NEW r \in Runs, NEW s \in Runs,
         Busy(r), InProgress(s), id[r] = id[s], alone[s] = TRUE
  PROVE  r = s
  BY DEF AloneInv

\* A call that begins neither touches the disk nor is far enough to count; what
\* the others in progress are promised only grows less.
LEMMA BeginKeeps ==
  ASSUME TypeOK, NEW r \in Runs, Begin(r), NEW s \in Runs, alone'[s] = TRUE, s # r
  PROVE  /\ alone[s] = TRUE /\ id'[s] = id[s] /\ pc'[s] = pc[s]
         /\ UNCHANGED <<envoy, written, client, dumped, disk>>
  <1>1. alone[s] = TRUE /\ id'[s] = id[s]
    BY BeginFacts
  <1>2. pc'[s] = pc[s] /\ UNCHANGED <<envoy, written, client, dumped, disk>>
    BY DEF Begin, TypeOK
  <1> QED
    BY <1>1, <1>2

\* After RemoveAddress only the call's own Envoy writes its address: another
\* Envoy that is up with the identifier belongs to a call in progress.
LEMMA AddressNext ==
  TypeOK /\ ProgressInv /\ AloneInv /\ AddressInv /\ [Next]_vars => AddressInv'
  <1> SUFFICES ASSUME TypeOK, ProgressInv, AloneInv, AddressInv, [Next]_vars, NEW s \in Runs,
                      pc'[s] \in {"start", "running"}, alone'[s] = TRUE
               PROVE  addr'[id'[s]].of \subseteq {s}
    BY DEF AddressInv
  <1> USE DEF TypeOK
  <1>1. CASE Tick \/ UNCHANGED vars
    BY <1>1 DEF Tick, AddressInv
  <1>2. ASSUME NEW r \in Runs, Call(r) PROVE addr'[id'[s]].of \subseteq {s}
    <2>1. CASE Begin(r)
      <3>1. s # r
        BY <2>1 DEF Begin
      <3>2. alone[s] = TRUE /\ id'[s] = id[s] /\ pc'[s] = pc[s] /\ addr' = addr
        BY <2>1, <3>1, BeginKeeps
      <3> QED
        BY <3>2 DEF AddressInv
    <2>2. CASE RemoveAddress(r)
      <3>1. /\ pc' = [pc EXCEPT ![r] = "start"] /\ id' = id /\ alone' = alone
            /\ addr' = [addr EXCEPT ![id[r]] = NoFile]
        BY <2>2 DEF RemoveAddress, Removed
      <3>2. CASE id[r] = id[s]
        BY <3>1, <3>2 DEF NoFile
      <3>3. CASE id[r] # id[s]
        BY <3>1, <3>3 DEF AddressInv
      <3> QED
        BY <3>2, <3>3
    <2>3. CASE Start(r)
      BY <2>3 DEF Start, AddressInv
    <2>4. CASE Mkdirs(r) \/ OpenLogs(r) \/ Fail(r) \/ ReadAddress(r)
               \/ SaveConfigDump(r) \/ Return(r) \/ Killed(r)
      <3>1. /\ UNCHANGED <<id, alone, addr>>
            /\ pc'[s] = pc[s]
        BY <2>4 DEF Mkdirs, OpenLogs, Fail, ReadAddress, SaveConfigDump, Return,
           Killed, KilledWith
      <3> QED
        BY <3>1 DEF AddressInv
    <2> QED
      BY <1>2, <2>1, <2>2, <2>3, <2>4 DEF Call
  <1>3. ASSUME NEW r \in Runs, Envoy(r) PROVE addr'[id'[s]].of \subseteq {s}
    <2>1. CASE EnvoyCreatesAddress(r)
      BY <2>1 DEF EnvoyCreatesAddress, AddressInv
    <2>2. CASE EnvoyWritesAddress(r)
      <3>1. Busy(r) /\ InProgress(s) /\ alone[s] = TRUE /\ id' = id
        BY <2>2 DEF EnvoyWritesAddress, InProgress, Busy
      <3>2. CASE id[r] = id[s]
        <4>1. r = s
          BY <3>1, <3>2, SharedIsSame
        <4>2. addr'[id[s]].of = {r}
          BY <2>2, <3>2 DEF EnvoyWritesAddress
        <4> QED
          BY <3>1, <4>1, <4>2
      <3>3. CASE id[r] # id[s]
        BY <2>2, <3>1, <3>3 DEF EnvoyWritesAddress, AddressInv
      <3> QED
        BY <3>2, <3>3
    <2>3. CASE EnvoyLogs(r) \/ EnvoyExits(r)
      BY <2>3 DEF EnvoyLogs, EnvoyExits, AddressInv
    <2> QED
      BY <1>3, <2>1, <2>2, <2>3 DEF Envoy
  <1> QED
    BY <1>1, <1>2, <1>3 DEF Next

\* A call reads the address file only after it has removed it.
LEMMA ClientNext ==
  TypeOK /\ ProgressInv /\ AddressInv /\ ClientIsOwn /\ [Next]_vars => ClientIsOwn'
  <1> SUFFICES ASSUME TypeOK, ProgressInv, AddressInv, ClientIsOwn, [Next]_vars
               PROVE  ClientIsOwn'
    OBVIOUS
  <1>0. \A s \in Runs : alone'[s] \in BOOLEAN
    BY TypeNext DEF TypeOK
  <1> SUFFICES ASSUME NEW s \in Runs, alone'[s] = TRUE
               PROVE  client'[s] \subseteq {s}
    BY <1>0, Zenon DEF ClientIsOwn
  <1> USE DEF TypeOK
  <1>1. CASE Tick \/ UNCHANGED vars
    BY <1>1 DEF Tick, ClientIsOwn
  <1>2. ASSUME NEW r \in Runs, Call(r) PROVE client'[s] \subseteq {s}
    <2>1. CASE Begin(r)
      <3>1. CASE s = r
        BY <2>1, <3>1 DEF Begin, ProgressInv
      <3>2. CASE s # r
        BY <2>1, <3>2, BeginKeeps DEF ClientIsOwn
      <3> QED
        BY <3>1, <3>2
    <2>2. CASE ReadAddress(r)
      BY <2>2 DEF ReadAddress, AddressInv, ClientIsOwn
    <2>3. CASE Mkdirs(r) \/ OpenLogs(r) \/ RemoveAddress(r) \/ Start(r) \/ Fail(r)
               \/ SaveConfigDump(r) \/ Return(r) \/ Killed(r)
      BY <2>3 DEF Mkdirs, OpenLogs, RemoveAddress, Removed, Start, Fail, SaveConfigDump,
         Return, Killed, KilledWith, ClientIsOwn
    <2> QED
      BY <1>2, <2>1, <2>2, <2>3 DEF Call
  <1>3. ASSUME NEW r \in Runs, Envoy(r) PROVE client'[s] \subseteq {s}
    BY <1>3 DEF Envoy, EnvoyLogs, EnvoyCreatesAddress, EnvoyWritesAddress, EnvoyExits, ClientIsOwn
  <1> QED
    BY <1>1, <1>2, <1>3 DEF Next

\* Another Envoy that logs with the identifier belongs to a call in progress, so
\* that the log of a call that is alone changes by its own lines only.
LEMMA LogNext ==
  TypeOK /\ ProgressInv /\ AloneInv /\ LogInv /\ [Next]_vars => LogInv'
  <1> DEFINE Own(s) == /\ written[s] <= Len(log[id[s]])
                       /\ \A line \in 1 .. written[s] : log[id[s]][line] = s
  <1> SUFFICES ASSUME TypeOK, ProgressInv, AloneInv, LogInv, [Next]_vars, NEW s \in Runs,
                      alone'[s] = TRUE, InProgress(s)'
               PROVE  Own(s)'
    BY DEF LogInv
  <1> USE DEF TypeOK
  <1>1. ASSUME UNCHANGED <<id, written, log, alone>>, InProgress(s) PROVE Own(s)'
    BY <1>1 DEF LogInv
  <1>2. CASE Tick \/ UNCHANGED vars
    BY <1>1, <1>2 DEF Tick, InProgress
  <1>3. ASSUME NEW r \in Runs, Call(r) PROVE Own(s)'
    <2>1. CASE Begin(r)
      <3>1. CASE s = r
        <4>1. written'[s] = 0 /\ log'[id'[s]] \in Seq(Runs)
          <5>1. written'[s] = 0
            BY <2>1, <3>1 DEF Begin, ProgressInv
          <5>2. log'[id'[s]] \in Seq(Runs)
            BY TypeNext
          <5> QED
            BY <5>1, <5>2
        <4>2. Len(log'[id'[s]]) \in Nat
          BY <4>1
        <4> QED
          BY <4>1, <4>2
      <3>2. CASE s # r
        <4>1. /\ alone[s] = TRUE /\ id'[s] = id[s] /\ pc'[s] = pc[s]
              /\ written' = written /\ log' = log
          BY <2>1, <3>2, BeginKeeps
        <4>2. InProgress(s)
          BY <4>1 DEF InProgress
        <4> QED
          BY <4>1, <4>2 DEF LogInv
      <3> QED
        BY <3>1, <3>2
    <2>2. CASE OpenLogs(r)
      <3>1. CASE s = r
        <4>1. written'[s] = 0 /\ log'[id'[s]] \in Seq(Runs)
          BY <2>2, <3>1 DEF OpenLogs
        <4>2. Len(log'[id'[s]]) \in Nat
          BY <4>1
        <4> QED
          BY <4>1, <4>2
      <3>2. CASE s # r
        BY <2>2, <3>2 DEF OpenLogs, LogInv, InProgress
      <3> QED
        BY <3>1, <3>2
    <2>3. CASE Mkdirs(r) \/ RemoveAddress(r) \/ Start(r) \/ Fail(r) \/ ReadAddress(r)
               \/ SaveConfigDump(r) \/ Return(r) \/ Killed(r)
      <3>1. InProgress(s)
        BY <2>3 DEF Mkdirs, RemoveAddress, Removed, Start, Fail, ReadAddress,
           SaveConfigDump, Return, Killed, KilledWith, InProgress
      <3> QED
        BY <1>1, <2>3, <3>1 DEF Mkdirs, RemoveAddress, Removed, Start, Fail, ReadAddress,
           SaveConfigDump, Return, Killed, KilledWith
    <2> QED
      BY <1>3, <2>1, <2>2, <2>3 DEF Call
  <1>4. ASSUME NEW r \in Runs, Envoy(r) PROVE Own(s)'
    <2>1. CASE EnvoyLogs(r)
      <3>1. Busy(r) /\ InProgress(s) /\ alone[s] = TRUE /\ id' = id
        BY <2>1 DEF EnvoyLogs, InProgress, Busy
      <3>2. CASE id[r] = id[s]
        <4>1. r = s
          BY <3>1, <3>2, SharedIsSame
        <4>2. /\ log[id[s]] \in Seq(Runs) /\ written[s] \in Nat
              /\ written[s] <= Len(log[id[s]])
              /\ \A l \in 1 .. written[s] : log[id[s]][l] = s
          BY <3>1, LinesAssumption DEF LogInv
        <4>3. /\ written'[s] = written[s] + 1
              /\ log'[id[s]] = Logged(log[id[s]], s, written[s] + 1)
          BY <2>1, <4>1 DEF EnvoyLogs, Logged
        <4> QED
          <5> HIDE DEF TypeOK
          <5> DEFINE new == Logged(log[id[s]], s, written[s] + 1)
          <5>1. written[s] + 1 <= Len(new) /\ \A l \in 1 .. written[s] + 1 : new[l] = s
            BY <4>2, OneMoreLine
          <5>2. written'[s] = written[s] + 1 /\ log'[id'[s]] = new
            BY <3>1, <4>3, Zenon
          <5> QED
            BY <5>1, <5>2, Zenon
      <3>3. CASE id[r] # id[s]
        <4>1. r # s
          BY <3>3
        <4>2. written'[s] = written[s] /\ log'[id'[s]] = log[id[s]]
          BY <2>1, <3>1, <3>3, <4>1 DEF EnvoyLogs
        <4> QED
          BY <3>1, <4>2 DEF LogInv
      <3> QED
        BY <3>2, <3>3
    <2>2. CASE EnvoyCreatesAddress(r) \/ EnvoyWritesAddress(r) \/ EnvoyExits(r)
      BY <1>1, <2>2 DEF EnvoyCreatesAddress, EnvoyWritesAddress, EnvoyExits, InProgress
    <2> QED
      BY <1>4, <2>1, <2>2 DEF Envoy
  <1> QED
    BY <1>2, <1>3, <1>4 DEF Next

\* The dump of a call that is alone is of its own Envoy, and another that is
\* saved with its identifier would be saved by a call in progress.
LEMMA DumpNext ==
  TypeOK /\ ProgressInv /\ AloneInv /\ ClientIsOwn /\ DumpInv /\ [Next]_vars => DumpInv'
  <1> SUFFICES ASSUME TypeOK, ProgressInv, AloneInv, ClientIsOwn, DumpInv, [Next]_vars,
                      NEW s \in Runs, alone'[s] = TRUE, InProgress(s)', dumped'[s] = TRUE
               PROVE  dump'[id'[s]] = {s}
    BY DEF DumpInv
  <1> USE DEF TypeOK
  <1>1. ASSUME UNCHANGED <<id, dumped, dump, alone>>, InProgress(s)
        PROVE  dump'[id'[s]] = {s}
    BY <1>1 DEF DumpInv
  <1>2. CASE Tick \/ UNCHANGED vars
    BY <1>1, <1>2 DEF Tick, InProgress
  <1>3. ASSUME NEW r \in Runs, Call(r) PROVE dump'[id'[s]] = {s}
    <2>1. CASE Begin(r)
      <3>1. s # r
        BY <2>1 DEF Begin, ProgressInv
      <3>2. /\ alone[s] = TRUE /\ id'[s] = id[s] /\ pc'[s] = pc[s]
            /\ dumped' = dumped /\ dump' = dump
        BY <2>1, <3>1, BeginKeeps
      <3>3. InProgress(s)
        BY <3>2 DEF InProgress
      <3> QED
        BY <3>2, <3>3 DEF DumpInv
    <2>2. CASE SaveConfigDump(r)
      <3>1. /\ Busy(r) /\ InProgress(s) /\ alone[s] = TRUE /\ id' = id
            /\ client[r] # {} /\ dump' = [dump EXCEPT ![id[r]] = client[r]]
            /\ dumped' = [dumped EXCEPT ![r] = TRUE]
        BY <2>2 DEF SaveConfigDump, InProgress, Busy
      <3>2. CASE id[r] = id[s]
        <4>1. r = s
          BY <3>1, <3>2, SharedIsSame
        <4>2. client[s] = {s}
          BY <3>1, <4>1 DEF ClientIsOwn
        <4> QED
          BY <3>1, <4>1, <4>2
      <3>3. CASE id[r] # id[s]
        <4>1. r # s
          BY <3>3
        <4>2. dumped[s] = TRUE /\ dump'[id[s]] = dump[id[s]]
          BY <3>1, <3>3, <4>1
        <4> QED
          BY <3>1, <4>2 DEF DumpInv
      <3> QED
        BY <3>2, <3>3
    <2>3. CASE Mkdirs(r) \/ OpenLogs(r) \/ RemoveAddress(r) \/ Start(r) \/ Fail(r)
               \/ ReadAddress(r) \/ Return(r) \/ Killed(r)
      <3>1. InProgress(s)
        BY <2>3 DEF Mkdirs, OpenLogs, RemoveAddress, Removed, Start, Fail, ReadAddress,
           Return, Killed, KilledWith, InProgress
      <3> QED
        BY <1>1, <2>3, <3>1 DEF Mkdirs, OpenLogs, RemoveAddress, Removed, Start, Fail,
           ReadAddress, Return, Killed, KilledWith
    <2> QED
      BY <1>3, <2>1, <2>2, <2>3 DEF Call
  <1>4. ASSUME NEW r \in Runs, Envoy(r) PROVE dump'[id'[s]] = {s}
    BY <1>1, <1>4 DEF Envoy, EnvoyLogs, EnvoyCreatesAddress, EnvoyWritesAddress, EnvoyExits,
       InProgress
  <1> QED
    BY <1>2, <1>3, <1>4 DEF Next

\* Identifiers are made once, from the clock at that moment.
LEMMA IdNext == TypeOK /\ IdInv /\ [Next]_vars => IdInv'
  <1> SUFFICES ASSUME TypeOK, IdInv, [Next]_vars, NEW s \in Runs, id'[s] # CustomId
               PROVE  id'[s] = GenerateRunID(born'[s])
    BY DEF IdInv, GenerateRunID
  <1> USE DEF TypeOK
  <1>1. CASE UNCHANGED <<id, born>>
    BY <1>1 DEF IdInv
  <1>2. ASSUME NEW r \in Runs, Begin(r) PROVE id'[s] = GenerateRunID(born'[s])
    <2>1. PICK i \in {GenerateRunID(now)} \cup (IF Custom THEN {CustomId} ELSE {}) :
            id' = [id EXCEPT ![r] = i]
      BY <1>2 DEF Begin
    <2>2. born' = [born EXCEPT ![r] = now]
      BY <1>2 DEF Begin
    <2>3. CASE s = r
      BY <2>1, <2>2, <2>3
    <2>4. CASE s # r
      BY <2>1, <2>2, <2>4 DEF IdInv
    <2> QED
      BY <2>3, <2>4
  <1>3. CASE Tick \/ UNCHANGED vars
    BY <1>1, <1>3 DEF Tick
  <1>4. ASSUME NEW r \in Runs, Call(r), ~Begin(r) PROVE UNCHANGED <<id, born>>
    BY <1>4 DEF Call, Mkdirs, OpenLogs, RemoveAddress, Removed, Start, Fail,
       ReadAddress, SaveConfigDump, Return, Killed, KilledWith
  <1>5. ASSUME NEW r \in Runs, Envoy(r) PROVE UNCHANGED <<id, born>>
    BY <1>5 DEF Envoy, EnvoyLogs, EnvoyCreatesAddress, EnvoyWritesAddress, EnvoyExits
  <1> QED
    BY <1>1, <1>2, <1>3, <1>4, <1>5 DEF Next

\* Every step of RunDirs keeps the invariant.
LEMMA NextInv == IInv /\ [Next]_vars => IInv'
  BY TypeNext, ProgressNext, AloneNext, AddressNext, ClientNext, LogNext, DumpNext, IdNext
  DEF IInv

-----------------------------------------------------------------------------
(* The theorems.                                                           *)

\* The invariant holds in every reachable state.
THEOREM Invariance == Spec => []IInv
  BY InitInv, NextInv, PTL DEF Spec

\* On Linux an Envoy is gone when its call is over, func-e killed or not.
THEOREM NoOrphans == Spec => []NoEnvoyLeftBehind
  <1>1. IInv => NoEnvoyLeftBehind
    BY DEF IInv, ProgressInv, NoEnvoyLeftBehind
  <1> QED
    BY <1>1, Invariance, PTL

\* A call talks to its own Envoy only, unless another was busy with its
\* identifier: Run removes what an earlier one left (run.go:29-30).
THEOREM OwnEnvoy == Spec => []ClientIsOwn
  <1>1. IInv => ClientIsOwn
    BY DEF IInv
  <1> QED
    BY <1>1, Invariance, PTL

\* Under the same condition the logs begin with the call's lines and the dump is
\* the one it saved (run.go:30-47, runtime/admin.go).
THEOREM OwnOutput == Spec => []OutputIsKept
  <1>1. IInv => OutputIsKept
    <2> SUFFICES ASSUME IInv PROVE OutputIsKept
      OBVIOUS
    <2>1. \A r \in Runs : alone[r] \in BOOLEAN /\ dumped[r] \in BOOLEAN
      BY DEF IInv, TypeOK
    <2>2. \A r \in Runs :
            alone[r] = TRUE /\ InProgress(r) =>
              /\ \A line \in 1 .. written[r] : log[id[r]][line] = r
              /\ dumped[r] = TRUE => dump[id[r]] = {r}
      BY DEF IInv, LogInv, DumpInv
    <2> QED
      BY <2>1, <2>2, Zenon DEF OutputIsKept
  <1> QED
    BY <1>1, Invariance, PTL

\* Two numbers less than k apart differ in their last digits.
LEMMA LastDigitsDiffer ==
  ASSUME NEW a \in Nat, NEW b \in Nat, NEW k \in Nat \ {0}, a < b, b - a < k
  PROVE  a % k # b % k
  <1> DEFINE m == a \div k
             n == b \div k
  <1>1. m \in Int /\ n \in Int /\ a = k * m + (a % k) /\ b = k * n + (b % k)
    OBVIOUS
  <1> HIDE DEF m, n
  <1> SUFFICES ASSUME a % k = b % k PROVE FALSE
    OBVIOUS
  <1>2. a % k \in Int /\ b % k \in Int
    OBVIOUS
  <1>3. k * n - k * m = b - a
    BY <1>1, <1>2
  <1>4. k * (n - m) = b - a
    BY <1>1, <1>3
  <1>5. CASE n - m <= 0
    <2>1. k * (n - m) <= 0
      BY <1>1, <1>5
    <2> QED
      BY <1>4, <2>1
  <1>6. CASE n - m >= 1
    <2>1. k * (n - m) >= k
      BY <1>1, <1>6
    <2> QED
      BY <1>4, <2>1
  <1> QED
    BY <1>1, <1>5, <1>6

\* Identifiers generated less than Kept microseconds apart, in one second,
\* are different (paths.go:72-74).
THEOREM CloseRunsApart == Spec => []CloseRunsDiffer
  <1>1. IInv => CloseRunsDiffer
    <2> SUFFICES ASSUME IInv, NEW r \in Runs, NEW q \in Runs,
                        id[r] # CustomId, id[q] # CustomId,
                        born[r].micro < born[q].micro,
                        born[q].micro - born[r].micro < Kept
                 PROVE  id[r] # id[q]
      BY DEF CloseRunsDiffer
    <2>1. id[r] = GenerateRunID(born[r]) /\ id[q] = GenerateRunID(born[q])
      BY DEF IInv, IdInv
    <2>2. born[r].micro \in Nat /\ born[q].micro \in Nat /\ Kept \in Nat \ {0}
      BY ClockAssumption DEF IInv, TypeOK, Instants
    <2>3. born[r].micro % Kept # born[q].micro % Kept
      BY <2>2, LastDigitsDiffer
    <2> QED
      BY <2>1, <2>3 DEF GenerateRunID
  <1> QED
    BY <1>1, Invariance, PTL
=============================================================================

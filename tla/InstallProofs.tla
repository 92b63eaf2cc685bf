---------------------------- MODULE InstallProofs ----------------------------
(***************************************************************************)
(* Proofs about Install, for any processes, number of chunks, days,        *)
(* invocations and faults.                                                 *)
(*                                                                         *)
(* What is handed out is found to be whole long after it was written, and  *)
(* by an invocation that has not written it.  So the argument is about     *)
(* the disk: while no invocations overlap, what bin/envoy holds follows    *)
(* from where the only one is; between invocations, and while nothing was  *)
(* torn, it is nothing, or the build that the directory is dated by.       *)
(***************************************************************************)
EXTENDS Install, TLAPS

\* What an invocation knows when it is where it is.
LocalInv ==
  \A p \in Procs :
    /\ pc[p] = "idle" <=> want[p] = "none"
    /\ pc[p] # "idle" => outcome[p] = "none"
    /\ found[p] => pc[p] = "lookup" /\ want[p] = "dev-latest"
    /\ pc[p] \in {"mkdir", "get", "open", "copy", "digest", "chtimes"} => build[p] # 0
    /\ pc[p] = "copy" => pos[p] < Chunks
    /\ pc[p] \in {"idle", "lookup", "mkdir", "get", "open"} => pos[p] = 0
    /\ pc[p] = "digest" => pos[p] = Chunks
    /\ pc[p] \in {"open", "copy", "digest", "chtimes"} =>
         tarball[p].content \in {build[p], Corrupt} /\ tarball[p].mode # "absent"
    /\ pc[p] \in {"idle", "lookup", "mkdir", "get"} => tarball[p] = NoTarball
    /\ pc[p] = "chtimes" => tarball[p].content = build[p]

\* A file is in a directory, which was made before it was fetched.
DirInv ==
  /\ mode # "absent" => dirDate # 0
  /\ mode = "absent" => data = [i \in 1 .. Chunks |-> Hole]
  /\ \A p \in Procs :
       /\ pc[p] \in {"get", "open", "copy", "digest", "chtimes"} => dirDate # 0
       /\ found[p] \/ pc[p] \in {"copy", "digest", "chtimes"} => mode # "absent"

\* While nothing overlaps there is one invocation, which downloads only what is
\* not there or may be old, and what it has written is what it has counted.
SoleInv ==
  overlapped = FALSE =>
    /\ \A p, q \in Procs : pc[p] # "idle" /\ pc[q] # "idle" => p = q
    /\ \A p \in Procs :
         /\ pc[p] \in {"lookup", "mkdir", "get", "open"} /\ want[p] # "dev-latest" =>
              mode = "absent"
         /\ pc[p] = "copy" =>
              \A i \in 1 .. Chunks :
                data[i] = IF i <= pos[p] THEN tarball[p].content ELSE Hole
         /\ pc[p] \in {"digest", "chtimes"} =>
              \A i \in 1 .. Chunks : data[i] = tarball[p].content

\* While nothing is torn either, a file that nobody is writing is the build by
\* which its directory is dated, and it is what a lookup has taken for fresh.
TidyInv ==
  torn = FALSE /\ overlapped = FALSE =>
    /\ mode # "absent" /\ (\A p \in Procs : pc[p] \notin {"copy", "digest", "chtimes"}) =>
         \A i \in 1 .. Chunks : data[i] = dirDate
    /\ \A p \in Procs :
         /\ pc[p] = "verify" => mode # "absent"
         /\ pc[p] = "verify" /\ want[p] = "dev-latest" => dirDate = build[p]
         /\ outcome[p] # "broken"

\* A corrupt chunk was refused, or is still to be.
NoticedInv ==
  torn = FALSE /\ (\E i \in 1 .. Chunks : data[i] = Corrupt) =>
    \E p \in Procs : pc[p] \in {"copy", "digest"} /\ tarball[p].content = Corrupt

\* A gap was left by one that broke off, or is still to be filled: who has
\* truncated the file last has written nothing before it, and will.
GapInv ==
  torn = FALSE /\ mode # "absent" =>
    \A i \in 1 .. Chunks :
      data[i] = Hole => \E p \in Procs : pc[p] = "copy" /\ pos[p] < i

IInv == TypeOK /\ LocalInv /\ DirInv /\ SoleInv /\ TidyInv /\ NoticedInv /\ GapInv

USE DEF vars, disk, clock, locals, history

\* The facts about constants that arithmetic needs.
LEMMA Numbers ==
  /\ Chunks \in Nat \ {0} /\ Days \in Nat \ {0} /\ Runs \in Nat
  /\ Hole = 0 /\ Corrupt = Days + 1 /\ Content = 0 .. Days + 1
  /\ Corrupt \notin 1 .. Days /\ Corrupt # 0
  BY ChunksAssumption, DaysAssumption, RunsAssumption DEF Hole, Corrupt, Content

\* Positions in the file, and what is there.
LEMMA Positions ==
  ASSUME TypeOK, NEW p \in Procs
  PROVE  pos[p] \in Nat /\ data \in [1 .. Chunks -> Content]
  BY ChunksAssumption DEF TypeOK

\* The writes are at 1 .. Chunks.
LEMMA FirstChunk == 1 \in 1 .. Chunks
  BY ChunksAssumption

-----------------------------------------------------------------------------
(* Types and locals: each lemma about the steps of one invocation names    *)
(* what the others keep.                                                   *)

\* The initial values are of their types, and the rest of the invariant holds.
LEMMA InvInit == Init => IInv
  <1> SUFFICES ASSUME Init PROVE IInv
    OBVIOUS
  <1> USE Numbers DEF Init
  <1>1. TypeOK
    <2>1. NoTarball \in [content : Content, mode : {"absent", "exec", "plain"}]
      BY DEF NoTarball
    <2>2. 0 \in 0 .. Days /\ 0 \in 0 .. Chunks /\ 0 \in 0 .. Runs /\ Hole \in Content
      OBVIOUS
    <2>3. today \in 1 .. Days /\ released \in 1 .. Days
      OBVIOUS
    <2>4. data \in [1 .. Chunks -> Content]
      BY <2>2
    <2> HIDE Numbers
    <2> QED
      BY <2>1, <2>2, <2>3, <2>4 DEF TypeOK
  <1>2. LocalInv /\ DirInv
    <2>1. "none" \notin Wanted
      BY WantedAssumption
    <2> QED
      BY <2>1 DEF LocalInv, DirInv, NoTarball
  <1>3. SoleInv /\ TidyInv /\ NoticedInv /\ GapInv
    BY DEF SoleInv, TidyInv, NoticedInv, GapInv
  <1> QED
    BY <1>1, <1>2, <1>3 DEF IInv

\* No step of an invocation or of the clock leaves the types.
LEMMA TypeNext == TypeOK /\ LocalInv /\ [Next]_vars => TypeOK'
  <1> SUFFICES ASSUME TypeOK, LocalInv, [Next]_vars PROVE TypeOK'
    OBVIOUS
  <1> USE Numbers DEF TypeOK, Goto
  <1>0. NoTarball \in [content : Content, mode : {"absent", "exec", "plain"}]
    BY DEF NoTarball
  <1>1. CASE NextDay
    BY <1>1 DEF NextDay
  <1>2. ASSUME NEW p \in Procs, Stat(p) PROVE TypeOK'
    BY <1>2 DEF Stat, StatThen
  <1>3. ASSUME NEW p \in Procs, NEW how \in {"error", "good", "broken"}, Ends(p, how),
               UNCHANGED <<clock, disk, runs, overlapped>>, torn' \in BOOLEAN
        PROVE  TypeOK'
    BY <1>0, <1>3 DEF Ends
  <1>4. ASSUME NEW p \in Procs, NetError(p) PROVE TypeOK'
    <2>1. CASE retried[p] = TRUE
      BY <1>4, <1>3, <2>1 DEF NetError, TransientError
    <2>2. CASE retried[p] = FALSE
      BY <1>4, <2>2 DEF NetError, TransientError
    <2> QED
      BY <2>1, <2>2
  <1>5. ASSUME NEW p \in Procs, Lookup(p) PROVE TypeOK'
    BY <1>5 DEF Lookup, LookedUp
  <1>6. ASSUME NEW p \in Procs, Refused(p) \/ Verify(p) \/ BreakOff(p) PROVE TypeOK'
    BY <1>3, <1>6 DEF Refused, Verify, BreakOff
  <1>7. ASSUME NEW p \in Procs, MakeDir(p) PROVE TypeOK'
    BY <1>7 DEF MakeDir
  <1>8. ASSUME NEW p \in Procs, Get(p) PROVE TypeOK'
    <2>1. PICK c \in Content, m \in {"exec", "plain"} :
            tarball' = [tarball EXCEPT ![p] = [content |-> c, mode |-> m]]
      <3>1. {build[p]} \cup (IF "corrupt" \in Faults THEN {Corrupt} ELSE {}) \subseteq Content
        BY DEF Content
      <3> QED
        BY <1>8, <3>1 DEF Get
    <2> QED
      BY <1>8, <2>1 DEF Get
  <1>9. ASSUME NEW p \in Procs, Open(p) PROVE TypeOK'
    BY <1>9 DEF Open
  <1>10. ASSUME NEW p \in Procs, Copy(p) PROVE TypeOK'
    <2>1. pos[p] + 1 \in 0 .. Chunks /\ tarball[p].content \in Content
      BY <1>10 DEF Copy, CopyUntil, LocalInv
    <2> QED
      BY <1>10, <2>1 DEF Copy, CopyUntil
  <1>11. ASSUME NEW p \in Procs, Digest(p) PROVE TypeOK'
    <2>1. PICK matches \in BOOLEAN : Digested(p, matches)
      BY <1>11 DEF Digest
    <2> QED
      BY <1>3, <2>1 DEF Digested
  <1>12. ASSUME NEW p \in Procs, Chtimes(p) PROVE TypeOK'
    BY <1>12 DEF Chtimes
  <1>13. CASE UNCHANGED vars
    BY <1>13
  <1>14. ASSUME NEW p \in Procs, Stall(p) PROVE TypeOK'
    BY <1>14 DEF Stall
  <1> QED
    BY <1>1, <1>2, <1>4, <1>5, <1>6, <1>7, <1>8, <1>9, <1>10, <1>11, <1>12, <1>13, <1>14
       DEF Next, Step

\* The invocation of p ends and leaves the disk as it is; if it was writing, the
\* file is torn.
Over(p) ==
  /\ pc[p] # "idle"
  /\ \E how \in {"error", "good", "broken"} :
       /\ Ends(p, how)
       /\ how = "broken" => pc[p] = "verify" /\ ~Serves(p)
  /\ torn' = TRUE \/ (torn' = torn /\ pc[p] \notin {"copy", "digest", "chtimes"})
  /\ UNCHANGED <<clock, disk, runs, overlapped>>

\* The steps that may end an invocation do that, or one thing besides.
LEMMA Endings ==
  ASSUME TypeOK, NEW p \in Procs
  PROVE  /\ Refused(p) \/ Verify(p) \/ BreakOff(p) => Over(p)
         /\ NetError(p) =>
              \/ Over(p)
              \/ /\ retried' = [retried EXCEPT ![p] = TRUE]
                 /\ UNCHANGED <<clock, disk, pc, outcome, want, found, build, tarball, pos, stalled,
                                runs, history>>
         /\ Digest(p) =>
              \/ Over(p)
              \/ /\ pc[p] = "digest" /\ tarball[p].content # Corrupt /\ Goto(p, "chtimes")
                 /\ UNCHANGED <<clock, disk, locals, runs, history>>
  <1>1. ASSUME Refused(p) PROVE Over(p)
    BY <1>1 DEF Refused, Over
  <1>2. ASSUME Verify(p) PROVE Over(p)
    BY <1>2 DEF Verify, Over
  <1>3. ASSUME BreakOff(p) PROVE Over(p)
    <2>1. torn' = TRUE \/ (torn' = torn /\ pc[p] \notin {"copy", "digest", "chtimes"})
      BY <1>3, Zenon DEF BreakOff, TypeOK
    <2> QED
      BY <1>3, <2>1 DEF BreakOff, Over
  <1>4. ASSUME NetError(p)
        PROVE  \/ Over(p)
               \/ /\ retried' = [retried EXCEPT ![p] = TRUE]
                  /\ UNCHANGED <<clock, disk, pc, outcome, want, found, build, tarball, pos, stalled,
                                 runs, history>>
    <2>1. CASE retried[p] = TRUE
      BY <1>4, <2>1 DEF NetError, TransientError, Over
    <2>2. CASE retried[p] = FALSE
      BY <1>4, <2>2 DEF NetError, TransientError
    <2> QED
      BY <2>1, <2>2 DEF TypeOK
  <1>5. ASSUME Digest(p)
        PROVE  \/ Over(p)
               \/ /\ pc[p] = "digest" /\ tarball[p].content # Corrupt /\ Goto(p, "chtimes")
                  /\ UNCHANGED <<clock, disk, locals, runs, history>>
    BY <1>5 DEF Digest, Digested, Over
  <1> QED
    BY <1>1, <1>2, <1>3, <1>4, <1>5

\* An invocation that begins while another is in progress is an overlap.
LEMMA BeginsAlone ==
  ASSUME TypeOK, NEW p \in Procs, Stat(p), overlapped' = FALSE
  PROVE  overlapped = FALSE /\ \A q \in Procs \ {p} : pc[q] = "idle"
  BY Zenon DEF Stat, StatThen, TypeOK

\* What an invocation knows follows from where it is, and nobody else changes it.
LEMMA LocalNext == IInv /\ TypeOK' /\ [Next]_vars => LocalInv'
  <1> SUFFICES ASSUME IInv, TypeOK', [Next]_vars PROVE LocalInv'
    OBVIOUS
  <1> USE Numbers DEF IInv, LocalInv, TypeOK, Goto, Ends, NoTarball
  <1>1. CASE NextDay
    BY <1>1 DEF NextDay
  <1>2. ASSUME NEW p \in Procs, Stat(p) PROVE LocalInv'
    BY <1>2, WantedAssumption DEF Stat, StatThen
  <1>3. ASSUME NEW p \in Procs, Over(p) PROVE LocalInv'
    BY <1>3 DEF Over
  <1>4. ASSUME NEW p \in Procs, Lookup(p) PROVE LocalInv'
    BY <1>4 DEF Lookup, LookedUp
  <1>5. ASSUME NEW p \in Procs, Refused(p) \/ Verify(p) \/ BreakOff(p) PROVE LocalInv'
    BY <1>3, <1>5, Endings
  <1>6. ASSUME NEW p \in Procs, MakeDir(p) PROVE LocalInv'
    BY <1>6 DEF MakeDir
  <1>7. ASSUME NEW p \in Procs, Get(p) PROVE LocalInv'
    BY <1>7 DEF Get
  <1>8. ASSUME NEW p \in Procs, Open(p) PROVE LocalInv'
    BY <1>8 DEF Open
  <1>9. ASSUME NEW p \in Procs, Copy(p) PROVE LocalInv'
    BY <1>9 DEF Copy, CopyUntil
  <1>10. ASSUME NEW p \in Procs, Digest(p) PROVE LocalInv'
    <2>1. CASE /\ pc[p] = "digest" /\ tarball[p].content # Corrupt /\ Goto(p, "chtimes")
               /\ UNCHANGED <<clock, disk, locals, runs, history>>
      BY <2>1
    <2> QED
      BY <1>3, <1>10, <2>1, Endings
  <1>12. ASSUME NEW p \in Procs, NetError(p) PROVE LocalInv'
    <2>1. CASE /\ retried' = [retried EXCEPT ![p] = TRUE]
               /\ UNCHANGED <<clock, disk, pc, outcome, want, found, build, tarball, pos, stalled,
                              runs, history>>
      BY <2>1
    <2> QED
      BY <1>3, <1>12, <2>1, Endings
  <1>11. ASSUME NEW p \in Procs, Chtimes(p) PROVE LocalInv'
    BY <1>11 DEF Chtimes
  <1>13. CASE UNCHANGED vars
    BY <1>13
  <1>14. ASSUME NEW p \in Procs, Stall(p) PROVE LocalInv'
    BY <1>14 DEF Stall
  <1> QED
    BY <1>1, <1>2, <1>4, <1>5, <1>6, <1>7, <1>8, <1>9, <1>10, <1>11, <1>12, <1>13, <1>14
       DEF Next, Step

\* A directory is made before its file, and neither goes away.
LEMMA DirNext == IInv /\ TypeOK' /\ [Next]_vars => DirInv'
  <1> SUFFICES ASSUME IInv, TypeOK', [Next]_vars PROVE DirInv'
    OBVIOUS
  <1> USE Numbers DEF IInv, LocalInv, DirInv, TypeOK, Goto, Ends
  <1>1. CASE NextDay
    BY <1>1 DEF NextDay
  <1>2. ASSUME NEW p \in Procs, Stat(p) PROVE DirInv'
    BY <1>2 DEF Stat, StatThen
  <1>3. ASSUME NEW p \in Procs, Over(p) PROVE DirInv'
    BY <1>3 DEF Over
  <1>4. ASSUME NEW p \in Procs, Lookup(p) PROVE DirInv'
    BY <1>4 DEF Lookup, LookedUp
  <1>5. ASSUME NEW p \in Procs, Refused(p) \/ Verify(p) \/ BreakOff(p) PROVE DirInv'
    BY <1>3, <1>5, Endings
  <1>6. ASSUME NEW p \in Procs, MakeDir(p) PROVE DirInv'
    BY <1>6 DEF MakeDir
  <1>7. ASSUME NEW p \in Procs, Get(p) PROVE DirInv'
    BY <1>7 DEF Get
  <1>8. ASSUME NEW p \in Procs, Open(p) PROVE DirInv'
    BY <1>8 DEF Open
  <1>9. ASSUME NEW p \in Procs, Copy(p) PROVE DirInv'
    BY <1>9 DEF Copy, CopyUntil
  <1>10. ASSUME NEW p \in Procs, Digest(p) PROVE DirInv'
    <2>1. CASE /\ pc[p] = "digest" /\ tarball[p].content # Corrupt /\ Goto(p, "chtimes")
               /\ UNCHANGED <<clock, disk, locals, runs, history>>
      BY <2>1
    <2> QED
      BY <1>3, <1>10, <2>1, Endings
  <1>12. ASSUME NEW p \in Procs, NetError(p) PROVE DirInv'
    <2>1. CASE /\ retried' = [retried EXCEPT ![p] = TRUE]
               /\ UNCHANGED <<clock, disk, pc, outcome, want, found, build, tarball, pos, stalled,
                              runs, history>>
      BY <2>1
    <2> QED
      BY <1>3, <1>12, <2>1, Endings
  <1>11. ASSUME NEW p \in Procs, Chtimes(p) PROVE DirInv'
    BY <1>11 DEF Chtimes
  <1>13. CASE UNCHANGED vars
    BY <1>13
  <1>14. ASSUME NEW p \in Procs, Stall(p) PROVE DirInv'
    BY <1>14 DEF Stall
  <1> QED
    BY <1>1, <1>2, <1>4, <1>5, <1>6, <1>7, <1>8, <1>9, <1>10, <1>11, <1>12, <1>13, <1>14
       DEF Next, Step

\* A second invocation that begins is noticed; the only one knows what it has written.
LEMMA SoleNext == IInv /\ TypeOK' /\ [Next]_vars => SoleInv'
  <1> SUFFICES ASSUME IInv, TypeOK', [Next]_vars PROVE SoleInv'
    OBVIOUS
  <1> USE Numbers DEF IInv, LocalInv, DirInv, SoleInv, TypeOK, Goto, Ends
  <1>1. CASE NextDay
    BY <1>1 DEF NextDay
  <1>2. ASSUME NEW p \in Procs, Stat(p) PROVE SoleInv'
    <2> SUFFICES ASSUME overlapped' = FALSE PROVE SoleInv'
      BY DEF SoleInv
    <2>1. overlapped = FALSE /\ \A q \in Procs \ {p} : pc[q] = "idle"
      BY <1>2, BeginsAlone
    <2>2. /\ \A q \in Procs \ {p} : pc'[q] = "idle"
          /\ pc'[p] \in {"verify", "lookup"}
          /\ pc'[p] = "lookup" /\ want'[p] # "dev-latest" => mode = "absent"
          /\ UNCHANGED <<disk, tarball, pos>>
      BY <1>2, <2>1 DEF Stat, StatThen
    <2> HIDE DEF IInv, TypeOK, LocalInv, DirInv
    <2> QED
      BY <2>2 DEF SoleInv
  <1>3. ASSUME NEW p \in Procs, Over(p) PROVE SoleInv'
    <2>1. /\ pc'[p] = "idle" /\ UNCHANGED <<disk, overlapped>>
          /\ \A q \in Procs \ {p} :
               pc'[q] = pc[q] /\ want'[q] = want[q] /\ tarball'[q] = tarball[q] /\ pos'[q] = pos[q]
      BY <1>3 DEF Over
    <2> HIDE DEF TypeOK, LocalInv, DirInv
    <2> QED
      BY <2>1
  <1>4. ASSUME NEW p \in Procs, Lookup(p) PROVE SoleInv'
    BY <1>4 DEF Lookup, LookedUp
  <1>5. ASSUME NEW p \in Procs, Refused(p) \/ Verify(p) \/ BreakOff(p) PROVE SoleInv'
    BY <1>3, <1>5, Endings
  <1>6. ASSUME NEW p \in Procs, MakeDir(p) PROVE SoleInv'
    BY <1>6 DEF MakeDir
  <1>7. ASSUME NEW p \in Procs, Get(p) PROVE SoleInv'
    BY <1>7 DEF Get
  <1>8. ASSUME NEW p \in Procs, Open(p) PROVE SoleInv'
    BY <1>8 DEF Open
  <1>9. ASSUME NEW p \in Procs, Copy(p) PROVE SoleInv'
    <2> SUFFICES ASSUME overlapped = FALSE PROVE SoleInv'
      BY <1>9 DEF Copy, CopyUntil
    <2>1. /\ pc[p] = "copy" /\ pos[p] + 1 \in 1 .. Chunks
          /\ data' = [data EXCEPT ![pos[p] + 1] = tarball[p].content]
          /\ pos'[p] = pos[p] + 1 /\ UNCHANGED <<mode, tarball, want>>
          /\ pc'[p] = (IF pos[p] + 1 = Chunks THEN "digest" ELSE "copy")
          /\ \A q \in Procs \ {p} : pc[q] = "idle" /\ pc'[q] = "idle"
      BY <1>9 DEF Copy, CopyUntil
    <2>2. \A i \in 1 .. Chunks :
            data'[i] = IF i <= pos'[p] THEN tarball[p].content ELSE Hole
      <3>1. \A i \in 1 .. Chunks :
              data[i] = IF i <= pos[p] THEN tarball[p].content ELSE Hole
        BY <2>1
      <3> HIDE DEF IInv, LocalInv, DirInv, TypeOK, SoleInv
      <3>2. pos[p] \in Nat /\ data \in [1 .. Chunks -> Content]
        BY Positions DEF IInv
      <3> QED
        BY <2>1, <3>1, <3>2
    <2>3. pc'[p] = "digest" => \A i \in 1 .. Chunks : data'[i] = tarball[p].content
      BY <2>1, <2>2
    <2>4. pc'[p] \in {"copy", "digest"}
      BY <2>1
    <2> HIDE DEF IInv, LocalInv, DirInv, TypeOK, SoleInv
    <2> QED
      BY <2>1, <2>2, <2>3, <2>4 DEF SoleInv
  <1>10. ASSUME NEW p \in Procs, Digest(p) PROVE SoleInv'
    <2>1. CASE /\ pc[p] = "digest" /\ tarball[p].content # Corrupt /\ Goto(p, "chtimes")
               /\ UNCHANGED <<clock, disk, locals, runs, history>>
      BY <2>1
    <2> QED
      BY <1>3, <1>10, <2>1, Endings
  <1>12. ASSUME NEW p \in Procs, NetError(p) PROVE SoleInv'
    <2>1. CASE /\ retried' = [retried EXCEPT ![p] = TRUE]
               /\ UNCHANGED <<clock, disk, pc, outcome, want, found, build, tarball, pos, stalled,
                              runs, history>>
      BY <2>1
    <2> QED
      BY <1>3, <1>12, <2>1, Endings
  <1>11. ASSUME NEW p \in Procs, Chtimes(p) PROVE SoleInv'
    BY <1>11 DEF Chtimes
  <1>13. CASE UNCHANGED vars
    BY <1>13
  <1>14. ASSUME NEW p \in Procs, Stall(p) PROVE SoleInv'
    BY <1>14 DEF Stall
  <1> QED
    BY <1>1, <1>2, <1>4, <1>5, <1>6, <1>7, <1>8, <1>9, <1>10, <1>11, <1>12, <1>13, <1>14
       DEF Next, Step

\* What is left of a download that was neither torn nor disturbed is one build and its date.
LEMMA TidyNext == IInv /\ TypeOK' /\ [Next]_vars => TidyInv'
  <1> SUFFICES ASSUME IInv, TypeOK', [Next]_vars PROVE TidyInv'
    OBVIOUS
  <1> USE Numbers DEF IInv, LocalInv, DirInv, SoleInv, TidyInv, TypeOK, Goto, Ends
  <1>1. CASE NextDay
    BY <1>1 DEF NextDay
  <1>2. ASSUME NEW p \in Procs, Stat(p) PROVE TidyInv'
    <2> SUFFICES ASSUME torn' = FALSE, overlapped' = FALSE PROVE TidyInv'
      BY DEF TidyInv
    <2>1. /\ torn = FALSE /\ pc[p] = "idle" /\ pc'[p] \in {"lookup", "verify"}
          /\ pc'[p] = "verify" => mode # "absent" /\ want'[p] # "dev-latest"
          /\ outcome'[p] = "none" /\ UNCHANGED disk
          /\ \A q \in Procs \ {p} : pc'[q] = pc[q] /\ outcome'[q] = outcome[q]
      BY <1>2 DEF Stat, StatThen
    <2>2. overlapped = FALSE /\ \A q \in Procs \ {p} : pc[q] = "idle"
      BY <1>2, BeginsAlone
    <2> HIDE DEF TypeOK, LocalInv, DirInv, SoleInv
    <2> QED
      BY <2>1, <2>2
  <1>3. ASSUME NEW p \in Procs, Over(p) PROVE TidyInv'
    <2> SUFFICES ASSUME torn' = FALSE, overlapped' = FALSE PROVE TidyInv'
      OBVIOUS
    <2>1. /\ torn = FALSE /\ overlapped = FALSE
          /\ pc[p] \notin {"idle", "copy", "digest", "chtimes"}
          /\ \A q \in Procs \ {p} : pc[q] = "idle" /\ pc'[q] = "idle"
          /\ pc'[p] = "idle" /\ UNCHANGED disk
          /\ \A q \in Procs \ {p} : outcome'[q] = outcome[q]
      BY <1>3 DEF Over
    <2>2. mode # "absent" => \A i \in 1 .. Chunks : data[i] = dirDate
      BY <2>1
    <2>3. pc[p] = "verify" => Serves(p)
      <3> SUFFICES ASSUME pc[p] = "verify" PROVE Serves(p)
        OBVIOUS
      <3>1. mode # "absent" /\ dirDate \in 1 .. Days
            /\ (want[p] = "dev-latest" => dirDate = build[p])
        BY <2>1
      <3>2. \A i \in 1 .. Chunks : data[i] = dirDate
        BY <2>2, <3>1
      <3> HIDE DEF IInv, LocalInv, DirInv, TypeOK, SoleInv, TidyInv
      <3> QED
        BY <3>1, <3>2, FirstChunk DEF Serves, Whole
    <2>4. outcome'[p] # "broken"
      BY <1>3, <2>3 DEF Over
    <2>5. \A q \in Procs : outcome[q] # "broken"
      BY <2>1
    <2> HIDE DEF IInv, LocalInv, DirInv, TypeOK, SoleInv, TidyInv
    <2>6. \A q \in Procs : pc'[q] = "idle" /\ outcome'[q] # "broken"
      BY <2>1, <2>4, <2>5
    <2> QED
      BY <2>1, <2>2, <2>6 DEF TidyInv
  <1>4. ASSUME NEW p \in Procs, Lookup(p) PROVE TidyInv'
    <2>1. /\ pc[p] = "lookup" /\ pc'[p] \in {"verify", "mkdir"}
          /\ pc'[p] = "verify" =>
               mode # "absent" /\ dirDate = released /\ build'[p] = released
          /\ UNCHANGED <<disk, want, outcome, torn, overlapped>>
          /\ \A q \in Procs \ {p} : pc'[q] = pc[q] /\ build'[q] = build[q]
      BY <1>4 DEF Lookup, LookedUp
    <2> HIDE DEF TypeOK, LocalInv, DirInv, SoleInv
    <2> QED
      BY <2>1
  <1>5. ASSUME NEW p \in Procs, Refused(p) \/ Verify(p) \/ BreakOff(p) PROVE TidyInv'
    BY <1>3, <1>5, Endings
  <1>6. ASSUME NEW p \in Procs, MakeDir(p) PROVE TidyInv'
    <2>1. /\ pc[p] = "mkdir" /\ pc'[p] = "get"
          /\ UNCHANGED <<mode, data, want, build, outcome, torn, overlapped>>
          /\ \A q \in Procs \ {p} : pc'[q] = pc[q]
      BY <1>6 DEF MakeDir
    <2>2. mode # "absent" => dirDate' = dirDate
      BY <1>6 DEF MakeDir
    <2>3. overlapped = FALSE => \A q \in Procs \ {p} : pc[q] = "idle"
      BY <2>1
    <2> HIDE DEF TypeOK, LocalInv, DirInv, SoleInv
    <2> QED
      BY <2>1, <2>2, <2>3
  <1>7. ASSUME NEW p \in Procs, Get(p) PROVE TidyInv'
    BY <1>7 DEF Get
  <1>8. ASSUME NEW p \in Procs, Open(p) PROVE TidyInv'
    BY <1>8 DEF Open
  <1>9. ASSUME NEW p \in Procs, Copy(p) PROVE TidyInv'
    BY <1>9 DEF Copy, CopyUntil
  <1>10. ASSUME NEW p \in Procs, Digest(p) PROVE TidyInv'
    <2>1. CASE /\ pc[p] = "digest" /\ tarball[p].content # Corrupt /\ Goto(p, "chtimes")
               /\ UNCHANGED <<clock, disk, locals, runs, history>>
      BY <2>1
    <2> QED
      BY <1>3, <1>10, <2>1, Endings
  <1>12. ASSUME NEW p \in Procs, NetError(p) PROVE TidyInv'
    <2>1. CASE UNCHANGED <<disk, pc, outcome, want, build, history>>
      <3> HIDE DEF TypeOK, LocalInv, DirInv, SoleInv
      <3> QED
        BY <2>1
    <2> HIDE DEF TypeOK, LocalInv, DirInv, SoleInv, TidyInv, Goto, Ends
    <2> QED
      BY <1>3, <1>12, <2>1, Endings
  <1>11. ASSUME NEW p \in Procs, Chtimes(p) PROVE TidyInv'
    <2>1. /\ pc[p] = "chtimes" /\ pc'[p] = "verify" /\ dirDate' = build[p] /\ mode # "absent"
          /\ UNCHANGED <<mode, data, want, build, outcome, torn, overlapped>>
          /\ \A q \in Procs \ {p} : pc'[q] = pc[q]
          /\ tarball[p].content = build[p]
      BY <1>11 DEF Chtimes
    <2> HIDE DEF TypeOK, LocalInv, DirInv, TidyInv
    <2>2. overlapped = FALSE => \A q \in Procs \ {p} : pc[q] = "idle"
      BY <2>1
    <2>3. overlapped = FALSE => \A i \in 1 .. Chunks : data[i] = build[p]
      BY <2>1
    <2> HIDE DEF SoleInv
    <2> QED
      BY <2>1, <2>2, <2>3 DEF TidyInv
  <1>13. CASE UNCHANGED vars
    BY <1>13
  <1>14. ASSUME NEW p \in Procs, Stall(p) PROVE TidyInv'
    BY <1>14 DEF Stall
  <1> QED
    BY <1>1, <1>2, <1>4, <1>5, <1>6, <1>7, <1>8, <1>9, <1>10, <1>11, <1>12, <1>13, <1>14
       DEF Next, Step

\* Who has written a corrupt chunk is still to compare its checksum.
LEMMA NoticedNext == IInv /\ TypeOK' /\ [Next]_vars => NoticedInv'
  <1> SUFFICES ASSUME IInv, TypeOK', [Next]_vars PROVE NoticedInv'
    OBVIOUS
  <1>0. ASSUME NEW p \in Procs, UNCHANGED data, torn' = FALSE => torn = FALSE,
               \A q \in Procs \ {p} : pc'[q] = pc[q] /\ tarball'[q] = tarball[q],
               pc[p] \notin {"copy", "digest"} \/ torn' = TRUE
                 \/ tarball[p].content # Corrupt
        PROVE  NoticedInv'
    <2> SUFFICES ASSUME torn' = FALSE, NEW i \in 1 .. Chunks, data'[i] = Corrupt
                 PROVE  \E q \in Procs : pc'[q] \in {"copy", "digest"}
                                          /\ tarball'[q].content = Corrupt
      BY DEF NoticedInv
    <2>1. PICK q \in Procs : pc[q] \in {"copy", "digest"} /\ tarball[q].content = Corrupt
      BY <1>0 DEF IInv, NoticedInv
    <2>2. q # p
      BY <1>0, <2>1
    <2> QED
      BY <1>0, <2>1, <2>2
  <1> USE Numbers DEF IInv, LocalInv, NoticedInv, TypeOK, Goto, Ends
  <1>1. CASE NextDay
    BY <1>1 DEF NextDay
  <1>2. ASSUME NEW p \in Procs, Stat(p) PROVE NoticedInv'
    <2>1. /\ pc[p] \notin {"copy", "digest"} /\ UNCHANGED <<data, torn, tarball>>
          /\ \A q \in Procs \ {p} : pc'[q] = pc[q]
      BY <1>2 DEF Stat, StatThen
    <2> QED
      BY <1>0, <2>1
  <1>3. ASSUME NEW p \in Procs, Over(p) PROVE NoticedInv'
    <2>1. /\ pc[p] \notin {"copy", "digest"} \/ torn' = TRUE
          /\ UNCHANGED data
          /\ torn' = FALSE => torn = FALSE
          /\ \A q \in Procs \ {p} : pc'[q] = pc[q] /\ tarball'[q] = tarball[q]
      BY <1>3 DEF Over
    <2> QED
      BY <1>0, <2>1
  <1>4. ASSUME NEW p \in Procs, Lookup(p) PROVE NoticedInv'
    <2>1. /\ pc[p] \notin {"copy", "digest"} /\ UNCHANGED <<data, torn>>
          /\ \A q \in Procs \ {p} : pc'[q] = pc[q] /\ tarball'[q] = tarball[q]
      BY <1>4 DEF Lookup, LookedUp
    <2> QED
      BY <1>0, <2>1
  <1>5. ASSUME NEW p \in Procs, Refused(p) \/ Verify(p) \/ BreakOff(p) PROVE NoticedInv'
    BY <1>3, <1>5, Endings
  <1>6. ASSUME NEW p \in Procs, MakeDir(p) PROVE NoticedInv'
    <2>1. /\ pc[p] \notin {"copy", "digest"} /\ UNCHANGED <<data, torn>>
          /\ \A q \in Procs \ {p} : pc'[q] = pc[q] /\ tarball'[q] = tarball[q]
      BY <1>6 DEF MakeDir
    <2> QED
      BY <1>0, <2>1
  <1>7. ASSUME NEW p \in Procs, Get(p) PROVE NoticedInv'
    <2>1. /\ pc[p] \notin {"copy", "digest"} /\ UNCHANGED <<data, torn>>
          /\ \A q \in Procs \ {p} : pc'[q] = pc[q] /\ tarball'[q] = tarball[q]
      BY <1>7 DEF Get
    <2> QED
      BY <1>0, <2>1
  <1>8. ASSUME NEW p \in Procs, Open(p) PROVE NoticedInv'
    BY <1>8 DEF Open
  <1>9. ASSUME NEW p \in Procs, Copy(p) PROVE NoticedInv'
    BY <1>9 DEF Copy, CopyUntil
  <1>10. ASSUME NEW p \in Procs, Digest(p) PROVE NoticedInv'
    <2>1. CASE /\ pc[p] = "digest" /\ tarball[p].content # Corrupt /\ Goto(p, "chtimes")
               /\ UNCHANGED <<clock, disk, locals, runs, history>>
      <3>1. \A q \in Procs \ {p} : pc'[q] = pc[q] /\ tarball'[q] = tarball[q]
        BY <2>1
      <3> QED
        BY <1>0, <2>1, <3>1
    <2> QED
      BY <1>3, <1>10, <2>1, Endings
  <1>12. ASSUME NEW p \in Procs, NetError(p) PROVE NoticedInv'
    <2>1. CASE /\ retried' = [retried EXCEPT ![p] = TRUE]
               /\ UNCHANGED <<clock, disk, pc, outcome, want, found, build, tarball, pos, stalled,
                              runs, history>>
      BY <2>1
    <2> QED
      BY <1>3, <1>12, <2>1, Endings
  <1>11. ASSUME NEW p \in Procs, Chtimes(p) PROVE NoticedInv'
    <2>1. /\ pc[p] \notin {"copy", "digest"} /\ UNCHANGED <<data, torn>>
          /\ \A q \in Procs \ {p} : pc'[q] = pc[q] /\ tarball'[q] = tarball[q]
      BY <1>11 DEF Chtimes
    <2> QED
      BY <1>0, <2>1
  <1>13. CASE UNCHANGED vars
    BY <1>13
  <1>14. ASSUME NEW p \in Procs, Stall(p) PROVE NoticedInv'
    BY <1>14 DEF Stall
  <1> QED
    BY <1>1, <1>2, <1>4, <1>5, <1>6, <1>7, <1>8, <1>9, <1>10, <1>11, <1>12, <1>13, <1>14
       DEF Next, Step

\* Who truncates the file is there to fill it, and a gap behind it is another's.
LEMMA GapNext == IInv /\ TypeOK' /\ [Next]_vars => GapInv'
  <1> SUFFICES ASSUME IInv, TypeOK', [Next]_vars PROVE GapInv'
    OBVIOUS
  <1>0. ASSUME NEW p \in Procs, UNCHANGED <<data, mode>>, torn' = FALSE => torn = FALSE,
               \A q \in Procs \ {p} : pc'[q] = pc[q] /\ pos'[q] = pos[q],
               pc[p] # "copy" \/ torn' = TRUE
        PROVE  GapInv'
    <2> SUFFICES ASSUME torn' = FALSE, mode' # "absent", NEW i \in 1 .. Chunks, data'[i] = Hole
                 PROVE  \E q \in Procs : pc'[q] = "copy" /\ pos'[q] < i
      BY DEF GapInv
    <2>1. PICK q \in Procs : pc[q] = "copy" /\ pos[q] < i
      BY <1>0 DEF IInv, GapInv
    <2>2. q # p
      BY <1>0, <2>1
    <2> QED
      BY <1>0, <2>1, <2>2
  <1>1. CASE NextDay
    BY <1>1 DEF NextDay, IInv, GapInv
  <1>2. ASSUME NEW p \in Procs, pc[p] # "copy", UNCHANGED <<data, mode, torn>>,
               \A q \in Procs \ {p} : pc'[q] = pc[q] /\ pos'[q] = pos[q]
        PROVE  GapInv'
    BY <1>0, <1>2
  <1>3. ASSUME NEW p \in Procs, Over(p) PROVE GapInv'
    <2>1. /\ UNCHANGED <<data, mode>>
          /\ torn' = FALSE => torn = FALSE
          /\ \A q \in Procs \ {p} : pc'[q] = pc[q] /\ pos'[q] = pos[q]
          /\ pc[p] # "copy" \/ torn' = TRUE
      BY <1>3 DEF Over, Ends, IInv, TypeOK
    <2> QED
      BY <1>0, <2>1
  <1>4. ASSUME NEW p \in Procs, Stat(p) \/ Lookup(p) \/ MakeDir(p) \/ Get(p) \/ Chtimes(p)
        PROVE  GapInv'
    <2>1. /\ pc[p] # "copy" /\ UNCHANGED <<data, mode, torn, pos>>
          /\ \E label : pc' = [pc EXCEPT ![p] = label]
      BY <1>4 DEF Stat, StatThen, Lookup, LookedUp, MakeDir, Get, Chtimes, Goto
    <2>2. \A q \in Procs \ {p} : pc'[q] = pc[q]
      BY <2>1 DEF IInv, TypeOK
    <2> QED
      BY <1>2, <2>1, <2>2
  <1>5. ASSUME NEW p \in Procs, Refused(p) \/ Verify(p) \/ BreakOff(p) PROVE GapInv'
    BY <1>3, <1>5, Endings DEF IInv
  <1>6. ASSUME NEW p \in Procs, NetError(p) \/ Digest(p) PROVE GapInv'
    <2>1. CASE UNCHANGED <<data, mode, torn, pc, pos>>
      BY <2>1 DEF IInv, GapInv
    <2>2. CASE pc[p] = "digest" /\ Goto(p, "chtimes") /\ UNCHANGED <<data, mode, torn, pos>>
      <3>1. \A q \in Procs \ {p} : pc'[q] = pc[q]
        BY <2>2 DEF Goto, IInv, TypeOK
      <3> QED
        BY <1>2, <2>2, <3>1
    <2> QED
      BY <1>3, <1>6, <2>1, <2>2, Endings DEF IInv
  <1>7. ASSUME NEW p \in Procs, Open(p) PROVE GapInv'
    <2>1. pc'[p] = "copy" /\ pos'[p] = 0
      BY <1>7 DEF Open, Goto, IInv, TypeOK, LocalInv
    <2>2. \A i \in 1 .. Chunks : 0 < i
      BY ChunksAssumption
    <2> QED
      BY <2>1, <2>2 DEF GapInv
  <1>8. ASSUME NEW p \in Procs, Copy(p) PROVE GapInv'
    <2> SUFFICES ASSUME torn' = FALSE, mode' # "absent", NEW i \in 1 .. Chunks, data'[i] = Hole
                 PROVE  \E q \in Procs : pc'[q] = "copy" /\ pos'[q] < i
      BY DEF GapInv
    <2>1. /\ pc[p] = "copy" /\ pos[p] + 1 \in 1 .. Chunks /\ pos[p] \in Nat
          /\ data' = [data EXCEPT ![pos[p] + 1] = tarball[p].content]
          /\ pos'[p] = pos[p] + 1 /\ UNCHANGED <<mode, torn>>
          /\ pc'[p] = (IF pos[p] + 1 = Chunks THEN "digest" ELSE "copy")
          /\ \A q \in Procs \ {p} : pc'[q] = pc[q] /\ pos'[q] = pos[q]
      BY <1>8, Numbers DEF Copy, CopyUntil, Goto, IInv, TypeOK, LocalInv
    <2>2. tarball[p].content # Hole
      BY <2>1, Numbers DEF IInv, LocalInv
    <2>3. i # pos[p] + 1 /\ data[i] = Hole
      BY <2>1, <2>2, Positions DEF IInv
    <2>4. PICK q \in Procs : pc[q] = "copy" /\ pos[q] < i
      BY <2>1, <2>3 DEF IInv, GapInv
    <2>5. CASE q # p
      BY <2>1, <2>4, <2>5
    <2>6. CASE q = p
      BY <2>1, <2>3, <2>4, <2>6, Numbers
    <2> QED
      BY <2>5, <2>6
  <1>9. ASSUME NEW p \in Procs, Stall(p) PROVE GapInv'
    BY <1>9 DEF Stall, IInv, GapInv
  <1>10. CASE UNCHANGED vars
    BY <1>10 DEF IInv, GapInv
  <1> QED
    BY <1>1, <1>2, <1>4, <1>5, <1>6, <1>7, <1>8, <1>9, <1>10 DEF Next, Step

\* Every step keeps the invariant.
LEMMA InvNext == IInv /\ [Next]_vars => IInv'
  <1>1. IInv /\ [Next]_vars => TypeOK'
    BY TypeNext DEF IInv
  <1> QED
    BY <1>1, LocalNext, DirNext, SoleNext, TidyNext, NoticedNext, GapNext DEF IInv

-----------------------------------------------------------------------------

\* The variables keep their types.
THEOREM TypeCorrect == Spec => []TypeOK
  <1>1. IInv => TypeOK
    BY DEF IInv
  <1> QED
    BY <1>1, InvInit, InvNext, PTL DEF Spec

\* What the disk holds follows from where the invocations are.
THEOREM Invariance == Spec => []IInv
  <1> QED
    BY InvInit, InvNext, PTL DEF Spec

\* A broken binary is handed out only after an extraction was cut short or refused,
\* or when two invocations overlapped.
THEOREM HandsOutWholeBuilds == Spec => []BrokenOnlyAfterFault
  <1>1. IInv => BrokenOnlyAfterFault
    BY Zenon DEF IInv, TypeOK, TidyInv, BrokenOnlyAfterFault
  <1> QED
    BY <1>1, Invariance, PTL

\* What an extraction left damaged was refused, or somebody is still at it.
THEOREM DamageNoticed == Spec => []DamageIsNoticed
  <1>1. ASSUME IInv, torn = FALSE, NEW i \in 1 .. Chunks
        PROVE  /\ data[i] = Corrupt =>
                    \E p \in Procs : pc[p] \in {"copy", "digest"} /\ tarball[p].content = Corrupt
               /\ data[i] = Hole /\ mode # "absent" =>
                    \E p \in Procs : pc[p] = "copy" /\ pos[p] < i
    BY <1>1 DEF IInv, NoticedInv, GapInv
  <1>2. IInv => torn \in BOOLEAN
    BY DEF IInv, TypeOK
  <1>3. IInv => DamageIsNoticed
    BY <1>1, <1>2, Zenon DEF DamageIsNoticed
  <1> QED
    BY <1>3, Invariance, PTL

\* The date of its directory is enough to tell that a nightly build is the one on
\* offer.
THEOREM DatesTellBuilds == Spec => []FreshMeansOnOffer
  <1>1. ASSUME IInv, NEW p \in Procs, pc[p] = "verify", want[p] = "dev-latest",
               torn = FALSE, overlapped = FALSE
        PROVE  \A i \in 1 .. Chunks : data[i] = build[p]
    <2>1. \A q \in Procs : pc[q] \notin {"copy", "digest", "chtimes"}
      BY <1>1 DEF IInv, SoleInv
    <2> QED
      BY <1>1, <2>1 DEF IInv, TidyInv
  <1>2. IInv => FreshMeansOnOffer
    BY <1>1, Zenon DEF IInv, TypeOK, FreshMeansOnOffer
  <1> QED
    BY <1>2, Invariance, PTL

\* A whole build is not downloaded again.
THEOREM WholeBuildKept == Spec => WholeBuildIsKept
  <1>1. ASSUME IInv, [Next]_vars, Whole, data' # data, overlapped = FALSE
        PROVE  \E p \in Procs : pc[p] = "open" /\ want[p] = "dev-latest"
    <2>1. PICK p \in Procs : Open(p) \/ Copy(p)
      BY <1>1 DEF Next, Step, NextDay, Stat, StatThen, NetError, TransientError, Lookup,
                  LookedUp, Refused, MakeDir, Get, Digest, Digested, Chtimes, Verify, Stall,
                  BreakOff
    <2>2. \A i \in 1 .. Chunks : data[i] # Hole
      BY <1>1, Numbers DEF Whole
    <2>3. CASE Copy(p)
      <3>1. pc[p] = "copy" /\ pos[p] \in Nat /\ pos[p] + 1 \in 1 .. Chunks
        BY <1>1, <2>3, Numbers DEF Copy, CopyUntil, IInv, LocalInv, TypeOK
      <3>2. data[pos[p] + 1] = Hole
        BY <1>1, <3>1 DEF IInv, SoleInv
      <3> QED
        BY <2>2, <3>1, <3>2
    <2>4. CASE Open(p)
      <3>1. pc[p] = "open"
        BY <2>4 DEF Open
      <3>2. mode # "absent"
        BY <1>1, <2>2, FirstChunk DEF IInv, DirInv
      <3> QED
        BY <1>1, <3>1, <3>2 DEF IInv, SoleInv
    <2> QED
      BY <2>1, <2>3, <2>4
  <1>2. IInv /\ [Next]_vars =>
          (Whole /\ data' # data =>
             overlapped \/ \E p \in Procs : pc[p] = "open" /\ want[p] = "dev-latest")
    <2>1. IInv => overlapped \in BOOLEAN
      BY DEF IInv, TypeOK
    <2> QED
      BY <1>1, <2>1, Zenon
  <1> QED
    BY <1>2, Invariance, PTL DEF Spec, WholeBuildIsKept

-----------------------------------------------------------------------------
(* Refinement.  Each step is named by what it does to the variables of the *)
(* contract.                                                               *)

dirsBar == IF dirDate = 0 THEN {} ELSE {"envoy"}
binsBar == IF mode = "absent" THEN {} ELSE {"envoy"}
Request(newest) == [build |-> "envoy", newest |-> newest]
askedBar ==
  [p \in Procs |-> IF pc[p] = "idle" THEN {} ELSE {Request(want[p] = "dev-latest")}]
servedBar == {p \in Procs : outcome[p] \in {"good", "broken"}}

Stage(label) ==
  IF label \in {"idle", "verify"} THEN label
  ELSE IF label \in {"lookup", "mkdir"} THEN "look" ELSE "fetch"

\* A step within an invocation changes its stage at most.
LEMMA WithinBar ==
  ASSUME TypeOK, NEW p \in Procs, NEW label \in {"lookup", "mkdir", "get", "open", "copy",
                                                "digest", "chtimes", "verify"},
         pc[p] # "idle", Goto(p, label), UNCHANGED want
  PROVE  /\ stageBar' = [stageBar EXCEPT ![p] = Stage(label)]
         /\ UNCHANGED <<askedBar, servedBar>>
  <1>1. stageBar' = [stageBar EXCEPT ![p] = Stage(label)]
    BY DEF Goto, TypeOK, stageBar, Stage
  <1>2. UNCHANGED servedBar
    BY DEF Goto, servedBar
  <1>3. \A q \in Procs : pc'[q] = "idle" <=> pc[q] = "idle"
    BY DEF Goto, TypeOK
  <1>4. UNCHANGED askedBar
    BY <1>3 DEF askedBar
  <1> QED
    BY <1>1, <1>2, <1>4

\* An invocation that ends asks for nothing any more, and is served or not.
LEMMA EndsBar ==
  ASSUME TypeOK, LocalInv, NEW p \in Procs, NEW how \in {"error", "good", "broken"},
         pc[p] # "idle", Ends(p, how)
  PROVE  /\ stageBar' = [stageBar EXCEPT ![p] = "idle"]
         /\ askedBar' = [askedBar EXCEPT ![p] = {}]
         /\ servedBar' = IF how = "error" THEN servedBar ELSE servedBar \cup {p}
  <1>1. stageBar' = [stageBar EXCEPT ![p] = "idle"]
    BY DEF Ends, TypeOK, stageBar
  <1>2. askedBar' = [askedBar EXCEPT ![p] = {}]
    BY DEF Ends, TypeOK, askedBar
  <1>3. outcome[p] = "none" /\ outcome' = [outcome EXCEPT ![p] = how]
    BY DEF LocalInv, Ends
  <1>4. servedBar' = IF how = "error" THEN servedBar ELSE servedBar \cup {p}
    BY <1>3 DEF TypeOK, servedBar
  <1> QED
    BY <1>1, <1>2, <1>4

\* An invocation that ends has failed, unless it looked at the file at the end.
LEMMA OverFails ==
  ASSUME IInv, NEW p \in Procs, Ends(p, "error"), pc[p] # "idle", UNCHANGED disk
  PROVE  Contract!Fail(p)
  <1>1. /\ stageBar' = [stageBar EXCEPT ![p] = "idle"]
        /\ askedBar' = [askedBar EXCEPT ![p] = {}]
        /\ servedBar' = servedBar
    BY EndsBar DEF IInv
  <1>2. stageBar[p] # "idle"
    BY DEF stageBar
  <1>3. UNCHANGED <<dirsBar, binsBar>>
    BY DEF dirsBar, binsBar
  <1> QED
    BY <1>1, <1>2, <1>3
       DEF Contract!Fail, Contract!Ends, Contract!Goto, dirsBar, binsBar, askedBar, servedBar,
           Request

\* At first nothing is there and nobody asks.
LEMMA InitRefines == Init => Contract!Init
  BY DEF Init, Contract!Init, stageBar

\* An invocation that begins asks.
LEMMA StatRefines ==
  ASSUME IInv, NEW p \in Procs, Stat(p)
  PROVE  \E request \in Contract!Requests : Contract!Ask(p, request)
  <1>1. PICK v \in Wanted :
          /\ want' = [want EXCEPT ![p] = v]
          /\ pc' = [pc EXCEPT ![p] =
                      IF mode # "absent" /\ v # "dev-latest" THEN "verify" ELSE "lookup"]
    BY DEF Stat, StatThen
  <1> DEFINE request == Request(v = "dev-latest")
  <1>2. request \in Contract!Requests
    BY DEF Contract!Requests, Request
  <1>3. pc[p] = "idle" /\ outcome' = [outcome EXCEPT ![p] = "none"] /\ UNCHANGED disk
    BY DEF Stat, StatThen
  <1>4. stageBar[p] = "idle"
    BY <1>3 DEF stageBar
  <1>5. stageBar' = [stageBar EXCEPT ![p] =
                       IF mode # "absent" /\ v # "dev-latest" THEN "verify" ELSE "look"]
    BY <1>1 DEF IInv, TypeOK, stageBar
  <1>6. askedBar' = [askedBar EXCEPT ![p] = {request}]
    BY <1>1, <1>3 DEF IInv, TypeOK, askedBar
  <1>7. servedBar' = servedBar \ {p}
    BY <1>3 DEF IInv, TypeOK, servedBar
  <1>8. UNCHANGED <<dirsBar, binsBar>>
    BY <1>3 DEF dirsBar, binsBar
  <1>9. request.build \in binsBar /\ ~request.newest <=> mode # "absent" /\ v # "dev-latest"
    BY DEF binsBar, Request
  <1> QED
    BY <1>2, <1>4, <1>5, <1>6, <1>7, <1>8, <1>9
       DEF Contract!Ask, Contract!Goto, dirsBar, binsBar, askedBar, servedBar, Request

\* A lookup finds the newest build in place, or goes on looking.
LEMMA LookupRefines ==
  ASSUME IInv, NEW p \in Procs, Lookup(p)
  PROVE  Contract!IsNewest(p) \/ UNCHANGED Contract!vars
  <1>1. pc[p] = "lookup" /\ UNCHANGED <<disk, want>>
    BY DEF Lookup, LookedUp
  <1>2. UNCHANGED <<dirsBar, binsBar>>
    BY <1>1 DEF dirsBar, binsBar
  <1>3. stageBar[p] = "look" /\ stageBar \in [Procs -> {"idle", "look", "fetch", "verify"}]
    BY <1>1 DEF stageBar
  <1>4. CASE found[p] /\ dirDate = released
    <2>1. Goto(p, "verify")
      BY <1>4 DEF Lookup, LookedUp
    <2>2. stageBar' = [stageBar EXCEPT ![p] = "verify"] /\ UNCHANGED <<askedBar, servedBar>>
      BY <1>1, <2>1, WithinBar DEF IInv, Stage
    <2>3. askedBar[p] = {Request(TRUE)} /\ Request(TRUE).newest /\ Request(TRUE).build \in binsBar
      BY <1>1, <1>4 DEF askedBar, Request, binsBar, IInv, LocalInv, DirInv
    <2> QED
      BY <1>2, <1>3, <2>2, <2>3
         DEF Contract!IsNewest, Contract!Goto, dirsBar, binsBar, askedBar, servedBar, Request
  <1>5. CASE ~(found[p] /\ dirDate = released)
    <2>1. Goto(p, "mkdir")
      BY <1>5 DEF Lookup, LookedUp
    <2>2. stageBar' = [stageBar EXCEPT ![p] = "look"] /\ UNCHANGED <<askedBar, servedBar>>
      BY <1>1, <2>1, WithinBar DEF IInv, Stage
    <2> QED
      BY <1>2, <1>3, <2>2
         DEF Contract!vars, dirsBar, binsBar, askedBar, servedBar, Request
  <1> QED
    BY <1>4, <1>5

\* The directory is made where it is missing.
LEMMA MakeDirRefines ==
  ASSUME IInv, NEW p \in Procs, MakeDir(p)
  PROVE  Contract!MakeDirectory(p)
  <1>1. pc[p] = "mkdir" /\ Goto(p, "get") /\ UNCHANGED <<mode, want>>
    BY DEF MakeDir
  <1>2. stageBar' = [stageBar EXCEPT ![p] = "fetch"] /\ UNCHANGED <<askedBar, servedBar>>
    BY <1>1, WithinBar DEF IInv, Stage
  <1>3. stageBar[p] = "look"
    BY <1>1 DEF stageBar
  <1>4. dirsBar' = dirsBar \cup {"envoy"} /\ UNCHANGED binsBar
    BY Numbers DEF MakeDir, IInv, TypeOK, dirsBar, binsBar
  <1>5. Request(want[p] = "dev-latest") \in askedBar[p]
        /\ Request(want[p] = "dev-latest").build = "envoy"
    BY <1>1 DEF askedBar, Request
  <1> QED
    BY <1>2, <1>3, <1>4, <1>5
       DEF Contract!MakeDirectory, Contract!Goto, dirsBar, binsBar, askedBar, servedBar, Request

\* Between the directory and the end of the download the file may appear.
LEMMA FetchRefines ==
  ASSUME IInv, NEW p \in Procs,
         pc[p] \in {"get", "open", "copy", "digest", "chtimes"},
         NEW label \in {"open", "copy", "digest", "chtimes", "verify"}, Goto(p, label),
         UNCHANGED want, UNCHANGED dirsBar, binsBar' \in {binsBar, binsBar \cup {"envoy"}}
  PROVE  Contract!Fetch(p)
  <1>1. /\ stageBar' = [stageBar EXCEPT ![p] = Stage(label)]
        /\ UNCHANGED <<askedBar, servedBar>>
    BY WithinBar DEF IInv
  <1>2. Stage(label) \in {"fetch", "verify"} /\ stageBar[p] = "fetch"
    BY DEF Stage, stageBar
  <1>3. Request(want[p] = "dev-latest") \in askedBar[p]
        /\ Request(want[p] = "dev-latest").build = "envoy"
    BY DEF askedBar, Request
  <1> QED
    BY <1>1, <1>2, <1>3
       DEF Contract!Fetch, Contract!Goto, dirsBar, binsBar, askedBar, servedBar, Request

\* Who has looked at the file and found it executable is served.
LEMMA VerifyRefines ==
  ASSUME IInv, NEW p \in Procs, Verify(p)
  PROVE  Contract!Serve(p) \/ Contract!Fail(p)
  <1>1. pc[p] = "verify" /\ UNCHANGED disk
    BY DEF Verify
  <1>2. CASE mode # "exec"
    BY <1>1, <1>2, OverFails DEF Verify
  <1>3. CASE mode = "exec"
    <2>1. PICK how \in {"good", "broken"} : Ends(p, how)
      BY <1>3 DEF Verify
    <2>2. /\ stageBar' = [stageBar EXCEPT ![p] = "idle"]
          /\ askedBar' = [askedBar EXCEPT ![p] = {}]
          /\ servedBar' = servedBar \cup {p}
      BY <1>1, <2>1, EndsBar DEF IInv
    <2>3. stageBar[p] = "verify"
      BY <1>1 DEF stageBar
    <2>4. UNCHANGED <<dirsBar, binsBar>>
      BY <1>1 DEF dirsBar, binsBar
    <2>5. Request(want[p] = "dev-latest") \in askedBar[p]
          /\ Request(want[p] = "dev-latest").build \in binsBar
      BY <1>1, <1>3 DEF askedBar, Request, binsBar
    <2> QED
      BY <2>2, <2>3, <2>4, <2>5
         DEF Contract!Serve, Contract!Ends, Contract!Goto, dirsBar, binsBar, askedBar,
             servedBar, Request
  <1> QED
    BY <1>2, <1>3

\* Every step is one of the contract, or none.
LEMMA NextRefines == IInv /\ [Next]_vars => [Contract!Next]_(Contract!vars)
  <1> SUFFICES ASSUME IInv, [Next]_vars PROVE Contract!Next \/ UNCHANGED Contract!vars
    OBVIOUS
  <1>1. CASE NextDay \/ (\E p \in Procs : Stall(p)) \/ UNCHANGED vars
    <2>1. UNCHANGED <<disk, pc, want, outcome>>
      BY <1>1 DEF NextDay, Stall
    <2>2. UNCHANGED <<dirsBar, binsBar, stageBar, askedBar, servedBar>>
      BY <2>1 DEF dirsBar, binsBar, stageBar, askedBar, servedBar
    <2> QED
      BY <2>2 DEF Contract!vars, dirsBar, binsBar, askedBar, servedBar, Request
  <1>2. ASSUME NEW p \in Procs, Stat(p) PROVE Contract!Next
    BY <1>2, StatRefines DEF Contract!Next
  <1>3. ASSUME NEW p \in Procs, Refused(p) \/ BreakOff(p) PROVE Contract!Next
    <2>1. Ends(p, "error") /\ pc[p] # "idle" /\ UNCHANGED disk
      BY <1>3 DEF Refused, BreakOff
    <2> QED
      BY <2>1, OverFails DEF Contract!Next
  <1>4. ASSUME NEW p \in Procs, NetError(p) PROVE Contract!Next \/ UNCHANGED Contract!vars
    <2>1. CASE retried[p] = TRUE
      <3>1. Ends(p, "error") /\ pc[p] # "idle" /\ UNCHANGED disk
        BY <1>4, <2>1 DEF NetError, TransientError
      <3> QED
        BY <3>1, OverFails DEF Contract!Next
    <2>2. CASE retried[p] = FALSE
      <3>1. UNCHANGED <<disk, pc, want, outcome>>
        BY <1>4, <2>2 DEF NetError, TransientError
      <3>2. UNCHANGED <<dirsBar, binsBar, stageBar, askedBar, servedBar>>
        BY <3>1 DEF dirsBar, binsBar, stageBar, askedBar, servedBar
      <3> QED
        BY <3>2 DEF Contract!vars, dirsBar, binsBar, askedBar, servedBar, Request
    <2> QED
      BY <2>1, <2>2 DEF IInv, TypeOK
  <1>5. ASSUME NEW p \in Procs, Lookup(p) PROVE Contract!Next \/ UNCHANGED Contract!vars
    BY <1>5, LookupRefines DEF Contract!Next
  <1>6. ASSUME NEW p \in Procs, MakeDir(p) PROVE Contract!Next
    BY <1>6, MakeDirRefines DEF Contract!Next
  <1>7. ASSUME NEW p \in Procs, Get(p) \/ Open(p) \/ Copy(p) \/ Chtimes(p)
        PROVE  Contract!Next
    <2>1. dirDate # 0 /\ dirDate' # 0
      BY <1>7, Numbers DEF Get, Open, Copy, CopyUntil, Chtimes, IInv, DirInv, LocalInv, TypeOK
    <2>2. UNCHANGED dirsBar
      BY <2>1 DEF dirsBar
    <2>3. mode' = mode \/ mode = "absent"
      BY <1>7 DEF Get, Open, Copy, CopyUntil, Chtimes
    <2>4. binsBar' \in {binsBar, binsBar \cup {"envoy"}}
      BY <2>3 DEF binsBar
    <2>5. pc[p] \in {"get", "open", "copy", "chtimes"} /\ UNCHANGED want
      BY <1>7 DEF Get, Open, Copy, CopyUntil, Chtimes
    <2>6. \E label \in {"open", "copy", "digest", "chtimes", "verify"} : Goto(p, label)
      BY <1>7 DEF Get, Open, Copy, CopyUntil, Chtimes
    <2> QED
      BY <2>2, <2>4, <2>5, <2>6, FetchRefines DEF Contract!Next
  <1>8. ASSUME NEW p \in Procs, Digest(p) PROVE Contract!Next
    <2>1. CASE Goto(p, "chtimes") /\ UNCHANGED want
      <3>1. pc[p] = "digest" /\ UNCHANGED <<dirsBar, binsBar>>
        BY <1>8 DEF Digest, Digested, dirsBar, binsBar
      <3> QED
        BY <2>1, <3>1, FetchRefines DEF Contract!Next
    <2>2. CASE Ends(p, "error")
      <3>1. pc[p] # "idle" /\ UNCHANGED disk
        BY <1>8 DEF Digest, Digested
      <3> QED
        BY <2>2, <3>1, OverFails DEF Contract!Next
    <2> QED
      BY <1>8, <2>1, <2>2 DEF Digest, Digested
  <1>9. ASSUME NEW p \in Procs, Verify(p) PROVE Contract!Next
    BY <1>9, VerifyRefines DEF Contract!Next
  <1> QED
    BY <1>1, <1>2, <1>3, <1>4, <1>5, <1>6, <1>7, <1>8, <1>9 DEF Next, Step

\* An installation keeps its contract, whatever is torn, refused or overlaps.
THEOREM Refinement == Spec => ContractSpec
  <1>1. Spec => Contract!Spec
    BY InitRefines, NextRefines, Invariance, PTL DEF Spec, Contract!Spec
  <1> QED
    BY <1>1 DEF ContractSpec
=============================================================================

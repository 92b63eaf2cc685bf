------------------------ MODULE VersionCommandsProofs ------------------------
(***************************************************************************)
(* Proofs about VersionCommands, for any invocations, commands,            *)
(* environments, project files and any finite set of releases.             *)
(*                                                                         *)
(* The first half (IInv) is about writes to the version files, which come  *)
(* long after what justifies them: use has found its binary, and a first   *)
(* run has found no project file, some steps before, while other commands  *)
(* went on writing.                                                        *)
(*                                                                         *)
(* The second half (SInv) is about what is selected, looked up, installed  *)
(* and run, from the texts that the files may hold to what the searches    *)
(* find (VersionsProofs), and about the installation, which the commands   *)
(* together implement.                                                     *)
(***************************************************************************)
EXTENDS VersionCommands, VersionsProofs

\* The version that use is about to remember is installed, and the one it was given.
UseInv ==
  \A i \in Invocations :
    /\ pc[i] \in {"ensure", "fallback"} => selected[i] \in Minors
    /\ command[i].name = "use" =>
         /\ pc[i] \notin {"project", "home", "latest"}
         /\ pc[i] \notin {"begin", "over"} =>
              /\ selected[i] = command[i].version
              /\ selected[i] \notin Minors => version[i] = selected[i]
         /\ pc[i] \in {"stat", "truncate", "write"} => Installing(i) \in bins

\* A first run has seen that there is no project file, and nobody makes one.
FirstRunInv ==
  \A i \in Invocations :
    /\ pc[i] \in {"truncate", "write"} =>
         \/ target[i] = "home"
         \/ target[i] = "project" /\ command[i].name = "use" /\ projectFile # Absent
    /\ command[i].name # "use" /\ pc[i] \in {"home", "latest", "stat"} => projectFile = Absent

\* The functions of the invocations.
LocalsInv ==
  /\ pc \in [Invocations -> Labels]
  /\ command \in [Invocations -> Commands]
  /\ DOMAIN selected = Invocations /\ DOMAIN version = Invocations
  /\ DOMAIN target = Invocations

IInv == LocalsInv /\ UseInv /\ FirstRunInv

USE DEF vars, files, disk, history, At, Given

-----------------------------------------------------------------------------
(* Texts.                                                                  *)

\* The names of versions, and what is none.
LEMMA TextsDiffer ==
  /\ None \notin Selections /\ Absent \notin Selections /\ Absent # None /\ Absent # Garbage
  /\ Dev \in Selections \ Minors /\ Absent # Dev
  /\ \A v \in Selections : v.minor # -2
  BY ReleasesAssumption
     DEF None, Absent, Garbage, Dev, DevLatest, Selections, Names, Minors, NoPatch

\* What a first run remembers is no exact version.
LEMMA MinorIsNotExact == \A v : ~Exact(ToMinor(v))
  <1> SUFFICES ASSUME NEW v, ToMinor(v) \in Selections PROVE ToMinor(v) \in Minors
    BY DEF Exact
  <1>1. DOMAIN ToMinor(v) = {"minor", "debug", "patch"}
    BY DEF Selections, Names, Dev, DevLatest
  <1>2. DOMAIN v = {"minor", "debug", "patch"}
    BY <1>1 DEF ToMinor
  <1>3. ToMinor(v).patch = NoPatch
    BY <1>2 DEF ToMinor
  <1> QED
    BY <1>3 DEF Minors, Selections, Dev, DevLatest, NoPatch

\* Over an empty file a text is written as it is.
LEMMA OverlayOfNothing == \A text : Overlay(text, None) = {text}
  BY DEF Overlay

\* A write leaves a file.
LEMMA OverlayIsNotAbsent ==
  ASSUME NEW text \in Selections \cup {None}, NEW old, NEW new \in Overlay(text, old)
  PROVE  new # Absent
  <1>1. text.minor # -2 /\ text # Absent
    BY TextsDiffer DEF None
  <1>2. CASE new \in {text, Garbage}
    BY <1>1, <1>2, TextsDiffer
  <1>3. CASE new = [old EXCEPT !.minor = text.minor]
    BY <1>1, <1>3 DEF Absent
  <1>4. CASE new = [text EXCEPT !.debug = TRUE]
    BY <1>1, <1>4 DEF Absent
  <1> QED
    BY <1>2, <1>3, <1>4 DEF Overlay

-----------------------------------------------------------------------------
(* Steps.                                                                  *)

\* Commands, binaries that are there and a project without a file stay.
Frame ==
  /\ command' = command /\ bins \subseteq bins'
  /\ projectFile = Absent <=> projectFile' = Absent

\* At first there is nothing to know.
LEMMA InvInit == Init => IInv
  BY DEF Init, IInv, LocalsInv, UseInv, FirstRunInv, Labels

\* The invocation reads a version, or fails to.
LEMMA ParseStep ==
  ASSUME IInv, NEW i \in Invocations, NEW text,
         Parse(i, text) \/ (text = command[i].version /\ Select(i, text))
  PROVE  \/ pc' = [pc EXCEPT ![i] = "over"] /\ UNCHANGED <<selected, version>>
         \/ /\ pc' = [pc EXCEPT ![i] = IF text \in Minors THEN "ensure" ELSE "install"]
            /\ selected' = [selected EXCEPT ![i] = text]
            /\ version' = [version EXCEPT ![i] = IF text \in Minors THEN None ELSE text]
  BY DEF Parse, Select, Goto, End

\* An invocation that is over knows nothing.
LEMMA OverStep ==
  ASSUME IInv, NEW i \in Invocations,
         pc' = [pc EXCEPT ![i] = "over"], UNCHANGED <<selected, version, target>>, Frame
  PROVE  IInv'
  <1>1. LocalsInv'
    BY DEF IInv, LocalsInv, Labels, Frame
  <1>2. UseInv'
    BY DEF IInv, LocalsInv, UseInv, Installing, Frame
  <1>3. FirstRunInv'
    BY DEF IInv, LocalsInv, FirstRunInv, Frame
  <1> QED
    BY <1>1, <1>2, <1>3 DEF IInv

\* One that has read a version has it, and is no first run.
LEMMA SelectedStep ==
  ASSUME IInv, NEW i \in Invocations, NEW text, UNCHANGED target, Frame,
         command[i].name = "use" => text = command[i].version,
         pc' = [pc EXCEPT ![i] = IF text \in Minors THEN "ensure" ELSE "install"],
         selected' = [selected EXCEPT ![i] = text],
         version' = [version EXCEPT ![i] = IF text \in Minors THEN None ELSE text]
  PROVE  IInv'
  <1>1. LocalsInv'
    BY DEF IInv, LocalsInv, Labels, Frame
  <1>2. UseInv'
    <2>1. CASE text \in Minors
      BY <2>1 DEF IInv, LocalsInv, UseInv, Installing, Frame
    <2>2. CASE text \notin Minors
      BY <2>2 DEF IInv, LocalsInv, UseInv, Installing, Frame
    <2> QED
      BY <2>1, <2>2
  <1>3. FirstRunInv'
    BY DEF IInv, LocalsInv, FirstRunInv, Frame
  <1> QED
    BY <1>1, <1>2, <1>3 DEF IInv

\* Begin, and the reading of both files.
LEMMA ReadStep ==
  ASSUME IInv, NEW i \in Invocations, Begin(i) \/ ReadProjectFile(i) \/ ReadHomeFile(i)
  PROVE  IInv'
  <1>0. Frame /\ UNCHANGED target
    BY DEF Frame, Begin, ReadProjectFile, ProjectFileRead, ReadHomeFile
  <1>1. ASSUME NEW text, Parse(i, text), command[i].name # "use" PROVE IInv'
    BY <1>0, <1>1, ParseStep, OverStep, SelectedStep
  <1>2. CASE Select(i, command[i].version)
    BY <1>0, <1>2, ParseStep, OverStep, SelectedStep
  <1>3. CASE End(i, "custom") /\ UNCHANGED <<selected, version>>
    BY <1>0, <1>3, OverStep DEF End
  <1>4. ASSUME command[i].name # "use", UNCHANGED <<selected, version>>,
               \/ Goto(i, "project")
               \/ Goto(i, "home") /\ projectFile = Absent
               \/ Goto(i, "latest") /\ pc[i] = "home"
        PROVE  IInv'
    <2>1. LocalsInv'
      BY <1>0, <1>4 DEF IInv, LocalsInv, Labels, Frame, Goto
    <2>2. UseInv'
      BY <1>0, <1>4 DEF IInv, LocalsInv, UseInv, Installing, Frame, Goto
    <2>3. FirstRunInv'
      BY <1>0, <1>4 DEF IInv, LocalsInv, FirstRunInv, Frame, Goto
    <2> QED
      BY <2>1, <2>2, <2>3 DEF IInv
  <1>5. ASSUME Given(i),
               selected' = [selected EXCEPT ![i] = command[i].version],
               version' = [version EXCEPT ![i] = command[i].version], Goto(i, "install")
        PROVE  IInv'
    <2>1. LocalsInv'
      BY <1>0, <1>5 DEF IInv, LocalsInv, Labels, Frame, Goto
    <2>2. UseInv'
      BY <1>0, <1>5 DEF IInv, LocalsInv, UseInv, Installing, Frame, Goto
    <2>3. FirstRunInv'
      BY <1>0, <1>5 DEF IInv, LocalsInv, FirstRunInv, Frame, Goto
    <2> QED
      BY <2>1, <2>2, <2>3 DEF IInv
  <1>6. CASE Begin(i)
    <2>1. command[i].name \in {"run", "which", "use", "api"} /\ command[i].path \in BOOLEAN
      BY CommandsAssumption DEF IInv, LocalsInv
    <2>2. CASE command[i].name = "use"
      BY <1>2, <1>6, <2>2 DEF Begin
    <2>3. CASE Given(i)
      BY <1>3, <1>5, <1>6, <2>1, <2>3 DEF Begin
    <2>4. CASE command[i].name \in {"run", "which", "api"} /\ ~Given(i)
      BY <1>1, <1>3, <1>4, <1>6, <2>1, <2>4 DEF Begin
    <2> QED
      BY <2>1, <2>2, <2>3, <2>4
  <1>7. CASE ReadProjectFile(i)
    <2>1. command[i].name # "use"
      BY <1>7 DEF ReadProjectFile, ProjectFileRead, IInv, UseInv
    <2> QED
      BY <1>1, <1>4, <1>7, <2>1 DEF ReadProjectFile, ProjectFileRead
  <1>8. CASE ReadHomeFile(i)
    <2>1. command[i].name # "use"
      BY <1>8 DEF ReadHomeFile, IInv, UseInv
    <2> QED
      BY <1>1, <1>4, <1>8, <2>1 DEF ReadHomeFile
  <1> QED
    BY <1>6, <1>7, <1>8

\* The searches in the remote list and among what is installed.
LEMMA ResolveStep ==
  ASSUME IInv, NEW i \in Invocations,
         ListUnavailable(i) \/ EnsurePatchVersion(i) \/ Fallback(i) \/ FirstRun(i)
  PROVE  IInv'
  <1>0. Frame /\ UNCHANGED <<selected, target>>
    BY DEF Frame, ListUnavailable, EnsurePatchVersion, Fallback, FirstRun, Resolved
  <1>1. CASE ListUnavailable(i)
    BY <1>0, <1>1, OverStep DEF ListUnavailable, End
  <1>2. CASE EnsurePatchVersion(i) \/ Fallback(i) \/ FirstRun(i)
    <2>1. PICK label \in {"install", "fallback", "over", "stat"} :
            /\ pc' = [pc EXCEPT ![i] = label]
            /\ \/ pc[i] = "latest"
               \/ pc[i] \in {"ensure", "fallback"} /\ label # "stat"
            /\ label = "fallback" => pc[i] = "ensure"
      <3>1. CASE EnsurePatchVersion(i)
        <4>1. PICK found : Resolved(i, found, Goto(i, "fallback"))
          BY <3>1 DEF EnsurePatchVersion
        <4> QED
          BY <3>1, <4>1 DEF EnsurePatchVersion, Resolved, Goto
      <3>2. CASE Fallback(i)
        <4>1. PICK found : Resolved(i, found, End(i, "error"))
          BY <3>2 DEF Fallback
        <4> QED
          BY <3>2, <4>1 DEF Fallback, Resolved, Goto, End
      <3>3. CASE FirstRun(i)
        BY <3>3 DEF FirstRun, Goto, End
      <3> QED
        BY <1>2, <3>1, <3>2, <3>3
    <2>2. PICK found : version' = [version EXCEPT ![i] = found]
      BY <1>2 DEF EnsurePatchVersion, Fallback, FirstRun, Resolved
    <2>3. LocalsInv'
      BY <1>0, <2>1, <2>2 DEF IInv, LocalsInv, Labels, Frame
    <2>4. UseInv'
      BY <1>0, <2>1, <2>2 DEF IInv, LocalsInv, UseInv, Installing, Frame
    <2>5. FirstRunInv'
      BY <1>0, <2>1 DEF IInv, LocalsInv, FirstRunInv, Frame
    <2> QED
      BY <2>3, <2>4, <2>5 DEF IInv
  <1> QED
    BY <1>1, <1>2

\* The writing of a version file.
LEMMA WriteStep ==
  ASSUME IInv, NEW i \in Invocations, StatProjectFile(i) \/ Truncate(i) \/ Write(i)
  PROVE  IInv' /\ Frame
  <1>1. CASE StatProjectFile(i)
    <2>1. Frame
      BY <1>1 DEF Frame, StatProjectFile
    <2>2. LocalsInv'
      BY <1>1 DEF IInv, LocalsInv, Labels, StatProjectFile, Goto
    <2>3. UseInv'
      BY <1>1 DEF IInv, LocalsInv, UseInv, Installing, StatProjectFile, Goto
    <2>4. FirstRunInv'
      BY <1>1 DEF IInv, LocalsInv, FirstRunInv, StatProjectFile, Goto
    <2> QED
      BY <2>1, <2>2, <2>3, <2>4 DEF IInv
  <1>2. CASE Truncate(i)
    <2>1. Frame
      BY <1>2, TextsDiffer DEF Frame, Truncate, Put, IInv, FirstRunInv
    <2>2. LocalsInv'
      BY <1>2 DEF IInv, LocalsInv, Labels, Truncate, Goto
    <2>3. UseInv'
      BY <1>2 DEF IInv, LocalsInv, UseInv, Installing, Truncate, Goto
    <2>4. FirstRunInv'
      BY <1>2, <2>1 DEF IInv, LocalsInv, FirstRunInv, Truncate, Goto, Frame
    <2> QED
      BY <2>1, <2>2, <2>3, <2>4 DEF IInv
  <1>3. CASE Write(i)
    <2>1. command[i].name = "use" => Remembered(i) \in Selections \cup {None}
      BY <1>3, CommandsAssumption, TextsDiffer
         DEF IInv, LocalsInv, UseInv, Write, Wrote, Remembered
    <2>2. Frame
      BY <1>3, <2>1, OverlayIsNotAbsent DEF Frame, Write, Wrote, Put, IInv, FirstRunInv
    <2>3. \E label \in {"over", "install"} : pc' = [pc EXCEPT ![i] = label]
      BY <1>3 DEF Write, Wrote, Succeed, Goto, End
    <2>4. UNCHANGED <<command, selected, version, target, bins>>
      BY <1>3 DEF Write, Wrote
    <2>5. LocalsInv'
      BY <2>3, <2>4 DEF IInv, LocalsInv, Labels
    <2>6. UseInv'
      BY <1>3, <2>3, <2>4 DEF IInv, LocalsInv, UseInv, Installing, Write, Wrote
    <2>7. FirstRunInv'
      BY <2>2, <2>3, <2>4 DEF IInv, LocalsInv, FirstRunInv, Frame
    <2> QED
      BY <2>2, <2>5, <2>6, <2>7 DEF IInv
  <1> QED
    BY <1>1, <1>2, <1>3

\* The installation, which leads use to its file once the binary is there.
LEMMA InstallStep ==
  ASSUME IInv, NEW i \in Invocations,
         Install(i) \/ FindInList(i) \/ Extract(i) \/ Verify(i) \/ BreakOff(i)
  PROVE  IInv'
  <1>0. Frame /\ UNCHANGED <<selected, version, target>>
    BY DEF Frame, Install, InstallOrSkip, FindInList, Extract, Verify, Verified, BreakOff
  <1>1. CASE BreakOff(i)
    BY <1>0, <1>1, OverStep DEF BreakOff, End
  <1>2. CASE Install(i) \/ FindInList(i) \/ Extract(i) \/ Verify(i)
    <2>1. PICK label \in {"list", "fetch", "verify", "over", "stat"} :
            /\ pc' = [pc EXCEPT ![i] = label]
            /\ label = "stat" => command[i].name = "use" /\ Installing(i) \in bins
      BY <1>2 DEF Install, InstallOrSkip, FindInList, Extract, Verify, Verified, Succeed, Goto, End
    <2>2. pc[i] \notin {"begin", "over"}
      BY <1>2 DEF Install, InstallOrSkip, FindInList, Extract, Verify, Verified
    <2>3. LocalsInv'
      BY <1>0, <2>1 DEF IInv, LocalsInv, Labels, Frame
    <2>4. UseInv'
      BY <1>0, <2>1, <2>2 DEF IInv, LocalsInv, UseInv, Installing, Frame
    <2>5. FirstRunInv'
      BY <1>0, <2>1 DEF IInv, LocalsInv, FirstRunInv, Frame
    <2> QED
      BY <2>3, <2>4, <2>5 DEF IInv
  <1> QED
    BY <1>1, <1>2

\* Every step keeps the invariant.
LEMMA InvNext == IInv /\ [Next]_vars => IInv'
  <1> SUFFICES ASSUME IInv, [Next]_vars PROVE IInv'
    OBVIOUS
  <1>1. CASE UNCHANGED vars \/ AllOver \/ \E r \in Releases : Publish(r)
    <2>1. UNCHANGED <<projectFile, bins, pc, command, selected, version, target>>
      BY <1>1 DEF AllOver, Publish
    <2> QED
      BY <2>1 DEF IInv, LocalsInv, UseInv, FirstRunInv, Installing
  <1> QED
    BY <1>1, ReadStep, ResolveStep, WriteStep, InstallStep DEF Next, Step

-----------------------------------------------------------------------------

\* What use and a first run have seen stays true until they write.
THEOREM Invariance == Spec => []IInv
  <1> QED
    BY InvInit, InvNext, PTL DEF Spec

\* A file that is written names an exact version only after use has installed it.
LEMMA WrittenIsInstalled ==
  ASSUME IInv, NEW i \in Invocations, Write(i), Exact(Remembered(i))
  PROVE  Remembered(i) \in bins
  <1>1. command[i].name = "use"
    BY MinorIsNotExact DEF Remembered
  <1>2. pc[i] = "write" /\ Installing(i) \in bins /\ (selected[i] \notin Minors => version[i] = selected[i])
    BY <1>1 DEF IInv, UseInv, Write, Wrote
  <1>3. CASE selected[i] = DevLatest
    <2>1. Remembered(i) = Dev /\ selected[i] \notin Minors
      BY <1>1, <1>3 DEF Remembered, Minors, Names, DevLatest, NoPatch
    <2> QED
      BY <1>2, <1>3, <2>1 DEF Installing
  <1>4. CASE selected[i] # DevLatest
    <2>1. Remembered(i) = selected[i] /\ selected[i] \notin Minors
      BY <1>1, <1>4 DEF Remembered, Exact
    <2> QED
      BY <1>2, <1>4, <2>1 DEF Installing
  <1> QED
    BY <1>3, <1>4

\* Only Truncate and Write change a file, and Truncate empties it.
LEMMA FileChanges ==
  ASSUME [Next]_vars, files' # files
  PROVE  \E i \in Invocations :
           /\ Truncate(i) \/ Write(i)
           /\ target[i] # "home" => homeFile' = homeFile
           /\ target[i] = "home" => projectFile' = projectFile
  <1>1. PICK i \in Invocations : Truncate(i) \/ Write(i)
    BY DEF Next, Step, Begin, ReadProjectFile, ProjectFileRead, ReadHomeFile, ListUnavailable,
           EnsurePatchVersion, Fallback, FirstRun, Resolved, StatProjectFile, Install,
           InstallOrSkip, FindInList, Extract, Verify, Verified, BreakOff, Publish, AllOver
  <1> QED
    BY <1>1 DEF Truncate, Write, Wrote, Put

\* A file that was empty comes to name only a version that is installed.
THEOREM InstalledIsRemembered == Spec => RememberedIsInstalled
  <1>1. ASSUME IInv, [Next]_vars
        PROVE  /\ projectFile = None /\ Exact(projectFile') => projectFile' \in bins
               /\ homeFile = None /\ Exact(homeFile') => homeFile' \in bins
    <2>1. ~Exact(None)
      BY TextsDiffer DEF Exact
    <2>2. CASE files' = files
      BY <2>1, <2>2
    <2>3. CASE files' # files
      <3>1. PICK i \in Invocations :
              /\ Truncate(i) \/ Write(i)
              /\ target[i] # "home" => homeFile' = homeFile
              /\ target[i] = "home" => projectFile' = projectFile
        BY <1>1, <2>3, FileChanges
      <3>2. CASE Truncate(i)
        BY <2>1, <3>1, <3>2 DEF Truncate, Put
      <3>3. CASE Write(i)
        <4>1. CASE target[i] = "home"
          <5>1. homeFile = None => homeFile' = Remembered(i)
            BY <3>3, <4>1, OverlayOfNothing DEF Write, Wrote, Put
          <5> QED
            BY <1>1, <2>1, <3>1, <3>3, <4>1, <5>1, WrittenIsInstalled
        <4>2. CASE target[i] # "home"
          <5>1. projectFile = None => projectFile' = Remembered(i)
            BY <3>3, <4>2, OverlayOfNothing DEF Write, Wrote, Put
          <5> QED
            BY <1>1, <2>1, <3>1, <3>3, <4>2, <5>1, WrittenIsInstalled
        <4> QED
          BY <4>1, <4>2
      <3> QED
        BY <3>1, <3>2, <3>3
    <2> QED
      BY <2>2, <2>3
  <1> QED
    BY <1>1, Invariance, PTL DEF Spec, RememberedIsInstalled

\* A project's file is written by use alone: a first run has found none, and none
\* appears.
THEOREM ProjectFileIsOfUse == Spec => ProjectFileOnlyByUse
  <1>1. ASSUME IInv, [Next]_vars, projectFile' # projectFile
        PROVE  \E i \in Invocations :
                 command[i].name = "use" /\ pc[i] \in {"truncate", "write"}
    <2>1. PICK i \in Invocations : (Truncate(i) \/ Write(i)) /\ target[i] # "home"
      BY <1>1, FileChanges
    <2>2. pc[i] \in {"truncate", "write"}
      BY <2>1 DEF Truncate, Write, Wrote
    <2> QED
      BY <1>1, <2>1, <2>2 DEF IInv, FirstRunInv
  <1> QED
    BY <1>1, Invariance, PTL DEF Spec, ProjectFileOnlyByUse

-----------------------------------------------------------------------------
(* Types.  A write may find what another process has written meanwhile: it *)
(* leaves a text of a version again, or none that is one, because no       *)
(* process writes dev-latest and a missing file is not written to.         *)

\* What a file may hold once a process of func-e has truncated it.
Written == (Selections \ {DevLatest}) \cup {None, Garbage}

FilesInv ==
  /\ projectFile \in Texts /\ homeFile \in Texts
  /\ \A i \in Invocations :
       pc[i] = "write" => (IF target[i] = "home" THEN homeFile ELSE projectFile) \in Written

\* Directories are those of releases on offer, or of the nightly build.
DirectoriesInv ==
  /\ remote \subseteq Releases
  /\ ran \subseteq bins /\ bins \subseteq dirs /\ dirs \subseteq remote \cup {Dev}

\* A first run remembers the release that it has found, and a tarball is extracted into
\* the directory made for it.
FoundInv ==
  \A i \in Invocations :
    /\ pc[i] \in {"stat", "truncate", "write"} /\ command[i].name # "use" => version[i] \in Releases
    /\ pc[i] = "fetch" => Installing(i) \in dirs

TInv == TypeOK /\ FilesInv /\ DirectoriesInv /\ FoundInv

-----------------------------------------------------------------------------
(* What is run.                                                            *)

\* The version that an invocation installs and runs is the one it has selected.
Chosen(i) ==
  IF selected[i] \in Minors THEN ToMinor(version[i]) = selected[i]
  ELSE IF selected[i] = None
    THEN version[i] = None \/ (version[i] \in Releases /\ ~version[i].debug)
  ELSE version[i] = selected[i]

\* It selects before it looks up, and looks up before it installs.
ChosenAt(i) ==
  /\ pc[i] \in {"begin", "project", "home", "latest"} => selected[i] = None /\ version[i] = None
  /\ pc[i] \in {"ensure", "fallback"} => version[i] = None /\ selected[i] \in Minors
  /\ pc[i] \in {"project", "home", "latest", "ensure", "fallback"} => ~Given(i)
  /\ pc[i] \in {"stat", "truncate", "write", "install", "list", "fetch", "verify"}
       \/ outcome[i] = "ok" => Chosen(i)
  /\ outcome[i] # "none" => pc[i] = "over"
  /\ outcome[i] = "ok" => Installing(i) \in bins

ChosenInv == \A i \in Invocations : ChosenAt(i)

\* Nothing that ran before a lookup is of a higher patch than what it has found.
Follows(i) ==
  /\ before[i] \subseteq ran
  /\ selected[i] \in Minors /\ ~Given(i) /\ version[i] # None =>
       \A v \in before[i] : ToMinor(v) = selected[i] => version[i].patch >= v.patch

FollowInv == \A i \in Invocations : Follows(i)

SInv == TInv /\ ChosenInv /\ FollowInv

-----------------------------------------------------------------------------
(* Steps.                                                                    *)

\* Releases, minor versions and the names of nightly builds are apart.
LEMMA NamesDiffer ==
  /\ \A r \in Releases : /\ r \in PatchVersions /\ r \in Selections /\ r \notin Minors
                         /\ r \notin {None, Dev, DevLatest} /\ ToMinor(r) \in Minors
  /\ \A m \in Minors : m \in Selections /\ ToMinor(m) = m
  /\ None \notin Minors /\ Dev \in Selections \ Minors /\ DevLatest \in Selections \ Minors
  /\ ToMinor(None) \notin Minors /\ ToMinor(Dev) \notin Minors /\ Dev # None /\ Dev # DevLatest
  /\ \A v \in Names : v.minor \in Nat /\ v \notin {None, Garbage, Absent, Dev, DevLatest}
  BY ReleasesAssumption
     DEF PatchVersions, None, Absent, Garbage, Dev, DevLatest, Selections, Names, Minors, NoPatch,
         ToMinor

\* Whatever a write finds, it leaves such a text.
LEMMA OverlayIsWritten ==
  ASSUME NEW text \in Selections \ {DevLatest}, NEW old \in Written, NEW new \in Overlay(text, old)
  PROVE  new \in Written
  <1>1. CASE new \in {text, Garbage}
    BY <1>1 DEF Written
  <1>2. ASSUME old \notin {None, Garbage}, text \in Minors, old # Dev,
               new = [old EXCEPT !.minor = text.minor]
        PROVE  new \in Written
    <2>1. old \in Names /\ text \in Names
      BY <1>2 DEF Written, Selections, Minors
    <2>2. new \in Names
      BY <1>2, <2>1 DEF Names
    <2> QED
      BY <2>2, NamesDiffer DEF Written, Selections
  <1>3. ASSUME text # Dev, new = [text EXCEPT !.debug = TRUE] PROVE new \in Written
    <2>1. text \in Names
      BY <1>3 DEF Selections
    <2>2. new \in Names
      BY <1>3, <2>1 DEF Names
    <2> QED
      BY <2>2, NamesDiffer DEF Written, Selections
  <1> QED
    BY <1>1, <1>2, <1>3 DEF Overlay

\* What an invocation is about to write.
LEMMA RememberedIsWritten ==
  ASSUME IInv, TInv, NEW i \in Invocations, pc[i] = "write"
  PROVE  Remembered(i) \in Selections \ {DevLatest}
  <1>1. CASE command[i].name # "use"
    <2>1. Remembered(i) = ToMinor(version[i]) /\ version[i] \in Releases
      BY <1>1 DEF Remembered, TInv, FoundInv
    <2> QED
      BY <2>1, NamesDiffer
  <1>2. CASE command[i].name = "use"
    <2>1. Installing(i) \in bins /\ (selected[i] \notin Minors => version[i] = selected[i])
      BY <1>2 DEF IInv, UseInv
    <2>2. Installing(i) # None
      BY <2>1, NamesDiffer DEF TInv, DirectoriesInv
    <2>3. selected[i] \in Selections
      BY <2>1, <2>2, NamesDiffer DEF Installing, TInv, TypeOK
    <2> QED
      BY <1>2, <2>3, NamesDiffer DEF Remembered
  <1> QED
    BY <1>1, <1>2

\* How an invocation reads a version: it fails, it has one, or it looks further.
LEMMA ReadShape ==
  ASSUME IInv, SInv, NEW i \in Invocations, Begin(i) \/ ReadProjectFile(i) \/ ReadHomeFile(i)
  PROVE  /\ UNCHANGED <<disk, remote, command, target, history>>
         /\ pc[i] \in {"begin", "project", "home"}
         /\ \/ /\ \E how \in {"error", "custom"} : End(i, how)
               /\ UNCHANGED <<selected, version>>
            \/ /\ ~Given(i) /\ UNCHANGED <<selected, version>>
               /\ \E label \in {"project", "home", "latest"} : Goto(i, label)
            \/ /\ ~Given(i)
               /\ \E text \in Selections \cup {None} : Select(i, text)
            \/ /\ \E text \in Selections \cup {None} :
                    /\ selected' = [selected EXCEPT ![i] = text]
                    /\ version' = [version EXCEPT ![i] = text]
               /\ Goto(i, "install") /\ Given(i)
  <1>0. /\ command[i].name \in {"run", "which", "use", "api"} /\ command[i].path \in BOOLEAN
        /\ command[i].version \in Selections \cup {None}
    BY CommandsAssumption DEF SInv, TInv, TypeOK
  <1>1. CASE Begin(i)
    <2>1. CASE command[i].name = "use"
      BY <1>0, <1>1, <2>1 DEF Begin
    <2>2. CASE Given(i)
      BY <1>0, <1>1, <2>2 DEF Begin
    <2>3. CASE command[i].name \in {"run", "which", "api"} /\ ~Given(i)
      BY <1>0, <1>1, <2>3 DEF Begin, Parse
    <2> QED
      BY <1>0, <2>1, <2>2, <2>3
  <1>2. CASE ReadProjectFile(i) \/ ReadHomeFile(i)
    <2>1. ~Given(i)
      BY <1>2 DEF SInv, ChosenInv, ChosenAt, ReadProjectFile, ProjectFileRead, ReadHomeFile
    <2> QED
      BY <1>2, <2>1 DEF ReadProjectFile, ProjectFileRead, ReadHomeFile, Parse
  <1> QED
    BY <1>1, <1>2

\* Other invocations keep what they have.
OnlyOf(i) ==
  /\ command' = command /\ bins \subseteq bins' /\ ran \subseteq ran'
  /\ \A j \in Invocations \ {i} :
       /\ pc'[j] = pc[j] /\ outcome'[j] = outcome[j] /\ before'[j] = before[j]
       /\ selected'[j] = selected[j] /\ version'[j] = version[j]

\* A step that leaves the others alone has to keep only its own part of the invariant.
LEMMA OwnPart ==
  ASSUME SInv, NEW i \in Invocations, OnlyOf(i), TInv', ChosenAt(i)', Follows(i)'
  PROVE  SInv'
  <1>1. ASSUME NEW j \in Invocations \ {i} PROVE ChosenAt(j)' /\ Follows(j)'
    <2>1. ChosenAt(j)'
      BY DEF SInv, ChosenInv, ChosenAt, Chosen, Installing, OnlyOf
    <2>2. Follows(j)'
      BY DEF SInv, FollowInv, Follows, OnlyOf
    <2> QED
      BY <2>1, <2>2
  <1> QED
    BY <1>1 DEF SInv, ChosenInv, FollowInv

\* An invocation that ends without success leaves no more to know.
LEMMA EndStep ==
  ASSUME SInv, NEW i \in Invocations, NEW how \in {"error", "custom"}, End(i, how),
         UNCHANGED <<disk, remote, command, selected, version, target, history>>
  PROVE  SInv'
  <1>1. OnlyOf(i)
    BY DEF OnlyOf, SInv, TInv, TypeOK, End
  <1>2. TInv'
    <2>1. TypeOK'
      BY DEF SInv, TInv, TypeOK, End, Labels
    <2>2. FilesInv' /\ DirectoriesInv' /\ FoundInv'
      BY DEF SInv, TInv, TypeOK, FilesInv, DirectoriesInv, FoundInv, Installing, End
    <2> QED
      BY <2>1, <2>2 DEF TInv
  <1>3. ChosenAt(i)' /\ Follows(i)'
    BY DEF SInv, TInv, TypeOK, FollowInv, Follows, ChosenAt, End
  <1> QED
    BY <1>1, <1>2, <1>3, OwnPart

\* Begin, and the reading of both files.
LEMMA ReadKeeps ==
  ASSUME IInv, SInv, NEW i \in Invocations, Begin(i) \/ ReadProjectFile(i) \/ ReadHomeFile(i)
  PROVE  SInv'
  <1>0. /\ UNCHANGED <<disk, remote, command, target, history>>
        /\ pc[i] \in {"begin", "project", "home"}
        /\ selected[i] = None /\ version[i] = None /\ outcome[i] = "none" /\ outcome[i] # "ok"
    BY ReadShape DEF SInv, ChosenInv, ChosenAt, TInv, TypeOK
  <1>1. ASSUME NEW how \in {"error", "custom"}, End(i, how), UNCHANGED <<selected, version>>
        PROVE  SInv'
    BY <1>0, <1>1, EndStep
  <1>2. ASSUME NEW label \in {"project", "home", "latest", "ensure", "install"}, Goto(i, label),
               NEW text \in Selections \cup {None}, NEW v \in Selections \cup {None},
               selected' = [selected EXCEPT ![i] = text],
               version' = [version EXCEPT ![i] = v],
               label \in {"project", "home", "latest"} =>
                 text = None /\ v = None /\ ~Given(i),
               label = "ensure" => text \in Minors /\ v = None /\ ~Given(i),
               label = "install" => v = text /\ (text \in Minors => Given(i))
        PROVE  SInv'
    <2>1. OnlyOf(i)
      BY <1>0, <1>2 DEF OnlyOf, SInv, TInv, TypeOK, Goto
    <2>2. TypeOK'
      BY <1>0, <1>2 DEF SInv, TInv, TypeOK, Goto, Labels
    <2>3. FilesInv' /\ DirectoriesInv' /\ FoundInv'
      BY <1>0, <1>2 DEF SInv, TInv, TypeOK, FilesInv, DirectoriesInv, FoundInv, Installing, Goto
    <2>4. /\ pc'[i] = label /\ selected'[i] = text /\ version'[i] = v
          /\ outcome'[i] = "none" /\ UNCHANGED <<command, before, ran>>
      BY <1>0, <1>2 DEF SInv, TInv, TypeOK, Goto
    <2>5. ChosenAt(i)'
      BY <1>2, <2>4, NamesDiffer DEF ChosenAt, Chosen
    <2>6. Follows(i)'
      BY <1>2, <2>4, NamesDiffer DEF SInv, FollowInv, Follows
    <2> QED
      BY <2>1, <2>2, <2>3, <2>5, <2>6, OwnPart DEF TInv
  <1>3. ASSUME ~Given(i), UNCHANGED <<selected, version>>,
               NEW label \in {"project", "home", "latest"}, Goto(i, label)
        PROVE  SInv'
    <2>1. selected' = [selected EXCEPT ![i] = None] /\ version' = [version EXCEPT ![i] = None]
      BY <1>0, <1>3 DEF SInv, TInv, TypeOK
    <2> QED
      BY <1>2, <1>3, <2>1
  <1>4. ASSUME ~Given(i), NEW text \in Selections \cup {None}, Select(i, text)
        PROVE  SInv'
    <2>1. CASE text \in Minors
      BY <1>2, <1>4, <2>1 DEF Select
    <2>2. CASE text \notin Minors
      BY <1>2, <1>4, <2>2 DEF Select
    <2> QED
      BY <2>1, <2>2
  <1>5. ASSUME NEW text \in Selections \cup {None}, Goto(i, "install"),
               selected' = [selected EXCEPT ![i] = text], version' = [version EXCEPT ![i] = text],
               text \in Minors => Given(i)
        PROVE  SInv'
    BY <1>2, <1>5
  <1> QED
    BY <1>1, <1>3, <1>4, <1>5, ReadShape

\* A lookup among releases that include all that ran finds none lower than those.
LEMMA LookupFinds ==
  ASSUME SInv, NEW i \in Invocations, selected[i] \in Minors, NEW S,
         S \subseteq Releases, ran \subseteq S \cup {Dev}
  PROVE  LET found == FindLatestPatchVersion(SetToSeq(S), selected[i])
         IN  found # None =>
               /\ found \in Releases /\ ToMinor(found) = selected[i]
               /\ \A v \in ran : ToMinor(v) = selected[i] => found.patch >= v.patch
  <1>1. IsFiniteSet(S) /\ S \subseteq PatchVersions
    BY FS_Subset, ReleasesAssumption DEF PatchVersions
  <1>2. ToMinor(Dev) # selected[i]
    BY NamesDiffer
  <1> QED
    BY <1>1, <1>2, LatestPatchOfSet

\* What such a lookup, or none, leads to.
LEMMA ResolvedKeeps ==
  ASSUME SInv, NEW i \in Invocations, pc[i] \in {"ensure", "fallback"}, NEW found,
         found # None =>
           /\ found \in Releases /\ ToMinor(found) = selected[i]
           /\ \A v \in ran : ToMinor(v) = selected[i] => found.patch >= v.patch,
         NEW label \in {"install", "fallback", "over"},
         pc' = [pc EXCEPT ![i] = label], label = "install" <=> found # None,
         outcome' = outcome \/ (label = "over" /\ outcome' = [outcome EXCEPT ![i] = "error"]),
         before' = before \/ before' = [before EXCEPT ![i] = ran],
         version' = [version EXCEPT ![i] = found],
         UNCHANGED <<disk, remote, command, selected, target, ran>>
  PROVE  SInv'
  <1>0. /\ found \in Selections \cup {None} /\ outcome[i] = "none" /\ selected[i] \in Minors
        /\ ~Given(i)
    BY NamesDiffer DEF SInv, ChosenInv, ChosenAt, TInv, TypeOK
  <1>1. OnlyOf(i)
    BY DEF OnlyOf, SInv, TInv, TypeOK
  <1>2. TypeOK'
    <2>1. before' \in [Invocations -> SUBSET (Releases \cup {Dev})]
      BY DEF SInv, TInv, TypeOK, DirectoriesInv
    <2> QED
      BY <1>0, <2>1 DEF SInv, TInv, TypeOK, Labels
  <1>3. FilesInv' /\ DirectoriesInv' /\ FoundInv'
    BY DEF SInv, TInv, TypeOK, FilesInv, DirectoriesInv, FoundInv, Installing
  <1>4. /\ pc'[i] = label /\ selected'[i] = selected[i] /\ version'[i] = found
        /\ outcome'[i] # "ok" /\ (outcome'[i] # "none" => label = "over")
        /\ before'[i] \subseteq ran
    BY <1>0 DEF SInv, TInv, TypeOK, FollowInv, Follows
  <1>5. ChosenAt(i)'
    BY <1>0, <1>4 DEF ChosenAt, Chosen
  <1>6. Follows(i)'
    BY <1>4 DEF Follows
  <1> QED
    BY <1>1, <1>2, <1>3, <1>5, <1>6, OwnPart DEF TInv

\* The searches in the remote list and among what is installed.
LEMMA ResolveKeeps ==
  ASSUME SInv, NEW i \in Invocations,
         ListUnavailable(i) \/ EnsurePatchVersion(i) \/ Fallback(i) \/ FirstRun(i)
  PROVE  SInv'
  <1>1. CASE ListUnavailable(i)
    BY <1>1, EndStep DEF ListUnavailable
  <1>2. CASE EnsurePatchVersion(i)
    <2>0. pc[i] = "ensure" /\ selected[i] \in Minors
      BY <1>2 DEF EnsurePatchVersion, SInv, ChosenInv, ChosenAt
    <2>1. PICK list \in {remote, {}} :
            Resolved(i, FindLatestPatchVersion(SetToSeq(list), selected[i]), Goto(i, "fallback"))
      BY <1>2 DEF EnsurePatchVersion
    <2> DEFINE found == FindLatestPatchVersion(SetToSeq(list), selected[i])
    <2>2. found # None =>
            /\ found \in Releases /\ ToMinor(found) = selected[i]
            /\ \A v \in ran : ToMinor(v) = selected[i] => found.patch >= v.patch
      <3>1. CASE list = remote
        BY <2>0, <3>1, LookupFinds DEF SInv, TInv, DirectoriesInv
      <3>2. CASE list = {}
        <4>1. IsFiniteSet({}) /\ {} \subseteq PatchVersions
          BY FS_EmptySet
        <4> QED
          BY <3>2, <4>1, LatestPatchOfSet
      <3> QED
        BY <3>1, <3>2
    <2> HIDE DEF found
    <2>3. Resolved(i, found, Goto(i, "fallback"))
      BY <2>1 DEF found
    <2>4. before' = [before EXCEPT ![i] = ran]
      BY <1>2 DEF EnsurePatchVersion
    <2>5. CASE found = None
      BY <2>0, <2>2, <2>3, <2>4, <2>5, ResolvedKeeps DEF Resolved, Goto
    <2>6. CASE found # None
      BY <2>0, <2>2, <2>3, <2>4, <2>6, ResolvedKeeps DEF Resolved, Goto
    <2> QED
      BY <2>5, <2>6
  <1>3. CASE Fallback(i)
    <2> DEFINE found == FindLatestPatchVersion(SetToSeq(dirs \ {Dev}), selected[i])
    <2>0. pc[i] = "fallback" /\ selected[i] \in Minors
      BY <1>3 DEF Fallback, SInv, ChosenInv, ChosenAt
    <2>1. found # None =>
            /\ found \in Releases /\ ToMinor(found) = selected[i]
            /\ \A v \in ran : ToMinor(v) = selected[i] => found.patch >= v.patch
      BY <2>0, LookupFinds DEF SInv, TInv, DirectoriesInv
    <2> HIDE DEF found
    <2>2. Resolved(i, found, End(i, "error")) /\ before' = before
      BY <1>3 DEF Fallback, found
    <2>3. CASE found = None
      BY <2>0, <2>1, <2>2, <2>3, ResolvedKeeps DEF Resolved, End
    <2>4. CASE found # None
      BY <2>0, <2>1, <2>2, <2>4, ResolvedKeeps DEF Resolved, Goto
    <2> QED
      BY <2>3, <2>4
  <1>4. CASE FirstRun(i)
    <2> DEFINE found == FindLatestVersion(SetToSeq(remote))
    <2>0. /\ pc[i] = "latest" /\ selected[i] = None /\ outcome[i] = "none"
          /\ ~Given(i)
      BY <1>4 DEF FirstRun, SInv, ChosenInv, ChosenAt, TInv, TypeOK
    <2>1. found # None => found \in Releases /\ ~found.debug
      BY FS_Subset, LatestOfSet, ReleasesAssumption DEF SInv, TInv, DirectoriesInv
    <2> HIDE DEF found
    <2>2. /\ version' = [version EXCEPT ![i] = found]
          /\ IF found # None THEN Goto(i, "stat") ELSE End(i, "error")
          /\ UNCHANGED <<disk, remote, command, selected, target, history>>
      BY <1>4 DEF FirstRun, found
    <2>3. CASE found = None
      <3>1. UNCHANGED version
        BY <2>0, <2>2, <2>3, <1>4 DEF FirstRun, SInv, ChosenInv, ChosenAt, TInv, TypeOK
      <3> QED
        BY <2>2, <2>3, <3>1, EndStep
    <2>4. CASE found # None
      <3>1. OnlyOf(i)
        BY <2>2, <2>4 DEF OnlyOf, SInv, TInv, TypeOK, Goto
      <3>2. TypeOK'
        BY <2>1, <2>2, <2>4, NamesDiffer DEF SInv, TInv, TypeOK, Goto, Labels
      <3>3. FilesInv' /\ DirectoriesInv' /\ FoundInv'
        BY <2>1, <2>2, <2>4 DEF SInv, TInv, TypeOK, FilesInv, DirectoriesInv, FoundInv, Installing, Goto
      <3>4. /\ pc'[i] = "stat" /\ selected'[i] = None /\ version'[i] = found
            /\ outcome'[i] = "none" /\ UNCHANGED <<command, before, ran>>
        BY <2>0, <2>2, <2>4 DEF SInv, TInv, TypeOK, Goto
      <3>5. ChosenAt(i)' /\ Follows(i)'
        BY <2>1, <2>4, <3>4, NamesDiffer DEF ChosenAt, Chosen, SInv, FollowInv, Follows
      <3> QED
        BY <3>1, <3>2, <3>3, <3>5, OwnPart DEF TInv
    <2> QED
      BY <2>3, <2>4
  <1> QED
    BY <1>1, <1>2, <1>3, <1>4

\* A step that moves on without a new selection keeps what was selected.
LEMMA MovesOn ==
  ASSUME IInv, SInv, NEW i \in Invocations, OnlyOf(i),
         pc[i] \in {"stat", "truncate", "write", "install", "list", "fetch", "verify"},
         pc'[i] \in Labels \ {"begin", "project", "home", "latest", "ensure", "fallback"},
         UNCHANGED <<selected, version, before>>,
         outcome'[i] = "none" \/ pc'[i] = "over",
         outcome'[i] = "ok" => Installing(i) \in bins
  PROVE  ChosenAt(i)' /\ Follows(i)'
  <1>1. Chosen(i) /\ Chosen(i)'
    BY DEF SInv, ChosenInv, ChosenAt, Chosen
  <1>2. ChosenAt(i)'
    BY <1>1 DEF ChosenAt, OnlyOf, Installing
  <1>3. Follows(i)'
    BY DEF SInv, FollowInv, Follows, OnlyOf
  <1> QED
    BY <1>2, <1>3

\* The writing of a version file.
LEMMA WriteKeeps ==
  ASSUME IInv, SInv, NEW i \in Invocations, StatProjectFile(i) \/ Truncate(i) \/ Write(i)
  PROVE  SInv'
  <1>0. outcome[i] = "none"
    BY DEF SInv, ChosenInv, ChosenAt, TInv, TypeOK, StatProjectFile, Truncate, Write, Wrote
  <1>1. CASE StatProjectFile(i)
    <2>1. OnlyOf(i)
      BY <1>1 DEF OnlyOf, SInv, TInv, TypeOK, StatProjectFile, Goto
    <2>2. TypeOK'
      BY <1>1 DEF SInv, TInv, TypeOK, StatProjectFile, Goto, Labels
    <2>3. FilesInv' /\ DirectoriesInv' /\ FoundInv'
      BY <1>1 DEF SInv, TInv, TypeOK, FilesInv, DirectoriesInv, FoundInv, Installing, StatProjectFile, Goto
    <2>4. ChosenAt(i)' /\ Follows(i)'
      BY <1>0, <1>1, <2>1, MovesOn DEF SInv, TInv, TypeOK, StatProjectFile, Goto, Labels
    <2> QED
      BY <2>1, <2>2, <2>3, <2>4, OwnPart DEF TInv
  <1>2. CASE Truncate(i)
    <2>1. OnlyOf(i)
      BY <1>2 DEF OnlyOf, SInv, TInv, TypeOK, Truncate, Goto
    <2>2. /\ None \in Texts /\ None \in Written
          /\ UNCHANGED <<target, remote, ran, bins, dirs, command, version>>
          /\ pc' = [pc EXCEPT ![i] = "write"] /\ outcome' = outcome
      BY <1>2 DEF Texts, Written, Truncate, Goto
    <2>3. IF target[i] = "home" THEN homeFile' = None /\ UNCHANGED projectFile
                                ELSE projectFile' = None /\ UNCHANGED homeFile
      BY <1>2 DEF Truncate, Put
    <2>4. TypeOK'
      BY <1>2, <2>2, <2>3 DEF SInv, TInv, TypeOK, Truncate, Labels
    <2>5. FilesInv'
      BY <2>2, <2>3 DEF SInv, TInv, TypeOK, FilesInv
    <2>6. DirectoriesInv' /\ FoundInv'
      BY <1>2, <2>2 DEF SInv, TInv, TypeOK, DirectoriesInv, FoundInv, Installing, Truncate
    <2>7. ChosenAt(i)' /\ Follows(i)'
      BY <1>0, <1>2, <2>1, MovesOn DEF SInv, TInv, TypeOK, Truncate, Goto, Labels
    <2> QED
      BY <2>1, <2>4, <2>5, <2>6, <2>7, OwnPart DEF TInv
  <1>3. CASE Write(i)
    <2>0. pc[i] = "write" /\ Remembered(i) \in Selections \ {DevLatest}
      BY <1>3, RememberedIsWritten DEF Write, Wrote, SInv
    <2>1. PICK new \in Overlay(Remembered(i),
                              IF target[i] = "home" THEN homeFile ELSE projectFile) :
            IF target[i] = "home" THEN homeFile' = new /\ UNCHANGED projectFile
                                  ELSE projectFile' = new /\ UNCHANGED homeFile
      BY <1>3 DEF Write, Wrote, Put
    <2>2. new \in Written /\ new \in Texts
      BY <2>0, <2>1, OverlayIsWritten DEF SInv, TInv, FilesInv, Written, Texts
    <2>3. UNCHANGED <<dirs, bins, remote, command, selected, version, target, before>>
      BY <1>3 DEF Write, Wrote
    <2>4. /\ pc' = [pc EXCEPT ![i] = IF command[i].name = "use" THEN "over" ELSE "install"]
          /\ outcome' = IF command[i].name = "use" THEN [outcome EXCEPT ![i] = "ok"] ELSE outcome
          /\ ran' = IF command[i].name = "use" THEN ran \cup {Installing(i)} ELSE ran
      BY <1>3 DEF Write, Wrote, Succeed, Goto, End
    <2>5. command[i].name = "use" => Installing(i) \in bins
      BY <2>0 DEF IInv, UseInv
    <2>6. OnlyOf(i)
      BY <2>3, <2>4 DEF OnlyOf, SInv, TInv, TypeOK
    <2>7. TypeOK'
      <3>1. ran' \subseteq dirs'
        BY <2>3, <2>4, <2>5 DEF SInv, TInv, TypeOK
      <3>2. projectFile' \in Texts /\ homeFile' \in Texts
        BY <2>1, <2>2 DEF SInv, TInv, TypeOK
      <3> QED
        BY <2>3, <2>4, <3>1, <3>2 DEF SInv, TInv, TypeOK, Labels
    <2>8. FilesInv'
      BY <2>1, <2>2, <2>3, <2>4 DEF SInv, TInv, TypeOK, FilesInv
    <2>9. DirectoriesInv'
      BY <2>3, <2>4, <2>5 DEF SInv, TInv, DirectoriesInv
    <2>10. FoundInv'
      BY <2>3, <2>4 DEF SInv, TInv, TypeOK, FoundInv, Installing
    <2>11. ChosenAt(i)' /\ Follows(i)'
      BY <1>0, <2>0, <2>3, <2>4, <2>5, <2>6, MovesOn DEF SInv, TInv, TypeOK, Labels
    <2> QED
      BY <2>6, <2>7, <2>8, <2>9, <2>10, <2>11, OwnPart DEF TInv
  <1> QED
    BY <1>1, <1>2, <1>3

\* The installation.
LEMMA InstallKeeps ==
  ASSUME IInv, SInv, NEW i \in Invocations,
         Install(i) \/ FindInList(i) \/ Extract(i) \/ Verify(i)
  PROVE  SInv'
  <1>0. /\ outcome[i] = "none" /\ Installing(i) = (IF version[i] = DevLatest THEN Dev ELSE version[i])
        /\ pc[i] \in {"install", "list", "fetch", "verify"}
        /\ version[i] \in Selections \cup {None}
    BY DEF SInv, ChosenInv, ChosenAt, TInv, TypeOK, Install, InstallOrSkip, FindInList, Extract,
           Verify, Verified, Installing
  <1>1. UNCHANGED <<files, remote, command, selected, version, target, before>>
    BY DEF Install, InstallOrSkip, FindInList, Extract, Verify, Verified
  <1>2. PICK label \in {"list", "fetch", "verify", "stat", "over"} :
          pc' = [pc EXCEPT ![i] = label] /\ (label = "stat" => command[i].name = "use")
    BY DEF Install, InstallOrSkip, FindInList, Extract, Verify, Verified, Succeed, Goto, End
  <1>3. \/ outcome' = outcome
        \/ label = "over" /\ outcome' = [outcome EXCEPT ![i] = "error"]
        \/ label = "over" /\ outcome' = [outcome EXCEPT ![i] = "ok"] /\ Installing(i) \in bins
    <2>1. CASE Install(i) \/ Extract(i)
      BY <2>1 DEF Install, InstallOrSkip, Extract, Goto
    <2>2. CASE FindInList(i)
      BY <1>2, <2>2 DEF FindInList, Goto, End, SInv, TInv, TypeOK
    <2>3. CASE Verify(i)
      BY <1>2, <2>3 DEF Verify, Verified, Succeed, Goto, End, SInv, TInv, TypeOK
    <2> QED
      BY <2>1, <2>2, <2>3
  <1>4. /\ bins \subseteq bins' /\ bins' \subseteq dirs' /\ dirs' \subseteq remote \cup {Dev}
        /\ ran' \in {ran, ran \cup {Installing(i)} } /\ ran' \subseteq bins'
    <2>1. CASE Install(i)
      BY <2>1 DEF Install, InstallOrSkip, SInv, TInv, DirectoriesInv
    <2>2. CASE FindInList(i)
      <3>1. bins' = bins /\ ran' = ran /\ (dirs' = dirs \/ dirs' = dirs \cup {Installing(i)})
            /\ (dirs' # dirs => version[i] \in remote \cup {Dev, DevLatest})
        BY <2>2 DEF FindInList
      <3> QED
        BY <1>0, <3>1 DEF SInv, TInv, DirectoriesInv
    <2>3. CASE Extract(i)
      <3>1. Installing(i) \in dirs
        BY <2>3 DEF Extract, SInv, TInv, FoundInv
      <3> QED
        BY <2>3, <3>1 DEF Extract, SInv, TInv, DirectoriesInv
    <2>4. CASE Verify(i)
      BY <2>4 DEF Verify, Verified, Succeed, SInv, TInv, DirectoriesInv
    <2> QED
      BY <2>1, <2>2, <2>3, <2>4
  <1>5. OnlyOf(i)
    BY <1>1, <1>2, <1>3, <1>4 DEF OnlyOf, SInv, TInv, TypeOK
  <1>6. TypeOK'
    <2>1. dirs' \subseteq Releases \cup {Dev} /\ ran' \subseteq dirs'
      BY <1>1, <1>4 DEF SInv, TInv, DirectoriesInv
    <2>2. pc' \in [Invocations -> Labels] /\ outcome' \in [Invocations -> {"none", "ok", "custom", "error"}]
      BY <1>2, <1>3 DEF SInv, TInv, TypeOK, Labels
    <2> QED
      BY <1>1, <1>4, <2>1, <2>2 DEF SInv, TInv, TypeOK
  <1>7. FilesInv' /\ DirectoriesInv'
    BY <1>1, <1>2, <1>4 DEF SInv, TInv, TypeOK, FilesInv, DirectoriesInv
  <1>8. FoundInv'
    <2>1. dirs \subseteq dirs' /\ (pc'[i] = "fetch" => Installing(i) \in dirs')
      BY <1>0, <1>1 DEF SInv, TInv, TypeOK, FoundInv, Install, InstallOrSkip, FindInList, Extract,
                        Verify, Verified, Succeed, Goto, End
    <2> QED
      BY <1>1, <1>2, <2>1 DEF SInv, TInv, TypeOK, FoundInv, Installing
  <1>9. ChosenAt(i)' /\ Follows(i)'
    BY <1>0, <1>1, <1>2, <1>3, <1>5, MovesOn DEF SInv, TInv, TypeOK, Labels
  <1> QED
    BY <1>5, <1>6, <1>7, <1>8, <1>9, OwnPart DEF TInv

\* At first nothing is selected.
LEMMA SelectionInit == Init => SInv
  <1> SUFFICES ASSUME Init PROVE SInv
    OBVIOUS
  <1>1. Absent \in Texts
    BY DEF Texts
  <1>2. TypeOK
    BY <1>1, ProjectFilesAssumption DEF Init, TypeOK, Labels
  <1>3. FilesInv
    BY <1>2 DEF Init, TypeOK, FilesInv
  <1>4. DirectoriesInv /\ FoundInv /\ ChosenInv /\ FollowInv
    BY DEF Init, DirectoriesInv, FoundInv, ChosenInv, ChosenAt, FollowInv, Follows
  <1> QED
    BY <1>2, <1>3, <1>4 DEF SInv, TInv

\* Every step keeps types, selections and what follows from them.
LEMMA SelectionNext == IInv /\ SInv /\ [Next]_vars => SInv'
  <1> SUFFICES ASSUME IInv, SInv, [Next]_vars PROVE SInv'
    OBVIOUS
  <1>1. CASE UNCHANGED vars \/ AllOver
    BY <1>1 DEF AllOver, SInv, TInv, TypeOK, FilesInv, DirectoriesInv, FoundInv, ChosenInv, ChosenAt,
                FollowInv, Follows, Chosen, Installing
  <1>2. ASSUME NEW r \in Releases, Publish(r) PROVE SInv'
    BY <1>2 DEF Publish, SInv, TInv, TypeOK, FilesInv, DirectoriesInv, FoundInv, ChosenInv, ChosenAt,
                FollowInv, Follows, Chosen, Installing
  <1>3. ASSUME NEW i \in Invocations, BreakOff(i) PROVE SInv'
    BY <1>3, EndStep DEF BreakOff
  <1> QED
    BY <1>1, <1>2, <1>3, ReadKeeps, ResolveKeeps, WriteKeeps, InstallKeeps DEF Next, Step

-----------------------------------------------------------------------------

\* Types, and what is selected, looked up and installed, in every state.
THEOREM SelectionsHold == Spec => [](IInv /\ SInv)
  <1> QED
    BY Invariance, SelectionInit, SelectionNext, PTL DEF Spec

\* Every variable has its type: a version file holds a version that NewVersion accepts, no
\* version or an invalid text, whichever processes write it and wherever they are cut off.
THEOREM TypeCorrect == Spec => []TypeOK
  <1>1. SInv => TypeOK
    BY DEF SInv, TInv
  <1> QED
    BY <1>1, SelectionsHold, PTL

\* A command that succeeds has its binary, of the version it has selected.
THEOREM SuccessIsSelection == Spec => []SuccessRunsSelection
  <1>1. SInv => SuccessRunsSelection
    <2> SUFFICES ASSUME SInv, NEW i \in Invocations, outcome[i] = "ok"
                 PROVE  /\ Installing(i) \in bins
                        /\ CASE selected[i] \in Minors -> ToMinor(version[i]) = selected[i]
                             [] selected[i] = None -> version[i] \in Releases /\ ~version[i].debug
                             [] OTHER -> version[i] = selected[i]
      BY DEF SuccessRunsSelection
    <2>1. Installing(i) \in bins /\ Chosen(i)
      BY DEF SInv, ChosenInv, ChosenAt
    <2>2. version[i] # None
      BY <2>1, TextsDiffer, NamesDiffer DEF Installing, SInv, TInv, DirectoriesInv
    <2> QED
      BY <2>1, <2>2, NamesDiffer DEF Chosen
  <1> QED
    BY <1>1, SelectionsHold, PTL

\* A command that follows a minor version never goes back behind one that has succeeded
\* before it looked.
THEOREM NeverDowngrades == Spec => []NoDowngrade
  <1>1. SInv => NoDowngrade
    BY DEF SInv, FollowInv, Follows, NoDowngrade
  <1> QED
    BY <1>1, SelectionsHold, PTL

-----------------------------------------------------------------------------
(* Refinement.  Outside of the installation an invocation is idle for the  *)
(* contract, and one of "use" is served when it leaves it.                 *)

Stage(label) ==
  IF label \in {"fetch", "verify"} THEN label ELSE IF label = "list" THEN "look" ELSE "idle"

Request(i) == [build |-> Installing(i), newest |-> version[i] = DevLatest]

askedBar == [i \in Invocations |-> IF stageBar[i] = "idle" THEN {} ELSE {Request(i)}]

ServedAt(i) ==
  outcome[i] = "ok" \/ (command[i].name = "use" /\ pc[i] \in {"stat", "truncate", "write"})

\* What a step of one invocation does to the variables of the contract.
LEMMA BarStep ==
  ASSUME SInv, NEW i \in Invocations, NEW label \in Labels, pc' = [pc EXCEPT ![i] = label],
         command' = command,
         \A j \in Invocations \ {i} : version'[j] = version[j] /\ outcome'[j] = outcome[j]
  PROVE  /\ stageBar' = [stageBar EXCEPT ![i] = Stage(label)]
         /\ askedBar' = [askedBar EXCEPT ![i] =
                           IF Stage(label) = "idle" THEN {} ELSE {Request(i)'}]
         /\ servedBar' = IF ServedAt(i)' THEN servedBar \cup {i} ELSE servedBar \ {i}
         /\ stageBar[i] = Stage(pc[i])
         /\ askedBar[i] = IF stageBar[i] = "idle" THEN {} ELSE {Request(i)}
         /\ i \in servedBar <=> ServedAt(i)
  <1>1. \A j \in Invocations : pc'[j] = IF j = i THEN label ELSE pc[j]
    BY DEF SInv, TInv, TypeOK
  <1>2. \A j \in Invocations :
          stageBar[j] = Stage(pc[j]) /\ stageBar'[j] = Stage(IF j = i THEN label ELSE pc[j])
    BY <1>1 DEF stageBar, Stage
  <1>3. stageBar' = [stageBar EXCEPT ![i] = Stage(label)]
    <2>1. stageBar' = [j \in Invocations |-> Stage(IF j = i THEN label ELSE pc[j])]
      BY <1>1 DEF stageBar, Stage
    <2>2. stageBar = [j \in Invocations |-> Stage(pc[j])]
      BY DEF stageBar, Stage
    <2> QED
      BY <2>1, <2>2
  <1>4. \A j \in Invocations \ {i} : Request(j)' = Request(j)
    BY DEF Request, Installing
  <1>5. askedBar' = [askedBar EXCEPT ![i] =
                       IF Stage(label) = "idle" THEN {} ELSE {Request(i)'}]
    <2>1. askedBar' = [j \in Invocations |-> IF stageBar'[j] = "idle" THEN {} ELSE {Request(j)'}]
      BY DEF askedBar
    <2>2. \A j \in Invocations \ {i} : askedBar'[j] = askedBar[j]
      BY <1>2, <1>4, <2>1 DEF askedBar
    <2>3. askedBar'[i] = IF Stage(label) = "idle" THEN {} ELSE {Request(i)'}
      BY <1>2, <2>1
    <2> QED
      BY <2>1, <2>2, <2>3 DEF askedBar
  <1>6. \A j \in Invocations \ {i} : ServedAt(j)' <=> ServedAt(j)
    BY <1>1 DEF ServedAt
  <1>7. servedBar = {j \in Invocations : ServedAt(j)} /\ servedBar' = {j \in Invocations : ServedAt(j)'}
    BY DEF servedBar, ServedAt
  <1>8. servedBar' = IF ServedAt(i)' THEN servedBar \cup {i} ELSE servedBar \ {i}
    BY <1>6, <1>7
  <1> QED
    BY <1>2, <1>3, <1>5, <1>7, <1>8 DEF askedBar

\* Initially nobody installs.
LEMMA InitRefines == Init => Installation!Init
  <1> SUFFICES ASSUME Init PROVE Installation!Init
    OBVIOUS
  <1>1. SInv
    BY SelectionInit
  <1>2. dirs \subseteq Selections \cup {None} /\ bins \subseteq dirs
    BY <1>1, NamesDiffer DEF SInv, TInv, DirectoriesInv
  <1>3. stageBar = [i \in Invocations |-> "idle"]
    BY DEF Init, stageBar
  <1>4. servedBar = {}
    BY DEF Init, servedBar
  <1> QED
    BY <1>2, <1>3, <1>4 DEF Installation!Init

\* A step outside of the installation, that serves nobody.
LEMMA IdleRefines ==
  ASSUME SInv, NEW i \in Invocations, NEW label \in Labels, pc' = [pc EXCEPT ![i] = label],
         command' = command, UNCHANGED <<dirs, bins>>,
         \A j \in Invocations \ {i} : version'[j] = version[j] /\ outcome'[j] = outcome[j],
         Stage(pc[i]) = "idle", Stage(label) = "idle", ServedAt(i)' => ServedAt(i)
  PROVE  Installation!Next \/ UNCHANGED Installation!vars
  <1>0. /\ stageBar' = [stageBar EXCEPT ![i] = Stage(label)]
        /\ askedBar' = [askedBar EXCEPT ![i] =
                          IF Stage(label) = "idle" THEN {} ELSE {Request(i)'}]
        /\ servedBar' = IF ServedAt(i)' THEN servedBar \cup {i} ELSE servedBar \ {i}
        /\ stageBar[i] = Stage(pc[i])
        /\ askedBar[i] = IF stageBar[i] = "idle" THEN {} ELSE {Request(i)}
        /\ i \in servedBar <=> ServedAt(i)
    BY BarStep
  <1>1. stageBar' = stageBar /\ askedBar' = askedBar /\ stageBar[i] = "idle"
    <2>1. stageBar = [j \in Invocations |-> stageBar[j]] /\ askedBar = [j \in Invocations |-> askedBar[j]]
      BY DEF stageBar, askedBar
    <2>2. /\ stageBar' = [stageBar EXCEPT ![i] = "idle"] /\ stageBar[i] = "idle"
          /\ askedBar' = [askedBar EXCEPT ![i] = {}] /\ askedBar[i] = {}
      BY <1>0
    <2> QED
      BY <2>1, <2>2
  <1>2. CASE servedBar' = servedBar
    BY <1>1, <1>2 DEF Installation!vars, askedBar, Request
  <1>3. CASE servedBar' # servedBar
    <2>1. servedBar' = servedBar \ {i}
      BY <1>0, <1>3
    <2>2. Installation!Forget(i)
      BY <1>1, <2>1 DEF Installation!Forget, askedBar, Request
    <2> QED
      BY <2>2 DEF Installation!Next
  <1> QED
    BY <1>2, <1>3

\* The end of an installation that fails.
LEMMA FailRefines ==
  ASSUME SInv, NEW i \in Invocations, pc[i] \in {"list", "fetch", "verify"}, End(i, "error"),
         UNCHANGED <<disk, command, version>>
  PROVE  Installation!Next
  <1>1. /\ outcome[i] = "none" /\ "over" \in Labels /\ Stage("over") = "idle"
        /\ Stage(pc[i]) # "idle" /\ ~ServedAt(i) /\ ~ServedAt(i)'
    BY DEF SInv, ChosenInv, ChosenAt, TInv, TypeOK, Labels, Stage, ServedAt, End
  <1>2. /\ pc' = [pc EXCEPT ![i] = "over"]
        /\ \A j \in Invocations \ {i} : version'[j] = version[j] /\ outcome'[j] = outcome[j]
    BY DEF SInv, TInv, TypeOK, End
  <1>3. /\ stageBar' = [stageBar EXCEPT ![i] = "idle"] /\ stageBar[i] # "idle"
        /\ askedBar' = [askedBar EXCEPT ![i] = {}]
        /\ servedBar' = servedBar \ {i} /\ i \notin servedBar
    BY <1>1, <1>2, BarStep
  <1>4. servedBar' = servedBar
    BY <1>3
  <1>5. Installation!Fail(i)
    BY <1>3, <1>4 DEF Installation!Fail, Installation!Ends, Installation!Goto, askedBar, Request
  <1> QED
    BY <1>5 DEF Installation!Next

\* The beginning of an installation is a request.
LEMMA InstallRefines ==
  ASSUME SInv, NEW i \in Invocations, Install(i)
  PROVE  Installation!Next
  <1> DEFINE present == Installing(i) \in bins /\ version[i] # DevLatest
             label == IF present THEN "verify" ELSE "list"
  <1>1. /\ outcome[i] = "none" /\ pc[i] = "install" /\ label \in Labels
        /\ pc' = [pc EXCEPT ![i] = label] /\ UNCHANGED <<disk, command, version, outcome>>
        /\ Installing(i) \in Selections \cup {None}
    BY NamesDiffer DEF SInv, ChosenInv, ChosenAt, TInv, TypeOK, Labels, Install, InstallOrSkip, Goto,
                       Installing
  <1>2. ~ServedAt(i)' /\ Stage(label) = (IF present THEN "verify" ELSE "look") /\ Stage(pc[i]) = "idle"
    BY <1>1 DEF ServedAt, Stage, SInv, TInv, TypeOK
  <1> HIDE DEF label
  <1>3. Request(i)' = Request(i)
    BY <1>1 DEF Request, Installing
  <1>4. /\ stageBar' = [stageBar EXCEPT ![i] = Stage(label)] /\ stageBar[i] = "idle"
        /\ askedBar' = [askedBar EXCEPT ![i] = {Request(i)}]
        /\ servedBar' = servedBar \ {i}
    BY <1>1, <1>2, <1>3, BarStep
  <1>5. PICK request \in Installation!Requests : request = Request(i)
    <2>1. (version[i] = DevLatest) \in BOOLEAN
      OBVIOUS
    <2>2. Request(i) \in [build : Selections \cup {None}, newest : BOOLEAN]
      BY <1>1, <2>1 DEF Request
    <2> QED
      BY <2>2 DEF Installation!Requests
  <1>6. present <=> request.build \in bins /\ ~request.newest
    BY <1>5 DEF Request
  <1>7. askedBar' = [askedBar EXCEPT ![i] = {request}]
    BY <1>4, <1>5
  <1>8. Installation!Ask(i, request)
    <2>1. CASE present
      <3>1. stageBar' = [stageBar EXCEPT ![i] = "verify"] /\ request.build \in bins /\ ~request.newest
        BY <1>2, <1>4, <1>6, <2>1
      <3> QED
        BY <1>1, <1>4, <1>7, <3>1 DEF Installation!Ask, Installation!Goto, askedBar, Request
    <2>2. CASE ~present
      <3>1. /\ stageBar' = [stageBar EXCEPT ![i] = "look"]
            /\ ~(request.build \in bins /\ ~request.newest)
        BY <1>2, <1>4, <1>6, <2>2
      <3> QED
        BY <1>1, <1>4, <1>7, <3>1 DEF Installation!Ask, Installation!Goto, askedBar, Request
    <2> QED
      BY <2>1, <2>2
  <1> QED
    BY <1>8 DEF Installation!Next

\* What goes on while it installs.
LEMMA BusyRefines ==
  ASSUME SInv, NEW i \in Invocations, FindInList(i) \/ Extract(i) \/ Verify(i)
  PROVE  Installation!Next
  <1>0. /\ outcome[i] = "none" /\ pc[i] \in {"list", "fetch", "verify"}
        /\ UNCHANGED <<command, version>> /\ ~ServedAt(i) /\ Request(i)' = Request(i)
    BY DEF SInv, ChosenInv, ChosenAt, TInv, TypeOK, FindInList, Extract, Verify, Verified, ServedAt,
           Request, Installing
  <1>1. ASSUME NEW label \in {"fetch", "verify"}, pc' = [pc EXCEPT ![i] = label], UNCHANGED outcome
        PROVE  /\ stageBar' = [stageBar EXCEPT ![i] = label] /\ stageBar[i] = Stage(pc[i])
               /\ askedBar' = askedBar /\ askedBar[i] = {Request(i)} /\ servedBar' = servedBar
    <2>1. label \in Labels /\ Stage(label) = label /\ label # "idle" /\ Stage(pc[i]) # "idle"
          /\ ~ServedAt(i)'
      BY <1>0, <1>1 DEF Labels, Stage, ServedAt, SInv, TInv, TypeOK
    <2>2. /\ stageBar' = [stageBar EXCEPT ![i] = label] /\ stageBar[i] = Stage(pc[i])
          /\ askedBar' = [askedBar EXCEPT ![i] = {Request(i)}] /\ askedBar[i] = {Request(i)}
          /\ servedBar' = servedBar \ {i} /\ i \notin servedBar
      BY <1>0, <1>1, <2>1, BarStep
    <2>3. askedBar = [j \in Invocations |-> askedBar[j]]
      BY DEF askedBar
    <2> QED
      BY <2>2, <2>3
  <1>2. CASE FindInList(i)
    <2>1. CASE Goto(i, "fetch") /\ dirs' = dirs \cup {Installing(i)}
      <3>1. /\ stageBar' = [stageBar EXCEPT ![i] = "fetch"] /\ stageBar[i] = "look"
            /\ askedBar' = askedBar /\ askedBar[i] = {Request(i)} /\ servedBar' = servedBar
        BY <1>1, <1>2, <2>1 DEF FindInList, Goto, Stage
      <3>2. Installation!MakeDirectory(i)
        BY <1>2, <2>1, <3>1
           DEF Installation!MakeDirectory, Installation!Goto, FindInList, askedBar, Request
      <3> QED
        BY <3>2 DEF Installation!Next
    <2>2. CASE End(i, "error") /\ UNCHANGED dirs
      BY <1>0, <1>2, <2>2, FailRefines DEF FindInList
    <2>3. CASE version[i] = DevLatest /\ Dev \in bins /\ Goto(i, "verify") /\ UNCHANGED dirs
      <3>1. /\ stageBar' = [stageBar EXCEPT ![i] = "verify"] /\ stageBar[i] = "look"
            /\ askedBar' = askedBar /\ askedBar[i] = {Request(i)} /\ servedBar' = servedBar
        BY <1>1, <1>2, <2>3 DEF FindInList, Goto, Stage
      <3>2. Request(i).newest /\ Request(i).build \in bins
        BY <2>3 DEF Request, Installing
      <3>3. Installation!IsNewest(i)
        BY <1>2, <2>3, <3>1, <3>2
           DEF Installation!IsNewest, Installation!Goto, FindInList, askedBar, Request
      <3> QED
        BY <3>3 DEF Installation!Next
    <2> QED
      BY <1>2, <2>1, <2>2, <2>3 DEF FindInList
  <1>3. CASE Extract(i)
    <2>1. PICK next \in {"fetch", "verify"} : pc' = [pc EXCEPT ![i] = next]
      BY <1>3 DEF Extract
    <2>2. /\ stageBar' = [stageBar EXCEPT ![i] = next] /\ stageBar[i] = "fetch"
          /\ askedBar' = askedBar /\ askedBar[i] = {Request(i)} /\ servedBar' = servedBar
      BY <1>1, <1>3, <2>1 DEF Extract, Stage
    <2>3. bins' \in {bins, bins \cup {Request(i).build}} /\ dirs' = dirs
      BY <1>3 DEF Extract, Request
    <2>4. Installation!Fetch(i)
      BY <2>2, <2>3 DEF Installation!Fetch, Installation!Goto, askedBar, Request
    <2> QED
      BY <2>4 DEF Installation!Next
  <1>4. CASE Verify(i)
    <2>1. CASE Installing(i) \notin bins
      BY <1>0, <1>4, <2>1, FailRefines DEF Verify, Verified
    <2>2. CASE Installing(i) \in bins
      <3> DEFINE label == IF command[i].name = "use" THEN "stat" ELSE "over"
      <3>1. /\ pc' = [pc EXCEPT ![i] = label] /\ label \in Labels /\ Stage(label) = "idle"
            /\ \A j \in Invocations \ {i} : version'[j] = version[j] /\ outcome'[j] = outcome[j]
            /\ pc[i] = "verify" /\ Stage(pc[i]) = "verify" /\ UNCHANGED <<disk>>
        BY <1>4, <2>2 DEF Verify, Verified, Succeed, Goto, End, SInv, TInv, TypeOK, Labels, Stage
      <3>2. ServedAt(i)'
        BY <1>4, <2>2 DEF Verify, Verified, Succeed, Goto, End, SInv, TInv, TypeOK, ServedAt
      <3> HIDE DEF label
      <3>3. /\ stageBar' = [stageBar EXCEPT ![i] = "idle"] /\ stageBar[i] = "verify"
            /\ askedBar' = [askedBar EXCEPT ![i] = {}] /\ askedBar[i] = {Request(i)}
            /\ servedBar' = servedBar \cup {i}
        <4>1. /\ stageBar' = [stageBar EXCEPT ![i] = Stage(label)]
              /\ askedBar' = [askedBar EXCEPT ![i] =
                                IF Stage(label) = "idle" THEN {} ELSE {Request(i)'}]
              /\ servedBar' = IF ServedAt(i)' THEN servedBar \cup {i} ELSE servedBar \ {i}
              /\ stageBar[i] = Stage(pc[i])
              /\ askedBar[i] = IF stageBar[i] = "idle" THEN {} ELSE {Request(i)}
          BY <1>0, <3>1, BarStep
        <4> QED
          BY <3>1, <3>2, <4>1
      <3>4. Request(i).build \in bins
        BY <2>2 DEF Request
      <3>5. Installation!Serve(i)
        BY <3>1, <3>3, <3>4
           DEF Installation!Serve, Installation!Ends, Installation!Goto, askedBar, Request
      <3> QED
        BY <3>5 DEF Installation!Next
    <2> QED
      BY <2>1, <2>2
  <1> QED
    BY <1>2, <1>3, <1>4

\* Every step of the commands is one of the contract, or none.
LEMMA StepRefines == IInv /\ SInv /\ [Next]_vars => [Installation!Next]_(Installation!vars)
  <1> SUFFICES ASSUME IInv, SInv, [Next]_vars
               PROVE  Installation!Next \/ UNCHANGED Installation!vars
    OBVIOUS
  <1>1. ASSUME UNCHANGED vars \/ AllOver \/ \E r \in Releases : Publish(r)
        PROVE  UNCHANGED Installation!vars
    BY <1>1 DEF AllOver, Publish, Installation!vars, stageBar, servedBar, Installing
  <1>2. ASSUME NEW i \in Invocations, Begin(i) \/ ReadProjectFile(i) \/ ReadHomeFile(i)
        PROVE  Installation!Next \/ UNCHANGED Installation!vars
    <2>1. /\ pc[i] \in {"begin", "project", "home"} /\ UNCHANGED <<dirs, bins, command>>
          /\ outcome[i] = "none"
      BY <1>2, ReadShape DEF SInv, ChosenInv, ChosenAt, TInv, TypeOK
    <2>2. PICK label \in {"project", "home", "latest", "ensure", "install", "over"} :
            /\ pc' = [pc EXCEPT ![i] = label]
            /\ outcome'[i] # "ok"
            /\ \A j \in Invocations \ {i} : version'[j] = version[j] /\ outcome'[j] = outcome[j]
      <3>1. ASSUME NEW how \in {"error", "custom"}, End(i, how), UNCHANGED version
            PROVE  /\ pc' = [pc EXCEPT ![i] = "over"] /\ outcome'[i] # "ok"
                   /\ \A j \in Invocations \ {i} : version'[j] = version[j] /\ outcome'[j] = outcome[j]
        BY <3>1 DEF End, SInv, TInv, TypeOK
      <3>2. ASSUME NEW label, Goto(i, label), NEW v,
                   version' = version \/ version' = [version EXCEPT ![i] = v]
            PROVE  /\ pc' = [pc EXCEPT ![i] = label] /\ outcome'[i] # "ok"
                   /\ \A j \in Invocations \ {i} : version'[j] = version[j] /\ outcome'[j] = outcome[j]
        BY <2>1, <3>2 DEF Goto, SInv, TInv, TypeOK
      <3>3. \/ \E how \in {"error", "custom"} : End(i, how) /\ UNCHANGED version
            \/ /\ \E next \in {"project", "home", "latest", "ensure", "install"} : Goto(i, next)
               /\ \E v : version' = version \/ version' = [version EXCEPT ![i] = v]
        BY <1>2, ReadShape DEF Select
      <3> QED
        BY <3>1, <3>2, <3>3
    <2>3. label \in Labels /\ Stage(label) = "idle" /\ Stage(pc[i]) = "idle" /\ ~ServedAt(i)'
      BY <2>1, <2>2 DEF Labels, Stage, ServedAt, SInv, TInv, TypeOK
    <2> QED
      BY <2>1, <2>2, <2>3, IdleRefines
  <1>3. ASSUME NEW i \in Invocations, ListUnavailable(i) \/ BreakOff(i)
        PROVE  Installation!Next \/ UNCHANGED Installation!vars
    <2>1. End(i, "error") /\ UNCHANGED <<disk, command, version>>
      BY <1>3 DEF ListUnavailable, BreakOff
    <2>2. CASE pc[i] \in {"list", "fetch", "verify"}
      BY <2>1, <2>2, FailRefines
    <2>3. CASE pc[i] \notin {"list", "fetch", "verify"}
      <3>1. /\ pc' = [pc EXCEPT ![i] = "over"] /\ "over" \in Labels
            /\ Stage("over") = "idle" /\ Stage(pc[i]) = "idle" /\ ~ServedAt(i)'
            /\ \A j \in Invocations \ {i} : version'[j] = version[j] /\ outcome'[j] = outcome[j]
        BY <2>1, <2>3 DEF End, SInv, TInv, TypeOK, Labels, Stage, ServedAt
      <3> QED
        BY <2>1, <3>1, IdleRefines
    <2> QED
      BY <2>2, <2>3
  <1>4. ASSUME NEW i \in Invocations, EnsurePatchVersion(i) \/ Fallback(i) \/ FirstRun(i)
        PROVE  Installation!Next \/ UNCHANGED Installation!vars
    <2>1. /\ pc[i] \in {"ensure", "fallback", "latest"} /\ UNCHANGED <<dirs, bins, command>>
          /\ outcome[i] = "none"
      BY <1>4 DEF EnsurePatchVersion, Fallback, FirstRun, Resolved, SInv, ChosenInv, ChosenAt, TInv, TypeOK
    <2>2. PICK label \in {"fallback", "install", "over", "stat"} :
            /\ pc' = [pc EXCEPT ![i] = label]
            /\ outcome'[i] # "ok"
            /\ \A j \in Invocations \ {i} : version'[j] = version[j] /\ outcome'[j] = outcome[j]
            /\ label = "stat" => pc[i] = "latest"
      <3>1. PICK found : version' = [version EXCEPT ![i] = found]
        BY <1>4 DEF EnsurePatchVersion, Fallback, FirstRun, Resolved
      <3>2. \/ End(i, "error")
            \/ Goto(i, "install")
            \/ Goto(i, "fallback")
            \/ Goto(i, "stat") /\ pc[i] = "latest"
        BY <1>4 DEF EnsurePatchVersion, Fallback, FirstRun, Resolved
      <3> QED
        BY <2>1, <3>1, <3>2 DEF Goto, End, SInv, TInv, TypeOK
    <2>3. label = "stat" => command[i].name # "use"
      BY <2>2 DEF IInv, UseInv
    <2>4. label \in Labels /\ Stage(label) = "idle" /\ Stage(pc[i]) = "idle" /\ ~ServedAt(i)'
      BY <2>1, <2>2, <2>3 DEF Labels, Stage, ServedAt, SInv, TInv, TypeOK
    <2> QED
      BY <2>1, <2>2, <2>4, IdleRefines
  <1>5. ASSUME NEW i \in Invocations, StatProjectFile(i) \/ Truncate(i) \/ Write(i)
        PROVE  Installation!Next \/ UNCHANGED Installation!vars
    <2>1. /\ pc[i] \in {"stat", "truncate", "write"} /\ UNCHANGED <<dirs, bins, command, version>>
          /\ outcome[i] = "none"
      BY <1>5 DEF StatProjectFile, Truncate, Write, Wrote, SInv, ChosenInv, ChosenAt, TInv, TypeOK
    <2>2. PICK label \in {"truncate", "write", "install", "over"} :
            /\ pc' = [pc EXCEPT ![i] = label]
            /\ outcome'[i] = "ok" => command[i].name = "use"
            /\ \A j \in Invocations \ {i} : outcome'[j] = outcome[j]
            /\ label \in {"truncate", "write"} => outcome' = outcome
      BY <1>5, <2>1
         DEF StatProjectFile, Truncate, Write, Wrote, Succeed, Goto, End, SInv, TInv, TypeOK
    <2>3. label \in Labels /\ Stage(label) = "idle" /\ Stage(pc[i]) = "idle"
      BY <2>1, <2>2 DEF Labels, Stage
    <2>4. ServedAt(i)' => ServedAt(i)
      BY <2>1, <2>2 DEF ServedAt, SInv, TInv, TypeOK
    <2> QED
      BY <2>1, <2>2, <2>3, <2>4, IdleRefines
  <1> QED
    BY <1>1, <1>2, <1>3, <1>4, <1>5, InstallRefines, BusyRefines DEF Next, Step

\* The commands together keep the contract of the installation: what one of them has
\* installed no other fetches again, and none is served before its binary is there.
THEOREM Refinement == Spec => InstallationSpec
  <1> QED
    BY InitRefines, StepRefines, SelectionsHold, PTL DEF Spec, InstallationSpec, Installation!Spec
=============================================================================

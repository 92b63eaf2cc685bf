--------------------------- MODULE VersionCommands ---------------------------
(***************************************************************************)
(* Which version do the commands run, and which one do they remember?      *)
(* Invocations of "func-e run", "which" and "use", and of api.Run, with    *)
(* EnvoyVersion or without, share two version files, the directory of      *)
(* installed versions and the remote list of releases.  A command may be   *)
(* given a custom binary, with $ENVOY_PATH or api.EnvoyPath.               *)
(* A file holds a version, or "" (None); an invalid text is Garbage and a  *)
(* missing file, or a variable that is not set, is Absent.  Minor versions *)
(* have two digits and patches one, which matters when texts are overlaid. *)
(***************************************************************************)
EXTENDS Versions, FiniteSets

CONSTANTS
  Invocations,  \* the func-e processes, one command each
  Commands,     \* the commands they may be: name, version, is a path given?
  Environment,  \* the values of $ENVOY_VERSION
  ProjectFiles, \* what $PWD/.envoy-version may contain at first
  Releases      \* every release the remote list may come to have

Absent == [minor |-> -2, debug |-> FALSE, patch |-> 0]
Garbage == [minor |-> -3, debug |-> FALSE, patch |-> 0]
Dev == [minor |-> -4, debug |-> FALSE, patch |-> 0]
DevLatest == [minor |-> -4, debug |-> FALSE, patch |-> 1]

\* What NewVersion accepts: releases and minor versions, that exist or not.
Names == [minor : {r.minor : r \in Releases}, debug : BOOLEAN,
          patch : {r.patch : r \in Releases} \cup {NoPatch}]
Minors == {v \in Names : v.patch = NoPatch}
Selections == Names \cup {Dev, DevLatest}
Texts == Selections \cup {Absent, Garbage, None}

ASSUME ReleasesAssumption ==
  Releases \subseteq [minor : Nat, debug : BOOLEAN, patch : Nat] /\ IsFiniteSet(Releases)
ASSUME CommandsAssumption ==
  Commands \subseteq [name : {"run", "which", "use", "api"},
                      version : Selections \cup {None}, path : BOOLEAN]
ASSUME EnvironmentAssumption == Environment \subseteq Texts
ASSUME ProjectFilesAssumption == ProjectFiles \subseteq Texts

VARIABLES
  projectFile,  \* $PWD/.envoy-version
  homeFile,     \* $FUNC_E_CONFIG_HOME/envoy-version
  remote,       \* the releases for this platform in the remote list
  dirs,         \* the versions with a directory in envoy-versions
  bins,         \* those whose bin/envoy is there
  pc,           \* where each invocation is
  command,      \* what it was asked to do
  selected,     \* the version it read, or was given
  version,      \* o.EnvoyVersion
  target,       \* the file it writes: "project" or "home"
  outcome,      \* how it ended
  ran,          \* history: the versions of the commands that succeeded
  before        \* history: ran, at the time of each invocation's lookup

files == <<projectFile, homeFile>>
disk == <<files, dirs, bins>>
history == <<ran, before>>
vars == <<disk, remote, pc, command, selected, version, target, outcome, history>>

Labels == {"begin", "project", "home", "ensure", "fallback", "latest", "stat",
           "truncate", "write", "install", "list", "fetch", "verify", "over"}

TypeOK ==
  /\ projectFile \in Texts /\ homeFile \in Texts
  /\ remote \subseteq Releases
  /\ bins \subseteq dirs /\ dirs \subseteq Releases \cup {Dev}
  /\ pc \in [Invocations -> Labels]
  /\ command \in [Invocations -> Commands]
  /\ selected \in [Invocations -> Selections \cup {None}]
  /\ version \in [Invocations -> Selections \cup {None}]
  /\ target \in [Invocations -> {"project", "home"}]
  /\ outcome \in [Invocations -> {"none", "ok", "custom", "error"}]
  /\ ran \subseteq dirs
  /\ before \in [Invocations -> SUBSET (Releases \cup {Dev})]

Init ==
  /\ projectFile \in ProjectFiles /\ homeFile = Absent
  /\ remote \in SUBSET Releases
  /\ bins \in SUBSET remote /\ dirs = bins
  /\ pc = [i \in Invocations |-> "begin"]
  /\ command \in [Invocations -> Commands]
  /\ selected = [i \in Invocations |-> None]
  /\ version = [i \in Invocations |-> None]
  /\ target = [i \in Invocations |-> "home"]
  /\ outcome = [i \in Invocations |-> "none"]
  /\ ran = {} /\ before = [i \in Invocations |-> {}]

At(i, label) == pc[i] = label
Goto(i, label) == pc' = [pc EXCEPT ![i] = label] /\ UNCHANGED outcome
End(i, how) ==
  /\ pc' = [pc EXCEPT ![i] = "over"]
  /\ outcome' = [outcome EXCEPT ![i] = how]

FaultDevLatestDirectory(i) == version[i]

\* dev-latest is installed as dev.
Installing(i) == IF version[i] = DevLatest THEN Dev ELSE version[i]

Succeed(i) == End(i, "ok") /\ ran' = ran \cup {Installing(i)}

-----------------------------------------------------------------------------
(* CurrentVersion: the environment, the project's file, the home's file.   *)

Select(i, v) ==
  /\ selected' = [selected EXCEPT ![i] = v]
  /\ Goto(i, IF v \in Minors THEN "ensure" ELSE "install")
  /\ version' = [version EXCEPT ![i] = IF v \in Minors THEN None ELSE v]

\* version.NewVersion of what was read.
Parse(i, text) ==
  IF text \in Selections THEN Select(i, text)
  ELSE End(i, "error") /\ UNCHANGED <<selected, version>>

\* EnsureEnvoyVersion: a version given through the API is taken as it is.
Given(i) == command[i].name = "api" /\ command[i].version # None

\* With a path to a binary run and api.Run have all they need.  "use" is given its
\* version, and api.Run may be, without resolving it; the others look where
\* CurrentVersion does.
Begin(i) ==
  /\ At(i, "begin")
  /\ CASE command[i].path /\ command[i].name \in {"run", "api"} ->
            End(i, "custom") /\ UNCHANGED <<selected, version>>
       [] command[i].name = "use" -> Select(i, command[i].version)
       [] Given(i) /\ ~command[i].path ->
            /\ selected' = [selected EXCEPT ![i] = command[i].version]
            /\ version' = [version EXCEPT ![i] = command[i].version]
            /\ Goto(i, "install")
       [] \/ command[i].name = "which"
          \/ command[i].name \in {"run", "api"} /\ ~Given(i) /\ ~command[i].path ->
            \E text \in Environment :
              IF text = Absent
                THEN Goto(i, "project") /\ UNCHANGED <<selected, version>>
                ELSE Parse(i, text)
  /\ UNCHANGED <<disk, remote, command, target, history>>

ProjectFileRead(i, emptyIsMissing) ==
  /\ At(i, "project")
  /\ IF projectFile = Absent \/ (emptyIsMissing /\ projectFile = None)
       THEN Goto(i, "home") /\ UNCHANGED <<selected, version>>
       ELSE Parse(i, projectFile)
  /\ UNCHANGED <<disk, remote, command, target, history>>

FaultEmptyProjectFile(i) == ProjectFileRead(i, TRUE)

ReadProjectFile(i) == ProjectFileRead(i, FALSE)

\* Without a version file, or with an empty one, this is the first run.
ReadHomeFile(i) ==
  /\ At(i, "home")
  /\ IF homeFile \in {Absent, None}
       THEN Goto(i, "latest") /\ UNCHANGED <<selected, version>>
       ELSE Parse(i, homeFile)
  /\ UNCHANGED <<disk, remote, command, target, history>>

-----------------------------------------------------------------------------
(* EnsurePatchVersion, and setEnvoyVersion of a first run.                 *)

ListUnavailable(i) ==
  /\ At(i, "latest") \/ At(i, "list")
  /\ End(i, "error")
  /\ UNCHANGED <<disk, remote, command, selected, version, target, history>>

Resolved(i, found, otherwise) ==
  /\ version' = [version EXCEPT ![i] = found]
  /\ IF found # None THEN Goto(i, "install") ELSE otherwise
  /\ UNCHANGED <<disk, remote, command, selected, target, ran>>

\* A plausible slip: the first patch in the list's order.
FaultFirstPatch(i) ==
  /\ At(i, "ensure")
  /\ before' = [before EXCEPT ![i] = ran]
  /\ \E found \in {r \in remote : ToMinor(r) = selected[i]} :
       Resolved(i, found, Goto(i, "fallback"))

\* The latest patch in the remote list, unless there is none or no list.
EnsurePatchVersion(i) ==
  /\ At(i, "ensure")
  /\ before' = [before EXCEPT ![i] = ran]
  /\ \E list \in {remote, {}} :
       Resolved(i, FindLatestPatchVersion(SetToSeq(list), selected[i]), Goto(i, "fallback"))

\* getInstalledVersions: every directory named like a version.
Fallback(i) ==
  /\ At(i, "fallback")
  /\ Resolved(i, FindLatestPatchVersion(SetToSeq(dirs \ {Dev}), selected[i]), End(i, "error"))
  /\ UNCHANGED before

FirstRun(i) ==
  /\ At(i, "latest")
  /\ LET found == FindLatestVersion(SetToSeq(remote))
     IN  /\ version' = [version EXCEPT ![i] = found]
         /\ IF found # None THEN Goto(i, "stat") ELSE End(i, "error")
  /\ UNCHANGED <<disk, remote, command, selected, target, history>>

-----------------------------------------------------------------------------
(* WriteCurrentVersion: os.WriteFile truncates the file, then writes it.   *)

\* use keeps the precision of its argument, a first run remembers the minor.
Remembered(i) ==
  IF command[i].name # "use" THEN ToMinor(version[i])
  ELSE IF selected[i] = DevLatest THEN Dev ELSE selected[i]

StatProjectFile(i) ==
  /\ At(i, "stat")
  /\ target' = [target EXCEPT ![i] = IF projectFile = Absent THEN "home" ELSE "project"]
  /\ Goto(i, "truncate")
  /\ UNCHANGED <<disk, remote, command, selected, version, history>>

Exact(text) == text \in Selections \ Minors
Width(v) == IF v = Dev THEN 3
            ELSE 4 + (IF v.patch = NoPatch THEN 0 ELSE 2) + (IF v.debug THEN 6 ELSE 0)

\* A write that finds the text of another process overwrites the beginning of it:
\* "1.20" over "1.21.3" leaves "1.20.3".
Overlay(text, old) ==
  IF old = None THEN {text}
  ELSE IF old = Garbage THEN {text, Garbage}
  ELSE IF Width(text) >= Width(old) THEN {text}
  ELSE IF text \in Minors /\ ~text.debug /\ old # Dev
    THEN {[old EXCEPT !.minor = text.minor]}
  ELSE IF text # Dev /\ ~text.debug /\ old \notin Minors \cup {Dev}
    THEN {[text EXCEPT !.debug = TRUE]}
  ELSE {Garbage}

Put(i, text) ==
  IF target[i] = "home" THEN homeFile' = text /\ UNCHANGED projectFile
                        ELSE projectFile' = text /\ UNCHANGED homeFile

Truncate(i) ==
  /\ At(i, "truncate")
  /\ Put(i, None)
  /\ Goto(i, "write")
  /\ UNCHANGED <<dirs, bins, remote, command, selected, version, target, history>>

Wrote(i, text) ==
  /\ At(i, "write")
  /\ \E new \in Overlay(text, IF target[i] = "home" THEN homeFile ELSE projectFile) :
       Put(i, new)
  /\ IF command[i].name = "use" THEN Succeed(i) ELSE Goto(i, "install") /\ UNCHANGED ran
  /\ UNCHANGED <<dirs, bins, remote, command, selected, version, target, before>>

FaultDevLatestRemembered(i) ==
  Wrote(i, IF command[i].name # "use" THEN ToMinor(version[i]) ELSE selected[i])

Write(i) == Wrote(i, Remembered(i))

-----------------------------------------------------------------------------
(* InstallIfNeeded, in module Install in detail.                           *)

InstallOrSkip(i, present) ==
  /\ At(i, "install")
  /\ Goto(i, IF present /\ version[i] # DevLatest THEN "verify" ELSE "list")
  /\ UNCHANGED <<disk, remote, command, selected, version, target, history>>

FaultDirectoryIsEnough(i) == InstallOrSkip(i, Installing(i) \in dirs)

\* Is bin/envoy there?
Install(i) == InstallOrSkip(i, Installing(i) \in bins)

\* The list has the version, or not; there may be a nightly build, or none, and
\* dev-latest may find that the one installed is the one on offer.
FindInList(i) ==
  /\ At(i, "list")
  /\ \/ /\ version[i] \in remote \cup {Dev, DevLatest}
        /\ dirs' = dirs \cup {Installing(i)}
        /\ Goto(i, "fetch")
     \/ /\ version[i] \notin remote
        /\ End(i, "error") /\ UNCHANGED dirs
     \/ /\ version[i] = DevLatest /\ Dev \in bins
        /\ Goto(i, "verify") /\ UNCHANGED dirs
  /\ UNCHANGED <<files, bins, remote, command, selected, version, target, history>>

\* The tarball is extracted, wholly or until the invocation breaks off.  One that
\* has another layout than releases have leaves no bin/envoy.
Extract(i) ==
  /\ At(i, "fetch")
  /\ bins' \in {bins, bins \cup {Installing(i)}}
  /\ pc' \in {[pc EXCEPT ![i] = next] : next \in {"fetch", "verify"}}
  /\ UNCHANGED <<files, dirs, remote, command, selected, version, target, outcome, history>>

Verified(i, present) ==
  /\ At(i, "verify")
  /\ IF ~present THEN End(i, "error") /\ UNCHANGED ran
     ELSE IF command[i].name = "use" THEN Goto(i, "stat") /\ UNCHANGED ran
     ELSE Succeed(i)
  /\ UNCHANGED <<disk, remote, command, selected, version, target, before>>

FaultNotVerified(i) == Verified(i, TRUE)

\* verifyEnvoy: is bin/envoy there, and executable?
Verify(i) == Verified(i, Installing(i) \in bins)

-----------------------------------------------------------------------------

\* The process is killed, or the download or the write fails.
BreakOff(i) ==
  /\ pc[i] \notin {"begin", "over"}
  /\ End(i, "error")
  /\ UNCHANGED <<disk, remote, command, selected, version, target, history>>

\* Releases are added to the remote list, and never taken back.
Publish(r) ==
  /\ r \notin remote
  /\ remote' = remote \cup {r}
  /\ UNCHANGED <<disk, pc, command, selected, version, target, outcome, history>>

Step(i) ==
  \/ Begin(i) \/ ReadProjectFile(i) \/ ReadHomeFile(i)
  \/ ListUnavailable(i) \/ EnsurePatchVersion(i) \/ Fallback(i) \/ FirstRun(i)
  \/ StatProjectFile(i) \/ Truncate(i) \/ Write(i)
  \/ Install(i) \/ FindInList(i) \/ Extract(i) \/ Verify(i)

AllOver == (\A i \in Invocations : At(i, "over")) /\ UNCHANGED vars

Next ==
  \/ \E i \in Invocations : Step(i) \/ BreakOff(i)
  \/ \E r \in Releases : Publish(r)
  \/ AllOver

Spec == Init /\ [][Next]_vars

-----------------------------------------------------------------------------

\* A file that was empty comes to name an exact version only once the binary of
\* that version is installed, whoever writes it and whatever other commands do in
\* the meantime: use installs before it writes, and a first run writes a minor
\* version only (use.go:56-65, runtime/run.go:103-104).
RememberedIsInstalled ==
  [][/\ projectFile = None /\ Exact(projectFile') => projectFile' \in bins
     /\ homeFile = None /\ Exact(homeFile') => homeFile' \in bins]_vars

\* Only "use" touches a project's .envoy-version.  A run that finds one emptied
\* by a use in progress fails; it does not take it for a first run and
\* overwrite it (version.go:44-51, 63-70).
ProjectFileOnlyByUse ==
  [][projectFile' # projectFile =>
       \E i \in Invocations : command[i].name = "use" /\ pc[i] \in {"truncate", "write"}]_vars

\* Following a minor version never goes back: a command that looks it up after
\* another has succeeded does not choose a lower patch, with the list or, when
\* it is unavailable, with what is installed (runtime/run.go:21-51).
NoDowngrade ==
  \A i \in Invocations :
    selected[i] \in Minors /\ ~Given(i) /\ version[i] # None =>
      \A v \in before[i] : ToMinor(v) = selected[i] => version[i].patch >= v.patch

\* A command that succeeds has its binary, and it is of the selected version:
\* the very one, a patch of the minor, or for a first run no debug build.
SuccessRunsSelection ==
  \A i \in Invocations :
    outcome[i] = "ok" =>
      /\ Installing(i) \in bins
      /\ CASE selected[i] \in Minors -> ToMinor(version[i]) = selected[i]
           [] selected[i] = None -> version[i] \in Releases /\ ~version[i].debug
           [] OTHER -> version[i] = selected[i]

-----------------------------------------------------------------------------
(* Refinement *)

stageBar ==
  [i \in Invocations |->
    IF pc[i] \in {"fetch", "verify"} THEN pc[i]
    ELSE IF pc[i] = "list" THEN "look" ELSE "idle"]

\* "use" is served before it writes, run and which at their end.
servedBar ==
  {i \in Invocations :
     outcome[i] = "ok" \/ (command[i].name = "use" /\ pc[i] \in {"stat", "truncate", "write"})}

Installation == INSTANCE InstallContract WITH
  Callers <- Invocations, Builds <- Selections \cup {None},
  stage <- stageBar,
  asked <- [i \in Invocations |->
             IF stageBar[i] = "idle" THEN {}
             ELSE {[build |-> Installing(i), newest |-> version[i] = DevLatest]}],
  served <- servedBar

\* The commands together use and keep the contract that Install implements.
InstallationSpec == Installation!Spec
=============================================================================

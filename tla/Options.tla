------------------------------ MODULE Options ------------------------------
(***************************************************************************)
(* From what its caller asks for to the directories of a run: the command  *)
(* line (internal/cmd/app.go) and the API (api/run.go, internal/run) both  *)
(* end in InitializeGlobalOpts (internal/runtime/opts.go), which decides   *)
(* between the legacy layout, one home for everything, and the one of four *)
(* independent homes (internal/globals/paths.go).                          *)
(* A path is a sequence of names, after the root if it is absolute.        *)
(***************************************************************************)
EXTENDS Sequences, SequencesExt

Homes == {"config", "data", "state", "runtime"}

Root == "/"
Unset == <<>>
Cwd == <<Root, "cwd">>
Abs(path) == IF path # Unset /\ Head(path) = Root THEN path ELSE Cwd \o path

Defaults ==
  [config |-> <<Root, "home", ".config", "func-e">>,
   data |-> <<Root, "home", ".local", "share", "func-e">>,
   state |-> <<Root, "home", ".local", "state", "func-e">>,
   runtime |-> <<Root, "tmp", "func-e-uid">>]

NoRunID == ""
BadRunID == "has/separator"

-----------------------------------------------------------------------------
(* InitializeGlobalOpts.                                                   *)

\* Does the system know the user, and a home directory of theirs?
Users == {"homed", "homeless", "unknown"}

\* What user.Current() fails for: not a path.
Failed == <<"unknown">>

\* A user without a home directory gets no path and no error; the default
\* runtime directory depends on the user's number only.
getHome(home, given, user) ==
  IF given # Unset THEN Abs(given)
  ELSE IF user = "unknown" THEN Failed
  ELSE IF user = "homed" \/ home = "runtime" THEN Defaults[home] ELSE Unset

GenerateRunID(legacy) == IF legacy THEN "nanoseconds" ELSE "timestamp"

\* What the API has put into a home stays as it is; a legacy home wins over both.
\* Mkdirs refuses an empty path, and looks at the homes of configuration and data.
InitializeGlobalOpts(preset, homeDir, given, runID, user) ==
  LET legacy == homeDir # Unset
      dir == [h \in Homes |-> IF legacy THEN Abs(homeDir)
                              ELSE IF preset[h] # Unset THEN preset[h]
                              ELSE getHome(h, given[h], user)]
  IN  [ok |-> /\ \A h \in Homes : dir[h] # Failed
              /\ runID # BadRunID /\ Unset \notin {dir.config, dir.data},
       legacy |-> legacy, dir |-> dir,
       runID |-> IF runID = NoRunID THEN GenerateRunID(legacy) ELSE runID]

-----------------------------------------------------------------------------
(* The two front ends.  An option is a name, "home" or that of one of the  *)
(* homes, and its value; of several with one name the last counts.         *)

NoHomes == [h \in Homes |-> Unset]

\* api.HomeDir sets all the homes, at its place among the options.
Applied(options) ==
  FoldLeft(LAMBDA ro, option :
             [h \in Homes |-> IF option.name \in {"home", h} THEN option.value ELSE ro[h]],
           NoHomes, options)

FaultTwoHomesAreLegacy(options, runID, user) ==
  LET ro == Applied(options)
  IN  InitializeGlobalOpts(
        ro, IF ro.config = ro.data THEN ro.config ELSE Unset, ro, runID, user)

\* Four homes that are the same text are taken for a legacy home.
initOpts(options, runID, user) ==
  LET ro == Applied(options)
      homeDir == IF \A h \in Homes : ro[h] = ro.config THEN ro.config ELSE Unset
  IN  InitializeGlobalOpts(ro, homeDir, ro, runID, user)

\* The flags of the command line, whose destinations are empty at first.
NewApp(options, runID, user) ==
  LET flag(name) == FoldLeft(LAMBDA value, option :
                               IF option.name = name THEN option.value ELSE value,
                             Unset, options)
  IN  InitializeGlobalOpts(
        NoHomes, flag("home"), [h \in Homes |-> flag(h)], runID, user)

-----------------------------------------------------------------------------
(* The layouts.                                                            *)

EnvoyVersionsDir(o) ==
  Append(o.dir.data, IF o.legacy THEN "versions" ELSE "envoy-versions")

EnvoyVersionFile(o) ==
  IF o.legacy THEN Append(o.dir.data, "version") ELSE Append(o.dir.config, "envoy-version")

EnvoyRunDir(o, runID) ==
  o.dir.state \o <<IF o.legacy THEN "runs" ELSE "envoy-runs", runID>>

FaultRuntimeDirIsShared(o, runID) ==
  IF o.legacy THEN o.dir.runtime \o <<"runs", runID>> ELSE o.dir.runtime

EnvoyRuntimeDir(o, runID) ==
  o.dir.runtime \o (IF o.legacy THEN <<"runs", runID>> ELSE <<runID>>)
=============================================================================

---------------------------- MODULE MCAlgorithms ----------------------------
(***************************************************************************)
(* The parts of func-e that only compute, against what their results are   *)
(* for: the searches over versions, the arguments of Envoy, the options of *)
(* a run and the list of versions.  A behaviour picks one of them and its  *)
(* input, a list, grows by one element at a time up to a bound.            *)
(***************************************************************************)
EXTENDS Versions, AdminArgs, Options, VersionList

CONSTANTS
  Kinds,        \* those to check
  MaxVersions,  \* bound: versions searched
  MaxArguments, \* bound: arguments of Envoy
  MaxOptions,   \* bound: options of a run
  MaxEntries,   \* bound: directories and releases to list
  Offsets       \* the hours by which local time is ahead of UTC

ASSUME OffsetsAssumption == Offsets \subseteq Int

VARIABLES kind, input

vars == <<kind, input>>

Grow(k, bound, element) ==
  /\ kind = k /\ Len(input) < bound
  /\ input' = Append(input, element)
  /\ UNCHANGED kind

-----------------------------------------------------------------------------
(* Searches over versions. *)

Releases == [minor : {18, 20, 21}, debug : BOOLEAN, patch : {0, 9, 10}]

AddVersion == \E v \in Releases : Grow("versions", MaxVersions, v)

LatestPatchIsHighest ==
  \A m \in {ToMinor(v) : v \in Releases} :
    LET found == FindLatestPatchVersion(input, m)
        candidates == {v \in ToSet(input) : ToMinor(v) = m}
    IN  IF candidates = {} THEN found = None
        ELSE found \in candidates /\ \A v \in candidates : found.patch >= v.patch

LatestIsNewest ==
  LET found == FindLatestVersion(input)
      candidates == {v \in ToSet(input) : ~v.debug}
  IN  IF candidates = {} THEN found = None
      ELSE /\ found \in candidates
           /\ \A v \in candidates :
                v.minor < found.minor \/ (v.minor = found.minor /\ v.patch <= found.patch)

\* Whatever the order of the list: the search for the latest patch finds one
\* exactly when the minor version has one, and none is higher; and while minor
\* versions have two digits, as version.go:155 says, the comparison of texts finds
\* the newest release that is no debug build (version.go:131-163).
SearchesFindLatest == kind = "versions" => LatestPatchIsHighest /\ LatestIsNewest

-----------------------------------------------------------------------------
(* The arguments of Envoy. *)

RunId == <<"42">>
Words == {<<"admin">>, <<"plain">>}
Arguments ==
  Words \cup {Separator, Empty, <<"-c">>, <<YamlFlag>>, <<AddressFlag>>, <<RunIdFlag>>,
              <<YamlFlag, "plain">>, <<AddressFlag, "plain">>, <<"--config-path", "">>}

AddArgument == \E arg \in Arguments : Grow("arguments", MaxArguments, arg)

Result == ensureAdminAddress(input)

\* Before the separator every flag has a value, and no value is empty.
WellFormed ==
  LET envoyArgs == Region(input, FALSE)
      flags == PathFlags \cup {YamlFlag, AddressFlag}
  IN  \A i \in DOMAIN envoyArgs :
        /\ IsFlag(envoyArgs[i], flags) =>
             i < Len(envoyArgs) /\ envoyArgs[i + 1] \in Words
        /\ IsJoined(envoyArgs[i], flags) => Joined(envoyArgs[i]) # Empty

\* Another process finds in the command line of every Envoy that Run starts the
\* identifier of the run, and the path of the admin address that Run polls and
\* Envoy uses, whatever the user's arguments are, separators and tags of their own
\* included (envoy/run.go:24-33, runtime.go:86-151, admin.go:268-305).
TagsAreFound ==
  kind = "arguments" /\ Result.ok =>
    LET cmdline == CommandLine(Result.args, RunId)
    IN  /\ extractRunID(cmdline) = RunId
        /\ WellFormed /\ Result.path # NoValue => extractAdminAddressPath(cmdline) = Result.path

\* An Envoy with a readable configuration gets an admin server, its own or an
\* ephemeral one, on its side of a separator (runtime.go:137-144).
AdminServerConfigured ==
  kind = "arguments" /\ WellFormed /\ Result.path # NoValue
    /\ FindAdminAddressFromArgs(input) # "error" =>
      FindAdminAddressFromArgs(Result.args) = "found"

\* The file Envoy is configured from is the user's, and so is everything else if
\* it has an admin server, in the file or inline.  Without one the ephemeral
\* --config-yaml comes last and replaces the user's (config.go:139-166).
UserConfigIsKept ==
  kind = "arguments" =>
    LET before == Sources(input)
        after == Sources(Result.args)
    IN  WellFormed =>
          /\ after.path = before.path
          /\ HasAdmin(before.path) \/ HasAdmin(before.yaml) => after = before

-----------------------------------------------------------------------------
(* The options of a run. *)

X == <<Root, "x">>
Relative == <<"x">>
RunIDs == {NoRunID, BadRunID, "mine"}

AddOption ==
  \E name \in Homes \cup {"home"}, value \in {X, <<Root, "y">>, Relative} :
    Grow("options", MaxOptions, [name |-> name, value |-> value])

Named(names) == {option \in ToSet(input) : option.name \in names}

\* The same options give the same directories, layout and identifier on the
\* command line and through the API, but where the API is known to differ: it
\* keeps relative homes as they are, takes four equal homes for a legacy one, and
\* lets an option after HomeDir replace part of it (run.go:65-73, opts.go:32-64).
FrontEndsAgree ==
  kind = "options" =>
    \A runID \in RunIDs, user \in Users :
      LET viaAPI == initOpts(input, runID, user)
          viaFlags == NewApp(input, runID, user)
          legacy == Named({"home"}) # {}
          separate == Named(Homes)
      IN  /\ separate = {} => viaAPI = viaFlags
          /\ ~legacy /\ viaAPI # viaFlags =>
               \/ \E option \in separate : Abs(option.value) # option.value
               \/ viaAPI.legacy /\ {option.name : option \in separate} = Homes
          /\ viaAPI.legacy => \A h \in Homes : viaAPI.dir[h] = viaAPI.dir["config"]

\* Run directories of runs with different identifiers, each with either front end
\* and so perhaps with another layout, are apart from each other, and from the
\* versions and the version file that the runs share (paths.go:16-62).
RunsAreApart ==
  kind = "options" =>
    \A user \in Users :
      LET both == {initOpts(input, NoRunID, user), NewApp(input, NoRunID, user)}
          Dirs(o, id) == {Abs(EnvoyRunDir(o, id)), Abs(EnvoyRuntimeDir(o, id))}
          Shared(o) == {Abs(EnvoyVersionsDir(o)), Abs(EnvoyVersionFile(o))}
      IN  \A o1, o2 \in both : o1.ok /\ o2.ok =>
            \A d \in Dirs(o1, "1"), other \in Dirs(o2, "2") \cup Shared(o2) :
              ~IsPrefix(d, other) /\ ~IsPrefix(other, d)

-----------------------------------------------------------------------------
(* The list of versions. *)

Listed == {[minor |-> 20, debug |-> FALSE, patch |-> 9],
           [minor |-> 20, debug |-> FALSE, patch |-> 10],
           [minor |-> 21, debug |-> TRUE, patch |-> 9]}

\* The release date of a directory, installed by InstallIfNeeded, or of a release
\* on offer, which may be for another platform and whose date may be no date (0).
Entries ==
  [at : {"directory"}, version : Listed, releaseDate : {1, 2}, forPlatform : {TRUE}]
  \cup [at : {"offer"}, version : Listed, releaseDate : {0, 1, 2}, forPlatform : BOOLEAN]

AddEntry ==
  \E e \in Entries :
    /\ kind = "list"
    /\ \A i \in DOMAIN input : <<input[i].at, input[i].version>> # <<e.at, e.version>>
    /\ Grow("list", MaxEntries, e)

At(place) == {e \in ToSet(input) : e.at = place}

Command(all, current, offset) ==
  NewVersionsCmd({[version |-> e.version, mtime |-> Midnight(e.releaseDate)] :
                    e \in At("directory")},
                 At("offer"), all, current, offset)

\* Every installed version and, if asked for, every one on offer for the platform
\* is listed, each once; the newest dates come first, and of one date the higher
\* version as far as patches have as many digits; only the current version is
\* marked (versions.go:35-83, 93-130).
VersionsAreListed ==
  kind = "list" =>
    \A all \in BOOLEAN, current \in Listed \cup {None}, offset \in Offsets :
      LET result == Command(all, current, offset)
          rows == result.rows
          offered == {e \in At("offer") : all /\ e.forPlatform}
      IN  result.ok =>
            /\ {rows[i].version : i \in DOMAIN rows} =
                 {e.version : e \in At("directory") \cup offered}
            /\ \A i \in DOMAIN rows : rows[i].marked <=> rows[i].version = current
            /\ \A i, j \in DOMAIN rows : i < j =>
                 /\ rows[i].version # rows[j].version
                 /\ rows[i].releaseDate >= rows[j].releaseDate
                 /\ rows[i].releaseDate = rows[j].releaseDate =>
                      \/ rows[i].version.minor > rows[j].version.minor
                      \/ Len(Digits(rows[i].version.patch)) # Len(Digits(rows[j].version.patch))
                      \/ rows[i].version.patch > rows[j].version.patch

\* internal/envoy/install.go:92, of the date it gives the directory: "overwrite the
\* mtime to preserve it in the list".
ReleaseDateIsListed ==
  kind = "list" =>
    \A offset \in Offsets :
      LET rows == Command(FALSE, None, offset).rows
      IN  \A e \in At("directory") : \E i \in DOMAIN rows :
            rows[i].version = e.version /\ rows[i].releaseDate = e.releaseDate

WestOfGreenwich == {-5}

-----------------------------------------------------------------------------

Init == kind \in Kinds /\ input = <<>>

Next == AddVersion \/ AddArgument \/ AddOption \/ AddEntry

Spec == Init /\ [][Next]_vars
=============================================================================

---------------------------- MODULE VersionList ----------------------------
(***************************************************************************)
(* What "func-e versions" prints (internal/cmd/versions.go): the installed *)
(* patch versions, each with the date of its directory, and with --all     *)
(* those on offer for the platform.  Dates are days, instants are hours.   *)
(***************************************************************************)
EXTENDS Versions

\* InstallIfNeeded gives a directory the first hour, in UTC, of the release date.
Midnight(day) == 24 * day

\* ModTime is in the zone of the machine, and so is the day Format prints.
Format(instant, offset) == (instant + offset) \div 24

\* Directories that are named like a patch version, with or without a binary.
getInstalledVersions(directories, offset) ==
  {[version |-> d.version, releaseDate |-> Format(d.mtime, offset)] : d \in directories}

FaultRemoteRepeated(rows, remote) == rows \cup remote

\* What is installed is listed as it is installed.
addAvailableVersions(rows, remote) ==
  rows \cup {r \in remote : r.version \notin {row.version : row \in rows}}

\* Versions are compared as texts: "." is less than a digit, "_" is greater.
Text(v) ==
  Digits(v.minor) \o <<-1>> \o Digits(v.patch) \o (IF v.debug THEN <<10>> ELSE <<>>)

FaultOldestFirst(a, b) ==
  IF a.releaseDate = b.releaseDate THEN LexGreater(Text(a.version), Text(b.version))
                                   ELSE a.releaseDate < b.releaseDate

Before(a, b) ==
  IF a.releaseDate = b.releaseDate THEN LexGreater(Text(a.version), Text(b.version))
                                   ELSE a.releaseDate > b.releaseDate

\* sort.Slice: no two rows have the same version, so there is one order.
SortRows(rows) ==
  CHOOSE sorted \in [1..Cardinality(rows) -> rows] :
    \A i, j \in DOMAIN sorted : i < j => Before(sorted[i], sorted[j])

\* An invalid release date is an error, but only for a version that is added.
\* Only a patch version can be marked as the current one.
NewVersionsCmd(directories, releases, all, current, offset) ==
  LET installed == getInstalledVersions(directories, offset)
      offered == {[version |-> r.version, releaseDate |-> r.releaseDate] :
                    r \in {x \in releases : all /\ x.forPlatform}}
      rows == addAvailableVersions(installed, offered)
  IN  [ok |-> \A row \in rows : row \in installed \/ row.releaseDate # 0,
       rows |-> LET sorted == SortRows(rows)
                IN  [i \in DOMAIN sorted |->
                      [version |-> sorted[i].version, releaseDate |-> sorted[i].releaseDate,
                       marked |-> sorted[i].version = current]]]
=============================================================================

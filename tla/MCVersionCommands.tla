-------------------------- MODULE MCVersionCommands --------------------------
(***************************************************************************)
(* VersionCommands under TLC, with what the repository says of versions    *)
(* where the code does something else.                                     *)
(***************************************************************************)
EXTENDS VersionCommands, TLC

MCSymmetry == Permutations(Invocations)

R(minor, patch) == [minor |-> minor, debug |-> FALSE, patch |-> patch]

MCReleases == {R(20, 0), R(20, 1), R(21, 1)}

Run == [name |-> "run", version |-> None, path |-> FALSE]
Use(v) == [name |-> "use", version |-> v, path |-> FALSE]
Api(v) == [name |-> "api", version |-> v, path |-> FALSE]
WithPath(c) == [c EXCEPT !.path = TRUE]
Which == [Run EXCEPT !.name = "which"]

MCCommands == {Run, WithPath(Run), WithPath(Which),
               Use(R(20, 0)), Use(R(20, NoPatch)), Use(DevLatest), Api(R(20, 1)), Api(None)}
MCEnvironment == {Absent, DevLatest, None}
MCProjectFiles == {Absent, None, R(20, NoPatch)}

\* For the claims: what they need, and no more.
MCApiMinor == {Api(R(20, NoPatch))}
MCNothingSet == {Absent}

\* api/run.go:100-101: EnvoyVersion is a version "in full version
\* major.minor.patch format ... or without patch component, major.minor".
MinorVersionIsFound ==
  [][\A i \in Invocations :
       FindInList(i) /\ outcome'[i] = "error" =>
         \A r \in remote : version[i] \notin {r, ToMinor(r)}]_vars
=============================================================================

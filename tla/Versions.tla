------------------------------ MODULE Versions ------------------------------
(***************************************************************************)
(* The versions of internal/version/version.go and the two searches over   *)
(* lists of them.  A release 1.<minor>.<patch>, with or without the suffix *)
(* _debug, is a record; its minor version has the patch NoPatch.  Lists    *)
(* come from Go maps and directories: nothing is known of their order.     *)
(***************************************************************************)
EXTENDS Integers, Sequences, SequencesExt

NoPatch == -1

\* The empty PatchVersion: no minor version, and zero for a patch.
None == [minor |-> -1, debug |-> FALSE, patch |-> 0]

ToMinor(v) == [v EXCEPT !.patch = NoPatch]

FaultStrictPatch(versions, minorVersion) ==
  FoldLeft(LAMBDA latest, v :
             IF ToMinor(v) = minorVersion /\ v.patch > latest.patch THEN v ELSE latest,
           None, versions)

\* The last of the highest patches of a minor version, None without any.
FindLatestPatchVersion(versions, minorVersion) ==
  FoldLeft(LAMBDA latest, v :
             IF ToMinor(v) = minorVersion /\ v.patch >= latest.patch THEN v ELSE latest,
           None, versions)

\* Minor versions are compared as strings: by their decimal digits.
Digits(n) == IF n < 0 THEN <<>> ELSE IF n < 10 THEN <<n>> ELSE <<n \div 10, n % 10>>

LexGreater(s, t) ==
  \E i \in DOMAIN s :
    /\ \A j \in 1 .. i - 1 : j \in DOMAIN t /\ s[j] = t[j]
    /\ i \in DOMAIN t => s[i] > t[i]

Newer(v, latest) ==
  \/ LexGreater(Digits(v.minor), Digits(latest.minor))
  \/ v.minor = latest.minor /\ v.patch > latest.patch

FaultPatchIgnoresMinor(versions) ==
  FoldLeft(LAMBDA latest, v :
             IF ~v.debug /\ (LexGreater(Digits(v.minor), Digits(latest.minor))
                             \/ v.patch > latest.patch) THEN v ELSE latest,
           None, versions)

\* The newest release that is not a debug build, None without any.
FindLatestVersion(versions) ==
  FoldLeft(LAMBDA latest, v : IF ~v.debug /\ Newer(v, latest) THEN v ELSE latest,
           None, versions)
=============================================================================

----------------------------- MODULE MCInstall -----------------------------
(***************************************************************************)
(* Install under TLC, with what the repository says of an installation     *)
(* where the code does something else.                                     *)
(***************************************************************************)
EXTENDS Install

\* internal/envoy/install.go:96 "%s is already downloaded": said of whatever an
\* interrupted extraction left behind.
AlreadyDownloaded ==
  \A p \in Procs :
    pc[p] = "verify" /\ want[p] = "release" /\ tarball[p] = NoTarball => Whole

\* internal/tar/tar.go:41: UntarAndVerify "is like Untar, except it errors if the
\* stream has a different signature than the given SHA-256"; this one has not.
DigestIsOfTheStream ==
  [][\A p \in Procs :
       pc[p] = "digest" /\ tarball[p].content # Corrupt /\ Digest(p) =>
         outcome'[p] # "error"]_vars
=============================================================================

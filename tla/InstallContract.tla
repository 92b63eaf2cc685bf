--------------------------- MODULE InstallContract ---------------------------
(***************************************************************************)
(* What an installation promises, whoever asks for it and however many do: *)
(* a binary that is there is never fetched again, unless the newest build  *)
(* is asked for; it appears in a directory that its installer has made,    *)
(* and stays; and nobody is served before it is there.  Install implements *)
(* this for one directory in all its steps, VersionCommands for every      *)
(* version, around the commands that ask.                                  *)
(***************************************************************************)

CONSTANTS
  Callers,  \* the processes that install
  Builds    \* the versions that have a directory of their own

VARIABLES
  dirs,     \* those whose directory is there
  bins,     \* those whose bin/envoy is there
  stage,    \* where each caller is
  asked,    \* what it asks for: {request}, or {} when it is idle
  served    \* the callers that were given the path of what they asked for last

vars == <<dirs, bins, stage, asked, served>>

Requests == [build : Builds, newest : BOOLEAN]

Init ==
  /\ dirs \subseteq Builds /\ bins \subseteq dirs
  /\ stage = [c \in Callers |-> "idle"]
  /\ asked = [c \in Callers |-> {}]
  /\ served = {}

Goto(c, s) == stage' = [stage EXCEPT ![c] = s]

\* Only the newest build is looked for although there is one.
Ask(c, request) ==
  /\ stage[c] = "idle"
  /\ asked' = [asked EXCEPT ![c] = {request}]
  /\ Goto(c, IF request.build \in bins /\ ~request.newest THEN "verify" ELSE "look")
  /\ served' = served \ {c}
  /\ UNCHANGED <<dirs, bins>>

IsNewest(c) ==
  /\ stage[c] = "look"
  /\ \E request \in asked[c] : request.newest /\ request.build \in bins
  /\ Goto(c, "verify")
  /\ UNCHANGED <<dirs, bins, asked, served>>

MakeDirectory(c) ==
  /\ stage[c] = "look"
  /\ \E request \in asked[c] : dirs' = dirs \cup {request.build}
  /\ Goto(c, "fetch")
  /\ UNCHANGED <<bins, asked, served>>

Fetch(c) ==
  /\ stage[c] = "fetch"
  /\ \E request \in asked[c] : bins' \in {bins, bins \cup {request.build}}
  /\ \E s \in {"fetch", "verify"} : Goto(c, s)
  /\ UNCHANGED <<dirs, asked, served>>

Ends(c) ==
  /\ Goto(c, "idle")
  /\ asked' = [asked EXCEPT ![c] = {}]
  /\ UNCHANGED <<dirs, bins>>

Serve(c) ==
  /\ stage[c] = "verify"
  /\ \E request \in asked[c] : request.build \in bins
  /\ Ends(c) /\ served' = served \cup {c}

Fail(c) == stage[c] # "idle" /\ Ends(c) /\ UNCHANGED served

\* A caller may fail at something else after it was served.
Forget(c) ==
  /\ stage[c] = "idle"
  /\ served' = served \ {c}
  /\ UNCHANGED <<dirs, bins, stage, asked>>

Next ==
  \E c \in Callers :
    \/ \E request \in Requests : Ask(c, request)
    \/ IsNewest(c) \/ MakeDirectory(c) \/ Fetch(c) \/ Serve(c) \/ Fail(c) \/ Forget(c)

Spec == Init /\ [][Next]_vars
=============================================================================

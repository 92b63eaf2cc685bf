------------------------ MODULE AdminDiscoveryProofs ------------------------
(***************************************************************************)
(* Proofs about AdminDiscovery, for any finite number of children and for  *)
(* any run identifiers.                                                    *)
(*                                                                         *)
(* A child is read long before it is chosen, and is never read again, so   *)
(* what was true of it then must be what cannot become false: it has been  *)
(* an Envoy, and its command line does not change.  That no Envoy is missed*)
(* needs the converse: one that was there at the listing and still is has  *)
(* either been read as an Envoy or is still to be read.                    *)
(***************************************************************************)
EXTENDS AdminDiscovery, FiniteSetTheorems, TLAPS

\* It has executed Envoy, which may have exited since.
WasEnvoy(c) == stage[c] \in {"envoy", "zombie", "gone"}

\* Whoever was read as an Envoy was one.
CandidatesInv == \A c \in candidates : WasEnvoy(c)

\* An Envoy that has been there all along is not passed over.
SteadyInv ==
  /\ \A c \in steady : stage[c] = "envoy"
  /\ pc = "read" => steady \subseteq listed \cup candidates

\* What was chosen is what was looked for.
FoundInv ==
  \A c \in found : (runID # AnyRun => tag[c] = runID) /\ hasPath[c] = TRUE /\ WasEnvoy(c)

IInv == TypeOK /\ CandidatesInv /\ SteadyInv /\ FoundInv

USE DEF vars, processes, poller

\* The poller's choice is one of the candidates, and one with an address.
LEMMA ChosenIsCandidate ==
  ASSUME selectEnvoyProcess
  PROVE  \/ found' = found
         \/ \E c \in candidates :
              found' = {c} /\ hasPath[c] /\ (runID # AnyRun => tag[c] = runID)
  <1>1. CASE runID # AnyRun
    <2>1. SelectRun
      BY <1>1 DEF selectEnvoyProcess, Selecting
    <2> QED
      BY <2>1 DEF SelectRun, Found, TryAgain
  <1>2. CASE runID = AnyRun
    BY <1>2 DEF selectEnvoyProcess, Selecting, Multiple, Found, TryAgain, Addressed
  <1> QED
    BY <1>1, <1>2

\* The choice ends the reading of command lines, and touches nothing else but the result.
LEMMA ChoiceFrame ==
  ASSUME selectEnvoyProcess
  PROVE  /\ pc = "read" /\ listed = {} /\ pc' \in {"wait", "address", "over"}
         /\ outcome' \in {outcome, "multiple"}
         /\ UNCHANGED <<processes, runID, ctx, listed, candidates, steady>>
  BY DEF selectEnvoyProcess, Selecting, SelectRun, Multiple, Found, TryAgain

-----------------------------------------------------------------------------

\* No child, tag or address is outside its type at first.
LEMMA TypeInit == Init => TypeOK
  BY DEF Init, TypeOK

\* No step of the poller or of a child leaves the types.
LEMMA TypeNext == TypeOK /\ [Next]_vars => TypeOK'
  <1> SUFFICES ASSUME TypeOK, [Next]_vars PROVE TypeOK'
    OBVIOUS
  <1> USE DEF TypeOK
  <1>1. CASE ListChildren \/ ListFails
    BY <1>1 DEF ListChildren, ListFails, Listing, Alive
  <1>2. CASE selectEnvoyProcess
    <2>1. found' \subseteq Children
      BY <1>2, ChosenIsCandidate
    <2> QED
      BY <1>2, <2>1, ChoiceFrame
  <1>3. CASE ReadAddress \/ TimesOut \/ ContextEnds
    BY <1>3 DEF ReadAddress, ReadAs, TimesOut, ContextEnds
  <1>4. ASSUME NEW c \in Children, ReadCmdline(c) PROVE TypeOK'
    BY <1>4 DEF ReadCmdline, ReadTaggedBy
  <1>5. ASSUME NEW c \in Children, Fork(c) \/ Exec(c) \/ Exit(c) \/ Reap(c) PROVE TypeOK'
    BY <1>5 DEF Fork, Exec, Exit, Reap, Becomes
  <1>6. ASSUME NEW c \in Children, WritesAddress(c) PROVE TypeOK'
    BY <1>6 DEF WritesAddress
  <1>7. CASE UNCHANGED vars
    BY <1>7
  <1> QED
    BY <1>1, <1>2, <1>3, <1>4, <1>5, <1>6, <1>7 DEF Next, Poll

\* A child that has become something else was not waited for, or was an Envoy and
\* has been one.
LEMMA ChildStep ==
  ASSUME IInv, TypeOK', NEW c \in Children, Fork(c) \/ Exec(c) \/ Exit(c) \/ Reap(c)
  PROVE  IInv'
  <1> USE DEF IInv
  <1>1. /\ \A d \in Children : WasEnvoy(d) => WasEnvoy(d)'
        /\ \A d \in Children \ {c} : stage'[d] = stage[d]
        /\ steady' = steady \ {c}
        /\ UNCHANGED <<tag, hasPath, address, poller>>
    BY DEF Fork, Exec, Exit, Reap, Becomes, WasEnvoy, TypeOK
  <1>2. CandidatesInv' /\ FoundInv'
    BY <1>1 DEF CandidatesInv, FoundInv, TypeOK
  <1>3. SteadyInv'
    BY <1>1 DEF SteadyInv, TypeOK
  <1> QED
    BY <1>2, <1>3

\* Each command line that is read decides about one child, and an Envoy is added.
LEMMA ReadStep ==
  ASSUME IInv, TypeOK', NEW c \in Children, ReadCmdline(c)
  PROVE  IInv'
  <1> USE DEF IInv, ReadCmdline, ReadTaggedBy
  <1>1. CandidatesInv' /\ FoundInv'
    BY DEF CandidatesInv, FoundInv, WasEnvoy, TypeOK
  <1>2. SteadyInv'
    BY DEF SteadyInv, TypeOK
  <1> QED
    BY <1>1, <1>2

\* The other steps of the poller.
LEMMA PollerStep ==
  ASSUME IInv, TypeOK',
         ListChildren \/ ListFails \/ selectEnvoyProcess \/ ReadAddress \/ TimesOut
           \/ ContextEnds
  PROVE  IInv'
  <1> USE DEF IInv
  <1>1. CASE ListChildren \/ ListFails
    <2>1. /\ candidates' = {} /\ steady' = {c \in Children : stage[c] = "envoy"}
          /\ pc' = "read" => listed' = Alive
          /\ UNCHANGED <<processes, runID, found>>
      BY <1>1 DEF ListChildren, ListFails, Listing
    <2>2. steady' \subseteq Alive
      BY <2>1 DEF Alive
    <2> QED
      BY <2>1, <2>2 DEF CandidatesInv, SteadyInv, FoundInv, WasEnvoy
  <1>2. CASE selectEnvoyProcess
    <2>1. pc' # "read" /\ UNCHANGED <<processes, runID, candidates, steady>>
      BY <1>2, ChoiceFrame
    <2>2. CandidatesInv' /\ SteadyInv'
      BY <2>1 DEF CandidatesInv, SteadyInv, WasEnvoy
    <2>3. FoundInv'
      BY <1>2, <2>1, ChosenIsCandidate DEF FoundInv, CandidatesInv, WasEnvoy, TypeOK
    <2> QED
      BY <2>2, <2>3
  <1>3. CASE ReadAddress \/ TimesOut \/ ContextEnds
    <2>1. /\ pc' \in {pc, "over"}
          /\ UNCHANGED <<processes, runID, listed, candidates, found, steady>>
      BY <1>3 DEF ReadAddress, ReadAs, TimesOut, ContextEnds
    <2> QED
      BY <2>1 DEF CandidatesInv, SteadyInv, FoundInv, WasEnvoy
  <1> QED
    BY <1>1, <1>2, <1>3

\* The invariant holds before anything has been looked at.
LEMMA InvInit == Init => IInv
  BY TypeInit DEF Init, IInv, CandidatesInv, SteadyInv, FoundInv

\* Every step keeps it.
LEMMA InvNext == IInv /\ [Next]_vars => IInv'
  <1> SUFFICES ASSUME IInv, [Next]_vars PROVE IInv'
    OBVIOUS
  <1>1. TypeOK'
    BY TypeNext DEF IInv
  <1>2. ASSUME NEW c \in Children, WritesAddress(c) PROVE IInv'
    <2>1. UNCHANGED <<stage, tag, hasPath, poller, steady>>
      BY <1>2 DEF WritesAddress
    <2> QED
      BY <1>1, <2>1 DEF IInv, CandidatesInv, SteadyInv, FoundInv, WasEnvoy
  <1>3. CASE UNCHANGED vars
    BY <1>1, <1>3 DEF IInv, CandidatesInv, SteadyInv, FoundInv, WasEnvoy
  <1> QED
    BY <1>1, <1>2, <1>3, ChildStep, ReadStep, PollerStep DEF Next, Poll

-----------------------------------------------------------------------------

\* The variables of the poller and of the children keep their types.
THEOREM TypeCorrect == Spec => []TypeOK
  <1> QED
    BY TypeInit, TypeNext, PTL DEF Spec

\* What has been listed, read and chosen keeps its relation to the processes.
THEOREM Invariance == Spec => []IInv
  <1> QED
    BY InvInit, InvNext, PTL DEF Spec

\* Whoever looks for a run is given an Envoy of that run that has an address,
\* whatever the children do between the listing, the reading and the choice.
THEOREM RightEnvoy == Spec => []FoundIsOfTheRun
  <1>1. IInv => FoundIsOfTheRun
    BY DEF IInv, FoundInv, FoundIsOfTheRun, WasEnvoy
  <1> QED
    BY <1>1, Invariance, PTL

\* A finite set with a subset of several elements has several.
LEMMA SeveralStaySeveral ==
  ASSUME NEW S, NEW T, IsFiniteSet(T), S \subseteq T, Cardinality(S) > 1
  PROVE  Cardinality(T) > 1
  BY FS_Subset, FS_CardinalityType

\* The poller cannot choose while two Envoys with an address are there from the
\* listing of the children to the choice: both were read, and both count.
THEOREM AmbiguityNoticed == Spec => AmbiguityIsReported
  <1>1. ASSUME IInv, [Next]_vars,
               pc = "read", pc' \in {"address", "over"}, runID = AnyRun,
               Cardinality({c \in steady : hasPath[c]}) > 1
        PROVE  outcome' = "multiple"
    <2>1. selectEnvoyProcess
      BY <1>1 DEF Next, Poll, ListChildren, ListFails, Listing, ReadAddress, ReadAs, TimesOut,
                  ContextEnds, ReadCmdline, ReadTaggedBy, Fork, Exec, Exit, Reap, Becomes,
                  WritesAddress
    <2>2. steady \subseteq candidates
      BY <1>1, <2>1, ChoiceFrame DEF IInv, SteadyInv
    <2>3. {c \in steady : hasPath[c]} \subseteq Addressed
      BY <2>2 DEF Addressed
    <2>4. IsFiniteSet(Addressed)
      BY <1>1, ChildrenAssumption, FS_Subset DEF Addressed, IInv, TypeOK
    <2>5. Cardinality(Addressed) > 1
      BY <1>1, <2>3, <2>4, SeveralStaySeveral
    <2> QED
      BY <1>1, <2>1, <2>5 DEF selectEnvoyProcess, Selecting, Multiple
  <1> QED
    BY <1>1, Invariance, PTL DEF Spec, AmbiguityIsReported
=============================================================================

--------------------------- MODULE AlgorithmsProofs ---------------------------
(***************************************************************************)
(* Proofs about the parts that only compute, for inputs of any length: the *)
(* bounds of MCAlgorithms are for TLC.  Each is a loop over its input, so  *)
(* the proofs are loop invariants (FoldInduction), and the only thing that *)
(* they need of the behaviours is what the elements of an input are.       *)
(***************************************************************************)
EXTENDS MCAlgorithms, VersionsProofs, SequenceTheorems

\* What AddOption adds.
Values == {X, <<Root, "y">>, Relative}
GivenOptions == [name : Homes \cup {"home"}, value : Values]

\* A version has one directory, and is offered once.
NoneTwice(entries) ==
  \A i, j \in DOMAIN entries :
    entries[i].at = entries[j].at /\ entries[i].version = entries[j].version => i = j

\* The elements of an input are of its kind.
InputInv ==
  /\ kind = "versions" => input \in Seq(Releases)
  /\ kind = "arguments" => input \in Seq(Arguments)
  /\ kind = "options" => input \in Seq(GivenOptions)
  /\ kind = "list" => input \in Seq(Entries) /\ NoneTwice(input)

\* One more of them is one of them.
LEMMA GrowKeeps ==
  ASSUME NEW S, input \in Seq(S), NEW k, NEW bound, NEW e \in S, Grow(k, bound, e)
  PROVE  kind = k /\ kind' = k /\ input' \in Seq(S)
  BY DEF Grow

\* An entry that is in no list yet.
LEMMA EntryIsNew ==
  ASSUME NEW entries \in Seq(Entries), NoneTwice(entries), NEW e,
         \A i \in DOMAIN entries : <<entries[i].at, entries[i].version>> # <<e.at, e.version>>
  PROVE  NoneTwice(Append(entries, e))
  <1> DEFINE n == Len(entries)
             longer == Append(entries, e)
  <1>1. n \in Nat /\ DOMAIN entries = 1..n /\ DOMAIN longer = 1..n+1
    OBVIOUS
  <1>2. longer[n + 1] = e /\ \A i \in 1..n : longer[i] = entries[i]
    OBVIOUS
  <1>3. \A i \in 1..n : ~(entries[i].at = e.at /\ entries[i].version = e.version)
    BY <1>1
  <1> HIDE DEF n, longer
  <1>4. \A i \in 1..n+1 : i \in 1..n \/ i = n + 1
    BY <1>1
  <1>5. ASSUME NEW i \in 1..n+1, NEW j \in 1..n+1,
               longer[i].at = longer[j].at, longer[i].version = longer[j].version
        PROVE  i = j
    <2>1. CASE i \in 1..n /\ j \in 1..n
      BY <1>1, <1>2, <1>5, <2>1 DEF NoneTwice
    <2>2. CASE i = n + 1 /\ j \in 1..n
      BY <1>2, <1>3, <1>5, <2>2
    <2>3. CASE i \in 1..n /\ j = n + 1
      BY <1>2, <1>3, <1>5, <2>3
    <2> QED
      BY <1>4, <1>5, <2>1, <2>2, <2>3
  <1> QED
    BY <1>1, <1>5 DEF NoneTwice, longer

\* Every input is made of such elements.
THEOREM InputInvariance == Spec => []InputInv
  <1>1. Init => InputInv
    <2>1. NoneTwice(<<>>)
      BY DEF NoneTwice
    <2> QED
      BY <2>1 DEF Init, InputInv
  <1>2. InputInv /\ [Next]_vars => InputInv'
    <2> SUFFICES ASSUME InputInv, [Next]_vars PROVE InputInv'
      OBVIOUS
    <2>1. CASE UNCHANGED vars
      BY <2>1 DEF vars, InputInv
    <2>2. CASE AddVersion
      <3>1. PICK v \in Releases : Grow("versions", MaxVersions, v)
        BY <2>2 DEF AddVersion
      <3> QED
        BY <3>1, GrowKeeps DEF InputInv, Grow
    <2>3. CASE AddArgument
      <3>1. PICK arg \in Arguments : Grow("arguments", MaxArguments, arg)
        BY <2>3 DEF AddArgument
      <3> QED
        BY <3>1, GrowKeeps DEF InputInv, Grow
    <2>4. CASE AddOption
      <3>1. PICK name \in Homes \cup {"home"}, value \in Values :
              Grow("options", MaxOptions, [name |-> name, value |-> value])
        BY <2>4 DEF AddOption, Values
      <3>2. [name |-> name, value |-> value] \in GivenOptions
        BY DEF GivenOptions
      <3> QED
        BY <3>1, <3>2, GrowKeeps DEF InputInv, Grow
    <2>5. CASE AddEntry
      <3>1. PICK e \in Entries :
              /\ kind = "list" /\ Grow("list", MaxEntries, e)
              /\ \A i \in DOMAIN input :
                   <<input[i].at, input[i].version>> # <<e.at, e.version>>
        BY <2>5 DEF AddEntry
      <3>2. input \in Seq(Entries) /\ NoneTwice(input)
        BY <3>1 DEF InputInv
      <3>3. kind' = "list" /\ input' \in Seq(Entries)
        BY <3>1, <3>2, GrowKeeps
      <3>4. NoneTwice(input')
        BY <3>1, <3>2, EntryIsNew DEF Grow
      <3> QED
        BY <3>3, <3>4 DEF InputInv
    <2> QED
      BY <2>1, <2>2, <2>3, <2>4, <2>5 DEF Next
  <1> QED
    BY <1>1, <1>2, PTL DEF Spec

-----------------------------------------------------------------------------
(* The searches over versions.                                             *)

\* In any list of releases the two searches find what they are for, in whatever order
\* the directory or the remote list gives them.
THEOREM SearchesSucceed == Spec => []SearchesFindLatest
  <1>1. Releases \subseteq TwoDigitReleases /\ Releases \subseteq PatchVersions
    BY DEF Releases, TwoDigitReleases, PatchVersions
  <1>2. ASSUME input \in Seq(Releases) PROVE LatestPatchIsHighest
    <2>1. input \in Seq(PatchVersions)
      BY <1>1, <1>2
    <2> QED
      BY <2>1, LatestPatchFound DEF LatestPatchIsHighest
  <1>3. ASSUME input \in Seq(Releases) PROVE LatestIsNewest
    <2>1. input \in Seq(TwoDigitReleases)
      BY <1>1, <1>3
    <2> QED
      BY <2>1, NewestFound DEF LatestIsNewest, NotNewer
  <1>4. InputInv => SearchesFindLatest
    BY <1>2, <1>3 DEF InputInv, SearchesFindLatest
  <1> QED
    BY <1>4, InputInvariance, PTL

-----------------------------------------------------------------------------
(* The arguments of Envoy.                                                 *)

AllFlags == PathFlags \cup {YamlFlag, AddressFlag}

\* What is no flag, and neither ends the arguments nor a configuration.
PlainWord(arg) == Len(arg) = 1 /\ arg \notin {Separator, Empty} /\ arg[1] \notin AllFlags

\* Arguments without a separator, where every flag has a value and no value is empty.
Tame(args) ==
  \A i \in DOMAIN args :
    /\ args[i] # Separator
    /\ IsFlag(args[i], AllFlags) => i < Len(args) /\ PlainWord(args[i + 1])
    /\ IsJoined(args[i], AllFlags) => Joined(args[i]) # Empty

\* The first separator, if any, comes after n arguments.
Cut(args, n) ==
  /\ n \in 0..Len(args)
  /\ \A i \in 1..n : args[i] # Separator
  /\ n < Len(args) => args[n + 1] = Separator

ScanTurn(p, s, arg) ==
  LET next == [s EXCEPT !.at = @ + 1, !.awaits = "no"]
      config(value) == IF value = Empty THEN [next EXCEPT !.awaits = "end"]
                                        ELSE [next EXCEPT !.hasConfig = TRUE]
      address(value) == IF value = Empty THEN [next EXCEPT !.awaits = "error"]
                                         ELSE [next EXCEPT !.path = value]
  IN  IF s.awaits \in {"end", "error"} THEN s
      ELSE IF s.awaits = "config" THEN config(arg)
      ELSE IF s.awaits = "address" THEN address(arg)
      ELSE IF arg = Separator THEN [next EXCEPT !.awaits = "end", !.insertAt = s.at]
      ELSE IF IsFlag(arg, PathFlags \cup {YamlFlag}) THEN [next EXCEPT !.awaits = "config"]
      ELSE IF IsJoined(arg, {"--config-path", YamlFlag}) THEN config(Joined(arg))
      ELSE IF IsFlag(arg, {AddressFlag}) THEN [next EXCEPT !.awaits = "address"]
      ELSE IF IsJoined(arg, {AddressFlag}) THEN address(Joined(arg))
      ELSE next

ScanBase(p) ==
  [awaits |-> "no", at |-> 0, hasConfig |-> FALSE, path |-> NoValue, insertAt |-> Len(p)]

\* What the scan waits for after an argument.
Awaited(arg) ==
  IF IsFlag(arg, PathFlags \cup {YamlFlag}) THEN "config"
  ELSE IF IsFlag(arg, {AddressFlag}) THEN "address" ELSE "no"

ScanFields == {"awaits", "at", "hasConfig", "path", "insertAt"}

ScanInv(p, args, i, s) ==
  /\ DOMAIN s = ScanFields /\ s.at = i /\ s.insertAt = Len(p)
  /\ s.awaits = IF i = 0 THEN "no" ELSE Awaited(args[i])

ScanLoop == INSTANCE FoldInduction WITH Op <- ScanTurn, Base <- ScanBase, Inv <- ScanInv

\* The scan is that loop.
LEMMA ScanFold == \A args : Scan(args) = ScanLoop!Fold(args, args)
  BY DEF Scan, ScanTurn, ScanBase, ScanLoop!Fold, FoldLeft, ScanLoop!FoldLeft,
         MapThenFoldSet, ScanLoop!MapThenFoldSet, Max, ScanLoop!Max

SourcesTurn(p, s, arg) ==
  IF s.awaits = "path" THEN [s EXCEPT !.awaits = "no", !.path = arg]
  ELSE IF s.awaits = "yaml" THEN [s EXCEPT !.awaits = "no", !.yaml = arg]
  ELSE IF s.awaits = "end" \/ arg = Separator THEN [s EXCEPT !.awaits = "end"]
  ELSE IF IsFlag(arg, PathFlags) THEN [s EXCEPT !.awaits = "path"]
  ELSE IF IsFlag(arg, {YamlFlag}) THEN [s EXCEPT !.awaits = "yaml"]
  ELSE IF IsJoined(arg, {"--config-path"}) THEN [s EXCEPT !.path = Joined(arg)]
  ELSE IF IsJoined(arg, {YamlFlag}) THEN [s EXCEPT !.yaml = Joined(arg)]
  ELSE s

SourcesBase(p) == [awaits |-> "no", path |-> NoValue, yaml |-> NoValue]

\* What the reading of the configuration waits for after an argument.
Wanted(arg) ==
  IF IsFlag(arg, PathFlags) THEN "path" ELSE IF IsFlag(arg, {YamlFlag}) THEN "yaml" ELSE "no"

SourcesInv(p, args, i, s) ==
  /\ s = [awaits |-> s.awaits, path |-> s.path, yaml |-> s.yaml]
  /\ Tame(args) => s.awaits = IF i = 0 THEN "no" ELSE Wanted(args[i])

SourcesLoop ==
  INSTANCE FoldInduction WITH Op <- SourcesTurn, Base <- SourcesBase, Inv <- SourcesInv

\* Sources is that loop.
LEMMA SourcesFold == \A args : Sources(args) = SourcesLoop!Fold(0, args)
  BY DEF Sources, SourcesTurn, SourcesBase, SourcesLoop!Fold, FoldLeft, SourcesLoop!FoldLeft,
         MapThenFoldSet, SourcesLoop!MapThenFoldSet, Max, SourcesLoop!Max

\* The last value of a flag: keepFirst is FALSE.
TagTurn(flag, s, arg) ==
  LET found(value) == IF FALSE /\ s.value # NoValue THEN s.value ELSE value
  IN  IF s.awaits /\ arg # Empty THEN [awaits |-> FALSE, value |-> found(arg)]
      ELSE IF IsFlag(arg, {flag}) THEN [s EXCEPT !.awaits = TRUE]
      ELSE IF IsJoined(arg, {flag}) /\ Joined(arg) # Empty
        THEN [awaits |-> FALSE, value |-> found(Joined(arg))]
      ELSE [s EXCEPT !.awaits = FALSE]

TagBase(flag) == [awaits |-> FALSE, value |-> NoValue]

TagFields == {"awaits", "value"}

TagInv(flag, args, i, s) == DOMAIN s = TagFields

TagLoop == INSTANCE FoldInduction WITH Op <- TagTurn, Base <- TagBase, Inv <- TagInv

\* LastOf is that loop.
LEMMA TagFold == \A args, flag : LastOf(args, flag, FALSE) = TagLoop!Fold(flag, args).value
  BY DEF LastOf, TagTurn, TagBase, TagLoop!Fold, FoldLeft, TagLoop!FoldLeft,
         MapThenFoldSet, TagLoop!MapThenFoldSet, Max, TagLoop!Max

\* Every list of arguments has its first separator at one place.
LEMMA CutExists == ASSUME NEW S, NEW args \in Seq(S) PROVE \E n : Cut(args, n)
  <1> DEFINE N == Len(args)
             T == {n \in 0..N : \A i \in 1..n : args[i] # Separator}
  <1>1. SUFFICES ASSUME ~ \E n : Cut(args, n) PROVE FALSE
    OBVIOUS
  <1>2. 0 \in T
    OBVIOUS
  <1>3. ASSUME NEW n \in 1..N, n - 1 \in T PROVE n \in T
    <2>1. n - 1 \in 0..Len(args) /\ \A i \in 1..n-1 : args[i] # Separator
      BY <1>3
    <2>2. args[(n - 1) + 1] # Separator
      BY <1>1, <2>1 DEF Cut
    <2> QED
      BY <2>1, <2>2
  <1>4. 0..N \subseteq T
    <2>1. N \in Nat
      OBVIOUS
    <2> HIDE DEF T, N
    <2> QED
      BY <1>2, <1>3, <2>1, ScanLoop!UpTo
  <1>5. N \in T
    BY <1>4
  <1>6. Cut(args, N)
    BY <1>5 DEF Cut
  <1> QED
    BY <1>1, <1>6

\* The regions of the arguments are what is before and what is after it.
LEMMA RegionsOf ==
  ASSUME NEW S, NEW args \in Seq(S), NEW n, Cut(args, n)
  PROVE  /\ Region(args, FALSE) = SubSeq(args, 1, n)
         /\ n < Len(args) => Region(args, TRUE) = SubSeq(args, n + 2, Len(args))
  <1> DEFINE I == {i \in 1..Len(args) : args[i] = Separator}
             first == SelectInSeq(args, LAMBDA arg : arg = Separator)
  <1>1. n \in 0..Len(args) /\ Len(args) \in Nat
    BY DEF Cut
  <1>2. CASE n = Len(args)
    <2>1. I = {}
      BY <1>2 DEF Cut
    <2>2. first = 0
      BY <2>1 DEF SelectInSeq
    <2>3. SubSeq(args, 1, n) = args
      BY <1>1, <1>2
    <2> HIDE DEF first
    <2>4. Region(args, FALSE) = args
      BY <2>2 DEF Region, first
    <2>5. ~(n < Len(args))
      BY <1>1, <1>2
    <2> QED
      BY <2>3, <2>4, <2>5, Zenon
  <1>3. CASE n < Len(args)
    <2>1. n + 1 \in I /\ \A i \in I : n + 1 <= i
      BY <1>1, <1>3 DEF Cut
    <2>2. \A x \in I : (\A y \in I : x <= y) => x = n + 1
      BY <1>1, <2>1
    <2> HIDE DEF I
    <2>3. Min(I) = n + 1
      BY <2>1, <2>2 DEF Min
    <2>4. first = n + 1
      BY <2>1, <2>3 DEF SelectInSeq, I
    <2>5. n + 1 # 0 /\ (n + 1) - 1 = n /\ (n + 1) + 1 = n + 2
      BY <1>1
    <2> HIDE DEF first
    <2> QED
      BY <2>4, <2>5 DEF Region, first
  <1>4. n = Len(args) \/ n < Len(args)
    BY <1>1
  <1> QED
    BY <1>2, <1>3, <1>4, Zenon

\* A word is no flag of any kind.
LEMMA WordIsNoFlag ==
  ASSUME NEW arg, PlainWord(arg)
  PROVE  /\ arg # Empty /\ Awaited(arg) = "no" /\ Wanted(arg) = "no"
         /\ \A flags : ~IsJoined(arg, flags)
         /\ \A flags : flags \subseteq AllFlags => ~IsFlag(arg, flags)
  <1>1. \A flags : flags \subseteq AllFlags => ~IsFlag(arg, flags)
    BY DEF PlainWord, IsFlag
  <1>2. PathFlags \subseteq AllFlags /\ {YamlFlag} \subseteq AllFlags
        /\ {AddressFlag} \subseteq AllFlags /\ PathFlags \cup {YamlFlag} \subseteq AllFlags
    BY DEF AllFlags
  <1> QED
    BY <1>1, <1>2 DEF PlainWord, Awaited, Wanted, IsJoined

\* After a flag there is a word.
LEMMA WordFollows ==
  ASSUME NEW S, NEW args \in Seq(S), Tame(args), NEW i \in 1..Len(args), i > 1,
         \/ Awaited(args[i - 1]) # "no"
         \/ Wanted(args[i - 1]) # "no"
  PROVE  PlainWord(args[i])
  <1>1. i - 1 \in 1..Len(args) /\ (i - 1) + 1 = i
    OBVIOUS
  <1>2. IsFlag(args[i - 1], AllFlags)
    BY DEF Awaited, Wanted, IsFlag, AllFlags
  <1> QED
    BY <1>1, <1>2 DEF Tame

\* What ends the scan, ends it for good.
LEMMA EndRests == ASSUME NEW p, NEW s, NEW arg, s.awaits = "end" PROVE ScanTurn(p, s, arg) = s
  BY DEF ScanTurn

\* The value of a flag.
LEMMA ValueTurn ==
  ASSUME NEW p, NEW s, DOMAIN s = ScanFields, NEW arg, arg # Empty,
         s.awaits \in {"config", "address"}
  PROVE  LET t == ScanTurn(p, s, arg)
         IN  /\ DOMAIN t = ScanFields
             /\ t.awaits = "no" /\ t.at = s.at + 1 /\ t.insertAt = s.insertAt
             /\ t.path = IF s.awaits = "address" THEN arg ELSE s.path
  <1> DEFINE next == [s EXCEPT !.at = s.at + 1, !.awaits = "no"]
  <1>1. /\ DOMAIN next = ScanFields /\ next.awaits = "no" /\ next.at = s.at + 1
        /\ next.insertAt = s.insertAt /\ next.path = s.path
    BY DEF ScanFields
  <1>2. ScanTurn(p, s, arg) = IF s.awaits = "address" THEN [next EXCEPT !.path = arg]
                                                      ELSE [next EXCEPT !.hasConfig = TRUE]
    BY DEF ScanTurn
  <1> HIDE DEF next
  <1> QED
    BY <1>1, <1>2 DEF ScanFields

\* A separator where no value is due.
LEMMA SeparatorTurn ==
  ASSUME NEW p, NEW s, DOMAIN s = ScanFields, s.awaits = "no"
  PROVE  LET t == ScanTurn(p, s, Separator)
         IN  t.awaits = "end" /\ t.path = s.path /\ t.insertAt = s.at
  BY DEF ScanTurn, ScanFields

\* Any other argument where no value is due.
LEMMA FreeTurn ==
  ASSUME NEW p, NEW s, DOMAIN s = ScanFields, s.awaits = "no",
         NEW arg, arg # Separator, IsJoined(arg, AllFlags) => Joined(arg) # Empty
  PROVE  LET t == ScanTurn(p, s, arg)
         IN  /\ DOMAIN t = ScanFields
             /\ t.awaits = Awaited(arg) /\ t.at = s.at + 1 /\ t.insertAt = s.insertAt
             /\ IsJoined(arg, {AddressFlag}) => t.path = Joined(arg)
             /\ ~IsJoined(arg, {AddressFlag}) => t.path = s.path
  <1> DEFINE next == [s EXCEPT !.at = s.at + 1, !.awaits = "no"]
             t == ScanTurn(p, s, arg)
  <1>1. /\ DOMAIN next = ScanFields /\ next.awaits = "no" /\ next.at = s.at + 1
        /\ next.insertAt = s.insertAt /\ next.path = s.path
    BY DEF ScanFields
  <1>2. /\ \A flags : IsJoined(arg, flags) => \A f : ~IsFlag(arg, f)
        /\ IsJoined(arg, {"--config-path", YamlFlag}) => ~IsJoined(arg, {AddressFlag})
        /\ IsFlag(arg, {AddressFlag}) => ~IsFlag(arg, PathFlags \cup {YamlFlag})
    BY DEF IsJoined, IsFlag, PathFlags, YamlFlag, AddressFlag
  <1>3. IsJoined(arg, {"--config-path", YamlFlag}) \/ IsJoined(arg, {AddressFlag})
          => Joined(arg) # Empty
    BY DEF IsJoined, AllFlags, PathFlags
  <1>4. CASE IsFlag(arg, PathFlags \cup {YamlFlag})
    <2>1. t = [next EXCEPT !.awaits = "config"]
      BY <1>4 DEF ScanTurn
    <2> HIDE DEF next, t
    <2> QED
      BY <1>1, <1>2, <1>4, <2>1 DEF ScanFields, Awaited, t
  <1>5. CASE IsJoined(arg, {"--config-path", YamlFlag})
    <2>1. t = [next EXCEPT !.hasConfig = TRUE]
      BY <1>2, <1>3, <1>5 DEF ScanTurn
    <2> HIDE DEF next, t
    <2> QED
      BY <1>1, <1>2, <1>5, <2>1 DEF ScanFields, Awaited, t
  <1>6. CASE IsFlag(arg, {AddressFlag})
    <2>1. t = [next EXCEPT !.awaits = "address"]
      BY <1>2, <1>6 DEF ScanTurn
    <2> HIDE DEF next, t
    <2> QED
      BY <1>1, <1>2, <1>6, <2>1 DEF ScanFields, Awaited, t
  <1>7. CASE IsJoined(arg, {AddressFlag})
    <2>1. t = [next EXCEPT !.path = Joined(arg)]
      BY <1>2, <1>3, <1>7 DEF ScanTurn
    <2> HIDE DEF next, t
    <2> QED
      BY <1>1, <1>2, <1>7, <2>1 DEF ScanFields, Awaited, t
  <1>8. CASE /\ ~IsFlag(arg, PathFlags \cup {YamlFlag}) /\ ~IsFlag(arg, {AddressFlag})
             /\ ~IsJoined(arg, {"--config-path", YamlFlag}) /\ ~IsJoined(arg, {AddressFlag})
    <2>1. t = next
      BY <1>8 DEF ScanTurn
    <2> HIDE DEF next, t
    <2> QED
      BY <1>1, <1>8, <2>1 DEF Awaited, t
  <1> QED
    BY <1>4, <1>5, <1>6, <1>7, <1>8

\* The scan of tame arguments waits for what the last of them is a flag for, and reads
\* to the end.
LEMMA ScanTame ==
  ASSUME NEW S, NEW args \in Seq(S), Tame(args), NEW whole
  PROVE  \A i \in 0..Len(args) : ScanInv(whole, args, i, ScanLoop!After(whole, args, i))
  <1> DEFINE n == Len(args)
  <1>1. n \in Nat /\ DOMAIN args = 1..n
    OBVIOUS
  <1>2. ScanInv(whole, args, 0, ScanBase(whole))
    BY DEF ScanInv, ScanBase, ScanFields
  <1>3. ASSUME NEW i \in 1..n, NEW s, ScanInv(whole, args, i - 1, s)
        PROVE  ScanInv(whole, args, i, ScanTurn(whole, s, args[i]))
    <2> DEFINE arg == args[i]
               turned == ScanTurn(whole, s, arg)
    <2>1. DOMAIN s = ScanFields /\ s.at + 1 = i /\ s.insertAt = Len(whole)
      BY <1>3 DEF ScanInv
    <2>2. arg # Separator /\ (IsJoined(arg, AllFlags) => Joined(arg) # Empty)
      BY <1>1 DEF Tame
    <2>3. CASE s.awaits # "no"
      <3>1. i > 1 /\ s.awaits = Awaited(args[i - 1])
        BY <1>3, <2>3 DEF ScanInv
      <3>2. PlainWord(arg)
        BY <2>3, <3>1, WordFollows
      <3>3. arg # Empty /\ Awaited(arg) = "no"
        BY <3>2, WordIsNoFlag
      <3>4. s.awaits \in {"config", "address"}
        BY <2>3, <3>1 DEF Awaited
      <3> HIDE DEF arg
      <3>5. DOMAIN turned = ScanFields /\ turned.awaits = "no" /\ turned.at = s.at + 1
            /\ turned.insertAt = s.insertAt
        BY <2>1, <3>3, <3>4, ValueTurn
      <3> HIDE DEF turned
      <3> QED
        BY <1>3, <2>1, <3>3, <3>5 DEF ScanInv, arg, turned
    <2>4. CASE s.awaits = "no"
      <3> HIDE DEF arg
      <3>1. DOMAIN turned = ScanFields /\ turned.awaits = Awaited(arg) /\ turned.at = s.at + 1
            /\ turned.insertAt = s.insertAt
        BY <2>1, <2>2, <2>4, FreeTurn
      <3> HIDE DEF turned
      <3> QED
        BY <1>3, <2>1, <3>1 DEF ScanInv, arg, turned
    <2> QED
      BY <2>3, <2>4
  <1> HIDE DEF n
  <1>4. \A i \in 0..n : ScanInv(whole, args, i, ScanLoop!After(whole, args, i))
    BY <1>1, <1>2, <1>3, ScanLoop!TurnsKeep
  <1> QED
    BY <1>4 DEF n

\* So does the reading of the configuration.
LEMMA SourcesTame ==
  ASSUME NEW S, NEW args \in Seq(S)
  PROVE  SourcesInv(0, args, Len(args), Sources(args))
  <1> DEFINE n == Len(args)
  <1>1. n \in Nat /\ DOMAIN args = 1..n
    OBVIOUS
  <1>2. SourcesInv(0, args, 0, SourcesBase(0))
    BY DEF SourcesInv, SourcesBase
  <1>3. ASSUME NEW i \in 1..n, NEW s, SourcesInv(0, args, i - 1, s)
        PROVE  SourcesInv(0, args, i, SourcesTurn(0, s, args[i]))
    <2> DEFINE arg == args[i]
               turned == SourcesTurn(0, s, arg)
    <2>1. s = [awaits |-> s.awaits, path |-> s.path, yaml |-> s.yaml]
      BY <1>3 DEF SourcesInv
    <2>2. turned = [awaits |-> turned.awaits, path |-> turned.path, yaml |-> turned.yaml]
      <3> HIDE DEF arg
      <3> QED
        BY <2>1 DEF SourcesTurn
    <2>3. ASSUME Tame(args) PROVE turned.awaits = Wanted(arg)
      <3>1. arg # Separator
        BY <1>1, <2>3 DEF Tame
      <3>2. CASE s.awaits # "no"
        <4>1. i > 1 /\ s.awaits = Wanted(args[i - 1])
          BY <1>3, <2>3, <3>2 DEF SourcesInv
        <4>2. PlainWord(arg)
          BY <2>3, <3>2, <4>1, WordFollows
        <4>3. Wanted(arg) = "no"
          BY <4>2, WordIsNoFlag
        <4>4. s.awaits \in {"path", "yaml"}
          BY <3>2, <4>1 DEF Wanted
        <4> HIDE DEF arg
        <4> QED
          BY <2>1, <4>3, <4>4 DEF SourcesTurn
      <3>3. CASE s.awaits = "no"
        <4>1. \A flags : IsJoined(arg, flags) => \A f : ~IsFlag(arg, f)
          BY DEF IsJoined, IsFlag
        <4> HIDE DEF arg
        <4> QED
          BY <2>1, <3>1, <3>3, <4>1 DEF SourcesTurn, Wanted
      <3> QED
        BY <3>2, <3>3
    <2> QED
      BY <1>3, <2>2, <2>3 DEF SourcesInv
  <1> HIDE DEF n
  <1>4. SourcesInv(0, args, n, SourcesLoop!Fold(0, args))
    BY <1>1, <1>2, <1>3, SourcesLoop!FoldInvariance
  <1> QED
    BY <1>4, SourcesFold DEF n

\* Nothing is due after the last of tame arguments.
LEMMA EndsFree ==
  ASSUME NEW S, NEW args \in Seq(S), Tame(args), Len(args) # 0
  PROVE  Awaited(args[Len(args)]) = "no" /\ Wanted(args[Len(args)]) = "no"
  <1>1. Len(args) \in DOMAIN args
    OBVIOUS
  <1>2. ~IsFlag(args[Len(args)], AllFlags)
    BY <1>1 DEF Tame
  <1> QED
    BY <1>2 DEF Awaited, Wanted, IsFlag, AllFlags

\* The scan ends at the first separator, and inserts there.
LEMMA ScanWhole ==
  ASSUME NEW S, NEW args \in Seq(S), NEW n, Cut(args, n), Tame(SubSeq(args, 1, n))
  PROVE  /\ Scan(args).awaits \in {"no", "end"} /\ Scan(args).insertAt = n
         /\ Scan(args).path = ScanLoop!After(args, SubSeq(args, 1, n), n).path
  <1> DEFINE P == SubSeq(args, 1, n)
             N == Len(args)
             e == ScanLoop!After(args, P, n)
             s == Scan(args)
  <1>1. n \in Nat /\ N \in Nat /\ n <= N /\ DOMAIN args = 1..N /\ (n < N => args[n + 1] = Separator)
    BY DEF Cut
  <1>2. P \in Seq(S) /\ Len(P) = n /\ DOMAIN P = 1..n /\ \A i \in 1..n : P[i] = args[i]
    BY <1>1
  <1>3. ScanInv(args, P, n, e)
    <2>1. \A i \in 0..Len(P) : ScanInv(args, P, i, ScanLoop!After(args, P, i))
      BY <1>2, ScanTame
    <2>2. n \in 0..Len(P)
      BY <1>1, <1>2
    <2> HIDE DEF P
    <2> QED
      BY <2>1, <2>2
  <1>4. DOMAIN e = ScanFields /\ e.awaits = "no" /\ e.at = n /\ e.insertAt = N
    <2>1. n # 0 => Awaited(P[n]) = "no"
      BY <1>2, EndsFree
    <2> HIDE DEF P, e
    <2> QED
      BY <1>3, <2>1 DEF ScanInv
  <1> HIDE DEF P, N
  <1>5. ScanLoop!After(args, args, n) = e
    BY <1>1, <1>2, ScanLoop!FoldPrefix
  <1>6. s = ScanLoop!Fold(args, args)
    BY ScanFold
  <1>7. CASE n = N
    <2>1. s = e
      BY <1>1, <1>5, <1>6, <1>7, ScanLoop!FoldTurns
    <2> QED
      BY <1>4, <1>7, <2>1 DEF P
  <1>8. CASE n < N
    <2> DEFINE t == ScanLoop!After(args, args, n + 1)
    <2>1. n + 1 \in 1..N /\ (n + 1) - 1 = n
      BY <1>1, <1>8
    <2>2. t = ScanTurn(args, ScanLoop!After(args, args, (n + 1) - 1), args[n + 1])
      BY <1>1, <2>1, ScanLoop!FoldTurns
    <2>3. t = ScanTurn(args, e, Separator)
      BY <1>1, <1>5, <1>8, <2>1, <2>2
    <2> HIDE DEF e, s, t
    <2>4. t.awaits = "end" /\ t.path = e.path /\ t.insertAt = n
      BY <1>4, <2>3, SeparatorTurn
    <2>5. \A i \in (n+1)+1..N : ScanTurn(args, t, args[i]) = t
      BY <2>4, EndRests
    <2>6. s = t
      <3>1. n + 1 \in 0..N
        BY <2>1
      <3>2. ScanLoop!Fold(args, args) = t
        BY <1>1, <2>5, <3>1, ScanLoop!FoldRests DEF t
      <3> QED
        BY <1>6, <3>2
    <2> QED
      BY <2>4, <2>6 DEF e, s, P
  <1> QED
    BY <1>1, <1>7, <1>8

\* The reading of the configuration ends at the first separator.
LEMMA SourcesCut ==
  ASSUME NEW S, NEW args \in Seq(S), NEW n, Cut(args, n),
         Sources(SubSeq(args, 1, n)).awaits = "no"
  PROVE  Sources(args) = [awaits |-> IF n < Len(args) THEN "end" ELSE "no",
                          path |-> Sources(SubSeq(args, 1, n)).path,
                          yaml |-> Sources(SubSeq(args, 1, n)).yaml]
  <1> DEFINE P == SubSeq(args, 1, n)
             N == Len(args)
             e == Sources(P)
             s == Sources(args)
  <1>1. n \in Nat /\ N \in Nat /\ n <= N /\ DOMAIN args = 1..N /\ (n < N => args[n + 1] = Separator)
    BY DEF Cut
  <1>2. P \in Seq(S) /\ Len(P) = n /\ DOMAIN P = 1..n /\ \A i \in 1..n : P[i] = args[i]
    BY <1>1
  <1>3. e = [awaits |-> "no", path |-> e.path, yaml |-> e.yaml]
    BY <1>2, SourcesTame DEF SourcesInv
  <1> HIDE DEF P, N
  <1>5. SourcesLoop!After(0, args, n) = e
    <2>1. SourcesLoop!After(0, args, n) = SourcesLoop!After(0, P, n)
      BY <1>1, <1>2, SourcesLoop!FoldPrefix
    <2>2. SourcesLoop!Fold(0, P) = SourcesLoop!After(0, P, n)
      BY <1>1, <1>2, SourcesLoop!FoldTurns
    <2> QED
      BY <2>1, <2>2, SourcesFold
  <1>6. s = SourcesLoop!Fold(0, args)
    BY SourcesFold
  <1>7. CASE n = N
    <2>1. s = e
      BY <1>1, <1>5, <1>6, <1>7, SourcesLoop!FoldTurns
    <2>2. ~(n < N)
      BY <1>1, <1>7
    <2> HIDE DEF e, s
    <2>3. s = [awaits |-> IF n < N THEN "end" ELSE "no", path |-> e.path, yaml |-> e.yaml]
      BY <1>3, <2>1, <2>2
    <2> QED
      BY <2>3 DEF P, N, e, s
  <1>8. CASE n < N
    <2> DEFINE t == SourcesLoop!After(0, args, n + 1)
    <2>1. n + 1 \in 1..N /\ (n + 1) - 1 = n
      BY <1>1, <1>8
    <2>2. t = SourcesTurn(0, SourcesLoop!After(0, args, (n + 1) - 1), args[n + 1])
      BY <1>1, <2>1, SourcesLoop!FoldTurns
    <2>3. t = SourcesTurn(0, e, Separator)
      BY <1>1, <1>5, <1>8, <2>1, <2>2
    <2> HIDE DEF e, s, t
    <2>4. t = [awaits |-> "end", path |-> e.path, yaml |-> e.yaml]
      BY <1>3, <2>3 DEF SourcesTurn
    <2>5. \A i \in (n+1)+1..N : SourcesTurn(0, t, args[i]) = t
      BY <2>4 DEF SourcesTurn
    <2>6. s = t
      <3>1. n + 1 \in 0..N
        BY <2>1
      <3>2. SourcesLoop!Fold(0, args) = t
        BY <1>1, <2>5, <3>1, SourcesLoop!FoldRests DEF t
      <3> QED
        BY <1>6, <3>2
    <2>7. s = [awaits |-> IF n < N THEN "end" ELSE "no", path |-> e.path, yaml |-> e.yaml]
      BY <1>8, <2>4, <2>6
    <2> QED
      BY <2>7 DEF P, N, e, s
  <1> QED
    BY <1>1, <1>7, <1>8

\* Two more arguments are two more turns.
LEMMA TwoMore ==
  ASSUME NEW S, NEW args \in Seq(S), NEW a \in S, NEW b \in S
  PROVE  LET more == args \o <<a, b>>
             N == Len(args)
         IN  /\ more \in Seq(S) /\ DOMAIN more = 1..N+2
             /\ more[N + 1] = a /\ more[N + 2] = b /\ \A j \in 1..N : args[j] = more[j]
  OBVIOUS

\* Two arguments more are two turns more of what Envoy reads, ...
LEMMA SourcesOfTwoMore ==
  ASSUME NEW S, NEW args \in Seq(S), NEW a \in S, NEW b \in S
  PROVE  Sources(args \o <<a, b>>) = SourcesTurn(0, SourcesTurn(0, Sources(args), a), b)
  <1> DEFINE more == args \o <<a, b>>
             N == Len(args)
  <1>1. /\ DOMAIN more = 1..N+2 /\ more[N + 1] = a /\ more[N + 2] = b
        /\ \A j \in 1..N : args[j] = more[j]
    BY TwoMore
  <1>2. N \in Nat /\ DOMAIN args = 1..N
    OBVIOUS
  <1> HIDE DEF more, N
  <1>3. SourcesLoop!Fold(0, more)
          = SourcesTurn(0, SourcesTurn(0, SourcesLoop!Fold(0, args), more[N + 1]), more[N + 2])
    BY <1>1, <1>2, SourcesLoop!FoldTwoMore
  <1> QED
    BY <1>1, <1>3, SourcesFold DEF more

\* ... and of what another process reads.
LEMMA TagsOfTwoMore ==
  ASSUME NEW S, NEW args \in Seq(S), NEW a \in S, NEW b \in S, NEW flag
  PROVE  TagLoop!Fold(flag, args \o <<a, b>>)
           = TagTurn(flag, TagTurn(flag, TagLoop!Fold(flag, args), a), b)
  <1> DEFINE more == args \o <<a, b>>
             N == Len(args)
  <1>1. /\ DOMAIN more = 1..N+2 /\ more[N + 1] = a /\ more[N + 2] = b
        /\ \A j \in 1..N : args[j] = more[j]
    BY TwoMore
  <1>2. N \in Nat /\ DOMAIN args = 1..N
    OBVIOUS
  <1> HIDE DEF more, N
  <1>3. TagLoop!Fold(flag, more)
          = TagTurn(flag, TagTurn(flag, TagLoop!Fold(flag, args), more[N + 1]), more[N + 2])
    BY <1>1, <1>2, TagLoop!FoldTwoMore
  <1> QED
    BY <1>1, <1>3 DEF more

\* A turn of the search for a flag of a process, field by field.
LEMMA TagTurnIs ==
  ASSUME NEW flag, NEW s, DOMAIN s = TagFields, NEW arg, arg # Empty
  PROVE  LET t == TagTurn(flag, s, arg)
         IN  /\ DOMAIN t = TagFields
             /\ s.awaits => ~t.awaits /\ t.value = arg
             /\ ~s.awaits /\ IsFlag(arg, {flag}) => t.awaits /\ t.value = s.value
             /\ ~s.awaits /\ ~IsFlag(arg, {flag}) =>
                  /\ ~t.awaits
                  /\ IsJoined(arg, {flag}) /\ Joined(arg) # Empty => t.value = Joined(arg)
                  /\ ~IsJoined(arg, {flag}) => t.value = s.value
  <1> DEFINE t == TagTurn(flag, s, arg)
  <1>1. DOMAIN t = TagFields
    BY DEF TagTurn, TagFields
  <1>2. s.awaits => ~t.awaits /\ t.value = arg
    BY DEF TagTurn, TagFields
  <1>3. ~s.awaits /\ IsFlag(arg, {flag}) => t.awaits /\ t.value = s.value
    BY DEF TagTurn, TagFields
  <1>4. ~s.awaits /\ ~IsFlag(arg, {flag}) =>
          /\ ~t.awaits
          /\ IsJoined(arg, {flag}) /\ Joined(arg) # Empty => t.value = Joined(arg)
          /\ ~IsJoined(arg, {flag}) => t.value = s.value
    BY DEF TagTurn, TagFields
  <1> QED
    BY <1>1, <1>2, <1>3, <1>4

\* Whatever was due, after an empty argument or a separator nothing is.
LEMMA SeparatorTagTurn ==
  ASSUME NEW flag, NEW s, DOMAIN s = TagFields, flag # "--"
  PROVE  LET t == TagTurn(flag, s, Separator)
         IN  DOMAIN t = TagFields /\ ~t.awaits
  BY DEF TagTurn, TagFields, Separator, Empty, IsFlag, IsJoined

Alike(scan, tags) ==
  /\ DOMAIN scan = ScanFields /\ DOMAIN tags = TagFields
  /\ tags.awaits <=> scan.awaits = "address"
  /\ tags.value = scan.path

\* A value of a flag.
LEMMA ValueTurnsAlike ==
  ASSUME NEW whole, NEW s, NEW l, Alike(s, l), NEW arg, PlainWord(arg),
         s.awaits \in {"config", "address"}
  PROVE  Alike(ScanTurn(whole, s, arg), TagTurn(AddressFlag, l, arg))
  <1> DEFINE t == ScanTurn(whole, s, arg)
             u == TagTurn(AddressFlag, l, arg)
  <1>1. arg # Empty /\ ~IsFlag(arg, {AddressFlag}) /\ ~IsJoined(arg, {AddressFlag})
    BY WordIsNoFlag DEF AllFlags
  <1>2. /\ DOMAIN t = ScanFields /\ t.awaits = "no"
        /\ t.path = IF s.awaits = "address" THEN arg ELSE s.path
    BY <1>1, ValueTurn DEF Alike
  <1>3. /\ DOMAIN u = TagFields /\ ~u.awaits
        /\ u.value = IF l.awaits THEN arg ELSE l.value
    BY <1>1, TagTurnIs DEF Alike
  <1> HIDE DEF t, u
  <1>4. Alike(t, u)
    BY <1>2, <1>3 DEF Alike
  <1> QED
    BY <1>4 DEF t, u

\* Any other argument.
LEMMA FreeTurnsAlike ==
  ASSUME NEW whole, NEW s, NEW l, Alike(s, l), s.awaits = "no",
         NEW arg, arg # Separator, IsJoined(arg, AllFlags) => Joined(arg) # Empty
  PROVE  Alike(ScanTurn(whole, s, arg), TagTurn(AddressFlag, l, arg))
  <1> DEFINE t == ScanTurn(whole, s, arg)
             u == TagTurn(AddressFlag, l, arg)
  <1>1. /\ DOMAIN t = ScanFields /\ t.awaits = Awaited(arg)
        /\ IsJoined(arg, {AddressFlag}) => t.path = Joined(arg)
        /\ ~IsJoined(arg, {AddressFlag}) => t.path = s.path
    BY FreeTurn DEF Alike
  <1>2. IsFlag(arg, {AddressFlag}) => ~IsJoined(arg, {AddressFlag})
    BY DEF IsFlag, IsJoined
  <1>3. IsJoined(arg, {AddressFlag}) => Joined(arg) # Empty
    BY DEF IsJoined, AllFlags
  <1>4. Awaited(arg) = "address" <=> IsFlag(arg, {AddressFlag})
    BY DEF Awaited, IsFlag, PathFlags, YamlFlag, AddressFlag
  <1>5. /\ DOMAIN u = TagFields
        /\ u.awaits <=> IsFlag(arg, {AddressFlag})
        /\ IsJoined(arg, {AddressFlag}) => u.value = Joined(arg)
        /\ ~IsJoined(arg, {AddressFlag}) => u.value = l.value
    <2>1. DOMAIN l = TagFields /\ ~l.awaits
      BY DEF Alike
    <2>2. CASE arg = Empty
      <3>1. ~IsFlag(arg, {AddressFlag}) /\ ~IsJoined(arg, {AddressFlag})
        BY <2>2 DEF IsFlag, IsJoined, Empty, AddressFlag
      <3> QED
        BY <2>1, <2>2, <3>1 DEF TagTurn, TagFields
    <2>3. CASE arg # Empty
      BY <1>2, <1>3, <2>1, <2>3, TagTurnIs
    <2> QED
      BY <2>2, <2>3
  <1> HIDE DEF t, u
  <1>6. Alike(t, u)
    BY <1>1, <1>4, <1>5 DEF Alike
  <1> QED
    BY <1>6 DEF t, u

\* What is due and what has been found so far, in the scan and for another process, go
\* together as long as the arguments are tame; the first argument is the program.
LEMMA TagsFollowScan ==
  ASSUME NEW S, NEW args \in Seq(S), Tame(args), NEW whole, NEW program \in S,
         PlainWord(program)
  PROVE  LET tags == TagLoop!Fold(AddressFlag, <<program>> \o args)
             scan == ScanLoop!After(whole, args, Len(args))
         IN  DOMAIN tags = TagFields /\ ~tags.awaits /\ tags.value = scan.path
  <1> DEFINE N == Len(args)
             cmd == <<program>> \o args
             tags(i) == TagLoop!After(AddressFlag, cmd, i + 1)
             scan(i) == ScanLoop!After(whole, args, i)
             T == {i \in 0..N : Alike(scan(i), tags(i))}
  <1>1. N \in Nat /\ DOMAIN args = 1..N
    OBVIOUS
  <1>2. DOMAIN cmd = 1..N+1 /\ cmd[1] = program /\ \A i \in 1..N : cmd[i + 1] = args[i]
    OBVIOUS
  <1>3. \A i \in 0..N : ScanInv(whole, args, i, scan(i))
    BY ScanTame
  <1>4. ASSUME NEW i \in 1..N
        PROVE  tags(i) = TagTurn(AddressFlag, tags(i - 1), args[i])
    <2>1. i + 1 \in 1..N+1 /\ N + 1 \in Nat /\ (i + 1) - 1 = (i - 1) + 1
      BY <1>1
    <2> HIDE DEF cmd, N
    <2>2. TagLoop!After(AddressFlag, cmd, i + 1)
            = TagTurn(AddressFlag, TagLoop!After(AddressFlag, cmd, (i + 1) - 1), cmd[i + 1])
      BY <1>2, <2>1, TagLoop!FoldTurns
    <2> QED
      BY <1>2, <2>1, <2>2
  <1>5. ASSUME NEW i \in 1..N
        PROVE  scan(i) = ScanTurn(whole, scan(i - 1), args[i])
    BY <1>1, ScanLoop!FoldTurns
  <1>6. Alike(scan(0), tags(0))
    <2> DEFINE base == TagBase(AddressFlag)
    <2>1. 1 \in 1..N+1 /\ N + 1 \in Nat /\ 1 - 1 = 0 /\ 0 + 1 = 1
      BY <1>1
    <2>2. TagLoop!After(AddressFlag, cmd, 0) = base
      BY <1>2, <2>1, TagLoop!FoldTurns
    <2>3. TagLoop!After(AddressFlag, cmd, 1)
            = TagTurn(AddressFlag, TagLoop!After(AddressFlag, cmd, 1 - 1), cmd[1])
      BY <1>2, <2>1, TagLoop!FoldTurns
    <2>4. tags(0) = TagTurn(AddressFlag, base, program)
      BY <1>2, <2>1, <2>2, <2>3
    <2>5. DOMAIN base = TagFields /\ ~base.awaits /\ base.value = NoValue
      BY DEF TagBase, TagFields
    <2>6. program # Empty /\ ~IsFlag(program, {AddressFlag}) /\ ~IsJoined(program, {AddressFlag})
      BY WordIsNoFlag DEF AllFlags
    <2>7. DOMAIN tags(0) = TagFields /\ ~tags(0).awaits /\ tags(0).value = NoValue
      BY <2>4, <2>5, <2>6, TagTurnIs
    <2>8. scan(0) = ScanBase(whole)
      BY <1>1, ScanLoop!FoldTurns
    <2>9. DOMAIN scan(0) = ScanFields /\ scan(0).awaits = "no" /\ scan(0).path = NoValue
      BY <2>8 DEF ScanBase, ScanFields
    <2> HIDE DEF tags, scan
    <2> QED
      BY <2>7, <2>9 DEF Alike
  <1>7. ASSUME NEW i \in 1..N, Alike(scan(i - 1), tags(i - 1)) PROVE Alike(scan(i), tags(i))
    <2> DEFINE arg == args[i]
    <2>1. /\ tags(i) = TagTurn(AddressFlag, tags(i - 1), arg)
          /\ scan(i) = ScanTurn(whole, scan(i - 1), arg)
      BY <1>4, <1>5
    <2>2. scan(i - 1).awaits = IF i - 1 = 0 THEN "no" ELSE Awaited(args[i - 1])
      BY <1>1, <1>3 DEF ScanInv
    <2>3. arg # Separator /\ (IsJoined(arg, AllFlags) => Joined(arg) # Empty)
      BY <1>1 DEF Tame
    <2>4. CASE scan(i - 1).awaits # "no"
      <3>1. i > 1 /\ scan(i - 1).awaits = Awaited(args[i - 1])
        BY <1>1, <2>2, <2>4
      <3>2. PlainWord(arg)
        BY <2>4, <3>1, WordFollows
      <3>3. scan(i - 1).awaits \in {"config", "address"}
        BY <2>4, <3>1 DEF Awaited
      <3> HIDE DEF scan, tags, arg
      <3> QED
        BY <1>7, <2>1, <3>2, <3>3, ValueTurnsAlike
    <2>5. CASE scan(i - 1).awaits = "no"
      <3> HIDE DEF scan, tags, arg
      <3> QED
        BY <1>7, <2>1, <2>3, <2>5, FreeTurnsAlike
    <2> QED
      BY <2>4, <2>5
  <1>8. 0..N \subseteq T
    <2>1. 0 \in T
      BY <1>1, <1>6
    <2>2. \A i \in 1..N : i - 1 \in T => i \in T
      BY <1>1, <1>7
    <2> HIDE DEF T, N
    <2> QED
      BY <1>1, <2>1, <2>2, ScanLoop!UpTo
  <1>9. Alike(scan(N), tags(N))
    BY <1>1, <1>8
  <1>10. scan(N).awaits # "address"
    <2>1. ScanInv(whole, args, N, scan(N))
      BY <1>1, <1>3
    <2>2. N # 0 => Awaited(args[N]) = "no"
      BY EndsFree
    <2> QED
      BY <2>1, <2>2 DEF ScanInv
  <1>11. TagLoop!Fold(AddressFlag, cmd) = tags(N)
    <2>1. N + 1 \in Nat
      BY <1>1
    <2> QED
      BY <1>2, <2>1, TagLoop!FoldTurns DEF tags
  <1> HIDE DEF cmd
  <1>12. DOMAIN TagLoop!Fold(AddressFlag, cmd) = TagFields
         /\ ~TagLoop!Fold(AddressFlag, cmd).awaits
         /\ TagLoop!Fold(AddressFlag, cmd).value = scan(N).path
    BY <1>9, <1>10, <1>11 DEF Alike
  <1> QED
    BY <1>12 DEF cmd, scan

\* What ensureAdminAddress adds, and what is at both ends of a command line.
Own == {<<YamlFlag>>, Ephemeral, <<AddressFlag>>, DefaultPath, <<RunIdFlag>>, Separator,
        <<"envoy">>}

\* Arguments without a separator, followed by nothing or by one, are cut between.
LEMMA CutJoin ==
  ASSUME NEW S, NEW Q \in Seq(S), NEW Z \in Seq(S),
         \A i \in DOMAIN Q : Q[i] # Separator, Z # <<>> => Z[1] = Separator
  PROVE  Cut(Q \o Z, Len(Q)) /\ SubSeq(Q \o Z, 1, Len(Q)) = Q
  <1>1. /\ Q \o Z \in Seq(S) /\ Len(Q \o Z) = Len(Q) + Len(Z) /\ Len(Q) \in Nat /\ Len(Z) \in Nat
        /\ \A i \in 1..Len(Q) : (Q \o Z)[i] = Q[i]
        /\ \A i \in 1..Len(Z) : (Q \o Z)[Len(Q) + i] = Z[i]
    OBVIOUS
  <1>2. Cut(Q \o Z, Len(Q))
    <2>1. Len(Q) < Len(Q \o Z) => (Q \o Z)[Len(Q) + 1] = Separator
      BY <1>1
    <2>2. \A i \in 1..Len(Q) : (Q \o Z)[i] # Separator
      BY <1>1
    <2> QED
      BY <1>1, <2>1, <2>2 DEF Cut
  <1>3. SubSeq(Q \o Z, 1, Len(Q)) = Q
    <2>1. /\ SubSeq(Q \o Z, 1, Len(Q)) \in Seq(S) /\ Len(SubSeq(Q \o Z, 1, Len(Q))) = Len(Q)
          /\ \A i \in 1..Len(Q) : SubSeq(Q \o Z, 1, Len(Q))[i] = (Q \o Z)[i]
      BY <1>1
    <2> QED
      BY <1>1, <2>1
  <1> QED
    BY <1>2, <1>3

\* The ephemeral configuration replaces the inline one, the address file no source.
LEMMA SourcesOfPairs ==
  ASSUME NEW S, Own \subseteq S, NEW args \in Seq(S), Sources(args).awaits = "no"
  PROVE  /\ Sources(args \o << <<YamlFlag>>, Ephemeral >>)
              = [awaits |-> "no", path |-> Sources(args).path, yaml |-> Ephemeral]
         /\ Sources(args \o << <<AddressFlag>>, DefaultPath >>) = Sources(args)
  <1> DEFINE s == Sources(args)
  <1>1. s = [awaits |-> "no", path |-> s.path, yaml |-> s.yaml]
    BY SourcesTame DEF SourcesInv
  <1>2. <<YamlFlag>> \in S /\ Ephemeral \in S /\ <<AddressFlag>> \in S /\ DefaultPath \in S
    BY DEF Own
  <1>3. /\ Sources(args \o << <<YamlFlag>>, Ephemeral >>)
             = SourcesTurn(0, SourcesTurn(0, s, <<YamlFlag>>), Ephemeral)
        /\ Sources(args \o << <<AddressFlag>>, DefaultPath >>)
             = SourcesTurn(0, SourcesTurn(0, s, <<AddressFlag>>), DefaultPath)
    BY <1>2, SourcesOfTwoMore
  <1> HIDE DEF s
  <1>4. <<YamlFlag>> # Separator /\ <<AddressFlag>> # Separator /\ DefaultPath # Separator
    BY DEF YamlFlag, AddressFlag, DefaultPath, Separator
  <1>5. /\ ~IsFlag(<<YamlFlag>>, PathFlags) /\ IsFlag(<<YamlFlag>>, {YamlFlag})
        /\ \A arg \in {<<AddressFlag>>, DefaultPath} :
             ~IsFlag(arg, PathFlags) /\ ~IsFlag(arg, {YamlFlag})
             /\ \A flags : ~IsJoined(arg, flags)
    BY DEF IsFlag, IsJoined, PathFlags, YamlFlag, AddressFlag, DefaultPath
  <1>6. SourcesTurn(0, s, <<YamlFlag>>) = [awaits |-> "yaml", path |-> s.path, yaml |-> s.yaml]
    BY <1>1, <1>4, <1>5 DEF SourcesTurn
  <1>7. SourcesTurn(0, [awaits |-> "yaml", path |-> s.path, yaml |-> s.yaml], Ephemeral)
          = [awaits |-> "no", path |-> s.path, yaml |-> Ephemeral]
    BY DEF SourcesTurn
  <1>8. \A arg \in {<<AddressFlag>>, DefaultPath} : SourcesTurn(0, s, arg) = s
    BY <1>1, <1>4, <1>5 DEF SourcesTurn
  <1> QED
    BY <1>3, <1>6, <1>7, <1>8 DEF s

\* Another process finds the last address file, and no configuration instead of one.
LEMMA TagsOfPairs ==
  ASSUME NEW S, Own \subseteq S, NEW args \in Seq(S),
         DOMAIN TagLoop!Fold(AddressFlag, args) = TagFields,
         ~TagLoop!Fold(AddressFlag, args).awaits
  PROVE  LET l == TagLoop!Fold(AddressFlag, args)
             yaml == TagLoop!Fold(AddressFlag, args \o << <<YamlFlag>>, Ephemeral >>)
             path == TagLoop!Fold(AddressFlag, args \o << <<AddressFlag>>, DefaultPath >>)
         IN  /\ DOMAIN yaml = TagFields /\ ~yaml.awaits /\ yaml.value = l.value
             /\ DOMAIN path = TagFields /\ ~path.awaits /\ path.value = DefaultPath
  <1> DEFINE l == TagLoop!Fold(AddressFlag, args)
             one(arg) == TagTurn(AddressFlag, l, arg)
             yaml == TagTurn(AddressFlag, one(<<YamlFlag>>), Ephemeral)
             path == TagTurn(AddressFlag, one(<<AddressFlag>>), DefaultPath)
  <1>1. <<YamlFlag>> \in S /\ Ephemeral \in S /\ <<AddressFlag>> \in S /\ DefaultPath \in S
    BY DEF Own
  <1>2. /\ TagLoop!Fold(AddressFlag, args \o << <<YamlFlag>>, Ephemeral >>) = yaml
        /\ TagLoop!Fold(AddressFlag, args \o << <<AddressFlag>>, DefaultPath >>) = path
    BY <1>1, TagsOfTwoMore
  <1>3. /\ \A arg \in {<<YamlFlag>>, Ephemeral} :
             arg # Empty /\ ~IsFlag(arg, {AddressFlag}) /\ ~IsJoined(arg, {AddressFlag})
        /\ <<AddressFlag>> # Empty /\ IsFlag(<<AddressFlag>>, {AddressFlag})
        /\ DefaultPath # Empty
    BY DEF IsFlag, IsJoined, YamlFlag, AddressFlag, Ephemeral, DefaultPath, Empty
  <1> HIDE DEF l
  <1>4. DOMAIN l = TagFields /\ ~l.awaits
    BY DEF l
  <1>5. /\ DOMAIN one(<<YamlFlag>>) = TagFields /\ ~one(<<YamlFlag>>).awaits
        /\ one(<<YamlFlag>>).value = l.value
    BY <1>3, <1>4, TagTurnIs
  <1>6. DOMAIN one(<<AddressFlag>>) = TagFields /\ one(<<AddressFlag>>).awaits
    BY <1>3, <1>4, TagTurnIs
  <1> HIDE DEF one
  <1>7. DOMAIN yaml = TagFields /\ ~yaml.awaits /\ yaml.value = l.value
    BY <1>3, <1>5, TagTurnIs
  <1>8. DOMAIN path = TagFields /\ ~path.awaits /\ path.value = DefaultPath
    <2>1. DefaultPath # Empty
      BY <1>3
    <2> QED
      BY <1>6, <2>1 DEF TagTurn, TagFields
  <1> HIDE DEF yaml, path
  <1> QED
    BY <1>2, <1>7, <1>8 DEF l

Pairs(flag, value) == { <<>>, << <<flag>>, value >> }

\* What ensureAdminAddress returns for arguments that are tame up to the separator: it
\* adds a configuration, an address file, both or none before the separator.
LEMMA EnsuredIs ==
  ASSUME NEW S, NEW args \in Seq(S), NEW n, Cut(args, n), Tame(SubSeq(args, 1, n)),
         ensureAdminAddress(args).path # NoValue
  PROVE  LET P == SubSeq(args, 1, n)
             given == ScanLoop!After(args, P, n).path
             rest == SubSeq(args, n + 1, Len(args))
             result == ensureAdminAddress(args)
         IN  \E yaml \in Pairs(YamlFlag, Ephemeral), path \in Pairs(AddressFlag, DefaultPath) :
               /\ yaml = <<>> <=> FindAdminAddressFromArgs(args) # "none"
               /\ path = <<>> <=> given # NoValue
               /\ result.path = IF given = NoValue THEN DefaultPath ELSE given
               /\ result.args = (P \o (yaml \o path)) \o rest
  <1> DEFINE P == SubSeq(args, 1, n)
             given == ScanLoop!After(args, P, n).path
             rest == SubSeq(args, n + 1, Len(args))
             result == ensureAdminAddress(args)
             s == Scan(args)
             yaml == IF FindAdminAddressFromArgs(args) = "none"
                       THEN << <<YamlFlag>>, Ephemeral >> ELSE <<>>
             path == IF s.path = NoValue THEN << <<AddressFlag>>, DefaultPath >> ELSE <<>>
  <1>1. s.insertAt = n /\ s.path = given
    BY ScanWhole
  <1> HIDE DEF P, given, s
  <1>2. result = IF s.awaits \in {"error", "address"}
                   THEN [ok |-> FALSE, path |-> NoValue, args |-> args]
                 ELSE IF ~s.hasConfig
                   THEN [ok |-> TRUE, path |-> NoValue, args |-> args]
                 ELSE [ok |-> TRUE, path |-> IF s.path = NoValue THEN DefaultPath ELSE s.path,
                       args |-> Inserted(args, s.insertAt, yaml \o path)]
    BY DEF ensureAdminAddress, s
  <1>3. result.path = (IF s.path = NoValue THEN DefaultPath ELSE s.path)
        /\ result.args = Inserted(args, s.insertAt, yaml \o path)
    <2> HIDE DEF result, yaml, path
    <2>1. result.path # NoValue
      BY DEF result
    <2>2. CASE s.awaits \in {"error", "address"}
      BY <1>2, <2>1, <2>2
    <2>3. CASE s.awaits \notin {"error", "address"} /\ ~s.hasConfig
      BY <1>2, <2>1, <2>3
    <2>4. CASE s.awaits \notin {"error", "address"} /\ s.hasConfig
      BY <1>2, <2>4
    <2> QED
      BY <2>2, <2>3, <2>4
  <1>4. Inserted(args, n, yaml \o path) = (P \o (yaml \o path)) \o rest
    BY DEF Inserted, InsertAfter, P
  <1>5. yaml \in Pairs(YamlFlag, Ephemeral) /\ path \in Pairs(AddressFlag, DefaultPath)
    BY DEF Pairs
  <1>6. (yaml = <<>> <=> FindAdminAddressFromArgs(args) # "none")
        /\ (path = <<>> <=> s.path # NoValue)
    OBVIOUS
  <1> HIDE DEF yaml, path, rest, result
  <1>7. /\ yaml = <<>> <=> FindAdminAddressFromArgs(args) # "none"
        /\ path = <<>> <=> given # NoValue
        /\ result.path = IF given = NoValue THEN DefaultPath ELSE given
        /\ result.args = (P \o (yaml \o path)) \o rest
    BY <1>1, <1>3, <1>4, <1>6
  <1> QED
    BY <1>5, <1>7 DEF P, given, rest, result

\* Concatenation is associative.
IsAssociative(S, a, b, c) ==
  /\ a \o b \in Seq(S) /\ b \o c \in Seq(S) /\ (a \o b) \o c \in Seq(S)
  /\ a \o (b \o c) = (a \o b) \o c

\* Three sequences in one, from either side.
LEMMA Associative ==
  ASSUME NEW S, NEW a \in Seq(S), NEW b \in Seq(S), NEW c \in Seq(S)
  PROVE  IsAssociative(S, a, b, c)
  <1>1. a \o b \in Seq(S) /\ b \o c \in Seq(S) /\ (a \o b) \o c \in Seq(S)
    OBVIOUS
  <1>2. a \o (b \o c) = (a \o b) \o c
    OBVIOUS
  <1> QED
    BY <1>1, <1>2, Zenon DEF IsAssociative

\* It adds no separator.
LEMMA NoSeparator ==
  ASSUME NEW S, NEW s \in Seq(S), NEW t \in Seq(S), \A i \in DOMAIN s : s[i] # Separator,
         \A i \in DOMAIN t : t[i] # Separator
  PROVE  \A i \in DOMAIN (s \o t) : (s \o t)[i] # Separator
  <1>1. /\ Len(s) \in Nat /\ Len(t) \in Nat /\ DOMAIN (s \o t) = 1..Len(s) + Len(t)
        /\ \A i \in 1..Len(s) + Len(t) :
             (s \o t)[i] = IF i <= Len(s) THEN s[i] ELSE t[i - Len(s)]
    OBVIOUS
  <1> QED
    BY <1>1

\* What the reading of the configuration and another process find in the arguments
\* before the separator, with what is added to them.
Added(S, whole, P, yaml, path) ==
  LET Q == P \o (yaml \o path)
      given == ScanLoop!After(whole, P, Len(P)).path
  IN  /\ Q \in Seq(S) /\ \A i \in DOMAIN Q : Q[i] # Separator
      /\ Sources(Q) = [awaits |-> "no", path |-> Sources(P).path,
                       yaml |-> IF yaml = <<>> THEN Sources(P).yaml ELSE Ephemeral]
      /\ TagLoop!Fold(AddressFlag, << <<"envoy">> >> \o Q).value
           = IF path = <<>> THEN given ELSE DefaultPath

\* They find it when the arguments are tame.
LEMMA AddedIs ==
  ASSUME NEW S, Own \subseteq S, NEW P \in Seq(S), Tame(P), NEW whole,
         NEW yaml \in Pairs(YamlFlag, Ephemeral), NEW path \in Pairs(AddressFlag, DefaultPath)
  PROVE  Added(S, whole, P, yaml, path)
  <1> DEFINE A == P \o yaml
             Q == A \o path
             E == << <<"envoy">> >>
             EP == E \o P
             EA == E \o A
             EQ == E \o Q
             given == ScanLoop!After(whole, P, Len(P)).path
             Fold(args) == TagLoop!Fold(AddressFlag, args)
             Free(l) == DOMAIN l = TagFields /\ ~l.awaits
  <1>1. yaml \in Seq(S) /\ path \in Seq(S) /\ E \in Seq(S)
    <2>1. /\ <<YamlFlag>> \in S /\ Ephemeral \in S /\ <<AddressFlag>> \in S /\ DefaultPath \in S
          /\ <<"envoy">> \in S
      BY DEF Own
    <2>2. \A a, b \in S : <<a, b>> \in Seq(S)
      OBVIOUS
    <2>3. <<>> \in Seq(S) /\ \A a \in S : <<a>> \in Seq(S)
      OBVIOUS
    <2>4. << <<YamlFlag>>, Ephemeral >> \in Seq(S) /\ << <<AddressFlag>>, DefaultPath >> \in Seq(S)
      BY <2>1, <2>2
    <2> QED
      BY <2>1, <2>3, <2>4 DEF Pairs
  <1> HIDE DEF E
  <1>2. IsAssociative(S, P, yaml, path) /\ IsAssociative(S, E, P, yaml)
    BY <1>1, Associative
  <1>3. A \in Seq(S) /\ Q \in Seq(S) /\ EP \in Seq(S) /\ EA \in Seq(S)
        /\ P \o (yaml \o path) = Q /\ EA = EP \o yaml /\ EQ = EA \o path
    <2>1. A \in Seq(S) /\ Q \in Seq(S) /\ P \o (yaml \o path) = Q
      BY <1>2, Zenon DEF IsAssociative
    <2>2. EP \in Seq(S) /\ EA \in Seq(S) /\ EA = EP \o yaml
      BY <1>2, Zenon DEF IsAssociative
    <2> HIDE DEF A
    <2>3. IsAssociative(S, E, A, path)
      BY <1>1, <2>1, Associative
    <2>4. EQ = EA \o path
      BY <2>3, Zenon DEF IsAssociative
    <2> QED
      BY <2>1, <2>2, <2>4
  <1>4. P \o <<>> = P /\ A \o <<>> = A /\ EP \o <<>> = EP /\ EA \o <<>> = EA
    BY <1>3, ConcatEmptySeq
  <1>5. \A i \in DOMAIN Q : Q[i] # Separator
    <2>1. \A i \in DOMAIN P : P[i] # Separator
      BY DEF Tame
    <2>2. \A i \in DOMAIN yaml : yaml[i] # Separator
      BY DEF Pairs, YamlFlag, Ephemeral, Separator
    <2>3. \A i \in DOMAIN path : path[i] # Separator
      BY DEF Pairs, AddressFlag, DefaultPath, Separator
    <2>4. \A i \in DOMAIN A : A[i] # Separator
      BY <1>1, <2>1, <2>2, NoSeparator
    <2> HIDE DEF A
    <2> QED
      BY <1>1, <1>3, <2>3, <2>4, NoSeparator
  <1>6. Sources(P).awaits = "no"
        /\ Sources(P) = [awaits |-> "no", path |-> Sources(P).path, yaml |-> Sources(P).yaml]
    <2>1. SourcesInv(0, P, Len(P), Sources(P))
      BY SourcesTame
    <2>2. Len(P) # 0 => Wanted(P[Len(P)]) = "no"
      BY EndsFree
    <2>3. Sources(P).awaits = "no"
      BY <2>1, <2>2 DEF SourcesInv
    <2> QED
      BY <2>1, <2>3 DEF SourcesInv
  <1>7. Free(Fold(EP)) /\ Fold(EP).value = given
    <2>1. <<"envoy">> \in S /\ PlainWord(<<"envoy">>)
      BY DEF Own, PlainWord, Separator, Empty, AllFlags, PathFlags, YamlFlag, AddressFlag
    <2> QED
      BY <2>1, TagsFollowScan DEF E
  <1> HIDE DEF A, Q, EP, EA, EQ, Free, Fold, given
  <1>8. Sources(A) = [awaits |-> "no", path |-> Sources(P).path,
                      yaml |-> IF yaml = <<>> THEN Sources(P).yaml ELSE Ephemeral]
    <2>1. CASE yaml = <<>>
      BY <1>4, <1>6, <2>1 DEF A
    <2>2. CASE yaml # <<>>
      <3>1. yaml = << <<YamlFlag>>, Ephemeral >>
        BY <2>2 DEF Pairs
      <3> QED
        BY <1>6, <2>2, <3>1, SourcesOfPairs DEF A
    <2> QED
      BY <2>1, <2>2
  <1>9. Sources(Q) = Sources(A)
    <2>1. CASE path = <<>>
      BY <1>4, <2>1 DEF Q
    <2>2. CASE path # <<>>
      <3>1. path = << <<AddressFlag>>, DefaultPath >>
        BY <2>2 DEF Pairs
      <3>2. Sources(A).awaits = "no"
        BY <1>8
      <3> QED
        BY <1>3, <3>1, <3>2, SourcesOfPairs DEF Q
    <2> QED
      BY <2>1, <2>2
  <1>10. Free(Fold(EA)) /\ Fold(EA).value = given
    <2>1. CASE yaml = <<>>
      BY <1>3, <1>4, <1>7, <2>1
    <2>2. CASE yaml # <<>>
      <3>1. yaml = << <<YamlFlag>>, Ephemeral >>
        BY <2>2 DEF Pairs
      <3> QED
        BY <1>3, <1>7, <3>1, TagsOfPairs DEF Free, Fold
    <2> QED
      BY <2>1, <2>2
  <1>11. Fold(EQ).value = IF path = <<>> THEN given ELSE DefaultPath
    <2>1. CASE path = <<>>
      BY <1>3, <1>4, <1>10, <2>1
    <2>2. CASE path # <<>>
      <3>1. path = << <<AddressFlag>>, DefaultPath >>
        BY <2>2 DEF Pairs
      <3> QED
        BY <1>3, <1>10, <2>2, <3>1, TagsOfPairs DEF Free, Fold
    <2> QED
      BY <2>1, <2>2
  <1> QED
    BY <1>3, <1>5, <1>8, <1>9, <1>11 DEF EQ, E, Fold, given, Added

\* What has been found so far is always of the same kind.
LEMMA TagsAreRecords ==
  ASSUME NEW S, NEW args \in Seq(S), NEW flag
  PROVE  \A i \in 0..Len(args) : DOMAIN TagLoop!After(flag, args, i) = TagFields
  <1> DEFINE n == Len(args)
  <1>1. n \in Nat /\ DOMAIN args = 1..n
    OBVIOUS
  <1>2. TagInv(flag, args, 0, TagBase(flag))
    BY DEF TagInv, TagBase, TagFields
  <1>3. ASSUME NEW i \in 1..n, NEW s, TagInv(flag, args, i - 1, s)
        PROVE  TagInv(flag, args, i, TagTurn(flag, s, args[i]))
    BY <1>3 DEF TagInv, TagTurn, TagFields
  <1> HIDE DEF n
  <1>4. \A i \in 0..n : TagInv(flag, args, i, TagLoop!After(flag, args, i))
    BY <1>1, <1>2, <1>3, TagLoop!TurnsKeep
  <1> QED
    BY <1>4 DEF TagInv, n

\* A flag and its value at the end, after nothing or a separator.
EndsInPair(args, n, name, id) ==
  /\ n >= 2 /\ args[n - 1] = <<name>> /\ args[n] = id
  /\ n > 2 => args[n - 2] = Separator

\* They are the last match.
LEMMA LastPairFound ==
  ASSUME NEW S, NEW args \in Seq(S), NEW name, name # "--", <<name>> # Empty, NEW id, id # Empty,
         EndsInPair(args, Len(args), name, id)
  PROVE  LastOf(args, name, FALSE) = id
  <1> DEFINE L == Len(args)
             l(i) == TagLoop!After(name, args, i)
  <1>1. L \in Nat /\ DOMAIN args = 1..L /\ L >= 2
    <2>1. L \in Nat /\ DOMAIN args = 1..L
      OBVIOUS
    <2> QED
      BY <2>1 DEF EndsInPair
  <1>2. args[L - 1] = <<name>> /\ args[L] = id /\ (L > 2 => args[L - 2] = Separator)
    BY DEF EndsInPair
  <1>3. \A i \in 0..L : DOMAIN l(i) = TagFields
    BY TagsAreRecords
  <1> HIDE DEF L
  <1>4. /\ l(0) = TagBase(name)
        /\ \A i \in 1..L : l(i) = TagTurn(name, l(i - 1), args[i])
        /\ TagLoop!Fold(name, args) = l(L)
    BY <1>1, TagLoop!FoldTurns
  <1> HIDE DEF l
  <1>5. ~l(L - 2).awaits
    <2>1. CASE L = 2
      <3>1. L - 2 = 0
        BY <2>1
      <3> QED
        BY <1>4, <3>1 DEF TagBase
    <2>2. CASE L > 2
      <3>1. L - 2 \in 1..L /\ (L - 2) - 1 \in 0..L
        BY <1>1, <2>2
      <3>2. l(L - 2) = TagTurn(name, l((L - 2) - 1), Separator)
        BY <1>2, <1>4, <2>2, <3>1
      <3> QED
        BY <1>3, <3>1, <3>2, SeparatorTagTurn
    <2> QED
      BY <1>1, <2>1, <2>2
  <1>6. /\ L - 2 \in 0..L /\ L - 1 \in 1..L /\ (L - 1) - 1 = L - 2
        /\ L - 1 \in 0..L /\ L \in 1..L
    BY <1>1
  <1>7. <<name>> # Empty /\ IsFlag(<<name>>, {name})
    BY DEF IsFlag
  <1>8. l(L - 1) = TagTurn(name, l((L - 1) - 1), <<name>>)
    BY <1>2, <1>4, <1>6
  <1>9. l(L - 1).awaits /\ DOMAIN l(L - 1) = TagFields
    BY <1>3, <1>5, <1>6, <1>7, <1>8, TagTurnIs
  <1>10. l(L) = TagTurn(name, l(L - 1), id)
    BY <1>2, <1>4, <1>6
  <1>11. l(L).value = id
    BY <1>9, <1>10 DEF TagTurn, TagFields
  <1> QED
    BY <1>4, <1>11, TagFold DEF L

\* The tag at the end of a command line is what another process finds, whatever the
\* arguments before it are: separators, tags and flags without a value included
\* (envoy/run.go:24-33, admin.go:268-305).
THEOREM RunIdFound ==
  ASSUME NEW S, Own \subseteq S, NEW args \in Seq(S), NEW id \in S, id \notin {Empty, NoValue}
  PROVE  extractRunID(CommandLine(args, id)) = id
  <1> DEFINE A == << <<"envoy">> >> \o args
             Z == << Separator, <<RunIdFlag>>, id >>
             cmd == A \o Z
             M == Len(A)
  <1>1. << <<"envoy">> >> \in Seq(S) /\ Z \in Seq(S)
    <2>1. <<"envoy">> \in S /\ Separator \in S /\ <<RunIdFlag>> \in S
      BY DEF Own
    <2> QED
      BY <2>1
  <1>2. A \in Seq(S)
    BY <1>1, ConcatProperties
  <1>3. CommandLine(args, id) = cmd
    BY DEF CommandLine
  <1> HIDE DEF A
  <1>4. /\ M \in Nat /\ cmd \in Seq(S) /\ Len(cmd) = M + 3
        /\ cmd[M + 1] = Separator /\ cmd[M + 2] = <<RunIdFlag>> /\ cmd[M + 3] = id
    BY <1>1, <1>2
  <1> HIDE DEF cmd, M
  <1>5. PICK n : Cut(cmd, n)
    BY <1>4, CutExists
  <1>6. n \in Nat /\ n <= M
    <2>1. n \in 0..M+3 /\ ~(M + 1 \in 1..n)
      BY <1>4, <1>5 DEF Cut
    <2> QED
      BY <1>4, <2>1
  <1> DEFINE R == SubSeq(cmd, n + 2, Len(cmd))
             L == M + 2 - n
  <1>7. Region(cmd, TRUE) = R
    <2>1. n < Len(cmd)
      BY <1>4, <1>6
    <2> QED
      BY <1>4, <1>5, <2>1, RegionsOf, Zenon
  <1>8. R \in Seq(S) /\ Len(R) = L /\ \A i \in 1..L : R[i] = cmd[n + 1 + i]
    BY <1>4, <1>6
  <1>9. /\ L \in Nat /\ L >= 2 /\ R[L - 1] = <<RunIdFlag>> /\ R[L] = id
        /\ L > 2 => R[L - 2] = Separator
    <2>1. L \in Nat /\ L >= 2 /\ L - 1 \in 1..L /\ L \in 1..L /\ (L > 2 => L - 2 \in 1..L)
      BY <1>4, <1>6
    <2>2. n + 1 + L = M + 3 /\ n + 1 + (L - 1) = M + 2 /\ n + 1 + (L - 2) = M + 1
      BY <1>4, <1>6
    <2> HIDE DEF R, L
    <2> QED
      BY <1>4, <1>8, <2>1, <2>2
  <1> HIDE DEF R, L
  <1>10. RunIdFlag # "--" /\ <<RunIdFlag>> # Empty
    BY DEF RunIdFlag, Empty
  <1>11. LastOf(R, RunIdFlag, FALSE) = id
    BY <1>8, <1>9, <1>10, LastPairFound DEF EndsInPair
  <1>12. scanFlag(cmd, RunIdFlag, TRUE) = id
    BY <1>7, <1>11 DEF scanFlag
  <1> QED
    BY <1>3, <1>12 DEF extractRunID, flagValue

\* The reading of tame arguments ends with nothing due.
LEMMA SourcesOfTame ==
  ASSUME NEW S, NEW args \in Seq(S), Tame(args)
  PROVE  Sources(args).awaits = "no"
  <1>1. SourcesInv(0, args, Len(args), Sources(args))
    BY SourcesTame
  <1>2. Len(args) # 0 => Wanted(args[Len(args)]) = "no"
    BY EndsFree
  <1> QED
    BY <1>1, <1>2 DEF SourcesInv

\* The path of the admin address that another process finds before a separator.
LEMMA AddressFound ==
  ASSUME NEW S, Own \subseteq S, NEW Q \in Seq(S), \A i \in DOMAIN Q : Q[i] # Separator,
         NEW rest \in Seq(S), rest # <<>> => rest[1] = Separator, NEW id \in S,
         NEW value, value # NoValue,
         TagLoop!Fold(AddressFlag, << <<"envoy">> >> \o Q).value = value
  PROVE  extractAdminAddressPath(CommandLine(Q \o rest, id)) = value
  <1> DEFINE E == << <<"envoy">> >>
             Z == << Separator, <<RunIdFlag>>, id >>
             EQ == E \o Q
             tail == rest \o Z
             cmd == EQ \o tail
  <1>1. E \in Seq(S) /\ Z \in Seq(S)
    <2>1. <<"envoy">> \in S /\ Separator \in S /\ <<RunIdFlag>> \in S
      BY DEF Own
    <2> QED
      BY <2>1
  <1>2. Z[1] = Separator /\ Len(Z) = 3
    OBVIOUS
  <1>3. CommandLine(Q \o rest, id) = (E \o (Q \o rest)) \o Z
    BY DEF CommandLine
  <1> HIDE DEF E, Z
  <1>4. EQ \in Seq(S) /\ tail \in Seq(S) /\ E \o (Q \o rest) = EQ \o rest
    <2>1. IsAssociative(S, E, Q, rest) /\ IsAssociative(S, Q, rest, Z)
      BY <1>1, Associative
    <2> QED
      BY <2>1, Zenon DEF IsAssociative
  <1>5. CommandLine(Q \o rest, id) = cmd
    <2> HIDE DEF EQ
    <2>1. IsAssociative(S, EQ, rest, Z)
      BY <1>1, <1>4, Associative
    <2>2. EQ \o (rest \o Z) = (EQ \o rest) \o Z
      BY <2>1, Zenon DEF IsAssociative
    <2> QED
      BY <1>3, <1>4, <2>2
  <1>6. tail[1] = Separator
    <2>1. Len(rest) \in Nat /\ Len(rest) # 0 => rest # <<>>
      OBVIOUS
    <2>2. Len(rest) \in Nat /\ \A i \in 1..Len(rest) + Len(Z) :
            tail[i] = IF i <= Len(rest) THEN rest[i] ELSE Z[i - Len(rest)]
      BY <1>1
    <2>3. 1 \in 1..Len(rest) + Len(Z)
      BY <1>2, <2>2
    <2>4. tail[1] = IF 1 <= Len(rest) THEN rest[1] ELSE Z[1 - Len(rest)]
      BY <2>2, <2>3
    <2> HIDE DEF tail
    <2>5. CASE Len(rest) = 0
      <3>1. ~(1 <= Len(rest)) /\ 1 - Len(rest) = 1
        BY <2>5
      <3> QED
        BY <1>2, <2>4, <3>1
    <2>6. CASE Len(rest) # 0
      <3>1. 1 <= Len(rest) /\ rest # <<>>
        BY <2>1, <2>2, <2>6
      <3> QED
        BY <2>4, <3>1
    <2> QED
      BY <2>5, <2>6
  <1>7. \A i \in DOMAIN EQ : EQ[i] # Separator
    <2>1. \A i \in DOMAIN E : E[i] # Separator
      BY DEF E, Separator
    <2> QED
      BY <1>1, <2>1, NoSeparator
  <1> HIDE DEF EQ, tail
  <1>8. Cut(cmd, Len(EQ)) /\ SubSeq(cmd, 1, Len(EQ)) = EQ
    BY <1>4, <1>6, <1>7, CutJoin
  <1>9. cmd \in Seq(S)
    BY <1>4, ConcatProperties
  <1> HIDE DEF cmd
  <1>10. Region(cmd, FALSE) = SubSeq(cmd, 1, Len(EQ))
    BY <1>8, <1>9, RegionsOf, Zenon
  <1>11. Region(cmd, FALSE) = EQ
    BY <1>8, <1>10, Zenon
  <1>12. LastOf(EQ, AddressFlag, FALSE) = value
    BY TagFold DEF EQ, E
  <1>13. scanFlag(cmd, AddressFlag, FALSE) = value
    BY <1>11, <1>12, Zenon DEF scanFlag
  <1> QED
    BY <1>5, <1>13, Zenon DEF extractAdminAddressPath, flagValue

\* For arguments where every flag before the separator has a value that is not empty,
\* and a run that polls for an admin address, the file Envoy is configured from is the
\* user's, the inline configuration is the user's unless there is no admin server in
\* either, when it is the ephemeral one, and other processes find the very path that the
\* run polls (envoy/runtime.go:86-151, config.go:139-166, admin.go:268-305).
THEOREM ArgumentsEnsured ==
  ASSUME NEW S, Own \subseteq S, NEW args \in Seq(S), Tame(Region(args, FALSE)),
         ensureAdminAddress(args).path # NoValue, NEW id \in S
  PROVE  LET result == ensureAdminAddress(args)
         IN  /\ Sources(result.args).path = Sources(args).path
             /\ IF FindAdminAddressFromArgs(args) = "none"
                  THEN Sources(result.args).yaml = Ephemeral
                  ELSE Sources(result.args) = Sources(args)
             /\ extractAdminAddressPath(CommandLine(result.args, id)) = result.path
  <1> DEFINE result == ensureAdminAddress(args)
             none == FindAdminAddressFromArgs(args) = "none"
  <1>1. PICK n : Cut(args, n)
    BY CutExists
  <1>2. n \in Nat /\ n <= Len(args) /\ Len(args) \in Nat
        /\ (n < Len(args) => args[n + 1] = Separator)
    BY <1>1 DEF Cut
  <1> DEFINE P == SubSeq(args, 1, n)
             rest == SubSeq(args, n + 1, Len(args))
             given == ScanLoop!After(args, P, n).path
  <1>3. P \in Seq(S) /\ Len(P) = n /\ rest \in Seq(S) /\ Len(rest) = Len(args) - n
        /\ (n < Len(args) => rest[1] = args[n + 1])
    BY <1>2
  <1>4. rest # <<>> => rest[1] = Separator
    <2>1. rest # <<>> => Len(rest) # 0
      BY <1>3
    <2> QED
      BY <1>2, <1>3, <2>1
  <1>5. Tame(P)
    <2>1. Region(args, FALSE) = P
      BY <1>1, RegionsOf, Zenon
    <2> QED
      BY <2>1, Zenon
  <1>6. PICK yaml \in Pairs(YamlFlag, Ephemeral), path \in Pairs(AddressFlag, DefaultPath) :
          /\ yaml = <<>> <=> ~none
          /\ path = <<>> <=> given # NoValue
          /\ result.path = IF given = NoValue THEN DefaultPath ELSE given
          /\ result.args = (P \o (yaml \o path)) \o rest
    BY <1>1, <1>5, EnsuredIs
  <1> DEFINE Q == P \o (yaml \o path)
  <1> HIDE DEF P, rest, given, result, none
  <1>7. /\ Q \in Seq(S) /\ \A i \in DOMAIN Q : Q[i] # Separator
        /\ Sources(Q) = [awaits |-> "no", path |-> Sources(P).path,
                         yaml |-> IF yaml = <<>> THEN Sources(P).yaml ELSE Ephemeral]
        /\ TagLoop!Fold(AddressFlag, << <<"envoy">> >> \o Q).value
             = IF path = <<>> THEN given ELSE DefaultPath
    <2>1. given = ScanLoop!After(args, P, Len(P)).path
      BY <1>3 DEF given
    <2>2. Added(S, args, P, yaml, path)
      BY <1>3, <1>5, AddedIs
    <2> QED
      BY <2>1, <2>2 DEF Added
  <1>8. result.args = Q \o rest
    BY <1>6
  <1>9. result.path = TagLoop!Fold(AddressFlag, << <<"envoy">> >> \o Q).value
    BY <1>6, <1>7
  <1> HIDE DEF Q
  <1>10. Cut(Q \o rest, Len(Q)) /\ SubSeq(Q \o rest, 1, Len(Q)) = Q
    BY <1>3, <1>4, <1>7, CutJoin
  <1>11. Q \o rest \in Seq(S) /\ (Len(Q) < Len(Q \o rest) <=> n < Len(args))
    BY <1>2, <1>3, <1>7
  <1>12. Sources(Q \o rest) = [awaits |-> IF n < Len(args) THEN "end" ELSE "no",
                               path |-> Sources(Q).path, yaml |-> Sources(Q).yaml]
    <2>1. Sources(SubSeq(Q \o rest, 1, Len(Q))).awaits = "no"
      <3>1. Sources(Q).awaits = "no"
        BY <1>7
      <3> QED
        BY <1>10, <3>1, Zenon
    <2>2. Sources(Q \o rest) = [awaits |-> IF Len(Q) < Len(Q \o rest) THEN "end" ELSE "no",
                                path |-> Sources(SubSeq(Q \o rest, 1, Len(Q))).path,
                                yaml |-> Sources(SubSeq(Q \o rest, 1, Len(Q))).yaml]
      BY <1>10, <1>11, <2>1, SourcesCut
    <2> QED
      BY <1>10, <1>11, <2>2
  <1>13. Sources(args) = [awaits |-> IF n < Len(args) THEN "end" ELSE "no",
                          path |-> Sources(P).path, yaml |-> Sources(P).yaml]
    <2>1. Sources(P).awaits = "no"
      BY <1>3, <1>5, SourcesOfTame
    <2> QED
      BY <1>1, <2>1, SourcesCut DEF P
  <1>14. Sources(result.args).path = Sources(args).path
    BY <1>7, <1>8, <1>12, <1>13
  <1>15. none => Sources(result.args).yaml = Ephemeral
    BY <1>6, <1>7, <1>8, <1>12
  <1>16. ~none => Sources(result.args) = Sources(args)
    BY <1>6, <1>7, <1>8, <1>12, <1>13
  <1>17. result.path # NoValue
    BY DEF result
  <1>18. extractAdminAddressPath(CommandLine(Q \o rest, id)) = result.path
    <2>1. Q \in Seq(S) /\ \A i \in DOMAIN Q : Q[i] # Separator
      BY <1>7
    <2>2. rest \in Seq(S)
      BY <1>3
    <2>3. TagLoop!Fold(AddressFlag, << <<"envoy">> >> \o Q).value = result.path
      BY <1>9
    <2> QED
      BY <1>4, <1>17, <2>1, <2>2, <2>3, AddressFound
  <1> QED
    BY <1>8, <1>14, <1>15, <1>16, <1>18 DEF result, none

\* The place to insert at is in the arguments, whatever they are.
BoundInv(p, args, i, s) ==
  DOMAIN s = ScanFields /\ s.at \in 0..i /\ s.insertAt \in 0..Len(p)

BoundLoop == INSTANCE FoldInduction WITH Op <- ScanTurn, Base <- ScanBase, Inv <- BoundInv

\* The scan is this loop, too.
LEMMA BoundFold == \A args : Scan(args) = BoundLoop!Fold(args, args)
  BY DEF Scan, ScanTurn, ScanBase, BoundLoop!Fold, FoldLeft, BoundLoop!FoldLeft,
         MapThenFoldSet, BoundLoop!MapThenFoldSet, Max, BoundLoop!Max

\* A turn moves one argument on, and takes no other place than that.
LEMMA TurnMoves ==
  ASSUME NEW p, NEW s, DOMAIN s = ScanFields, NEW arg
  PROVE  LET t == ScanTurn(p, s, arg)
         IN  DOMAIN t = ScanFields /\ t.at \in {s.at, s.at + 1} /\ t.insertAt \in {s.insertAt, s.at}
  <1> DEFINE next == [s EXCEPT !.at = s.at + 1, !.awaits = "no"]
             t == ScanTurn(p, s, arg)
             Moved(u) == /\ DOMAIN u = ScanFields /\ u.at \in {s.at, s.at + 1}
                         /\ u.insertAt \in {s.insertAt, s.at}
  <1>1. /\ DOMAIN next = ScanFields /\ next.at = s.at + 1 /\ next.insertAt = s.insertAt
    BY DEF ScanFields
  <1>2. \/ t = s \/ t = next
        \/ \E w : t = [next EXCEPT !.awaits = w]
        \/ \E path : t = [next EXCEPT !.path = path]
        \/ t = [next EXCEPT !.hasConfig = TRUE]
        \/ t = [next EXCEPT !.awaits = "end", !.insertAt = s.at]
    BY Zenon DEF ScanTurn
  <1> HIDE DEF next, t
  <1>3. \A w : Moved([next EXCEPT !.awaits = w]) /\ Moved([next EXCEPT !.path = w])
    BY <1>1 DEF ScanFields
  <1>4. Moved([next EXCEPT !.hasConfig = TRUE])
    BY <1>1 DEF ScanFields
  <1>5. Moved([next EXCEPT !.awaits = "end", !.insertAt = s.at])
    BY <1>1 DEF ScanFields
  <1>6. Moved(s) /\ Moved(next)
    BY <1>1
  <1> HIDE DEF Moved
  <1>7. Moved(t)
    BY <1>2, <1>3, <1>4, <1>5, <1>6
  <1> QED
    BY <1>7 DEF Moved, t

\* So the scan of any arguments ends with a place in them.
LEMMA ScanBounds == ASSUME NEW S, NEW args \in Seq(S) PROVE Scan(args).insertAt \in 0..Len(args)
  <1> DEFINE n == Len(args)
  <1>1. n \in Nat /\ DOMAIN args = 1..n
    OBVIOUS
  <1>2. BoundInv(args, args, 0, ScanBase(args))
    BY <1>1 DEF BoundInv, ScanBase, ScanFields
  <1>3. ASSUME NEW i \in 1..n, NEW s, BoundInv(args, args, i - 1, s)
        PROVE  BoundInv(args, args, i, ScanTurn(args, s, args[i]))
    <2> DEFINE t == ScanTurn(args, s, args[i])
    <2>1. DOMAIN s = ScanFields /\ s.at \in 0..i-1 /\ s.insertAt \in 0..n
      BY <1>3 DEF BoundInv
    <2>2. DOMAIN t = ScanFields /\ t.at \in {s.at, s.at + 1} /\ t.insertAt \in {s.insertAt, s.at}
      BY <2>1, TurnMoves
    <2> HIDE DEF t, n
    <2>3. t.at \in 0..i /\ t.insertAt \in 0..n
      BY <1>1, <2>1, <2>2
    <2> QED
      BY <2>2, <2>3 DEF BoundInv, t, n
  <1> HIDE DEF n
  <1>4. BoundInv(args, args, n, BoundLoop!Fold(args, args))
    BY <1>1, <1>2, <1>3, BoundLoop!FoldInvariance
  <1> QED
    BY <1>4, BoundFold DEF BoundInv

\* The arguments of Envoy are the user's and func-e's.
LEMMA EnsuredAreOwn ==
  ASSUME NEW S, Own \subseteq S, NEW args \in Seq(S)
  PROVE  ensureAdminAddress(args).args \in Seq(S)
  <1> DEFINE n == Scan(args).insertAt
  <1>1. n \in 0..Len(args)
    BY ScanBounds
  <1>2. <<>> \in Seq(S) /\ << <<YamlFlag>>, Ephemeral >> \in Seq(S)
        /\ << <<AddressFlag>>, DefaultPath >> \in Seq(S)
    <2>1. <<YamlFlag>> \in S /\ Ephemeral \in S /\ <<AddressFlag>> \in S /\ DefaultPath \in S
      BY DEF Own
    <2>2. \A a, b \in S : <<a, b>> \in Seq(S)
      OBVIOUS
    <2> QED
      BY <2>1, <2>2
  <1>3. SubSeq(args, 1, n) \in Seq(S) /\ SubSeq(args, n + 1, Len(args)) \in Seq(S)
    BY <1>1
  <1> HIDE DEF n
  <1>4. \A s, t \in Seq(S) : s \o t \in Seq(S)
    BY ConcatProperties
  <1>5. \A s, t \in Seq(S) : Inserted(args, n, s \o t) \in Seq(S)
    BY <1>3, <1>4 DEF Inserted, InsertAfter
  <1>6. \E s \in {<<>>, << <<YamlFlag>>, Ephemeral >>}, t \in {<<>>, << <<AddressFlag>>, DefaultPath >>} :
          ensureAdminAddress(args).args \in {args, Inserted(args, n, s \o t)}
    BY DEF ensureAdminAddress, n
  <1> QED
    BY <1>2, <1>5, <1>6

\* The words of an input and what func-e adds are arguments.
AllArguments == Arguments \cup Own

\* The arguments of MCAlgorithms and func-e's own make one set, as the theorems ask.
LEMMA OwnArguments ==
  /\ Own \subseteq AllArguments /\ RunId \notin {Empty, NoValue}
  /\ input \in Seq(Arguments) => input \in Seq(AllArguments)
  <1>1. Own \subseteq AllArguments
    BY DEF AllArguments
  <1>2. RunId \notin {Empty, NoValue}
    BY DEF RunId, Empty, NoValue
  <1>3. ASSUME input \in Seq(Arguments) PROVE input \in Seq(AllArguments)
    BY <1>3 DEF AllArguments
  <1> QED
    BY <1>1, <1>2, <1>3

\* A well-formed input is tame before its separator.
LEMMA WellFormedIsTame ==
  ASSUME NEW S, input \in Seq(S), WellFormed
  PROVE  Tame(Region(input, FALSE))
  <1> DEFINE args == Region(input, FALSE)
  <1>1. PICK n : Cut(input, n)
    BY CutExists
  <1>2. args = SubSeq(input, 1, n)
    BY <1>1, RegionsOf, Zenon
  <1>3. \A i \in DOMAIN args : args[i] # Separator
    <2>1. n \in Nat /\ n <= Len(input) /\ \A i \in 1..n : input[i] # Separator
      BY <1>1 DEF Cut
    <2>2. DOMAIN SubSeq(input, 1, n) = 1..n /\ \A i \in 1..n : SubSeq(input, 1, n)[i] = input[i]
      BY <2>1
    <2> HIDE DEF args
    <2> QED
      BY <1>2, <2>1, <2>2
  <1>4. \A w \in Words : PlainWord(w)
    <2>1. PlainWord(<<"admin">>)
      BY DEF PlainWord, Separator, Empty, AllFlags, PathFlags, YamlFlag, AddressFlag
    <2>2. PlainWord(<<"plain">>)
      BY DEF PlainWord, Separator, Empty, AllFlags, PathFlags, YamlFlag, AddressFlag
    <2> QED
      BY <2>1, <2>2 DEF Words
  <1>5. \A i \in DOMAIN args :
          /\ IsFlag(args[i], AllFlags) => i < Len(args) /\ args[i + 1] \in Words
          /\ IsJoined(args[i], AllFlags) => Joined(args[i]) # Empty
    BY Zenon DEF WellFormed, AllFlags
  <1> HIDE DEF args
  <1>6. Tame(args)
    BY <1>3, <1>4, <1>5 DEF Tame
  <1> QED
    BY <1>6 DEF args

\* Whatever the arguments are, the identifier of the run is found; and if they are
\* well-formed, so is the path that the run polls.
THEOREM TagsDoGetFound == Spec => []TagsAreFound
  <1> DEFINE S == AllArguments \cup {RunId}
  <1>1. ASSUME input \in Seq(Arguments)
        PROVE  LET cmdline == CommandLine(Result.args, RunId)
               IN  /\ extractRunID(cmdline) = RunId
                   /\ WellFormed /\ Result.path # NoValue =>
                        extractAdminAddressPath(cmdline) = Result.path
    <2>1. input \in Seq(S) /\ Own \subseteq S /\ RunId \in S
      BY <1>1 DEF AllArguments
    <2> HIDE DEF S
    <2>2. Result.args \in Seq(S)
      BY <2>1, EnsuredAreOwn DEF Result
    <2>3. extractRunID(CommandLine(Result.args, RunId)) = RunId
      BY <2>1, <2>2, OwnArguments, RunIdFound
    <2>4. ASSUME WellFormed, Result.path # NoValue
          PROVE  extractAdminAddressPath(CommandLine(Result.args, RunId)) = Result.path
      <3>1. Tame(Region(input, FALSE))
        BY <2>1, <2>4, WellFormedIsTame
      <3> QED
        BY <2>1, <2>4, <3>1, ArgumentsEnsured DEF Result
    <2> QED
      BY <2>3, <2>4
  <1>2. InputInv => TagsAreFound
    BY <1>1 DEF InputInv, TagsAreFound
  <1> QED
    BY <1>2, InputInvariance, PTL

\* A run that polls for an admin address has an admin server.
THEOREM AdminServerIsConfigured == Spec => []AdminServerConfigured
  <1>1. ASSUME input \in Seq(Arguments), WellFormed, Result.path # NoValue,
               FindAdminAddressFromArgs(input) # "error"
        PROVE  FindAdminAddressFromArgs(Result.args) = "found"
    <2> DEFINE before == Sources(input)
               after == Sources(Result.args)
    <2>1. input \in Seq(AllArguments) /\ Own \subseteq AllArguments
      BY <1>1, OwnArguments
    <2>2. Tame(Region(input, FALSE))
      BY <1>1, <2>1, WellFormedIsTame
    <2>3. Separator \in AllArguments
      BY DEF AllArguments, Own
    <2>4. /\ after.path = before.path
          /\ FindAdminAddressFromArgs(input) = "none" => after.yaml = Ephemeral
          /\ FindAdminAddressFromArgs(input) # "none" => after = before
      BY <1>1, <2>1, <2>2, <2>3, ArgumentsEnsured DEF Result
    <2> HIDE DEF before, after
    <2>5. CASE FindAdminAddressFromArgs(input) = "none"
      <3>1. Readable(before.path)
        BY <2>5 DEF FindAdminAddressFromArgs, before
      <3>2. Readable(Ephemeral) /\ HasAdmin(Ephemeral)
        BY DEF Readable, HasAdmin
      <3> QED
        BY <2>4, <2>5, <3>1, <3>2 DEF FindAdminAddressFromArgs, after
    <2>6. CASE FindAdminAddressFromArgs(input) # "none"
      BY <1>1, <2>4, <2>6 DEF FindAdminAddressFromArgs, before, after
    <2> QED
      BY <2>5, <2>6
  <1>2. InputInv => AdminServerConfigured
    BY <1>1 DEF InputInv, AdminServerConfigured
  <1> QED
    BY <1>2, InputInvariance, PTL

\* The user's configuration stays what Envoy reads.
THEOREM UserConfigStays == Spec => []UserConfigIsKept
  <1>1. ASSUME input \in Seq(Arguments), WellFormed
        PROVE  LET before == Sources(input)
                   after == Sources(Result.args)
               IN  /\ after.path = before.path
                   /\ HasAdmin(before.path) \/ HasAdmin(before.yaml) => after = before
    <2> DEFINE before == Sources(input)
               after == Sources(Result.args)
    <2>1. CASE Result.path = NoValue
      <3>1. DefaultPath # NoValue
        BY DEF DefaultPath, NoValue
      <3>2. Result.args = input
        BY <2>1, <3>1 DEF Result, ensureAdminAddress
      <3> QED
        BY <3>2
    <2>2. CASE Result.path # NoValue
      <3>1. input \in Seq(AllArguments) /\ Own \subseteq AllArguments
        BY <1>1, OwnArguments
      <3>2. Tame(Region(input, FALSE))
        BY <1>1, <3>1, WellFormedIsTame
      <3>3. Separator \in AllArguments
        BY DEF AllArguments, Own
      <3>4. /\ after.path = before.path
            /\ FindAdminAddressFromArgs(input) # "none" => after = before
        BY <2>2, <3>1, <3>2, <3>3, ArgumentsEnsured DEF Result
      <3> HIDE DEF before, after
      <3>5. HasAdmin(before.path) \/ HasAdmin(before.yaml)
              => FindAdminAddressFromArgs(input) # "none"
        BY DEF FindAdminAddressFromArgs, before
      <3> QED
        BY <3>4, <3>5 DEF before, after
    <2> QED
      BY <2>1, <2>2
  <1>2. InputInv => UserConfigIsKept
    BY <1>1 DEF InputInv, UserConfigIsKept
  <1> QED
    BY <1>2, InputInvariance, PTL

-----------------------------------------------------------------------------
(* The options of a run.                                                   *)

\* Of the first n options, those with one of the names.
Matching(names, options, n) == {j \in 1..n : options[j].name \in names}

\* The value of the last of them, if any.
LastInv(names, options, n, value) ==
  LET matching == Matching(names, options, n)
  IN  /\ matching = {} => value = Unset
      /\ matching # {} =>
           \E k \in matching : value = options[k].value /\ \A j \in matching : j <= k

\* A turn that takes the value of a matching option, and else keeps its own.
LEMMA LastTurnKeeps ==
  ASSUME NEW names, NEW options, NEW i \in Nat \ {0}, NEW value,
         LastInv(names, options, i - 1, value)
  PROVE  LastInv(names, options, i,
                 IF options[i].name \in names THEN options[i].value ELSE value)
  <1> DEFINE old == Matching(names, options, i - 1)
             new == Matching(names, options, i)
  <1>1. CASE options[i].name \in names
    <2>1. i \in new /\ \A j \in new : j <= i
      BY <1>1 DEF Matching
    <2> HIDE DEF new
    <2> QED
      BY <1>1, <2>1 DEF LastInv, new
  <1>2. CASE options[i].name \notin names
    <2>1. new = old
      BY <1>2 DEF Matching
    <2> QED
      BY <1>2, <2>1 DEF LastInv
  <1> QED
    BY <1>1, <1>2

\* Names that the same options have, have the same last value.
LEMMA LastIsOne ==
  ASSUME NEW A, NEW B, NEW options, NEW n \in Nat, NEW v, NEW w,
         LastInv(A, options, n, v), LastInv(B, options, n, w),
         Matching(A, options, n) = Matching(B, options, n)
  PROVE  v = w
  <1> DEFINE matching == Matching(A, options, n)
  <1>1. CASE matching = {}
    BY <1>1 DEF LastInv
  <1>2. CASE matching # {}
    <2>1. PICK k \in matching : v = options[k].value /\ \A j \in matching : j <= k
      BY <1>2 DEF LastInv
    <2>2. PICK l \in matching : w = options[l].value /\ \A j \in matching : j <= l
      BY <1>2 DEF LastInv
    <2>3. k = l
      BY <2>1, <2>2 DEF Matching
    <2> QED
      BY <2>1, <2>2, <2>3
  <1> QED
    BY <1>1, <1>2

HomesTurn(p, ro, option) ==
  [h \in Homes |-> IF option.name \in {"home", h} THEN option.value ELSE ro[h]]
HomesBase(p) == NoHomes
HomesInv(p, options, n, ro) ==
  /\ DOMAIN ro = Homes
  /\ \A h \in Homes : LastInv({"home", h}, options, n, ro[h])

OfAPI == INSTANCE FoldInduction WITH Op <- HomesTurn, Base <- HomesBase, Inv <- HomesInv

\* The options of the API, applied, are that loop.
LEMMA AppliedFold == \A options : Applied(options) = OfAPI!Fold(0, options)
  BY DEF Applied, HomesTurn, HomesBase, OfAPI!Fold, FoldLeft, OfAPI!FoldLeft,
         MapThenFoldSet, OfAPI!MapThenFoldSet, Max, OfAPI!Max

\* Each home has the value of the last option about it.
LEMMA AppliedIsLast ==
  ASSUME NEW options, NEW n \in Nat, DOMAIN options = 1..n
  PROVE  HomesInv(0, options, n, Applied(options))
  <1>1. HomesInv(0, options, 0, HomesBase(0))
    BY DEF HomesInv, HomesBase, NoHomes, LastInv, Matching
  <1>2. ASSUME NEW i \in 1..n, NEW ro, HomesInv(0, options, i - 1, ro)
        PROVE  HomesInv(0, options, i, HomesTurn(0, ro, options[i]))
    <2>1. ASSUME NEW h \in Homes
          PROVE  LastInv({"home", h}, options, i, HomesTurn(0, ro, options[i])[h])
      <3>1. LastInv({"home", h}, options, i - 1, ro[h])
        BY <1>2 DEF HomesInv
      <3>2. \A names : LastInv(names, options, i - 1, ro[h]) =>
              LastInv(names, options, i,
                      IF options[i].name \in names THEN options[i].value ELSE ro[h])
        BY LastTurnKeeps
      <3>3. LastInv({"home", h}, options, i,
                    IF options[i].name \in {"home", h} THEN options[i].value ELSE ro[h])
        BY <3>1, <3>2
      <3> QED
        BY <3>3 DEF HomesTurn
    <2>2. DOMAIN HomesTurn(0, ro, options[i]) = Homes
      BY DEF HomesTurn
    <2> QED
      BY <2>1, <2>2 DEF HomesInv
  <1>3. HomesInv(0, options, n, OfAPI!Fold(0, options))
    BY <1>1, <1>2, OfAPI!FoldInvariance
  <1> QED
    BY <1>3, AppliedFold

FlagTurn(name, value, option) == IF option.name = name THEN option.value ELSE value
FlagBase(name) == Unset
FlagInv(name, options, n, value) == LastInv({name}, options, n, value)

OfFlag == INSTANCE FoldInduction WITH Op <- FlagTurn, Base <- FlagBase, Inv <- FlagInv

\* What the command line has for a flag.
Flag(options, name) ==
  FoldLeft(LAMBDA value, option : IF option.name = name THEN option.value ELSE value,
           Unset, options)

\* A flag is that loop.
LEMMA FlagFold == \A options, name : Flag(options, name) = OfFlag!Fold(name, options)
  BY DEF Flag, FlagTurn, FlagBase, OfFlag!Fold, FoldLeft, OfFlag!FoldLeft,
         MapThenFoldSet, OfFlag!MapThenFoldSet, Max, OfFlag!Max

\* The last value of a flag is the one that counts.
LEMMA FlagIsLast ==
  ASSUME NEW options, NEW n \in Nat, DOMAIN options = 1..n, NEW name
  PROVE  LastInv({name}, options, n, Flag(options, name))
  <1>1. FlagInv(name, options, 0, FlagBase(name))
    BY DEF FlagInv, FlagBase, LastInv, Matching
  <1>2. ASSUME NEW i \in 1..n, NEW value, FlagInv(name, options, i - 1, value)
        PROVE  FlagInv(name, options, i, FlagTurn(name, value, options[i]))
    <2>1. LastInv({name}, options, i,
                  IF options[i].name \in {name} THEN options[i].value ELSE value)
      BY <1>2, LastTurnKeeps DEF FlagInv
    <2> QED
      BY <2>1 DEF FlagInv, FlagTurn
  <1>3. FlagInv(name, options, n, OfFlag!Fold(name, options))
    BY <1>1, <1>2, OfFlag!FoldInvariance
  <1> QED
    BY <1>3, FlagFold DEF FlagInv

\* What the command line makes of the flags.
LEMMA NewAppFlags ==
  \A options, runID, user :
    NewApp(options, runID, user) =
      InitializeGlobalOpts(NoHomes, Flag(options, "home"),
                           [h \in Homes |-> Flag(options, h)], runID, user)
  BY DEF NewApp, Flag

\* The layout is that of a home for everything when there is one.
LEMMA LayoutIs ==
  ASSUME NEW preset, NEW homeDir, NEW given, NEW runID, NEW user
  PROVE  InitializeGlobalOpts(preset, homeDir, given, runID, user).legacy = (homeDir # Unset)
  BY DEF InitializeGlobalOpts

OptionsOf(V) == [name : Homes \cup {"home"}, value : V]

\* Options that set one home for everything are the same on both front ends.
LEMMA OneHomeAgrees ==
  ASSUME NEW V, NEW options \in Seq(OptionsOf(V)), NEW runID, NEW user,
         \A i \in DOMAIN options : options[i].name \notin Homes
  PROVE  initOpts(options, runID, user) = NewApp(options, runID, user)
  <1> DEFINE n == Len(options)
             ro == Applied(options)
             H == Flag(options, "home")
             F == [h \in Homes |-> Flag(options, h)]
  <1>1. n \in Nat /\ DOMAIN options = 1..n /\ \A i \in 1..n : options[i].name = "home"
    <2>1. \A i \in DOMAIN options : options[i] \in OptionsOf(V)
      OBVIOUS
    <2> QED
      BY <2>1 DEF OptionsOf
  <1> HIDE DEF n
  <1>2. LastInv({"home"}, options, n, H)
    BY <1>1, FlagIsLast
  <1>3. ASSUME NEW h \in Homes PROVE ro[h] = H
    <2>1. LastInv({"home", h}, options, n, ro[h])
      BY <1>1, AppliedIsLast DEF HomesInv
    <2>2. Matching({"home", h}, options, n) = Matching({"home"}, options, n)
      BY <1>1 DEF Matching
    <2> QED
      BY <1>1, <1>2, <2>1, <2>2, LastIsOne
  <1>4. ASSUME NEW h \in Homes PROVE F[h] = Unset
    <2>1. LastInv({h}, options, n, Flag(options, h))
      BY <1>1, FlagIsLast
    <2>2. Matching({h}, options, n) = {}
      BY <1>1 DEF Matching, Homes
    <2> QED
      BY <2>1, <2>2 DEF LastInv
  <1> HIDE DEF ro, H, F
  <1>5. initOpts(options, runID, user) = InitializeGlobalOpts(ro, H, ro, runID, user)
    <2>1. (IF \A h \in Homes : ro[h] = ro.config THEN ro.config ELSE Unset) = H
      BY <1>3 DEF Homes
    <2> QED
      BY <2>1 DEF initOpts, ro
  <1>6. NewApp(options, runID, user) = InitializeGlobalOpts(NoHomes, H, F, runID, user)
    BY NewAppFlags DEF H, F
  <1>7. ASSUME NEW h \in Homes
        PROVE  (IF H # Unset THEN Abs(H) ELSE IF ro[h] # Unset THEN ro[h]
                ELSE getHome(h, ro[h], user))
             = (IF H # Unset THEN Abs(H) ELSE IF NoHomes[h] # Unset THEN NoHomes[h]
                ELSE getHome(h, F[h], user))
    BY <1>3, <1>4 DEF NoHomes
  <1>8. [h \in Homes |-> IF H # Unset THEN Abs(H) ELSE IF ro[h] # Unset THEN ro[h]
                         ELSE getHome(h, ro[h], user)]
      = [h \in Homes |-> IF H # Unset THEN Abs(H) ELSE IF NoHomes[h] # Unset THEN NoHomes[h]
                         ELSE getHome(h, F[h], user)]
    BY <1>7
  <1> QED
    BY <1>5, <1>6, <1>8 DEF InitializeGlobalOpts

\* Without such an option they differ only over relative homes, and over four homes
\* that the API takes for one.
LEMMA FourHomesAgree ==
  ASSUME NEW V, NEW options \in Seq(OptionsOf(V)), NEW runID, NEW user,
         \A i \in DOMAIN options : options[i].name # "home",
         \A i \in DOMAIN options : Abs(options[i].value) = options[i].value
  PROVE  \/ initOpts(options, runID, user) = NewApp(options, runID, user)
         \/ /\ initOpts(options, runID, user).legacy
            /\ \A h \in Homes : \E i \in DOMAIN options : options[i].name = h
  <1> DEFINE n == Len(options)
             ro == Applied(options)
             F == [h \in Homes |-> Flag(options, h)]
             homeDir == IF \A h \in Homes : ro[h] = ro.config THEN ro.config ELSE Unset
  <1>1. /\ n \in Nat /\ DOMAIN options = 1..n
        /\ \A i \in 1..n : options[i].name # "home" /\ Abs(options[i].value) = options[i].value
    BY DEF OptionsOf
  <1> HIDE DEF n
  <1>2. Flag(options, "home") = Unset
    <2>1. LastInv({"home"}, options, n, Flag(options, "home"))
      BY <1>1, FlagIsLast
    <2>2. Matching({"home"}, options, n) = {}
      BY <1>1 DEF Matching
    <2> QED
      BY <2>1, <2>2 DEF LastInv
  <1>3. ASSUME NEW h \in Homes
        PROVE  /\ ro[h] = F[h]
               /\ ro[h] # Unset => /\ Abs(ro[h]) = ro[h]
                                  /\ \E i \in 1..n : options[i].name = h
    <2>1. LastInv({"home", h}, options, n, ro[h])
      BY <1>1, AppliedIsLast DEF HomesInv
    <2>2. LastInv({h}, options, n, Flag(options, h))
      BY <1>1, FlagIsLast
    <2>3. Matching({"home", h}, options, n) = Matching({h}, options, n)
      BY <1>1 DEF Matching
    <2>4. ro[h] = Flag(options, h)
      BY <1>1, <2>1, <2>2, <2>3, LastIsOne
    <2>5. ro[h] # Unset => \E k \in Matching({h}, options, n) : ro[h] = options[k].value
      BY <2>1, <2>3 DEF LastInv
    <2> QED
      BY <1>1, <2>4, <2>5 DEF Matching
  <1> HIDE DEF ro, F
  <1>4. initOpts(options, runID, user) = InitializeGlobalOpts(ro, homeDir, ro, runID, user)
    BY DEF initOpts, ro
  <1>5. NewApp(options, runID, user) = InitializeGlobalOpts(NoHomes, Unset, F, runID, user)
    BY <1>2, NewAppFlags DEF F
  <1>6. CASE homeDir # Unset
    <2>1. \A h \in Homes : ro[h] # Unset
      BY <1>6
    <2>2. initOpts(options, runID, user).legacy
      <3> HIDE DEF homeDir
      <3>1. initOpts(options, runID, user).legacy = (homeDir # Unset)
        BY <1>4, LayoutIs
      <3> QED
        BY <1>6, <3>1
    <2> QED
      BY <1>1, <1>3, <2>1, <2>2
  <1>7. CASE homeDir = Unset
    <2>1. ASSUME NEW h \in Homes
          PROVE  (IF ro[h] # Unset THEN ro[h] ELSE getHome(h, ro[h], user))
               = (IF NoHomes[h] # Unset THEN NoHomes[h] ELSE getHome(h, F[h], user))
      BY <1>3 DEF NoHomes, getHome
    <2>2. [h \in Homes |-> IF ro[h] # Unset THEN ro[h] ELSE getHome(h, ro[h], user)]
        = [h \in Homes |-> IF NoHomes[h] # Unset THEN NoHomes[h]
                           ELSE getHome(h, F[h], user)]
      BY <2>1
    <2> HIDE DEF homeDir
    <2> QED
      BY <1>4, <1>5, <1>7, <2>2 DEF InitializeGlobalOpts
  <1> QED
    BY <1>6, <1>7

\* Whatever the options are and however many, the command line and the API end in the same
\* directories, layout and identifier, but for what the API is known to do otherwise.
THEOREM FrontEndsDoAgree == Spec => []FrontEndsAgree
  <1>1. ASSUME input \in Seq(GivenOptions), NEW runID \in RunIDs, NEW user \in Users
        PROVE  LET viaAPI == initOpts(input, runID, user)
                   viaFlags == NewApp(input, runID, user)
                   legacy == Named({"home"}) # {}
                   separate == Named(Homes)
               IN  /\ separate = {} => viaAPI = viaFlags
                   /\ ~legacy /\ viaAPI # viaFlags =>
                        \/ \E option \in separate : Abs(option.value) # option.value
                        \/ viaAPI.legacy /\ {option.name : option \in separate} = Homes
                   /\ viaAPI.legacy => \A h \in Homes : viaAPI.dir[h] = viaAPI.dir["config"]
    <2> DEFINE viaAPI == initOpts(input, runID, user)
               viaFlags == NewApp(input, runID, user)
               separate == Named(Homes)
    <2>1. input \in Seq(OptionsOf(Values))
      BY <1>1 DEF GivenOptions, OptionsOf
    <2>2. ASSUME NEW names
          PROVE  Named(names) = {input[i] : i \in {j \in DOMAIN input : input[j].name \in names}}
      BY DEF Named, ToSet
    <2>3. \A i \in DOMAIN input : input[i].name \in Homes \cup {"home"}
      <3>1. \A i \in DOMAIN input : input[i] \in OptionsOf(Values)
        BY <2>1
      <3> QED
        BY <3>1 DEF OptionsOf
    <2>4. ASSUME separate = {} PROVE viaAPI = viaFlags
      <3>1. \A i \in DOMAIN input : input[i].name \notin Homes
        BY <2>2, <2>4
      <3> QED
        BY <2>1, <3>1, OneHomeAgrees
    <2>5. ASSUME Named({"home"}) = {}, viaAPI # viaFlags
          PROVE  \/ \E option \in separate : Abs(option.value) # option.value
                 \/ viaAPI.legacy /\ {option.name : option \in separate} = Homes
      <3>1. \A i \in DOMAIN input : input[i].name # "home"
        BY <2>2, <2>5
      <3>2. \A i \in DOMAIN input : input[i] \in separate
        BY <2>2, <2>3, <3>1
      <3>3. CASE \E i \in DOMAIN input : Abs(input[i].value) # input[i].value
        BY <3>2, <3>3
      <3>4. CASE \A i \in DOMAIN input : Abs(input[i].value) = input[i].value
        <4>1. viaAPI.legacy /\ \A h \in Homes : \E i \in DOMAIN input : input[i].name = h
          BY <2>1, <2>5, <3>1, <3>4, FourHomesAgree
        <4>2. {option.name : option \in separate} = Homes
          BY <3>2, <4>1 DEF Named
        <4> QED
          BY <4>1, <4>2
      <3> QED
        BY <3>3, <3>4
    <2>6. viaAPI.legacy => \A h \in Homes : viaAPI.dir[h] = viaAPI.dir["config"]
      BY DEF initOpts, InitializeGlobalOpts, Homes
    <2> QED
      BY <2>4, <2>5, <2>6
  <1>2. InputInv => FrontEndsAgree
    BY <1>1 DEF InputInv, FrontEndsAgree
  <1> QED
    BY <1>2, InputInvariance, PTL

-----------------------------------------------------------------------------
(* The directories of a run.                                               *)

\* A path with a name that is not in the other is no beginning of it.
LEMMA NotPrefix ==
  ASSUME NEW S, NEW s \in Seq(S), NEW t \in Seq(S), NEW x, x \in ToSet(s), x \notin ToSet(t)
  PROVE  ~IsPrefix(s, t)
  <1>1. SUFFICES ASSUME IsPrefix(s, t) PROVE FALSE
    OBVIOUS
  <1>2. PICK i \in 1..Len(s) : s[i] = x
    BY DEF ToSet
  <1>3. SubSeq(s, 1, Len(s))[i] = s[i] /\ SubSeq(t, 1, Len(s))[i] = t[i] /\ i \in 1..Len(t)
    BY <1>1 DEF IsPrefix
  <1>4. t[i] = x
    BY <1>1, <1>2, <1>3 DEF IsPrefix
  <1> QED
    BY <1>3, <1>4 DEF ToSet

\* What is put after a path is in the result, and nothing else is new.
LEMMA Joining ==
  ASSUME NEW S, NEW s \in Seq(S), NEW t \in Seq(S)
  PROVE  s \o t \in Seq(S) /\ ToSet(s \o t) = ToSet(s) \cup ToSet(t)
  <1>1. /\ Len(s \o t) = Len(s) + Len(t) /\ Len(s) \in Nat /\ Len(t) \in Nat
        /\ \A i \in 1..Len(s \o t) : (s \o t)[i] = IF i <= Len(s) THEN s[i] ELSE t[i - Len(s)]
    OBVIOUS
  <1>2. ToSet(s) \subseteq ToSet(s \o t)
    BY <1>1 DEF ToSet
  <1>3. ASSUME NEW i \in 1..Len(t) PROVE t[i] \in ToSet(s \o t)
    <2>1. i + Len(s) \in 1..Len(s \o t) /\ (s \o t)[i + Len(s)] = t[i]
      BY <1>1
    <2> QED
      BY <2>1 DEF ToSet
  <1>4. ASSUME NEW i \in 1..Len(s \o t) PROVE (s \o t)[i] \in ToSet(s) \cup ToSet(t)
    <2>1. CASE i <= Len(s)
      BY <1>1, <2>1 DEF ToSet
    <2>2. CASE ~(i <= Len(s))
      <3>1. i - Len(s) \in 1..Len(t)
        BY <1>1, <2>2
      <3> QED
        BY <1>1, <2>2, <3>1 DEF ToSet
    <2> QED
      BY <2>1, <2>2
  <1>5. s \o t \in Seq(S)
    OBVIOUS
  <1>6. /\ ToSet(s \o t) = {(s \o t)[i] : i \in 1..Len(s \o t)}
        /\ ToSet(t) = {t[i] : i \in 1..Len(t)}
    BY <1>5 DEF ToSet
  <1> QED
    BY <1>2, <1>3, <1>4, <1>5, <1>6

\* Names of func-e's own in its layouts.
OfVersions == {"versions", "envoy-versions", "version", "envoy-version"}
OfRuns == {"runs", "envoy-runs"}
OfCwd == {Root, "cwd"}

\* An absolute path is made of the names of the path and of the working directory's.
LEMMA AbsHas ==
  ASSUME NEW S, NEW path \in Seq(S)
  PROVE  /\ Abs(path) \in Seq(S \cup OfCwd)
         /\ ToSet(path) \subseteq ToSet(Abs(path))
         /\ ToSet(Abs(path)) \subseteq ToSet(path) \cup OfCwd
  <1> DEFINE T == S \cup OfCwd
  <1>1. Cwd \in Seq(T) /\ path \in Seq(T) /\ ToSet(Cwd) = OfCwd
    BY DEF Cwd, OfCwd, ToSet
  <1> QED
    BY <1>1, Joining DEF Abs

RunDirsOf(o, id) == {Abs(EnvoyRunDir(o, id)), Abs(EnvoyRuntimeDir(o, id))}
SharedBy(o) == {Abs(EnvoyVersionsDir(o)), Abs(EnvoyVersionFile(o))}

\* The directories of a run hold its identifier, and no name of the versions' places.
LEMMA RunDirsHave ==
  ASSUME NEW Names, NEW o, o.dir \in [Homes -> Seq(Names)], NEW id,
         NEW d \in RunDirsOf(o, id)
  PROVE  /\ d \in Seq(Names \cup OfCwd \cup OfRuns \cup {id})
         /\ id \in ToSet(d)
  <1> DEFINE S == Names \cup OfRuns \cup {id}
  <1>1. o.dir.state \in Seq(S) /\ o.dir.runtime \in Seq(S)
    <2>1. o.dir["state"] \in Seq(Names) /\ o.dir["runtime"] \in Seq(Names)
      BY DEF Homes
    <2> QED
      BY <2>1
  <1>2. ASSUME NEW path \in Seq(S), id \in ToSet(path), d = Abs(path)
        PROVE  d \in Seq(S \cup OfCwd) /\ id \in ToSet(d)
    BY <1>2, AbsHas
  <1>3. ASSUME NEW r \in OfRuns
        PROVE  <<r, id>> \in Seq(S) /\ id \in ToSet(<<r, id>>)
    BY DEF ToSet
  <1>4. <<id>> \in Seq(S) /\ id \in ToSet(<<id>>)
    BY DEF ToSet
  <1> HIDE DEF S
  <1>5. ASSUME NEW home \in Seq(S), NEW path \in Seq(S), id \in ToSet(path)
        PROVE  home \o path \in Seq(S) /\ id \in ToSet(home \o path)
    <2>1. home \o path \in Seq(S) /\ ToSet(home \o path) = ToSet(home) \cup ToSet(path)
      BY Joining
    <2> QED
      BY <1>5, <2>1
  <1>6. EnvoyRunDir(o, id) \in Seq(S) /\ id \in ToSet(EnvoyRunDir(o, id))
    <2> DEFINE r == IF o.legacy THEN "runs" ELSE "envoy-runs"
    <2>1. EnvoyRunDir(o, id) = o.dir.state \o <<r, id>> /\ r \in OfRuns
      BY DEF EnvoyRunDir, OfRuns
    <2> HIDE DEF r
    <2> QED
      BY <1>1, <1>3, <1>5, <2>1
  <1>7. EnvoyRuntimeDir(o, id) \in Seq(S) /\ id \in ToSet(EnvoyRuntimeDir(o, id))
    <2>1. \/ EnvoyRuntimeDir(o, id) = o.dir.runtime \o <<"runs", id>>
          \/ EnvoyRuntimeDir(o, id) = o.dir.runtime \o <<id>>
      BY DEF EnvoyRuntimeDir
    <2>2. "runs" \in OfRuns
      BY DEF OfRuns
    <2> QED
      BY <1>1, <1>3, <1>4, <1>5, <2>1, <2>2
  <1>8. S \cup OfCwd = Names \cup OfCwd \cup OfRuns \cup {id}
    BY DEF S
  <1> QED
    BY <1>2, <1>6, <1>7, <1>8 DEF RunDirsOf

\* The places of the versions hold a name of theirs, and no identifier of a run.
LEMMA SharedHave ==
  ASSUME NEW Names, NEW o, o.dir \in [Homes -> Seq(Names)],
         NEW s \in SharedBy(o)
  PROVE  /\ s \in Seq(Names \cup OfCwd \cup OfVersions)
         /\ \E mark \in OfVersions : mark \in ToSet(s)
  <1> DEFINE S == Names \cup OfVersions
  <1>1. o.dir.data \in Seq(S) /\ o.dir.config \in Seq(S)
    <2>1. o.dir["data"] \in Seq(Names) /\ o.dir["config"] \in Seq(Names)
      BY DEF Homes
    <2> QED
      BY <2>1
  <1>2. ASSUME NEW home \in Seq(S), NEW mark \in OfVersions, s = Abs(Append(home, mark))
        PROVE  s \in Seq(S \cup OfCwd) /\ mark \in ToSet(s)
    <2>1. Append(home, mark) \in Seq(S) /\ mark \in ToSet(Append(home, mark))
      <3>1. /\ Len(home) + 1 \in DOMAIN Append(home, mark)
            /\ Append(home, mark)[Len(home) + 1] = mark
        OBVIOUS
      <3> QED
        BY <3>1 DEF ToSet
    <2> QED
      BY <1>2, <2>1, AbsHas
  <1>3. \E home \in Seq(S), mark \in OfVersions : s = Abs(Append(home, mark))
    BY <1>1 DEF SharedBy, EnvoyVersionsDir, EnvoyVersionFile, OfVersions
  <1>4. S \cup OfCwd = Names \cup OfCwd \cup OfVersions
    OBVIOUS
  <1> QED
    BY <1>2, <1>3, <1>4

\* Two runs with different identifiers, in either layout each and with any homes, have
\* directories apart from each other and from the versions and the version file, as long
\* as no directory on the way to a home has the name of a run or of a place of func-e's
\* versions (paths.go:16-62).
THEOREM DirectoriesApart ==
  ASSUME NEW Names, NEW o1, NEW o2,
         o1.dir \in [Homes -> Seq(Names)], o2.dir \in [Homes -> Seq(Names)],
         NEW a, NEW b, a # b,
         {a, b} \cap (Names \cup OfCwd \cup OfRuns \cup OfVersions) = {},
         OfVersions \cap Names = {},
         NEW d \in RunDirsOf(o1, a),
         NEW other \in RunDirsOf(o2, b) \cup SharedBy(o2)
  PROVE  ~IsPrefix(d, other) /\ ~IsPrefix(other, d)
  <1> DEFINE S == Names \cup OfCwd \cup OfRuns \cup OfVersions \cup {a, b}
  <1>1. ASSUME NEW U, NEW path \in Seq(U) PROVE ToSet(path) \subseteq U
    BY DEF ToSet
  <1>2. d \in Seq(Names \cup OfCwd \cup OfRuns \cup {a}) /\ a \in ToSet(d)
    BY RunDirsHave
  <1>3. d \in Seq(S) /\ ToSet(d) \subseteq Names \cup OfCwd \cup OfRuns \cup {a}
    BY <1>1, <1>2
  <1>4. CASE other \in RunDirsOf(o2, b)
    <2>1. other \in Seq(Names \cup OfCwd \cup OfRuns \cup {b}) /\ b \in ToSet(other)
      BY <1>4, RunDirsHave
    <2>2. ToSet(other) \subseteq Names \cup OfCwd \cup OfRuns \cup {b}
      BY <1>1, <2>1
    <2>3. a \notin ToSet(other) /\ b \notin ToSet(d)
      BY <1>3, <2>2
    <2>4. other \in Seq(S)
      BY <2>1
    <2> QED
      BY <1>2, <1>3, <2>1, <2>3, <2>4, NotPrefix
  <1>5. CASE other \in SharedBy(o2)
    <2>1. /\ other \in Seq(Names \cup OfCwd \cup OfVersions)
          /\ \E mark \in OfVersions : mark \in ToSet(other)
      BY <1>5, SharedHave
    <2>2. PICK mark \in OfVersions : mark \in ToSet(other)
      BY <2>1
    <2>3. other \in Seq(S) /\ a \notin ToSet(other)
      <3>1. other \in Seq(S)
        BY <2>1
      <3>2. ToSet(other) \subseteq Names \cup OfCwd \cup OfVersions
        BY <1>1, <2>1
      <3> QED
        BY <3>1, <3>2
    <2>4. mark \notin OfCwd \cup OfRuns
      BY DEF OfVersions, OfCwd, OfRuns, Root
    <2>5. mark \notin ToSet(d)
      BY <1>3, <2>2, <2>4
    <2> QED
      BY <1>2, <1>3, <2>2, <2>3, <2>5, NotPrefix
  <1> QED
    BY <1>4, <1>5

\* The value of an option is one that was given, or none.
LEMMA ValueIsGiven ==
  ASSUME NEW V, NEW options \in Seq(OptionsOf(V)), NEW names, NEW value,
         LastInv(names, options, Len(options), value)
  PROVE  value \in V \cup {Unset}
  <1>1. \A i \in 1..Len(options) : options[i] \in OptionsOf(V)
    OBVIOUS
  <1>2. \A i \in 1..Len(options) : options[i].value \in V
    BY <1>1 DEF OptionsOf
  <1> QED
    BY <1>2 DEF LastInv, Matching

\* The homes of a run are paths made of the names of the options, the working directory,
\* the defaults and what failed.
LEMMA HomesAreOf ==
  ASSUME NEW S, OfCwd \subseteq S, Failed \in Seq(S), \A h \in Homes : Defaults[h] \in Seq(S),
         NEW preset, NEW given, NEW homeDir \in Seq(S),
         \A h \in Homes : preset[h] \in Seq(S) /\ given[h] \in Seq(S),
         NEW runID, NEW user
  PROVE  InitializeGlobalOpts(preset, homeDir, given, runID, user).dir \in [Homes -> Seq(S)]
  <1>1. ASSUME NEW path \in Seq(S) PROVE Abs(path) \in Seq(S)
    <2>1. Abs(path) \in Seq(S \cup OfCwd) /\ S \cup OfCwd = S
      BY AbsHas
    <2> QED
      BY <2>1
  <1>2. Unset \in Seq(S)
    BY DEF Unset
  <1>3. ASSUME NEW h \in Homes
        PROVE  (IF homeDir # Unset THEN Abs(homeDir)
                ELSE IF preset[h] # Unset THEN preset[h]
                ELSE getHome(h, given[h], user)) \in Seq(S)
    BY <1>1, <1>2 DEF getHome
  <1> QED
    BY <1>3 DEF InitializeGlobalOpts

\* The names of the values, of the defaults and of what failed.
HomeNames == OfCwd \cup {"unknown", "x", "y", "home", ".config", ".local", "share",
                        "state", "tmp", "func-e", "func-e-uid"}

\* The homes that are given, and the defaults, are made of these names.
LEMMA NamesOfHomes ==
  /\ \A h \in Homes : Defaults[h] \in Seq(HomeNames)
  /\ Values \cup {Unset} \subseteq Seq(HomeNames)
  <1>1. \A h \in Homes : Defaults[h] \in Seq(HomeNames)
    <2>1. /\ <<Root, "home", ".config", "func-e">> \in Seq(HomeNames)
          /\ <<Root, "home", ".local", "share", "func-e">> \in Seq(HomeNames)
          /\ <<Root, "home", ".local", "state", "func-e">> \in Seq(HomeNames)
          /\ <<Root, "tmp", "func-e-uid">> \in Seq(HomeNames)
      BY DEF HomeNames, OfCwd, Root
    <2>2. /\ Defaults["config"] = <<Root, "home", ".config", "func-e">>
          /\ Defaults["data"] = <<Root, "home", ".local", "share", "func-e">>
          /\ Defaults["state"] = <<Root, "home", ".local", "state", "func-e">>
          /\ Defaults["runtime"] = <<Root, "tmp", "func-e-uid">>
      BY DEF Defaults
    <2> QED
      BY <2>1, <2>2 DEF Homes
  <1>2. X \in Seq(HomeNames) /\ <<Root, "y">> \in Seq(HomeNames) /\ Relative \in Seq(HomeNames)
        /\ Unset \in Seq(HomeNames)
    BY DEF X, Relative, Unset, HomeNames, OfCwd, Root
  <1> QED
    BY <1>1, <1>2 DEF Values

\* The directories of both front ends are made of them.
LEMMA BothHomes ==
  ASSUME NEW options \in Seq(GivenOptions), NEW runID, NEW user,
         NEW o \in {initOpts(options, runID, user), NewApp(options, runID, user)}
  PROVE  o.dir \in [Homes -> Seq(HomeNames)]
  <1> DEFINE n == Len(options)
             ro == Applied(options)
             F == [h \in Homes |-> Flag(options, h)]
             homeDir == IF \A h \in Homes : ro[h] = ro.config THEN ro.config ELSE Unset
  <1>1. n \in Nat /\ DOMAIN options = 1..n /\ options \in Seq(OptionsOf(Values))
    BY DEF GivenOptions, OptionsOf
  <1>2. ASSUME NEW names, NEW value, LastInv(names, options, n, value)
        PROVE  value \in Seq(HomeNames)
    BY <1>1, <1>2, ValueIsGiven, NamesOfHomes
  <1>3. ASSUME NEW h \in Homes PROVE ro[h] \in Seq(HomeNames)
    BY <1>1, <1>2, AppliedIsLast DEF HomesInv
  <1>4. ASSUME NEW name PROVE Flag(options, name) \in Seq(HomeNames)
    BY <1>1, <1>2, FlagIsLast
  <1>5. \A h \in Homes : NoHomes[h] \in Seq(HomeNames) /\ F[h] \in Seq(HomeNames)
    BY <1>4, NamesOfHomes DEF NoHomes
  <1> HIDE DEF n, F
  <1>6. homeDir \in Seq(HomeNames)
    <2>1. ro["config"] \in Seq(HomeNames)
      BY <1>3 DEF Homes
    <2> HIDE DEF ro
    <2> QED
      BY <2>1, NamesOfHomes
  <1>7. OfCwd \subseteq HomeNames /\ Failed \in Seq(HomeNames)
    BY DEF HomeNames, Failed
  <1>8. initOpts(options, runID, user) = InitializeGlobalOpts(ro, homeDir, ro, runID, user)
    BY DEF initOpts
  <1>9. NewApp(options, runID, user)
          = InitializeGlobalOpts(NoHomes, Flag(options, "home"), F, runID, user)
    BY NewAppFlags DEF F
  <1> HIDE DEF ro, homeDir
  <1>10. InitializeGlobalOpts(ro, homeDir, ro, runID, user).dir \in [Homes -> Seq(HomeNames)]
    BY <1>3, <1>6, <1>7, HomesAreOf, NamesOfHomes
  <1>11. InitializeGlobalOpts(NoHomes, Flag(options, "home"), F, runID, user).dir
           \in [Homes -> Seq(HomeNames)]
    BY <1>4, <1>5, <1>7, HomesAreOf, NamesOfHomes
  <1> QED
    BY <1>8, <1>9, <1>10, <1>11

\* Whatever the options are and however many, runs with different identifiers are apart.
THEOREM RunsStayApart == Spec => []RunsAreApart
  <1>1. ASSUME input \in Seq(GivenOptions), NEW user \in Users,
               NEW o1 \in {initOpts(input, NoRunID, user), NewApp(input, NoRunID, user)},
               NEW o2 \in {initOpts(input, NoRunID, user), NewApp(input, NoRunID, user)},
               NEW d \in RunDirsOf(o1, "1"), NEW other \in RunDirsOf(o2, "2") \cup SharedBy(o2)
        PROVE  ~IsPrefix(d, other) /\ ~IsPrefix(other, d)
    <2>1. o1.dir \in [Homes -> Seq(HomeNames)] /\ o2.dir \in [Homes -> Seq(HomeNames)]
      BY <1>1, BothHomes
    <2>2. {"1", "2"} \cap (HomeNames \cup OfCwd \cup OfRuns \cup OfVersions) = {}
          /\ OfVersions \cap HomeNames = {}
      BY DEF HomeNames, OfCwd, OfRuns, OfVersions, Root
    <2> QED
      BY <2>1, <2>2, DirectoriesApart
  <1>2. InputInv => RunsAreApart
    BY <1>1 DEF InputInv, RunsAreApart, RunDirsOf, SharedBy
  <1> QED
    BY <1>2, InputInvariance, PTL

-----------------------------------------------------------------------------
(* The list of versions.                                                   *)

\* What the command lists is what has been installed and offered.
LEMMA EntriesAreListed ==
  ASSUME input \in Seq(Entries), NoneTwice(input), NEW all \in BOOLEAN, NEW current,
         NEW offset \in Int
  PROVE  Lists(Command(all, current, offset).rows,
               ToList(At("directory"), At("offer"), all), current)
  <1> DEFINE installed == At("directory")
             offers == At("offer")
             directories == {[version |-> e.version, mtime |-> Midnight(e.releaseDate)] :
                               e \in installed}
  <1>1. /\ \A e \in ToSet(input) : \E i \in DOMAIN input : e = input[i]
        /\ \A i \in DOMAIN input : input[i] \in Entries
        /\ IsFiniteSet(ToSet(input))
    <2> DEFINE n == Len(input)
    <2>1. n \in Nat /\ DOMAIN input = 1..n /\ \A i \in 1..n : input[i] \in Entries
      OBVIOUS
    <2> HIDE DEF n
    <2>2. ToSet(input) = {input[i] : i \in 1..n}
      BY <2>1 DEF ToSet
    <2>3. input \in Surjection(1..n, ToSet(input))
      <3>1. input = [i \in 1..n |-> input[i]]
        BY <2>1
      <3> QED
        BY <2>2, <3>1 DEF Surjection
    <2>4. IsFiniteSet(1..n)
      BY <2>1, FS_Interval
    <2>5. IsFiniteSet(ToSet(input))
      BY <2>3, <2>4, FS_Surjection
    <2> QED
      BY <2>1, <2>2, <2>5
  <1>2. \A e \in ToSet(input) : e.version \in Listed /\ e.releaseDate \in Int
    <2>1. \A e \in Entries : e.version \in Listed /\ e.releaseDate \in {0, 1, 2}
      BY DEF Entries
    <2> QED
      BY <1>1, <2>1
  <1>3. Listed \subseteq ShortReleases
    BY DEF Listed, ShortReleases, TwoDigitReleases, PatchVersions
  <1>4. \A e, o \in ToSet(input) : e.at = o.at /\ e.version = o.version => e = o
    BY <1>1 DEF NoneTwice
  <1>5. IsFiniteSet(installed) /\ IsFiniteSet(offers)
    BY <1>1, FS_Subset DEF At
  <1>6. /\ \A e \in installed : e \in ToSet(input) /\ e.at = "directory"
        /\ \A e \in offers : e \in ToSet(input) /\ e.at = "offer"
    BY DEF At
  <1> HIDE DEF installed, offers
  <1>7. IsFiniteSet(directories)
    <2> DEFINE f == [e \in installed |->
                      [version |-> e.version, mtime |-> Midnight(e.releaseDate)]]
    <2>1. f \in Surjection(installed, directories)
      BY DEF Surjection
    <2> QED
      BY <1>5, <2>1, FS_Surjection
  <1>8. IsInstalled(directories)
    <2>1. \A d \in directories : d.version \in ShortReleases /\ d.mtime \in Int
      BY <1>2, <1>3, <1>6 DEF Midnight
    <2>2. \A d, o \in directories : d.version = o.version => d = o
      BY <1>4, <1>6
    <2> QED
      BY <1>7, <2>1, <2>2 DEF IsInstalled
  <1>9. IsOffered(offers)
    <2>1. \A r \in offers : r.version \in ShortReleases /\ r.releaseDate \in Int
      BY <1>2, <1>3, <1>6
    <2>2. \A r, o \in offers : r.version = o.version => r.releaseDate = o.releaseDate
      BY <1>4, <1>6
    <2> QED
      BY <1>5, <2>1, <2>2 DEF IsOffered
  <1>10. {d.version : d \in directories} = {e.version : e \in installed}
    <2>1. ASSUME NEW e \in installed PROVE \E d \in directories : d.version = e.version
      <3>1. [version |-> e.version, mtime |-> Midnight(e.releaseDate)] \in directories
        OBVIOUS
      <3> QED
        BY <3>1
    <2>2. ASSUME NEW d \in directories PROVE \E e \in installed : d.version = e.version
      OBVIOUS
    <2> HIDE DEF directories
    <2> QED
      BY <2>1, <2>2
  <1>11. Command(all, current, offset) = NewVersionsCmd(directories, offers, all, current, offset)
    BY DEF Command, installed, offers
  <1> HIDE DEF directories
  <1>12. Lists(Command(all, current, offset).rows, ToList(directories, offers, all), current)
    BY <1>8, <1>9, <1>11, VersionsCmdLists
  <1>13. ToList(directories, offers, all) = ToList(installed, offers, all)
    BY <1>10 DEF ToList
  <1> QED
    BY <1>12, <1>13 DEF installed, offers

\* The list as VersionsAreListed states it.
AsListed(rows, versions, current) ==
  /\ {rows[i].version : i \in DOMAIN rows} = versions
  /\ \A i \in DOMAIN rows : rows[i].marked <=> rows[i].version = current
  /\ \A i, j \in DOMAIN rows : i < j =>
       /\ rows[i].version # rows[j].version
       /\ rows[i].releaseDate >= rows[j].releaseDate
       /\ rows[i].releaseDate = rows[j].releaseDate =>
            \/ rows[i].version.minor > rows[j].version.minor
            \/ Len(Digits(rows[i].version.patch)) # Len(Digits(rows[j].version.patch))
            \/ rows[i].version.patch > rows[j].version.patch

\* A debug build has no twin among the versions of MCAlgorithms.
LEMMA NoTwins == ASSUME NEW v \in Listed PROVE v.debug <=> v.minor = 21
  <1>1. CASE v = [minor |-> 20, debug |-> FALSE, patch |-> 9]
    BY <1>1
  <1>2. CASE v = [minor |-> 20, debug |-> FALSE, patch |-> 10]
    BY <1>2
  <1>3. CASE v = [minor |-> 21, debug |-> TRUE, patch |-> 9]
    BY <1>3
  <1> QED
    BY <1>1, <1>2, <1>3 DEF Listed

\* So there the order is that of VersionsAreListed.
LEMMA ListedInOrder ==
  ASSUME NEW rows, NEW versions, versions \subseteq Listed, NEW current,
         Lists(rows, versions, current)
  PROVE  AsListed(rows, versions, current)
  <1>1. \A i \in DOMAIN rows : rows[i].version \in Listed
    BY DEF Lists
  <1>2. ASSUME NEW i \in DOMAIN rows, NEW j \in DOMAIN rows, i < j
        PROVE  /\ rows[i].version # rows[j].version
               /\ rows[i].releaseDate >= rows[j].releaseDate
               /\ rows[i].releaseDate = rows[j].releaseDate =>
                    \/ rows[i].version.minor > rows[j].version.minor
                    \/ Len(Digits(rows[i].version.patch)) # Len(Digits(rows[j].version.patch))
                    \/ rows[i].version.patch > rows[j].version.patch
    <2>1. Precedes(rows[i], rows[j])
      BY <1>2 DEF Lists
    <2>2. /\ rows[i].version.debug <=> rows[i].version.minor = 21
          /\ rows[j].version.debug <=> rows[j].version.minor = 21
      BY <1>1, NoTwins
    <2> QED
      BY <2>1, <2>2 DEF Precedes
  <1> QED
    BY <1>2 DEF Lists, AsListed

\* Of any number of directories and releases on offer, in any zone, the list has every
\* version it should have once, in its order, and marks the current one.
THEOREM ListIsComplete == Spec => []VersionsAreListed
  <1>1. ASSUME kind = "list", input \in Seq(Entries), NoneTwice(input)
        PROVE  VersionsAreListed
    <2>1. SUFFICES ASSUME NEW all \in BOOLEAN, NEW current \in Listed \cup {None},
                          NEW offset \in Offsets
          PROVE  LET result == Command(all, current, offset)
                     rows == result.rows
                     offered == {e \in At("offer") : all /\ e.forPlatform}
                 IN  result.ok =>
                       /\ {rows[i].version : i \in DOMAIN rows} =
                            {e.version : e \in At("directory") \cup offered}
                       /\ \A i \in DOMAIN rows : rows[i].marked <=> rows[i].version = current
                       /\ \A i, j \in DOMAIN rows : i < j =>
                            /\ rows[i].version # rows[j].version
                            /\ rows[i].releaseDate >= rows[j].releaseDate
                            /\ rows[i].releaseDate = rows[j].releaseDate =>
                                 \/ rows[i].version.minor > rows[j].version.minor
                                 \/ Len(Digits(rows[i].version.patch))
                                      # Len(Digits(rows[j].version.patch))
                                 \/ rows[i].version.patch > rows[j].version.patch
      BY DEF VersionsAreListed
    <2> DEFINE rows == Command(all, current, offset).rows
               offered == {e \in At("offer") : all /\ e.forPlatform}
               versions == {e.version : e \in At("directory") \cup offered}
    <2>2. versions = ToList(At("directory"), At("offer"), all)
      BY DEF ToList
    <2>3. versions \subseteq Listed
      <3>1. \A e \in ToSet(input) : e \in Entries
        BY <1>1 DEF ToSet
      <3>2. \A e \in Entries : e.version \in Listed
        BY DEF Entries
      <3> QED
        BY <3>1, <3>2 DEF At
    <2>4. Lists(rows, ToList(At("directory"), At("offer"), all), current)
      <3>1. offset \in Int
        BY OffsetsAssumption
      <3> QED
        BY <1>1, <3>1, EntriesAreListed
    <2> HIDE DEF rows, versions
    <2>5. AsListed(rows, versions, current)
      BY <2>2, <2>3, <2>4, ListedInOrder
    <2> QED
      BY <2>5 DEF AsListed, rows, versions
  <1>2. InputInv => VersionsAreListed
    BY <1>1 DEF InputInv, VersionsAreListed
  <1> QED
    BY <1>2, InputInvariance, PTL
=============================================================================

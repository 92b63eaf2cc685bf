---------------------------- MODULE VersionsProofs ----------------------------
(***************************************************************************)
(* What the two searches of Versions find, in lists of any length, and     *)
(* what "func-e versions" lists, of any directories and releases.  The     *)
(* searches are loops over a slice: FoldInduction with the turn of the     *)
(* loop and what it has found so far.  The list is right because the       *)
(* comparison that sort.Slice is given is an order of the rows.            *)
(***************************************************************************)
EXTENDS VersionList, FiniteSetTheorems, TLAPS

\* Every release that NewVersion and NewPatchVersion accept.
PatchVersions == [minor : Nat, debug : BOOLEAN, patch : Nat]

NoneOf(p) == None

-----------------------------------------------------------------------------
(* The latest patch of a minor version.                                    *)

PatchTurn(m, latest, v) ==
  IF ToMinor(v) = m /\ v.patch >= latest.patch THEN v ELSE latest

\* Of the first n versions, those of the minor version m.
OfMinor(m, versions, n) == {j \in 1..n : ToMinor(versions[j]) = m}

PatchInv(m, versions, n, latest) ==
  LET candidates == OfMinor(m, versions, n)
  IN  /\ candidates = {} => latest = None
      /\ candidates # {} =>
           /\ \E j \in candidates : latest = versions[j]
           /\ \A j \in candidates : latest.patch >= versions[j].patch

Patch == INSTANCE FoldInduction WITH Op <- PatchTurn, Base <- NoneOf, Inv <- PatchInv

\* The search is that loop.
LEMMA PatchFold == \A versions, m : FindLatestPatchVersion(versions, m) = Patch!Fold(m, versions)
  BY DEF FindLatestPatchVersion, PatchTurn, NoneOf, Patch!Fold, FoldLeft, Patch!FoldLeft,
         MapThenFoldSet, Patch!MapThenFoldSet, Max, Patch!Max

\* A turn adds one version to those searched.
LEMMA PatchTurnKeeps ==
  ASSUME NEW versions, NEW n \in Nat, \A j \in 1..n : versions[j] \in PatchVersions,
         NEW m, NEW i \in 1..n, NEW latest, PatchInv(m, versions, i - 1, latest)
  PROVE  PatchInv(m, versions, i, PatchTurn(m, latest, versions[i]))
  <1> DEFINE old == OfMinor(m, versions, i - 1)
             new == OfMinor(m, versions, i)
             v == versions[i]
  <1>1. v.patch \in Nat /\ \A j \in new : versions[j].patch \in Nat
    BY DEF PatchVersions, OfMinor
  <1>2. CASE ToMinor(v) # m
    <2>1. new = old
      BY <1>2 DEF OfMinor
    <2> QED
      BY <1>2, <2>1 DEF PatchInv, PatchTurn
  <1>3. CASE ToMinor(v) = m
    <2>1. new = old \cup {i}
      BY <1>3 DEF OfMinor
    <2>2. CASE old = {}
      <3>1. PatchTurn(m, latest, v) = v
        BY <1>1, <1>3, <2>2 DEF PatchInv, PatchTurn, None
      <3> QED
        BY <1>1, <2>1, <2>2, <3>1 DEF PatchInv
    <2>3. CASE old # {}
      <3>1. PICK k \in old : latest = versions[k]
        BY <2>3 DEF PatchInv
      <3>2. \A j \in old : versions[k].patch >= versions[j].patch
        BY <2>3, <3>1 DEF PatchInv
      <3>3. versions[k].patch \in Nat
        BY <1>1, <2>1, <3>1
      <3> HIDE DEF old, new
      <3>4. CASE v.patch >= versions[k].patch
        <4>1. PatchTurn(m, latest, v) = v
          BY <1>3, <3>1, <3>4 DEF PatchTurn
        <4> QED
          BY <1>1, <2>1, <3>2, <3>3, <3>4, <4>1 DEF PatchInv, old, new
      <3>5. CASE ~(v.patch >= versions[k].patch)
        <4>1. PatchTurn(m, latest, v) = versions[k]
          BY <1>3, <3>1, <3>5 DEF PatchTurn
        <4> QED
          BY <1>1, <2>1, <3>1, <3>2, <3>3, <3>5, <4>1 DEF PatchInv, old, new
      <3> QED
        BY <3>4, <3>5
    <2> QED
      BY <2>2, <2>3
  <1> QED
    BY <1>2, <1>3

-----------------------------------------------------------------------------
(* The newest release.                                                     *)

NewestTurn(p, latest, v) == IF ~v.debug /\ Newer(v, latest) THEN v ELSE latest

\* Of the first n versions, those that are no debug builds.
NoDebug(versions, n) == {j \in 1..n : ~versions[j].debug}

\* Releases whose minor version has two digits, as all of Envoy's have.
TwoDigitReleases == {v \in PatchVersions : v.minor \in 10..99}

NotNewer(v, w) == v.minor < w.minor \/ (v.minor = w.minor /\ v.patch <= w.patch)

\* What is found is one of them, and if texts compare as numbers do, none is newer.
NewestInv(p, versions, n, latest) ==
  /\ latest # None => \E j \in NoDebug(versions, n) : latest = versions[j]
  /\ (\A j \in 1..n : versions[j] \in TwoDigitReleases) =>
       \A j \in NoDebug(versions, n) : latest # None /\ NotNewer(versions[j], latest)

Newest == INSTANCE FoldInduction WITH Op <- NewestTurn, Base <- NoneOf, Inv <- NewestInv

\* The search is that loop.
LEMMA NewestFold == \A versions : FindLatestVersion(versions) = Newest!Fold(0, versions)
  BY DEF FindLatestVersion, NewestTurn, NoneOf, Newest!Fold, FoldLeft, Newest!FoldLeft,
         MapThenFoldSet, Newest!MapThenFoldSet, Max, Newest!Max

\* The digits of a number.
LEMMA DigitsOf == ASSUME NEW a \in Int PROVE a = 10 * (a \div 10) + (a % 10) /\ a % 10 \in 0..9
  <1>1. a = 10 * (a \div 10) + (a % 10)
    OBVIOUS
  <1>2. a % 10 \in 0..9
    OBVIOUS
  <1> QED
    BY <1>1, <1>2

\* Texts of two digits are in the order of their numbers, and after no text.
LEMMA TwoDigits ==
  ASSUME NEW a \in 10..99, NEW b \in 10..99
  PROVE  /\ LexGreater(Digits(a), Digits(b)) <=> a > b
         /\ LexGreater(Digits(a), Digits(None.minor))
  <1>1. Digits(a) = <<a \div 10, a % 10>> /\ Digits(b) = <<b \div 10, b % 10>>
    BY DEF Digits
  <1>2. Digits(None.minor) = <<>>
    BY DEF Digits, None
  <1>3. a \in Int /\ a \div 10 \in Int /\ b \in Int /\ b \div 10 \in Int
    OBVIOUS
  <1>4. /\ a = 10 * (a \div 10) + (a % 10) /\ a % 10 \in 0..9
        /\ b = 10 * (b \div 10) + (b % 10) /\ b % 10 \in 0..9
    BY <1>3, DigitsOf
  <1>5. ASSUME NEW x, NEW y PROVE LexGreater(<<x, y>>, <<>>)
    <2>1. 1 \in DOMAIN <<x, y>> /\ 1 \notin DOMAIN <<>> /\ 1..0 = {}
      OBVIOUS
    <2> QED
      BY <2>1 DEF LexGreater
  <1>6. ASSUME NEW x \in Int, NEW y \in Int, NEW u \in Int, NEW w \in Int
        PROVE  LexGreater(<<x, y>>, <<u, w>>) <=> x > u \/ (x = u /\ y > w)
    BY DEF LexGreater
  <1>7. ASSUME NEW x \in Int, NEW y \in 0..9, NEW u \in Int, NEW w \in 0..9,
               a = 10 * x + y, b = 10 * u + w
        PROVE  a > b <=> x > u \/ (x = u /\ y > w)
    BY <1>7
  <1>8. LexGreater(Digits(a), Digits(b)) <=> a > b
    BY <1>1, <1>3, <1>4, <1>6, <1>7
  <1> QED
    BY <1>1, <1>2, <1>5, <1>8

\* The comparison of texts is that of minor versions and patches.
LEMMA NewerIsNewer ==
  ASSUME NEW v \in TwoDigitReleases
  PROVE  /\ Newer(v, None)
         /\ \A latest \in TwoDigitReleases : Newer(v, latest) <=> ~NotNewer(v, latest)
  <1>1. v.minor \in 10..99 /\ v.patch \in Nat
    BY DEF TwoDigitReleases, PatchVersions
  <1>2. Newer(v, None)
    BY <1>1, TwoDigits DEF Newer
  <1>3. ASSUME NEW latest \in TwoDigitReleases PROVE Newer(v, latest) <=> ~NotNewer(v, latest)
    <2>1. latest.minor \in 10..99 /\ latest.patch \in Nat
      BY DEF TwoDigitReleases, PatchVersions
    <2>2. LexGreater(Digits(v.minor), Digits(latest.minor)) <=> v.minor > latest.minor
      BY <1>1, <2>1, TwoDigits
    <2>3. ASSUME NEW a \in Int, NEW b \in Int, NEW p \in Int, NEW q \in Int
          PROVE  a > b \/ (a = b /\ p > q) <=> ~(a < b \/ (a = b /\ p <= q))
      OBVIOUS
    <2>4. v.minor \in Int /\ v.patch \in Int /\ latest.minor \in Int /\ latest.patch \in Int
      BY <1>1, <2>1
    <2> QED
      BY <2>2, <2>3, <2>4 DEF Newer, NotNewer
  <1> QED
    BY <1>2, <1>3

\* A turn adds one version to those searched.
LEMMA NewestTurnKeeps ==
  ASSUME NEW p, NEW versions, NEW i \in Nat \ {0}, NEW latest,
         NewestInv(p, versions, i - 1, latest)
  PROVE  NewestInv(p, versions, i, NewestTurn(p, latest, versions[i]))
  <1> DEFINE old == NoDebug(versions, i - 1)
             new == NoDebug(versions, i)
             v == versions[i]
             found == NewestTurn(p, latest, v)
  <1>1. new = IF v.debug THEN old ELSE old \cup {i}
    BY DEF NoDebug
  <1>2. found # None => \E j \in new : found = versions[j]
    BY <1>1 DEF NewestInv, NewestTurn
  <1>3. ASSUME \A j \in 1..i : versions[j] \in TwoDigitReleases, NEW j \in new
        PROVE  found # None /\ NotNewer(versions[j], found)
    <2>1. \A k \in old : latest # None /\ NotNewer(versions[k], latest)
      BY <1>3 DEF NewestInv
    <2>2. v \in TwoDigitReleases /\ versions[j] \in TwoDigitReleases
          /\ None \notin TwoDigitReleases
      BY <1>3 DEF NoDebug, TwoDigitReleases, None
    <2>3. latest # None => latest \in TwoDigitReleases
      BY <1>3 DEF NewestInv, NoDebug
    <2>4. NotNewer(v, v)
      BY <2>2 DEF NotNewer, TwoDigitReleases, PatchVersions
    <2>5. latest = None => old = {}
      BY <2>1
    <2> HIDE DEF old, new, v
    <2>6. CASE v.debug
      <3>1. found = latest
        BY <2>6 DEF NewestTurn
      <3> QED
        BY <1>1, <1>3, <2>1, <2>6, <3>1
    <2>7. CASE ~v.debug /\ Newer(v, latest)
      <3>1. found = v
        BY <2>7 DEF NewestTurn
      <3>2. CASE j = i
        BY <2>2, <2>4, <3>1, <3>2 DEF v
      <3>3. CASE j \in old
        <4>1. latest \in TwoDigitReleases /\ NotNewer(versions[j], latest)
          BY <2>1, <2>3, <3>3
        <4>2. ~NotNewer(v, latest)
          BY <2>2, <2>7, <4>1, NewerIsNewer
        <4>3. NotNewer(versions[j], v)
          BY <2>2, <4>1, <4>2 DEF NotNewer, TwoDigitReleases, PatchVersions
        <4> QED
          BY <2>2, <3>1, <4>3
      <3> QED
        BY <1>1, <1>3, <2>7, <3>2, <3>3
    <2>8. CASE ~v.debug /\ ~Newer(v, latest)
      <3>1. found = latest /\ latest # None
        BY <2>2, <2>8, NewerIsNewer DEF NewestTurn
      <3>2. NotNewer(v, latest)
        BY <2>2, <2>3, <2>8, <3>1, NewerIsNewer
      <3> QED
        BY <1>1, <1>3, <2>1, <2>8, <3>1, <3>2 DEF v
    <2> QED
      BY <2>6, <2>7, <2>8
  <1> QED
    BY <1>2, <1>3 DEF NewestInv

-----------------------------------------------------------------------------
(* What they find in a list, and in a set that is listed in any order.     *)

\* The latest patch of a minor version is of that version, and none is higher; nothing
\* is found only where there is none (FindLatestPatchVersion, version.go:131-147).
THEOREM LatestPatchFound ==
  ASSUME NEW versions \in Seq(PatchVersions), NEW m
  PROVE  LET found == FindLatestPatchVersion(versions, m)
             candidates == {v \in ToSet(versions) : ToMinor(v) = m}
         IN  IF candidates = {} THEN found = None
             ELSE found \in candidates /\ \A v \in candidates : found.patch >= v.patch
  <1> DEFINE n == Len(versions)
             found == FindLatestPatchVersion(versions, m)
  <1>1. n \in Nat /\ DOMAIN versions = 1..n /\ \A j \in 1..n : versions[j] \in PatchVersions
    OBVIOUS
  <1> HIDE DEF n
  <1>2. PatchInv(m, versions, 0, NoneOf(m))
    BY DEF PatchInv, NoneOf, OfMinor
  <1>3. \A i \in 1..n : \A latest :
          PatchInv(m, versions, i - 1, latest) =>
            PatchInv(m, versions, i, PatchTurn(m, latest, versions[i]))
    BY <1>1, PatchTurnKeeps
  <1>4. PatchInv(m, versions, n, Patch!Fold(m, versions))
    BY <1>1, <1>2, <1>3, Patch!FoldInvariance
  <1>5. PatchInv(m, versions, n, found)
    BY <1>4, PatchFold
  <1>6. ToSet(versions) = {versions[j] : j \in 1..n}
    BY <1>1 DEF ToSet
  <1> HIDE DEF found
  <1>7. {v \in ToSet(versions) : ToMinor(v) = m} = {versions[j] : j \in OfMinor(m, versions, n)}
    BY <1>6 DEF OfMinor
  <1> QED
    BY <1>5, <1>7 DEF PatchInv, OfMinor, found

\* The loop over a list for the newest release.
LEMMA NewestOfList ==
  ASSUME NEW versions, NEW n \in Nat, DOMAIN versions = 1..n
  PROVE  NewestInv(0, versions, n, FindLatestVersion(versions))
  <1>1. NewestInv(0, versions, 0, NoneOf(0))
    BY DEF NewestInv, NoneOf, NoDebug
  <1>2. \A i \in 1..n : \A latest :
          NewestInv(0, versions, i - 1, latest) =>
            NewestInv(0, versions, i, NewestTurn(0, latest, versions[i]))
    BY NewestTurnKeeps
  <1>3. NewestInv(0, versions, n, Newest!Fold(0, versions))
    BY <1>1, <1>2, Newest!FoldInvariance
  <1> QED
    BY <1>3, NewestFold

\* While minor versions have two digits, as version.go:155 says, comparing them as texts
\* finds the newest release that is no debug build, and finds one if there is one
\* (FindLatestVersion, version.go:149-163).
THEOREM NewestFound ==
  ASSUME NEW versions \in Seq(TwoDigitReleases)
  PROVE  LET found == FindLatestVersion(versions)
             candidates == {v \in ToSet(versions) : ~v.debug}
         IN  IF candidates = {} THEN found = None
             ELSE found \in candidates /\ \A v \in candidates : NotNewer(v, found)
  <1> DEFINE n == Len(versions)
             found == FindLatestVersion(versions)
  <1>1. n \in Nat /\ DOMAIN versions = 1..n /\ \A j \in 1..n : versions[j] \in TwoDigitReleases
    OBVIOUS
  <1>2. ToSet(versions) = {versions[j] : j \in 1..n}
    BY <1>1 DEF ToSet
  <1> HIDE DEF n
  <1>3. NewestInv(0, versions, n, found)
    BY <1>1, NewestOfList
  <1> HIDE DEF found
  <1>4. {v \in ToSet(versions) : ~v.debug} = {versions[j] : j \in NoDebug(versions, n)}
    BY <1>2 DEF NoDebug
  <1> QED
    BY <1>1, <1>3, <1>4 DEF NewestInv, NoDebug, found

\* A finite set is listed with all its elements and no others.
LEMMA ListOfSet ==
  ASSUME NEW S, IsFiniteSet(S)
  PROVE  SetToSeq(S) \in Seq(S) /\ ToSet(SetToSeq(S)) = S
  <1> DEFINE n == Cardinality(S)
             f == SetToSeq(S)
             T == {f[i] : i \in 1..n}
  <1>1. n \in Nat /\ ExistsBijection(1..n, S)
    BY FS_CardinalityType
  <1>2. f \in [1..n -> S] /\ IsInjective(f)
    BY <1>1 DEF ExistsBijection, Bijection, Injection, SetToSeq
  <1> HIDE DEF n, f
  <1>3. f \in Surjection(1..n, T) /\ f \in Injection(1..n, T) /\ T \subseteq S
    BY <1>2 DEF Surjection, Injection
  <1>4. IsFiniteSet(1..n) /\ Cardinality(1..n) = n
    BY <1>1, FS_Interval
  <1>5. Cardinality(T) = n
    BY <1>3, <1>4, FS_Surjection
  <1>6. T = S
    BY <1>3, <1>5, FS_Subset DEF n
  <1> QED
    BY <1>1, <1>2, <1>6 DEF ToSet, f

\* The latest patch in a set of releases.
LEMMA LatestPatchOfSet ==
  ASSUME NEW S, IsFiniteSet(S), S \subseteq PatchVersions, NEW m
  PROVE  LET found == FindLatestPatchVersion(SetToSeq(S), m)
         IN  \/ found = None /\ \A v \in S : ToMinor(v) # m
             \/ /\ found \in S /\ ToMinor(found) = m
                /\ \A v \in S : ToMinor(v) = m => found.patch >= v.patch
  <1>1. SetToSeq(S) \in Seq(PatchVersions) /\ ToSet(SetToSeq(S)) = S
    BY ListOfSet
  <1> QED
    BY <1>1, LatestPatchFound

\* The newest release of a set, whatever its minor versions look like.
LEMMA LatestOfSet ==
  ASSUME NEW S, IsFiniteSet(S)
  PROVE  LET found == FindLatestVersion(SetToSeq(S))
         IN  found # None => found \in S /\ ~found.debug
  <1> DEFINE n == Len(SetToSeq(S))
  <1>1. SetToSeq(S) \in Seq(S)
    BY ListOfSet
  <1>2. n \in Nat /\ DOMAIN SetToSeq(S) = 1..n /\ \A j \in 1..n : SetToSeq(S)[j] \in S
    BY <1>1
  <1> HIDE DEF n
  <1> QED
    BY <1>2, NewestOfList DEF NewestInv, NoDebug

-----------------------------------------------------------------------------
(* Sorting: a finite set that is ordered has one sorted list.              *)

\* A set that is sorted by a relation R.
IsSortedBy(f, X, R) ==
  /\ f \in [1..Cardinality(X) -> X]
  /\ \A i, j \in 1..Cardinality(X) : i < j => <<f[i], f[j]>> \in R

\* R orders the elements of S one after the other.
Orders(R, S) ==
  /\ \A x, y \in S : x # y => <<x, y>> \in R \/ <<y, x>> \in R
  /\ \A x \in S : <<x, x>> \notin R
  /\ \A x, y, z \in S : <<x, y>> \in R /\ <<y, z>> \in R => <<x, z>> \in R

\* What is sorted is all there, each element once.
LEMMA SortedCovers ==
  ASSUME NEW X, IsFiniteSet(X), NEW R, Orders(R, X), NEW f, IsSortedBy(f, X, R)
  PROVE  /\ \A y \in X : \E i \in 1..Cardinality(X) : f[i] = y
         /\ \A i, j \in 1..Cardinality(X) : i # j => f[i] # f[j]
  <1> DEFINE n == Cardinality(X)
  <1>1. n \in Nat
    BY FS_CardinalityType
  <1>2. f \in [1..n -> X] /\ \A i, j \in 1..n : i < j => <<f[i], f[j]>> \in R
    BY DEF IsSortedBy
  <1>3. IsFiniteSet(1..n) /\ Cardinality(1..n) = n
    BY <1>1, FS_Interval
  <1> HIDE DEF n
  <1>4. \A i, j \in 1..n : i # j => f[i] # f[j]
    <2>1. SUFFICES ASSUME NEW i \in 1..n, NEW j \in 1..n, i < j, f[i] = f[j] PROVE FALSE
      BY <1>1
    <2>2. <<f[i], f[i]>> \in R /\ f[i] \in X
      BY <1>2, <2>1
    <2> QED
      BY <2>2 DEF Orders
  <1>5. f \in Injection(1..n, X)
    BY <1>2, <1>4 DEF Injection, IsInjective
  <1>6. f \in Surjection(1..n, X)
    BY <1>3, <1>5, FS_Injection DEF n
  <1>7. \A y \in X : \E i \in 1..n : f[i] = y
    BY <1>6 DEF Surjection
  <1> QED
    BY <1>4, <1>7 DEF n

\* A sorted set with one element more has a last one.
LEMMA LastExists ==
  ASSUME NEW X, IsFiniteSet(X), NEW R, Orders(R, X), NEW x \in X,
         NEW f, IsSortedBy(f, X \ {x}, R)
  PROVE  \E m \in X : \A y \in X \ {m} : <<y, m>> \in R
  <1> DEFINE Y == X \ {x}
             n == Cardinality(Y)
  <1>1. IsFiniteSet(Y) /\ n \in Nat /\ (n = 0 <=> Y = {})
    <2>1. IsFiniteSet(Y)
      BY FS_RemoveElement
    <2> HIDE DEF Y
    <2> QED
      BY <2>1, FS_CardinalityType, FS_EmptySet
  <1>2. Orders(R, Y)
    BY DEF Orders
  <1> HIDE DEF Y
  <1>3. IsSortedBy(f, Y, R)
    BY DEF Y
  <1>4. \A y \in Y : \E i \in 1..n : f[i] = y
    BY <1>1, <1>2, <1>3, SortedCovers
  <1>5. f \in [1..n -> Y] /\ \A i, j \in 1..n : i < j => <<f[i], f[j]>> \in R
    BY <1>3 DEF IsSortedBy
  <1> HIDE DEF n
  <1>6. CASE n = 0
    <2>1. \A y \in X \ {x} : <<y, x>> \in R
      BY <1>1, <1>6 DEF Y
    <2> QED
      BY <2>1
  <1>7. CASE n # 0
    <2> DEFINE l == f[n]
    <2>1. n \in 1..n /\ l \in Y
      BY <1>1, <1>5, <1>7
    <2>2. ASSUME NEW y \in Y, y # l PROVE <<y, l>> \in R
      <3>1. PICK i \in 1..n : f[i] = y
        BY <1>4
      <3>2. i < n
        BY <1>1, <2>2, <3>1
      <3> QED
        BY <1>5, <2>1, <3>1, <3>2
    <2> HIDE DEF l
    <2>3. l \in X /\ l # x /\ Y = X \ {x}
      BY <2>1 DEF Y
    <2>4. <<x, l>> \in R \/ <<l, x>> \in R
      BY <2>3 DEF Orders
    <2>5. CASE <<x, l>> \in R
      BY <2>2, <2>3, <2>5
    <2>6. CASE <<l, x>> \in R
      <3>1. ASSUME NEW y \in X, y # x PROVE <<y, x>> \in R
        <4>1. CASE y = l
          BY <2>6, <4>1
        <4>2. CASE y # l
          <5>1. <<y, l>> \in R
            BY <2>2, <2>3, <3>1, <4>2
          <5> QED
            BY <2>3, <2>6, <5>1 DEF Orders
        <4> QED
          BY <4>1, <4>2
      <3> QED
        BY <3>1
    <2> QED
      BY <2>4, <2>5, <2>6
  <1> QED
    BY <1>6, <1>7

\* With a last element after what is sorted, a set is sorted.
LEMMA SortedGrows ==
  ASSUME NEW X, IsFiniteSet(X), NEW R, NEW m \in X, \A y \in X \ {m} : <<y, m>> \in R,
         NEW f, IsSortedBy(f, X \ {m}, R)
  PROVE  \E g : IsSortedBy(g, X, R)
  <1> DEFINE n == Cardinality(X \ {m})
             g == [i \in 1..n+1 |-> IF i = n + 1 THEN m ELSE f[i]]
  <1>1. n \in Nat /\ Cardinality(X) = n + 1
    <2>1. IsFiniteSet(X \ {m}) /\ n = Cardinality(X) - 1
      BY FS_RemoveElement
    <2>2. n \in Nat /\ Cardinality(X) \in Nat
      BY <2>1, FS_CardinalityType
    <2> QED
      BY <2>1, <2>2
  <1>2. f \in [1..n -> X \ {m}] /\ \A i, j \in 1..n : i < j => <<f[i], f[j]>> \in R
    BY DEF IsSortedBy
  <1> HIDE DEF n
  <1>3. g \in [1..n+1 -> X]
    BY <1>1, <1>2
  <1>4. ASSUME NEW i \in 1..n+1, NEW j \in 1..n+1, i < j PROVE <<g[i], g[j]>> \in R
    <2>1. i \in 1..n /\ g[i] = f[i]
      BY <1>1, <1>4
    <2>2. CASE j = n + 1
      <3>1. g[j] = m /\ f[i] \in X \ {m}
        BY <1>2, <2>1, <2>2
      <3> QED
        BY <2>1, <3>1
    <2>3. CASE j # n + 1
      <3>1. j \in 1..n /\ g[j] = f[j]
        BY <1>1, <2>3
      <3> QED
        BY <1>2, <1>4, <2>1, <3>1
    <2> QED
      BY <2>2, <2>3
  <1> HIDE DEF g
  <1>5. IsSortedBy(g, X, R)
    BY <1>1, <1>3, <1>4 DEF IsSortedBy
  <1> QED
    BY <1>5

\* Every finite set that is ordered can be sorted.
LEMMA SortedExists ==
  ASSUME NEW S, IsFiniteSet(S), NEW R, Orders(R, S)
  PROVE  \E f : IsSortedBy(f, S, R)
  <1> DEFINE N == Cardinality(S)
             T == {n \in 0..N : \A X \in SUBSET S : Cardinality(X) = n => \E f : IsSortedBy(f, X, R)}
  <1>1. \A X \in SUBSET S : IsFiniteSet(X) /\ Cardinality(X) \in Nat /\ Orders(R, X)
    <2>1. \A X \in SUBSET S : IsFiniteSet(X)
      BY FS_Subset
    <2>2. \A X \in SUBSET S : Cardinality(X) \in Nat
      BY <2>1, FS_CardinalityType
    <2>3. \A X \in SUBSET S : Orders(R, X)
      BY DEF Orders
    <2> QED
      BY <2>1, <2>2, <2>3
  <1>2. N \in Nat
    BY <1>1
  <1>3. 0 \in T
    <2>1. ASSUME NEW X \in SUBSET S, Cardinality(X) = 0 PROVE IsSortedBy(<<>>, X, R)
      <3>1. <<>> \in [1..0 -> X] /\ 1..0 = {}
        OBVIOUS
      <3> QED
        BY <2>1, <3>1 DEF IsSortedBy
    <2> QED
      BY <1>2, <2>1
  <1>4. ASSUME NEW n \in 1..N, n - 1 \in T PROVE n \in T
    <2>1. ASSUME NEW X \in SUBSET S, Cardinality(X) = n PROVE \E f : IsSortedBy(f, X, R)
      <3>1. X # {}
        <4>1. IsFiniteSet(X) /\ n # 0
          BY <1>1, <1>2
        <4> QED
          BY <2>1, <4>1, FS_EmptySet
      <3>2. ASSUME NEW x \in X PROVE \E f : IsSortedBy(f, X \ {x}, R)
        <4>1. IsFiniteSet(X)
          BY <1>1
        <4>2. Cardinality(X \ {x}) = n - 1
          BY <2>1, <4>1, FS_RemoveElement
        <4>3. X \ {x} \in SUBSET S
          OBVIOUS
        <4> QED
          BY <1>4, <4>2, <4>3
      <3>3. PICK x \in X : TRUE
        BY <3>1
      <3>4. PICK f : IsSortedBy(f, X \ {x}, R)
        BY <3>2
      <3>5. IsFiniteSet(X) /\ Orders(R, X)
        BY <1>1
      <3>6. PICK m \in X : \A y \in X \ {m} : <<y, m>> \in R
        BY <3>4, <3>5, LastExists
      <3>7. PICK g : IsSortedBy(g, X \ {m}, R)
        BY <3>2
      <3> QED
        BY <3>5, <3>6, <3>7, SortedGrows
    <2> QED
      BY <1>2, <2>1
  <1>5. N \in T
    <2> HIDE DEF T, N
    <2>1. 0..N \subseteq T
      BY <1>2, <1>3, <1>4, Newest!UpTo
    <2> QED
      BY <1>2, <2>1
  <1> QED
    BY <1>5

-----------------------------------------------------------------------------
(* The order of texts, and what it says of versions.                       *)

\* Texts are in an order: what is greater than something greater is greater, ...
LEMMA LexTransitive ==
  ASSUME NEW s \in Seq(Int), NEW t \in Seq(Int), NEW u \in Seq(Int),
         LexGreater(s, t), LexGreater(t, u)
  PROVE  LexGreater(s, u)
  <1>1. PICK i \in DOMAIN s :
          /\ \A j \in 1..i-1 : j \in DOMAIN t /\ s[j] = t[j]
          /\ i \in DOMAIN t => s[i] > t[i]
    BY DEF LexGreater
  <1>2. PICK k \in DOMAIN t :
          /\ \A j \in 1..k-1 : j \in DOMAIN u /\ t[j] = u[j]
          /\ k \in DOMAIN u => t[k] > u[k]
    BY DEF LexGreater
  <1>3. /\ i \in 1..Len(s) /\ k \in 1..Len(t) /\ Len(s) \in Nat /\ Len(t) \in Nat /\ Len(u) \in Nat
        /\ DOMAIN s = 1..Len(s) /\ DOMAIN t = 1..Len(t) /\ DOMAIN u = 1..Len(u)
        /\ \A j \in DOMAIN s : s[j] \in Int
        /\ \A j \in DOMAIN t : t[j] \in Int
        /\ \A j \in DOMAIN u : u[j] \in Int
    OBVIOUS
  <1>4. CASE i < k
    <2>1. i \in 1..k-1 /\ i \in DOMAIN t
      BY <1>3, <1>4
    <2>2. i \in DOMAIN u /\ t[i] = u[i] /\ s[i] > t[i]
      BY <1>1, <1>2, <2>1
    <2>3. \A j \in 1..i-1 : j \in 1..k-1
      BY <1>3, <1>4
    <2>4. \A j \in 1..i-1 : j \in DOMAIN u /\ s[j] = u[j]
      BY <1>1, <1>2, <2>3
    <2> QED
      BY <2>2, <2>4 DEF LexGreater
  <1>5. CASE k < i
    <2>1. k \in 1..i-1 /\ k \in DOMAIN s
      BY <1>3, <1>5
    <2>2. s[k] = t[k] /\ (k \in DOMAIN u => s[k] > u[k])
      BY <1>1, <1>2, <2>1
    <2>3. \A j \in 1..k-1 : j \in 1..i-1
      BY <1>3, <1>5
    <2>4. \A j \in 1..k-1 : j \in DOMAIN u /\ s[j] = u[j]
      BY <1>1, <1>2, <2>3
    <2> QED
      BY <2>1, <2>2, <2>4 DEF LexGreater
  <1>6. CASE i = k
    <2>1. s[i] > t[i] /\ (i \in DOMAIN u => t[i] > u[i])
      BY <1>1, <1>2, <1>6
    <2>2. i \in DOMAIN u => s[i] > u[i]
      <3>1. i \in DOMAIN s /\ i \in DOMAIN t
        BY <1>6
      <3> QED
        BY <1>3, <2>1, <3>1
    <2>3. \A j \in 1..i-1 : j \in DOMAIN u /\ s[j] = u[j]
      BY <1>1, <1>2, <1>6
    <2> QED
      BY <2>2, <2>3 DEF LexGreater
  <1> QED
    BY <1>3, <1>4, <1>5, <1>6

\* ... nothing is greater than itself, ...
LEMMA LexIrreflexive == ASSUME NEW s \in Seq(Int) PROVE ~LexGreater(s, s)
  <1>1. \A i \in DOMAIN s : s[i] \in Int
    OBVIOUS
  <1> QED
    BY <1>1 DEF LexGreater

\* ... a text that is not less than another begins with it, if it is not greater either, ...
LEMMA LexBegins ==
  ASSUME NEW s \in Seq(Int), NEW t \in Seq(Int), ~LexGreater(s, t), ~LexGreater(t, s)
  PROVE  Len(s) <= Len(t) /\ \A i \in 1..Len(s) : s[i] = t[i]
  <1> DEFINE N == Len(s)
             M == Len(t)
             T == {n \in 0..N : \A j \in 1..n : j \in 1..M /\ s[j] = t[j]}
  <1>1. /\ N \in Nat /\ M \in Nat /\ DOMAIN s = 1..N /\ DOMAIN t = 1..M
        /\ \A j \in 1..N : s[j] \in Int
        /\ \A j \in 1..M : t[j] \in Int
    OBVIOUS
  <1> HIDE DEF N, M
  <1>2. 0 \in T
    BY <1>1
  <1>3. ASSUME NEW i \in 1..N, i - 1 \in T PROVE i \in T
    <2>1. \A j \in 1..i-1 : j \in 1..M /\ s[j] = t[j]
      BY <1>3
    <2>2. i \in 1..M /\ ~(s[i] > t[i])
      BY <1>1, <2>1 DEF LexGreater
    <2>3. i - 1 < M /\ \A j \in 1..i-1 : j \in 1..N /\ t[j] = s[j]
      BY <1>1, <2>1, <2>2
    <2>4. ~(t[i] > s[i])
      BY <1>1, <2>2, <2>3 DEF LexGreater
    <2>5. s[i] = t[i]
      BY <1>1, <2>2, <2>4
    <2>6. \A j \in 1..i : j \in 1..i-1 \/ j = i
      BY <1>1
    <2> QED
      BY <1>1, <2>1, <2>2, <2>5, <2>6
  <1>4. N \in T
    <2> HIDE DEF T
    <2>1. 0..N \subseteq T
      BY <1>1, <1>2, <1>3, Newest!UpTo
    <2> QED
      BY <1>1, <2>1
  <1>5. N <= M
    <2>1. N = 0 \/ N \in 1..N
      BY <1>1
    <2> QED
      BY <1>1, <1>4, <2>1
  <1> QED
    BY <1>4, <1>5 DEF N, M

\* ... and of two different ones one is greater.
LEMMA LexTotal ==
  ASSUME NEW s \in Seq(Int), NEW t \in Seq(Int), s # t
  PROVE  LexGreater(s, t) \/ LexGreater(t, s)
  <1>1. SUFFICES ASSUME ~LexGreater(s, t), ~LexGreater(t, s) PROVE s = t
    OBVIOUS
  <1>2. /\ Len(s) <= Len(t) /\ \A i \in 1..Len(s) : s[i] = t[i]
        /\ Len(t) <= Len(s)
    BY <1>1, LexBegins
  <1>3. Len(s) = Len(t)
    <2>1. Len(s) \in Nat /\ Len(t) \in Nat
      OBVIOUS
    <2> QED
      BY <1>2, <2>1
  <1>4. s \in [1..Len(s) -> Int] /\ t \in [1..Len(t) -> Int]
    OBVIOUS
  <1> QED
    BY <1>2, <1>3, <1>4

\* Releases whose patch has at most two digits, too.
ShortReleases == {v \in TwoDigitReleases : v.patch <= 99}

\* A text, digit by digit: the patch has n digits, and k is 1 for a debug build.
Spells(text, minor, patch, n, k) ==
  /\ text \in Seq(Int) /\ n \in {1, 2} /\ k \in {0, 1} /\ Len(text) = 3 + n + k
  /\ minor = 10 * text[1] + text[2] /\ text[2] \in 0..9 /\ text[3] = -1
  /\ n = 1 => patch = text[4]
  /\ n = 2 => patch = 10 * text[4] + text[5] /\ text[5] \in 0..9
  /\ k = 1 => text[4 + n] = 10

\* Two sequences in one.
Joins(r, s, t) ==
  /\ r \in Seq(Int) /\ Len(r) = Len(s) + Len(t)
  /\ \A i \in 1..Len(s) : r[i] = s[i]
  /\ \A i \in 1..Len(t) : r[Len(s) + i] = t[i]

\* So they are.
LEMMA Concatenated == ASSUME NEW s \in Seq(Int), NEW t \in Seq(Int) PROVE Joins(s \o t, s, t)
  <1>1. Len(s) \in Nat /\ Len(t) \in Nat /\ s \o t \in Seq(Int) /\ Len(s \o t) = Len(s) + Len(t)
    OBVIOUS
  <1>2. \A i \in 1..Len(s) : (s \o t)[i] = s[i]
    BY <1>1
  <1>3. ASSUME NEW i \in 1..Len(t) PROVE (s \o t)[Len(s) + i] = t[i]
    BY <1>1
  <1> QED
    BY <1>1, <1>2, <1>3 DEF Joins

\* A number of one or two digits.
LEMMA ShortDigits ==
  ASSUME NEW a \in 0..99
  PROVE  /\ Digits(a) \in Seq(Int) /\ Len(Digits(a)) = (IF a < 10 THEN 1 ELSE 2)
         /\ a < 10 => a = Digits(a)[1]
         /\ ~(a < 10) => a = 10 * Digits(a)[1] + Digits(a)[2] /\ Digits(a)[2] \in 0..9
  <1> DEFINE x == a \div 10
             y == a % 10
  <1>1. x \in Int /\ a = 10 * x + y /\ y \in 0..9
    BY DigitsOf
  <1>2. a < 10 => Digits(a) = <<a>>
    BY DEF Digits
  <1>3. ~(a < 10) => Digits(a) = <<x, y>>
    BY DEF Digits
  <1> HIDE DEF x, y
  <1>4. CASE a < 10
    <2>1. Len(<<a>>) = 1 /\ <<a>>[1] = a /\ <<a>> \in Seq(Int)
      OBVIOUS
    <2> QED
      BY <1>2, <1>4, <2>1
  <1>5. CASE ~(a < 10)
    <2>1. Len(<<x, y>>) = 2 /\ <<x, y>>[1] = x /\ <<x, y>>[2] = y /\ <<x, y>> \in Seq(Int)
      BY <1>1
    <2> QED
      BY <1>1, <1>3, <1>5, <2>1
  <1> QED
    BY <1>4, <1>5

\* What four sequences in one are read from.
Reads(r, s, m, t, u, n, k) ==
  /\ r \in Seq(Int) /\ Len(r) = 3 + n + k
  /\ r[1] = s[1] /\ r[2] = s[2] /\ r[3] = m[1] /\ r[4] = t[1]
  /\ n = 2 => r[5] = t[2]
  /\ k = 1 => r[4 + n] = u[1]

\* They are read from sequences that are joined one by one.
LEMMA JoinsRead ==
  ASSUME NEW s \in Seq(Int), Len(s) = 2, NEW m \in Seq(Int), Len(m) = 1,
         NEW t \in Seq(Int), NEW n \in {1, 2}, Len(t) = n,
         NEW u \in Seq(Int), NEW k \in {0, 1}, Len(u) = k,
         NEW r1, Joins(r1, s, m), NEW r2, Joins(r2, r1, t), NEW r3, Joins(r3, r2, u)
  PROVE  Reads(r3, s, m, t, u, n, k)
  <1>1. Len(r1) = 3 /\ r1[1] = s[1] /\ r1[2] = s[2] /\ r1[3] = m[1]
    BY DEF Joins
  <1>2. Len(r2) = 3 + n
    BY <1>1 DEF Joins
  <1>3. r2[1] = s[1] /\ r2[2] = s[2] /\ r2[3] = m[1]
    BY <1>1 DEF Joins
  <1>4. r2[4] = t[1]
    <2>1. 1 \in 1..Len(t) /\ 3 + 1 = 4
      OBVIOUS
    <2>2. r2[3 + 1] = t[1]
      BY <1>1, <2>1 DEF Joins
    <2> QED
      BY <2>1, <2>2
  <1>5. n = 2 => r2[5] = t[2]
    <2>1. n = 2 => 2 \in 1..Len(t) /\ r2[3 + 2] = t[2]
      BY <1>1 DEF Joins
    <2> QED
      BY <2>1
  <1>6. r3 \in Seq(Int) /\ Len(r3) = 3 + n + k /\ \A i \in 1..3+n : r3[i] = r2[i]
    BY <1>2 DEF Joins
  <1>7. k = 1 => r3[4 + n] = u[1]
    <2>1. k = 1 => 1 \in 1..Len(u) /\ r3[(3 + n) + 1] = u[1]
      BY <1>2 DEF Joins
    <2>2. (3 + n) + 1 = 4 + n
      OBVIOUS
    <2> QED
      BY <2>1, <2>2
  <1>8. 1 \in 1..3+n /\ 2 \in 1..3+n /\ 3 \in 1..3+n /\ 4 \in 1..3+n /\ (n = 2 => 5 \in 1..3+n)
    OBVIOUS
  <1> QED
    BY <1>3, <1>4, <1>5, <1>6, <1>7, <1>8 DEF Reads

\* The text of a release.
LEMMA TextSpells ==
  ASSUME NEW minor \in 10..99, NEW patch \in 0..99, NEW v,
         v.minor = minor, v.patch = patch
  PROVE  Spells(Text(v), minor, patch, Len(Digits(patch)), IF v.debug THEN 1 ELSE 0)
  <1> DEFINE s == Digits(minor)
             t == Digits(patch)
             u == IF v.debug THEN <<10>> ELSE <<>>
             m == <<-1>>
             r1 == s \o m
             r2 == r1 \o t
             r3 == r2 \o u
             n == Len(t)
             k == IF v.debug THEN 1 ELSE 0
  <1>1. /\ s \in Seq(Int) /\ Len(s) = 2
        /\ minor = 10 * s[1] + s[2] /\ s[2] \in 0..9
    <2>1. minor \in 0..99 /\ ~(minor < 10)
      OBVIOUS
    <2> QED
      BY <2>1, ShortDigits
  <1>2. /\ t \in Seq(Int) /\ n \in {1, 2}
        /\ n = 1 => patch = t[1]
        /\ n = 2 => patch = 10 * t[1] + t[2] /\ t[2] \in 0..9
    <2>1. /\ t \in Seq(Int) /\ n = (IF patch < 10 THEN 1 ELSE 2)
          /\ patch < 10 => patch = t[1]
          /\ ~(patch < 10) => patch = 10 * t[1] + t[2] /\ t[2] \in 0..9
      BY ShortDigits
    <2> HIDE DEF t, n
    <2>2. CASE patch < 10
      BY <2>1, <2>2
    <2>3. CASE ~(patch < 10)
      BY <2>1, <2>3
    <2> QED
      BY <2>2, <2>3
  <1>3. u \in Seq(Int) /\ k \in {0, 1} /\ Len(u) = k /\ (k = 1 => u[1] = 10)
    <2>1. /\ <<10>> \in Seq(Int) /\ Len(<<10>>) = 1 /\ <<10>>[1] = 10
          /\ <<>> \in Seq(Int) /\ Len(<<>>) = 0
      OBVIOUS
    <2> QED
      BY <2>1
  <1>4. m \in Seq(Int) /\ Len(m) = 1 /\ m[1] = -1
    OBVIOUS
  <1>5. Text(v) = r3
    BY DEF Text
  <1> HIDE DEF s, t, u, m
  <1>6. Joins(r1, s, m)
    BY <1>1, <1>4, Concatenated
  <1> HIDE DEF r1
  <1>7. Joins(r2, r1, t)
    <2>1. r1 \in Seq(Int)
      BY <1>6 DEF Joins
    <2> QED
      BY <1>2, <2>1, Concatenated DEF r2
  <1> HIDE DEF r2
  <1>8. Joins(r3, r2, u)
    <2>1. r2 \in Seq(Int)
      BY <1>7 DEF Joins
    <2> QED
      BY <1>3, <2>1, Concatenated DEF r3
  <1> HIDE DEF r3
  <1>9. Len(t) = n
    OBVIOUS
  <1> HIDE DEF n, k
  <1>10. Reads(r3, s, m, t, u, n, k)
    BY <1>1, <1>2, <1>3, <1>4, <1>6, <1>7, <1>8, <1>9, JoinsRead
  <1>11. Spells(r3, minor, patch, n, k)
    BY <1>1, <1>2, <1>3, <1>4, <1>10 DEF Spells, Reads
  <1> QED
    BY <1>5, <1>11 DEF t, n, k

\* What it says of two releases that the text of one is greater.
LEMMA SpellsTells ==
  ASSUME NEW a \in Int, NEW p \in Int, NEW n, NEW k, NEW s, Spells(s, a, p, n, k),
         NEW b \in Int, NEW q \in Int, NEW m, NEW l, NEW t, Spells(t, b, q, m, l),
         LexGreater(s, t)
  PROVE  a > b \/ (a = b /\ (n # m \/ p > q \/ (p = q /\ k = 1 /\ l = 0)))
  <1>1. PICK i \in DOMAIN s :
          /\ \A j \in 1..i-1 : j \in DOMAIN t /\ s[j] = t[j]
          /\ i \in DOMAIN t => s[i] > t[i]
    BY DEF LexGreater
  <1>2. s \in Seq(Int) /\ t \in Seq(Int)
    BY DEF Spells
  <1>3. /\ DOMAIN s = 1..(3 + n + k) /\ n \in {1, 2} /\ k \in {0, 1}
        /\ DOMAIN t = 1..(3 + m + l) /\ m \in {1, 2} /\ l \in {0, 1}
    BY <1>2 DEF Spells
  <1>4. /\ \A j \in 1..(3 + n + k) : s[j] \in Int
        /\ \A j \in 1..(3 + m + l) : t[j] \in Int
    <2>1. (\A j \in DOMAIN s : s[j] \in Int) /\ (\A j \in DOMAIN t : t[j] \in Int)
      BY <1>2
    <2> QED
      BY <1>3, <2>1
  <1>5. /\ a = 10 * s[1] + s[2] /\ s[2] \in 0..9 /\ s[3] = -1
        /\ b = 10 * t[1] + t[2] /\ t[2] \in 0..9 /\ t[3] = -1
    BY DEF Spells
  <1>6. s[1] \in Int /\ s[2] \in Int /\ t[1] \in Int /\ t[2] \in Int
    <2>1. /\ 1 \in 1..(3 + n + k) /\ 2 \in 1..(3 + n + k)
          /\ 1 \in 1..(3 + m + l) /\ 2 \in 1..(3 + m + l)
      BY <1>3
    <2> QED
      BY <1>4, <2>1
  <1>7. CASE i = 1
    <2>1. s[1] > t[1]
      BY <1>1, <1>3, <1>7
    <2> QED
      BY <1>5, <1>6, <2>1
  <1>8. CASE i = 2
    <2>1. 1 \in 1..i-1 /\ s[2] > t[2]
      BY <1>1, <1>3, <1>8
    <2>2. s[1] = t[1]
      BY <1>1, <2>1
    <2> QED
      BY <1>5, <1>6, <2>1, <2>2
  <1>9. CASE i > 2
    <2>1. 1 \in 1..i-1 /\ 2 \in 1..i-1 /\ i # 3
      <3>1. i \in Int
        BY <1>1, <1>3
      <3>2. 3 \in DOMAIN t /\ ~(s[3] > t[3])
        <4>1. 3 \in 1..(3 + m + l)
          BY <1>3
        <4> QED
          BY <1>3, <1>5, <4>1
      <3>3. i # 3
        BY <1>1, <3>2
      <3> QED
        BY <1>9, <3>1, <3>3
    <2>2. s[1] = t[1] /\ s[2] = t[2]
      BY <1>1, <2>1
    <2>3. a = b
      BY <1>5, <2>2
    <2>4. SUFFICES ASSUME n = m PROVE p > q \/ (p = q /\ k = 1 /\ l = 0)
      BY <2>3
    <2>5. i \in 4..(3 + n + k)
      BY <1>1, <1>3, <1>9, <2>1
    <2>6. /\ n = 1 => p = s[4] /\ q = t[4]
          /\ n = 2 => /\ p = 10 * s[4] + s[5] /\ s[5] \in 0..9
                      /\ q = 10 * t[4] + t[5] /\ t[5] \in 0..9
      BY <2>4 DEF Spells
    <2>7. s[4] \in Int /\ t[4] \in Int
      <3>1. 4 \in 1..(3 + n + k) /\ 4 \in 1..(3 + m + l)
        BY <1>3
      <3> QED
        BY <1>4, <3>1
    <2>8. (k = 1 => s[4 + n] = 10) /\ (l = 1 => t[4 + n] = 10)
      BY <2>4 DEF Spells
    <2>9. CASE i = 4 + n
      <3>1. k = 1 /\ 4 \in 1..i-1 /\ (n = 2 => 5 \in 1..i-1)
        BY <1>3, <2>5, <2>9
      <3>2. s[4] = t[4] /\ (n = 2 => s[5] = t[5])
        BY <1>1, <3>1
      <3>3. p = q
        BY <1>3, <2>6, <3>2
      <3>4. l = 0
        <4>1. SUFFICES ASSUME l = 1 PROVE FALSE
          BY <1>3
        <4>2. i \in DOMAIN t
          BY <1>3, <2>4, <2>9, <4>1
        <4>3. s[i] > t[i] /\ s[i] = 10 /\ t[i] = 10
          BY <1>1, <2>8, <2>9, <3>1, <4>1, <4>2
        <4> QED
          BY <4>3
      <3> QED
        BY <3>1, <3>3, <3>4
    <2>10. CASE i = 4 /\ i # 4 + n
      <3>1. s[4] > t[4]
        BY <1>1, <1>3, <2>10
      <3>2. n = 1 => p > q
        BY <2>6, <3>1
      <3>3. n = 2 => p > q
        BY <2>6, <2>7, <3>1
      <3> QED
        BY <1>3, <3>2, <3>3
    <2>11. CASE i = 5 /\ n = 2
      <3>1. 4 \in 1..i-1 /\ s[5] > t[5]
        BY <1>1, <1>3, <2>4, <2>11
      <3>2. s[4] = t[4]
        BY <1>1, <3>1
      <3> QED
        BY <2>6, <2>7, <2>11, <3>1, <3>2
    <2> QED
      BY <1>3, <2>5, <2>9, <2>10, <2>11
  <1> QED
    BY <1>1, <1>3, <1>7, <1>8, <1>9

\* A text spells one release.
LEMMA SpellsOne ==
  ASSUME NEW a \in Int, NEW p \in Int, NEW n, NEW k, NEW s, Spells(s, a, p, n, k),
         NEW b \in Int, NEW q \in Int, NEW m, NEW l, Spells(s, b, q, m, l)
  PROVE  a = b /\ p = q /\ k = l
  <1>1. a = b
    BY DEF Spells
  <1>2. n \in {1, 2} /\ k \in {0, 1} /\ m \in {1, 2} /\ l \in {0, 1} /\ n + k = m + l
    <2>1. n \in {1, 2} /\ k \in {0, 1} /\ Len(s) = 3 + n + k
      BY DEF Spells
    <2>2. m \in {1, 2} /\ l \in {0, 1} /\ Len(s) = 3 + m + l
      BY DEF Spells
    <2> QED
      BY <2>1, <2>2
  <1>3. /\ n = 2 => s[5] \in 0..9
        /\ m = 2 => s[5] \in 0..9
        /\ n = 1 /\ k = 1 => s[5] = 10
        /\ m = 1 /\ l = 1 => s[5] = 10
    BY DEF Spells
  <1>4. n = m
    BY <1>2, <1>3
  <1>5. p = q
    BY <1>2, <1>4 DEF Spells
  <1> QED
    BY <1>1, <1>2, <1>4, <1>5

\* The order of the texts of two releases, and that they tell the releases apart.
LEMMA TextsOrder ==
  ASSUME NEW v \in ShortReleases, NEW w \in ShortReleases
  PROVE  /\ LexGreater(Text(v), Text(w)) =>
              \/ v.minor > w.minor
              \/ /\ v.minor = w.minor
                 /\ \/ Len(Digits(v.patch)) # Len(Digits(w.patch))
                    \/ v.patch > w.patch
                    \/ v.patch = w.patch /\ v.debug /\ ~w.debug
         /\ Text(v) = Text(w) => v = w
         /\ Text(v) \in Seq(Int)
  <1> DEFINE n == Len(Digits(v.patch))
             m == Len(Digits(w.patch))
             k == IF v.debug THEN 1 ELSE 0
             l == IF w.debug THEN 1 ELSE 0
  <1>1. v.minor \in 10..99 /\ v.patch \in 0..99 /\ w.minor \in 10..99 /\ w.patch \in 0..99
    BY DEF ShortReleases, TwoDigitReleases, PatchVersions
  <1>2. v \in PatchVersions /\ w \in PatchVersions
    BY DEF ShortReleases, TwoDigitReleases
  <1>3. Spells(Text(v), v.minor, v.patch, n, k) /\ Spells(Text(w), w.minor, w.patch, m, l)
    BY <1>1, TextSpells
  <1>4. (k = 1 => v.debug) /\ (l = 0 => ~w.debug)
    OBVIOUS
  <1>5. v.minor \in Int /\ v.patch \in Int /\ w.minor \in Int /\ w.patch \in Int
    BY <1>1
  <1>6. k = l => v.debug = w.debug
    <2>1. v.debug \in BOOLEAN /\ w.debug \in BOOLEAN
      BY <1>2 DEF PatchVersions
    <2> QED
      BY <2>1
  <1> HIDE DEF n, m, k, l
  <1>7. ASSUME LexGreater(Text(v), Text(w))
        PROVE  \/ v.minor > w.minor
               \/ /\ v.minor = w.minor
                  /\ n # m \/ v.patch > w.patch \/ (v.patch = w.patch /\ k = 1 /\ l = 0)
    BY <1>3, <1>5, <1>7, SpellsTells
  <1>8. ASSUME Text(v) = Text(w) PROVE v = w
    <2>1. Spells(Text(v), w.minor, w.patch, m, l)
      BY <1>3, <1>8
    <2>2. v.minor = w.minor /\ v.patch = w.patch /\ v.debug = w.debug
      BY <1>3, <1>5, <1>6, <2>1, SpellsOne
    <2> QED
      BY <1>2, <2>2 DEF PatchVersions
  <1>9. Text(v) \in Seq(Int)
    BY <1>3 DEF Spells
  <1> QED
    BY <1>4, <1>7, <1>8, <1>9 DEF n, m

-----------------------------------------------------------------------------
(* The list of versions.                                                   *)

\* Rows that can be sorted: one for each version, and of releases as Envoy's are.
IsTable(rows) ==
  /\ IsFiniteSet(rows)
  /\ \A r \in rows : r.version \in ShortReleases /\ r.releaseDate \in Int
  /\ \A r, o \in rows : r.version = o.version => r = o

BeforeIn(rows) == {p \in rows \X rows : Before(p[1], p[2])}

\* The comparison of sort.Slice is an order of the rows.
LEMMA RowsAreOrdered == ASSUME NEW rows, IsTable(rows) PROVE Orders(BeforeIn(rows), rows)
  <1>1. \A r \in rows : r.releaseDate \in Int /\ Text(r.version) \in Seq(Int)
    BY TextsOrder DEF IsTable
  <1>2. ASSUME NEW r \in rows, NEW o \in rows, r # o PROVE Before(r, o) \/ Before(o, r)
    <2>1. Text(r.version) # Text(o.version)
      <3>1. r.version # o.version
        BY <1>2 DEF IsTable
      <3> QED
        BY <3>1, TextsOrder DEF IsTable
    <2>2. LexGreater(Text(r.version), Text(o.version)) \/ LexGreater(Text(o.version), Text(r.version))
      BY <1>1, <2>1, LexTotal
    <2> QED
      BY <1>1, <2>2 DEF Before
  <1>3. ASSUME NEW r \in rows PROVE ~Before(r, r)
    <2>1. ~LexGreater(Text(r.version), Text(r.version))
      BY <1>1, LexIrreflexive
    <2> QED
      BY <2>1 DEF Before
  <1>4. ASSUME NEW r \in rows, NEW o \in rows, NEW q \in rows, Before(r, o), Before(o, q)
        PROVE  Before(r, q)
    <2>1. r.releaseDate \in Int /\ o.releaseDate \in Int /\ q.releaseDate \in Int
      BY <1>1
    <2>2. CASE r.releaseDate = o.releaseDate /\ o.releaseDate = q.releaseDate
      <3>1. LexGreater(Text(r.version), Text(o.version)) /\ LexGreater(Text(o.version), Text(q.version))
        BY <1>4, <2>2 DEF Before
      <3>2. LexGreater(Text(r.version), Text(q.version))
        BY <1>1, <3>1, LexTransitive
      <3> QED
        BY <2>2, <3>2 DEF Before
    <2>3. CASE r.releaseDate # o.releaseDate \/ o.releaseDate # q.releaseDate
      BY <1>4, <2>1, <2>3 DEF Before
    <2> QED
      BY <2>2, <2>3
  <1>5. \A r, o \in rows : <<r, o>> \in BeforeIn(rows) <=> Before(r, o)
    BY DEF BeforeIn
  <1> QED
    BY <1>2, <1>3, <1>4, <1>5 DEF Orders

\* There is a sorted list of the rows, and SortRows is one.
LEMMA SortRowsSorts ==
  ASSUME NEW rows, IsTable(rows) PROVE IsSortedBy(SortRows(rows), rows, BeforeIn(rows))
  <1>1. \A f : IsSortedBy(f, rows, BeforeIn(rows)) <=>
                 /\ f \in [1..Cardinality(rows) -> rows]
                 /\ \A i, j \in DOMAIN f : i < j => Before(f[i], f[j])
    BY DEF IsSortedBy, BeforeIn
  <1>2. IsFiniteSet(rows)
    BY DEF IsTable
  <1>3. PICK f : IsSortedBy(f, rows, BeforeIn(rows))
    BY <1>2, RowsAreOrdered, SortedExists
  <1>4. \E g \in [1..Cardinality(rows) -> rows] :
          \A i, j \in DOMAIN g : i < j => Before(g[i], g[j])
    BY <1>1, <1>3
  <1>5. /\ SortRows(rows) \in [1..Cardinality(rows) -> rows]
        /\ \A i, j \in DOMAIN SortRows(rows) : i < j => Before(SortRows(rows)[i], SortRows(rows)[j])
    BY <1>4 DEF SortRows
  <1> QED
    BY <1>1, <1>5

\* The order the list is meant to have: the newest date first, and of one date the
\* higher version as far as patches have as many digits.
Precedes(r, o) ==
  /\ r.version # o.version
  /\ r.releaseDate >= o.releaseDate
  /\ r.releaseDate = o.releaseDate =>
       \/ r.version.minor > o.version.minor
       \/ Len(Digits(r.version.patch)) # Len(Digits(o.version.patch))
       \/ r.version.patch > o.version.patch
       \/ /\ r.version.minor = o.version.minor /\ r.version.patch = o.version.patch
          /\ r.version.debug /\ ~o.version.debug

\* SortRows lists every row once, in that order.
LEMMA SortRowsLists ==
  ASSUME NEW rows, IsTable(rows), NEW sorted, sorted = SortRows(rows)
  PROVE  /\ DOMAIN sorted = 1..Cardinality(rows) /\ Cardinality(rows) \in Nat
         /\ {sorted[i] : i \in DOMAIN sorted} = rows
         /\ \A i, j \in DOMAIN sorted : i < j => Precedes(sorted[i], sorted[j])
  <1>1. IsSortedBy(sorted, rows, BeforeIn(rows))
    BY SortRowsSorts
  <1>2. IsFiniteSet(rows) /\ Cardinality(rows) \in Nat
    BY FS_CardinalityType DEF IsTable
  <1>3. /\ \A r \in rows : \E i \in 1..Cardinality(rows) : sorted[i] = r
        /\ \A i, j \in 1..Cardinality(rows) : i # j => sorted[i] # sorted[j]
    BY <1>1, <1>2, RowsAreOrdered, SortedCovers
  <1>4. sorted \in [1..Cardinality(rows) -> rows]
    BY <1>1 DEF IsSortedBy
  <1>5. {sorted[i] : i \in DOMAIN sorted} = rows
    BY <1>3, <1>4
  <1>6. ASSUME NEW i \in DOMAIN sorted, NEW j \in DOMAIN sorted, i < j
        PROVE  Precedes(sorted[i], sorted[j])
    <2> DEFINE r == sorted[i]
               o == sorted[j]
    <2>1. r \in rows /\ o \in rows /\ r # o
      BY <1>2, <1>3, <1>4, <1>6
    <2>2. Before(r, o)
      BY <1>1, <1>4, <1>6 DEF IsSortedBy, BeforeIn
    <2> HIDE DEF r, o
    <2>3. /\ r.version \in ShortReleases /\ o.version \in ShortReleases /\ r.version # o.version
          /\ r.releaseDate \in Int /\ o.releaseDate \in Int
      BY <2>1 DEF IsTable
    <2>4. r.releaseDate = o.releaseDate => LexGreater(Text(r.version), Text(o.version))
      BY <2>2 DEF Before
    <2>5. r.releaseDate >= o.releaseDate
      BY <2>2, <2>3 DEF Before
    <2>6. LexGreater(Text(r.version), Text(o.version)) =>
              \/ r.version.minor > o.version.minor
              \/ /\ r.version.minor = o.version.minor
                 /\ \/ Len(Digits(r.version.patch)) # Len(Digits(o.version.patch))
                    \/ r.version.patch > o.version.patch
                    \/ r.version.patch = o.version.patch /\ r.version.debug /\ ~o.version.debug
      BY <2>3, TextsOrder
    <2> QED
      BY <2>3, <2>4, <2>5, <2>6 DEF Precedes, r, o
  <1> QED
    BY <1>2, <1>4, <1>5, <1>6

\* The mark of a row.
LEMMA RowIsMarked ==
  ASSUME NEW version, NEW releaseDate, NEW current, NEW row,
         row = [version |-> version, releaseDate |-> releaseDate, marked |-> version = current]
  PROVE  row.marked <=> version = current
  OBVIOUS

\* The directories of installed versions: one for each.
IsInstalled(directories) ==
  /\ IsFiniteSet(directories)
  /\ \A d \in directories : d.version \in ShortReleases /\ d.mtime \in Int
  /\ \A d, o \in directories : d.version = o.version => d = o

\* The releases on offer: a version has one date for the platform, if it has any.
IsOffered(releases) ==
  /\ IsFiniteSet(releases)
  /\ \A r \in releases : r.version \in ShortReleases /\ r.releaseDate \in Int
  /\ \A r, o \in releases :
       r.forPlatform /\ o.forPlatform /\ r.version = o.version => r.releaseDate = o.releaseDate

\* Rows that list some versions, each once and in order, and mark the current one.
Lists(rows, versions, current) ==
  /\ {rows[i].version : i \in DOMAIN rows} = versions
  /\ \A i \in DOMAIN rows : rows[i].marked <=> rows[i].version = current
  /\ \A i, j \in DOMAIN rows : i < j => Precedes(rows[i], rows[j])

\* The versions to list.
ToList(directories, releases, all) ==
  {d.version : d \in directories} \cup {r.version : r \in {x \in releases : all /\ x.forPlatform}}

\* What func-e versions prints, of any directories and releases and in any zone: each
\* version that is installed or asked for and on offer, once, with the newest dates
\* first and of one date the higher versions, and the current one marked
\* (internal/cmd/versions.go:35-83, 93-130).
THEOREM VersionsCmdLists ==
  ASSUME NEW directories, IsInstalled(directories), NEW releases, IsOffered(releases),
         NEW all \in BOOLEAN, NEW current, NEW offset \in Int
  PROVE  Lists(NewVersionsCmd(directories, releases, all, current, offset).rows,
               ToList(directories, releases, all), current)
  <1> DEFINE installed == getInstalledVersions(directories, offset)
             chosen == {x \in releases : all /\ x.forPlatform}
             offered == {[version |-> r.version, releaseDate |-> r.releaseDate] : r \in chosen}
             table == addAvailableVersions(installed, offered)
             sorted == SortRows(table)
             rows == NewVersionsCmd(directories, releases, all, current, offset).rows
  <1>0. /\ IsFiniteSet(directories) /\ IsFiniteSet(releases)
        /\ \A d \in directories : d.version \in ShortReleases /\ d.mtime \in Int
        /\ \A d, o \in directories : d.version = o.version => d = o
        /\ \A r \in releases : r.version \in ShortReleases /\ r.releaseDate \in Int
        /\ \A r, o \in chosen : r.version = o.version => r.releaseDate = o.releaseDate
    BY DEF IsInstalled, IsOffered
  <1>1. rows = [i \in DOMAIN sorted |->
                 [version |-> sorted[i].version, releaseDate |-> sorted[i].releaseDate,
                  marked |-> sorted[i].version = current]]
    BY DEF NewVersionsCmd
  <1>2. \A row \in table : row \in installed \/ (row \in offered /\
            \A other \in installed : other.version # row.version)
    BY DEF addAvailableVersions
  <1>3. \A row \in installed : \E d \in directories :
            row = [version |-> d.version, releaseDate |-> Format(d.mtime, offset)]
    BY DEF getInstalledVersions
  <1>4. \A row \in offered : \E r \in chosen :
            row = [version |-> r.version, releaseDate |-> r.releaseDate]
    OBVIOUS
  <1>5. \A d \in directories : Format(d.mtime, offset) \in Int
    BY <1>0 DEF Format
  <1>6. \A row \in table : row.version \in ShortReleases /\ row.releaseDate \in Int
    BY <1>0, <1>2, <1>3, <1>4, <1>5
  <1>7. \A r, o \in table : r.version = o.version => r = o
    BY <1>0, <1>2, <1>3, <1>4
  <1>8. IsFiniteSet(table)
    <2>1. IsFiniteSet(installed)
      <3> DEFINE f == [d \in directories |->
                        [version |-> d.version, releaseDate |-> Format(d.mtime, offset)]]
      <3>1. f \in Surjection(directories, installed)
        BY DEF Surjection, getInstalledVersions
      <3> QED
        BY <1>0, <3>1, FS_Surjection
    <2>2. IsFiniteSet(chosen)
      BY <1>0, FS_Subset
    <2>3. IsFiniteSet(offered)
      <3> DEFINE f == [r \in chosen |-> [version |-> r.version, releaseDate |-> r.releaseDate]]
      <3>1. f \in Surjection(chosen, offered)
        BY DEF Surjection
      <3> QED
        BY <2>2, <3>1, FS_Surjection
    <2>4. IsFiniteSet(installed \cup offered)
      BY <2>1, <2>3, FS_Union
    <2>5. table \subseteq installed \cup offered
      BY <1>2
    <2> QED
      BY <2>4, <2>5, FS_Subset
  <1>9. {row.version : row \in table} =
          {d.version : d \in directories} \cup {r.version : r \in chosen}
    <2>1. ASSUME NEW d \in directories PROVE \E row \in table : row.version = d.version
      <3> DEFINE new == [version |-> d.version, releaseDate |-> Format(d.mtime, offset)]
      <3>1. new \in installed /\ new.version = d.version
        BY DEF getInstalledVersions
      <3>2. new \in table
        BY <3>1 DEF addAvailableVersions
      <3> QED
        BY <3>1, <3>2
    <2>2. ASSUME NEW r \in chosen PROVE \E row \in table : row.version = r.version
      <3> DEFINE new == [version |-> r.version, releaseDate |-> r.releaseDate]
      <3>1. CASE \E row \in installed : row.version = r.version
        BY <3>1 DEF addAvailableVersions
      <3>2. CASE ~\E row \in installed : row.version = r.version
        <4>1. new \in offered /\ new.version = r.version
          OBVIOUS
        <4>2. new.version \notin {row.version : row \in installed}
          BY <3>2, <4>1
        <4>3. new \in table
          BY <4>1, <4>2 DEF addAvailableVersions
        <4> QED
          BY <4>1, <4>3
      <3> QED
        BY <3>1, <3>2
    <2>3. \A row \in table :
            \/ \E d \in directories : row.version = d.version
            \/ \E r \in chosen : row.version = r.version
      BY <1>2, <1>3, <1>4
    <2> HIDE DEF table, chosen
    <2> QED
      BY <2>1, <2>2, <2>3
  <1>10. IsTable(table)
    BY <1>6, <1>7, <1>8 DEF IsTable
  <1> HIDE DEF table
  <1>11. /\ {sorted[i] : i \in DOMAIN sorted} = table
         /\ \A i, j \in DOMAIN sorted : i < j => Precedes(sorted[i], sorted[j])
    BY <1>10, SortRowsLists
  <1> HIDE DEF sorted, rows
  <1>12. /\ DOMAIN rows = DOMAIN sorted
         /\ \A i \in DOMAIN sorted : /\ rows[i].version = sorted[i].version
                                     /\ rows[i].releaseDate = sorted[i].releaseDate
    BY <1>1
  <1>13. ASSUME NEW i \in DOMAIN rows PROVE rows[i].marked <=> rows[i].version = current
    <2>1. rows[i] = [version |-> sorted[i].version, releaseDate |-> sorted[i].releaseDate,
                     marked |-> sorted[i].version = current]
      BY <1>1
    <2>2. rows[i].marked <=> sorted[i].version = current
      BY <2>1, RowIsMarked
    <2> QED
      BY <1>12, <2>2
  <1>14. {rows[i].version : i \in DOMAIN rows} = {row.version : row \in table}
    BY <1>11, <1>12
  <1>15. \A i, j \in DOMAIN rows : i < j => Precedes(rows[i], rows[j])
    BY <1>11, <1>12 DEF Precedes
  <1> QED
    BY <1>9, <1>13, <1>14, <1>15 DEF Lists, ToList, table, rows
=============================================================================

---------------------------- MODULE FoldInduction ----------------------------
(***************************************************************************)
(* Induction over a fold from the left.  The searches over versions, the   *)
(* scans of the arguments of Envoy and the options of a run are loops over *)
(* a slice, modelled by FoldLeft; this module proves, once for all, that   *)
(* what holds before such a loop and is kept by each turn of it holds      *)
(* after it.  A module that proves something about a loop takes an         *)
(* INSTANCE of this one with the turn of the loop for Op.                  *)
(*                                                                         *)
(* FoldLeft is defined by a function on the subsets of the domain, chosen  *)
(* to satisfy a recursive equation: the first half shows that there is     *)
(* such a function.  Induction is over sets of numbers (UpTo), so that no  *)
(* theorem takes an operator.                                              *)
(***************************************************************************)
EXTENDS Integers, Sequences, SequencesExt, TLAPS, WellFoundedInduction

CONSTANTS
  Op(_, _, _),     \* a turn of the loop: the parameter, what it has so far, the element
  Base(_),         \* what it starts from, given the parameter
  Inv(_, _, _, _)  \* the loop invariant: the parameter, the sequence, the turns, what it has

Fold(p, seq) == FoldLeft(LAMBDA acc, element : Op(p, acc, element), Base(p), seq)

\* The recursive equation of MapThenFoldSet, for the elements with the indices s.
Body(p, seq, iter, s) ==
  IF s = {} THEN Base(p) ELSE LET x == Max(s) IN Op(p, iter[s \ {x}], seq[x])

IsIter(p, seq, iter, m) == iter = [s \in SUBSET (1..m) |-> Body(p, seq, iter, s)]

Iter(p, seq) == CHOOSE iter : iter = [s \in SUBSET DOMAIN seq |-> Body(p, seq, iter, s)]

\* The fold is the chosen function at the whole domain.
LEMMA Unfold == \A p, seq : Fold(p, seq) = Iter(p, seq)[DOMAIN seq]
  BY DEF FoldLeft, MapThenFoldSet, Iter, Body, Fold

\* The last index is taken first.
LEMMA MaxLast == ASSUME NEW m \in Nat, NEW s \in SUBSET (1..m), m \in s PROVE Max(s) = m
  <1>1. \A y \in s : m >= y
    OBVIOUS
  <1>2. \A x \in s : (\A y \in s : x >= y) => x = m
    OBVIOUS
  <1> QED
    BY <1>1, <1>2 DEF Max

\* The equation has a solution for no element.
LEMMA IterEmpty == ASSUME NEW p, NEW seq PROVE \E iter : IsIter(p, seq, iter, 0)
  <1> DEFINE f == [s \in SUBSET (1..0) |-> Base(p)]
  <1>1. f = [s \in SUBSET (1..0) |-> Body(p, seq, f, s)]
    BY DEF Body
  <1> QED
    BY <1>1 DEF IsIter

\* A solution for m elements gives one for m + 1.
LEMMA IterGrows ==
  ASSUME NEW p, NEW seq, NEW m \in Nat, NEW iter, IsIter(p, seq, iter, m)
  PROVE  \E f : IsIter(p, seq, f, m + 1)
  <1> DEFINE f == [s \in SUBSET (1..m+1) |->
                    IF m + 1 \in s THEN Op(p, iter[s \ {m+1}], seq[m+1]) ELSE iter[s]]
  <1>1. ASSUME NEW s \in SUBSET (1..m+1) PROVE f[s] = Body(p, seq, f, s)
    <2>1. CASE m + 1 \in s
      <3>1. Max(s) = m + 1
        BY <2>1, MaxLast
      <3>2. s \ {m + 1} \in SUBSET (1..m+1) /\ m + 1 \notin s \ {m+1}
        OBVIOUS
      <3>3. f[s \ {m + 1}] = iter[s \ {m+1}]
        BY <3>2
      <3>4. f[s] = Op(p, iter[s \ {m+1}], seq[m+1])
        BY <2>1
      <3> HIDE DEF f
      <3> QED
        BY <2>1, <3>1, <3>3, <3>4 DEF Body
    <2>2. CASE m + 1 \notin s
      <3>1. s \in SUBSET (1..m)
        BY <2>2
      <3>2. iter[s] = Body(p, seq, iter, s)
        BY <3>1 DEF IsIter
      <3>3. s \ {Max(s)} \in SUBSET (1..m+1) /\ m + 1 \notin s \ {Max(s)}
        BY <2>2
      <3>4. f[s \ {Max(s)}] = iter[s \ {Max(s)}]
        BY <3>3
      <3>5. f[s] = iter[s]
        BY <2>2
      <3> HIDE DEF f
      <3> QED
        BY <3>2, <3>4, <3>5 DEF Body
    <2> QED
      BY <2>1, <2>2
  <1>2. f = [s \in SUBSET (1..m+1) |-> Body(p, seq, f, s)]
    <2> DEFINE g == [s \in SUBSET (1..m+1) |-> Body(p, seq, f, s)]
    <2>1. \A s \in SUBSET (1..m+1) : f[s] = g[s]
      BY <1>1
    <2> QED
      BY <2>1
  <1> QED
    BY <1>2 DEF IsIter

\* The numbers up to n are all in a set that has 0 and the next of each.
LEMMA UpTo ==
  ASSUME NEW n \in Nat, NEW S, 0 \in S, \A i \in 1..n : i - 1 \in S => i \in S
  PROVE  0..n \subseteq S
  <1> DEFINE T == 0..n \ S
  <1>1. SUFFICES ASSUME T # {} PROVE FALSE
    OBVIOUS
  <1>2. T \subseteq Nat
    OBVIOUS
  <1>3. PICK m \in T : \A k \in T : ~ (<<k, m>> \in OpToRel(<, Nat))
    BY <1>1, <1>2, WFMin, NatLessThanWellFounded
  <1>4. \A k \in T : ~(k < m)
    BY <1>2, <1>3 DEF OpToRel
  <1>5. m # 0 /\ m \in 1..n
    OBVIOUS
  <1>6. m - 1 \in S
    BY <1>4, <1>5
  <1> QED
    BY <1>5, <1>6

\* So every number of elements has one.
LEMMA IterExists ==
  ASSUME NEW p, NEW seq, NEW n \in Nat
  PROVE  \E iter : IsIter(p, seq, iter, n)
  <1> DEFINE S == {m \in 0..n : \E iter : IsIter(p, seq, iter, m)}
  <1>1. 0 \in S
    BY IterEmpty
  <1>2. ASSUME NEW m \in 1..n, m - 1 \in S PROVE m \in S
    <2>1. \E iter : IsIter(p, seq, iter, (m - 1) + 1)
      BY <1>2, IterGrows
    <2>2. (m - 1) + 1 = m
      OBVIOUS
    <2> QED
      BY <2>1, <2>2
  <1>3. 0..n \subseteq S
    <2> HIDE DEF S
    <2> QED
      BY <1>1, <1>2, UpTo
  <1> QED
    BY <1>3

\* So the chosen function satisfies the equation.
LEMMA IterEquation ==
  ASSUME NEW p, NEW seq, NEW n \in Nat, DOMAIN seq = 1..n
  PROVE  \A s \in SUBSET (1..n) : Iter(p, seq)[s] = Body(p, seq, Iter(p, seq), s)
  <1>1. PICK iter : IsIter(p, seq, iter, n)
    BY IterExists
  <1>2. iter = [s \in SUBSET DOMAIN seq |-> Body(p, seq, iter, s)]
    BY <1>1 DEF IsIter
  <1>3. Iter(p, seq) = [s \in SUBSET (1..n) |-> Body(p, seq, Iter(p, seq), s)]
    BY <1>2 DEF Iter
  <1> HIDE DEF Iter
  <1> QED
    BY <1>3

\* Before the first turn, and after each.
LEMMA IterFirst ==
  ASSUME NEW p, NEW seq, NEW n \in Nat, DOMAIN seq = 1..n
  PROVE  Iter(p, seq)[1..0] = Base(p)
  <1>1. 1..0 = {} /\ 1..0 \in SUBSET (1..n)
    OBVIOUS
  <1> QED
    BY <1>1, IterEquation DEF Body

\* With one element more, it takes a turn.
LEMMA IterNext ==
  ASSUME NEW p, NEW seq, NEW n \in Nat, DOMAIN seq = 1..n, NEW i \in 1..n
  PROVE  Iter(p, seq)[1..i] = Op(p, Iter(p, seq)[1..(i-1)], seq[i])
  <1>1. Max(1..i) = i
    BY MaxLast
  <1>2. i \in 1..i /\ 1..i \in SUBSET (1..n)
    OBVIOUS
  <1>3. (1..i) \ {i} = 1..(i-1)
    OBVIOUS
  <1>4. Iter(p, seq)[1..i] = Body(p, seq, Iter(p, seq), 1..i)
    BY <1>2, IterEquation
  <1> QED
    BY <1>1, <1>2, <1>3, <1>4 DEF Body

-----------------------------------------------------------------------------
(* What the modules with loops use.                                        *)

\* What the loop has after some of its turns.
After(p, seq, i) == Iter(p, seq)[1..i]

\* The loop, turn by turn.
THEOREM FoldTurns ==
  ASSUME NEW p, NEW seq, NEW n \in Nat, DOMAIN seq = 1..n
  PROVE  /\ After(p, seq, 0) = Base(p)
         /\ \A i \in 1..n : After(p, seq, i) = Op(p, After(p, seq, i - 1), seq[i])
         /\ Fold(p, seq) = After(p, seq, n)
  BY IterFirst, IterNext, Unfold DEF After

\* Loops over sequences that begin alike go alike.
THEOREM FoldPrefix ==
  ASSUME NEW p, NEW s, NEW m \in Nat, DOMAIN s = 1..m, NEW t, NEW n \in Nat, DOMAIN t = 1..n,
         NEW k \in 0..m, k <= n, \A j \in 1..k : s[j] = t[j]
  PROVE  After(p, s, k) = After(p, t, k)
  <1> DEFINE S == {i \in 0..k : After(p, s, i) = After(p, t, i)}
  <1>1. 0 \in S
    <2>1. After(p, s, 0) = Base(p) /\ After(p, t, 0) = Base(p)
      BY FoldTurns
    <2> QED
      BY <2>1
  <1>2. ASSUME NEW i \in 1..k, i - 1 \in S PROVE i \in S
    <2>1. i \in 1..m /\ i \in 1..n /\ s[i] = t[i]
      OBVIOUS
    <2>2. After(p, s, i) = Op(p, After(p, s, i - 1), s[i])
      BY <2>1, FoldTurns
    <2>3. After(p, t, i) = Op(p, After(p, t, i - 1), t[i])
      BY <2>1, FoldTurns
    <2> QED
      BY <1>2, <2>1, <2>2, <2>3
  <1>3. 0..k \subseteq S
    <2> HIDE DEF S
    <2>1. k \in Nat
      OBVIOUS
    <2> QED
      BY <1>1, <1>2, <2>1, UpTo
  <1> QED
    BY <1>3

\* Two more elements are two more turns.
THEOREM FoldTwoMore ==
  ASSUME NEW p, NEW s, NEW n \in Nat, DOMAIN s = 1..n, NEW t, DOMAIN t = 1..n+2,
         \A j \in 1..n : s[j] = t[j]
  PROVE  Fold(p, t) = Op(p, Op(p, Fold(p, s), t[n + 1]), t[n + 2])
  <1>1. n + 2 \in Nat /\ n \in 0..n /\ n <= n + 2 /\ n + 1 \in 1..n+2 /\ n + 2 \in 1..n+2
        /\ (n + 1) - 1 = n /\ (n + 2) - 1 = n + 1
    OBVIOUS
  <1>2. After(p, s, n) = After(p, t, n)
    BY <1>1, FoldPrefix
  <1>3. Fold(p, s) = After(p, s, n) /\ Fold(p, t) = After(p, t, n + 2)
    BY <1>1, FoldTurns
  <1>4. After(p, t, n + 1) = Op(p, After(p, t, n), t[n + 1])
    <2>1. After(p, t, n + 1) = Op(p, After(p, t, (n + 1) - 1), t[n + 1])
      BY <1>1, FoldTurns
    <2> QED
      BY <1>1, <2>1
  <1>5. After(p, t, n + 2) = Op(p, After(p, t, n + 1), t[n + 2])
    <2>1. After(p, t, n + 2) = Op(p, After(p, t, (n + 2) - 1), t[n + 2])
      BY <1>1, FoldTurns
    <2> QED
      BY <1>1, <2>1
  <1> QED
    BY <1>2, <1>3, <1>4, <1>5

\* A loop that has what none of the further turns changes, has it at the end.
THEOREM FoldRests ==
  ASSUME NEW p, NEW seq, NEW n \in Nat, DOMAIN seq = 1..n, NEW m \in 0..n,
         \A i \in m+1..n : Op(p, After(p, seq, m), seq[i]) = After(p, seq, m)
  PROVE  Fold(p, seq) = After(p, seq, m)
  <1> DEFINE S == {i \in 0..(n - m) : After(p, seq, m + i) = After(p, seq, m)}
  <1>1. 0 \in S
    OBVIOUS
  <1>2. ASSUME NEW i \in 1..(n - m), i - 1 \in S PROVE i \in S
    <2>1. m + i \in 1..n /\ m + i \in m+1..n /\ (m + i) - 1 = m + (i - 1)
      OBVIOUS
    <2>2. After(p, seq, m + i) = Op(p, After(p, seq, m + (i - 1)), seq[m + i])
      <3>1. \A j \in 1..n : After(p, seq, j) = Op(p, After(p, seq, j - 1), seq[j])
        BY FoldTurns
      <3> HIDE DEF S
      <3> QED
        BY <2>1, <3>1
    <2>3. After(p, seq, m + (i - 1)) = After(p, seq, m)
      BY <1>2
    <2> QED
      BY <2>1, <2>2, <2>3
  <1>3. 0..(n - m) \subseteq S
    <2>1. n - m \in Nat
      OBVIOUS
    <2> HIDE DEF S
    <2> QED
      BY <1>1, <1>2, <2>1, UpTo
  <1>4. n - m \in 0..(n - m) /\ m + (n - m) = n
    OBVIOUS
  <1>5. After(p, seq, n) = After(p, seq, m)
    BY <1>3, <1>4
  <1> QED
    BY <1>5, FoldTurns

\* What holds of the base, and is kept by every turn, holds after any number of turns.
THEOREM TurnsKeep ==
  ASSUME NEW p, NEW seq, NEW n \in Nat, DOMAIN seq = 1..n,
         Inv(p, seq, 0, Base(p)),
         \A i \in 1..n : \A acc :
           Inv(p, seq, i - 1, acc) => Inv(p, seq, i, Op(p, acc, seq[i]))
  PROVE  \A i \in 0..n : Inv(p, seq, i, After(p, seq, i))
  <1> DEFINE S == {i \in 0..n : Inv(p, seq, i, After(p, seq, i))}
  <1>1. 0 \in S
    <2>1. After(p, seq, 0) = Base(p)
      BY FoldTurns
    <2> QED
      BY <2>1
  <1>2. ASSUME NEW i \in 1..n, i - 1 \in S PROVE i \in S
    <2>1. After(p, seq, i) = Op(p, After(p, seq, i - 1), seq[i])
      BY FoldTurns
    <2> QED
      BY <1>2, <2>1
  <1>3. 0..n \subseteq S
    <2> HIDE DEF S
    <2> QED
      BY <1>1, <1>2, UpTo
  <1> QED
    BY <1>3

\* So it holds of the result of a loop over any sequence.
THEOREM FoldInvariance ==
  ASSUME NEW p, NEW seq, NEW n \in Nat, DOMAIN seq = 1..n,
         Inv(p, seq, 0, Base(p)),
         \A i \in 1..n : \A acc :
           Inv(p, seq, i - 1, acc) => Inv(p, seq, i, Op(p, acc, seq[i]))
  PROVE  Inv(p, seq, n, Fold(p, seq))
  <1>1. Inv(p, seq, n, After(p, seq, n))
    BY TurnsKeep
  <1> QED
    BY <1>1, FoldTurns
=============================================================================

----------------------------- MODULE FoldLemmas -----------------------------
(***************************************************************************)
(* Lemmas about finite sets, numbers and folds that the proofs about       *)
(* several components need: induction, stated for a set instead of a       *)
(* predicate; the largest number of a set; that a function which is        *)
(* defined over the subsets of a finite set, as the folds are, exists.     *)
(***************************************************************************)
EXTENDS Integers, SequencesExt, FiniteSetTheorems, WellFoundedInduction, TLAPS

(* A set of numbers that 0 is in and that is closed under the next number, *)
(* up to n, has n in it.                                                   *)
LEMMA UpTo ==
  ASSUME NEW n \in Nat, NEW K, 0 \in K, \A k \in 0..n - 1 : k \in K => k + 1 \in K
  PROVE  \A k \in 0..n : k \in K
  <1> SUFFICES ASSUME \E k \in 0..n : k \notin K PROVE FALSE
    OBVIOUS
  <1> DEFINE T == {k \in 0..n : k \notin K}
  <1>1. T \subseteq Nat /\ T # {}
    OBVIOUS
  <1>2. PICK x \in T : \A y \in T : ~(<<y, x>> \in OpToRel(<, Nat))
    BY <1>1, WFMin, NatLessThanWellFounded
  <1>3. x \in 1..n
    OBVIOUS
  <1>4. x - 1 \in 0..n - 1 /\ x - 1 \in Nat /\ x \in Nat /\ x - 1 < x
    BY <1>3
  <1>5. x - 1 \notin T
    BY <1>2, <1>4 DEF OpToRel
  <1>6. x - 1 \in K
    BY <1>4, <1>5
  <1>7. (x - 1) + 1 \in K
    BY <1>4, <1>6
  <1> QED
    BY <1>3, <1>7

(* A family of sets that is closed under adding the element that c chooses *)
(* has every subset of S in it.                                            *)
ClosedUp(S, P, c) ==
  /\ {} \in P
  /\ \A T \in SUBSET S : T # {} => c[T] \in T /\ (T \ {c[T]} \in P => T \in P)

LEMMA SubsetsUp ==
  ASSUME NEW S, IsFiniteSet(S), NEW P, NEW c, ClosedUp(S, P, c)
  PROVE  \A T \in SUBSET S : T \in P
  <1> USE DEF ClosedUp
  <1> DEFINE K == {k \in Nat : \A T \in SUBSET S : Cardinality(T) <= k => T \in P}
  <1>0. \A T \in SUBSET S : IsFiniteSet(T) /\ Cardinality(T) \in Nat
    BY FS_Subset, FS_CardinalityType
  <1>1. 0 \in K
    <2>1. ASSUME NEW T \in SUBSET S, Cardinality(T) <= 0 PROVE T = {}
      BY <1>0, <2>1, FS_EmptySet
    <2> QED
      BY <2>1
  <1>2. ASSUME NEW k \in Nat, k \in K PROVE k + 1 \in K
    <2>1. ASSUME NEW T \in SUBSET S, Cardinality(T) <= k + 1, T # {} PROVE T \in P
      <3>1. IsFiniteSet(T) /\ c[T] \in T /\ T \ {c[T]} \in SUBSET S
        BY <1>0, <2>1
      <3>2. Cardinality(T \ {c[T]}) = Cardinality(T) - 1
        BY <3>1, FS_RemoveElement
      <3>3. Cardinality(T \ {c[T]}) <= k
        BY <1>0, <2>1, <3>2
      <3> QED
        BY <1>2, <2>1, <3>1, <3>3
    <2> QED
      BY <2>1
  <1> HIDE DEF K
  <1>3. \A n \in Nat : n \in K
    <2> SUFFICES ASSUME NEW n \in Nat PROVE n \in K
      OBVIOUS
    <2>1. \A k \in 0..n - 1 : k \in K => k + 1 \in K
      BY <1>2
    <2>2. \A k \in 0..n : k \in K
      BY <1>1, <2>1, UpTo
    <2> QED
      BY <2>2
  <1> QED
    BY <1>0, <1>3 DEF K

-----------------------------------------------------------------------------
(* Values are made from base along the elements of a finite set, in the    *)
(* order in which c takes them away.  (An operator that is a parameter is   *)
(* handed on to a definition and never applied in a statement: that form   *)
(* of a lemma the provers instantiate.)                                    *)
Iterates(S, base, step(_, _), c, h) ==
  h = [T \in SUBSET S |-> IF T = {} THEN base ELSE step(h[T \ {c[T]}], c[T])]

(* A function over the subsets of a finite set that is defined by taking   *)
(* elements away exists.                                                   *)
LEMMA IterationExists ==
  ASSUME NEW S, IsFiniteSet(S), NEW base, NEW step(_, _),
         NEW c, \A T \in SUBSET S : T # {} => c[T] \in T
  PROVE  \E h : Iterates(S, base, step, c, h)
  <1> DEFINE Sub(k) == {T \in SUBSET S : Cardinality(T) <= k}
             body(h, T) == IF T = {} THEN base ELSE step(h[T \ {c[T]}], c[T])
             K == {k \in Nat : \E h : h = [T \in Sub(k) |-> body(h, T)]}
  <1>0. \A T \in SUBSET S : IsFiniteSet(T) /\ Cardinality(T) \in Nat
    BY FS_Subset, FS_CardinalityType
  <1>1. 0 \in K
    <2>1. \A T \in Sub(0) : T = {}
      BY <1>0, FS_EmptySet
    <2>2. \A h : [T \in Sub(0) |-> base] = [T \in Sub(0) |-> body(h, T)]
      BY <2>1
    <2> QED
      BY <2>2
  <1>2. ASSUME NEW k \in Nat, k \in K PROVE k + 1 \in K
    <2>1. PICK h : h = [T \in Sub(k) |-> body(h, T)]
      BY <1>2
    <2> DEFINE g == [T \in Sub(k + 1) |-> body(h, T)]
    <2>2. ASSUME NEW T \in Sub(k + 1), T # {}
          PROVE  T \ {c[T]} \in Sub(k)
      <3>1. IsFiniteSet(T) /\ c[T] \in T /\ T \ {c[T]} \in SUBSET S
        BY <1>0, <2>2
      <3>2. Cardinality(T \ {c[T]}) = Cardinality(T) - 1
        BY <3>1, FS_RemoveElement
      <3>3. Cardinality(T \ {c[T]}) <= k
        BY <1>0, <2>2, <3>2
      <3> QED
        BY <3>1, <3>3
    <2>3. \A T \in Sub(k) : T \in Sub(k + 1)
      BY <1>0
    <2>4. \A T \in Sub(k) : g[T] = h[T]
      <3> SUFFICES ASSUME NEW T \in Sub(k) PROVE g[T] = h[T]
        OBVIOUS
      <3>1. g[T] = body(h, T)
        BY <2>3
      <3>2. h[T] = body(h, T)
        BY <2>1
      <3> QED
        BY <3>1, <3>2
    <2>5. g = [T \in Sub(k + 1) |-> body(g, T)]
      <3>1. \A T \in Sub(k + 1) : body(h, T) = body(g, T)
        <4> SUFFICES ASSUME NEW T \in Sub(k + 1), T # {} PROVE h[T \ {c[T]}] = g[T \ {c[T]}]
          OBVIOUS
        <4> QED
          BY <2>2, <2>4
      <3> HIDE DEF body
      <3> QED
        BY <3>1
    <2> HIDE DEF g, body, Sub
    <2> QED
      BY <2>5
  <1> HIDE DEF K
  <1>3. Cardinality(S) \in K
    <2>1. Cardinality(S) \in Nat
      BY <1>0
    <2>2. \A k \in 0..Cardinality(S) - 1 : k \in K => k + 1 \in K
      BY <1>2, <2>1
    <2>3. \A k \in 0..Cardinality(S) : k \in K
      BY <1>1, <2>1, <2>2, UpTo
    <2> QED
      BY <2>1, <2>3
  <1>4. Sub(Cardinality(S)) = SUBSET S
    BY FS_Subset
  <1>5. PICK h : h = [T \in Sub(Cardinality(S)) |-> body(h, T)]
    BY <1>3 DEF K
  <1> HIDE DEF Sub
  <1> QED
    BY <1>4, <1>5 DEF Iterates

-----------------------------------------------------------------------------
(* The largest element of a set of numbers.                                *)
LEMMA MaxIs ==
  ASSUME NEW n \in Nat, NEW S \in SUBSET (1..n), S # {}
  PROVE  Max(S) \in S /\ \A i \in S : Max(S) >= i
  <1> DEFINE T == {n - i : i \in S}
  <1>1. T \subseteq Nat
    <2> SUFFICES ASSUME NEW i \in S PROVE n - i \in Nat
      OBVIOUS
    <2>1. i \in Int /\ i <= n
      OBVIOUS
    <2> QED
      BY <2>1
  <1>2. T # {}
    OBVIOUS
  <1>3. PICK x \in T : \A y \in T : ~(<<y, x>> \in OpToRel(<, Nat))
    BY <1>1, <1>2, WFMin, NatLessThanWellFounded
  <1>4. PICK m \in S : x = n - m
    BY <1>3
  <1>5. ASSUME NEW i \in S PROVE m >= i
    <2>1. n - i \in T /\ n - i \in Nat /\ n - m \in Nat
      BY <1>1, <1>4
    <2>2. ~(<<n - i, n - m>> \in OpToRel(<, Nat))
      BY <1>3, <1>4, <2>1
    <2>3. ~(n - i < n - m)
      BY <2>1, <2>2 DEF OpToRel
    <2>4. i \in Int /\ m \in Int
      OBVIOUS
    <2> QED
      BY <2>3, <2>4
  <1> QED
    BY <1>4, <1>5 DEF Max

(* The smallest.                                                           *)
LEMMA MinIs ==
  ASSUME NEW n \in Nat, NEW S \in SUBSET (1..n), S # {}
  PROVE  Min(S) \in S /\ \A i \in S : Min(S) <= i
  <1>0. S \subseteq Nat
    OBVIOUS
  <1>1. PICK m \in S : \A y \in S : ~(<<y, m>> \in OpToRel(<, Nat))
    BY <1>0, WFMin, NatLessThanWellFounded
  <1>2. ASSUME NEW i \in S PROVE m <= i
    <2>1. ~(<<i, m>> \in OpToRel(<, Nat)) /\ i \in Nat /\ m \in Nat
      BY <1>0, <1>1
    <2>2. ~(i < m)
      BY <2>1 DEF OpToRel
    <2>3. i \in Nat /\ m \in Nat
      BY <1>0
    <2> QED
      BY <2>2, <2>3
  <1> QED
    BY <1>2 DEF Min

LEMMA MaxOfPrefix ==
  ASSUME NEW k \in Nat \ {0}
  PROVE  Max(1..k) = k /\ (1..k) \ {k} = 1..k - 1
  <1>1. k \in Nat /\ 1..k \in SUBSET (1..k) /\ 1..k # {} /\ k \in 1..k
    OBVIOUS
  <1>2. Max(1..k) \in 1..k /\ \A i \in 1..k : Max(1..k) >= i
    BY <1>1, MaxIs
  <1>3. Max(1..k) >= k
    BY <1>1, <1>2
  <1> QED
    BY <1>2, <1>3

(* The values of a fold from the left, one for each prefix.                *)
FoldSteps(op(_, _), base, seq, n, g) ==
  /\ g[0] = base
  /\ \A k \in 1..n : g[k] = op(g[k - 1], seq[k])

LEMMA FoldLeftSteps ==
  ASSUME NEW op(_, _), NEW base, NEW seq, NEW n \in Nat, DOMAIN seq = 1..n
  PROVE  \E g : FoldSteps(op, base, seq, n, g) /\ FoldLeft(op, base, seq) = g[n]
  <1> DEFINE step(v, x) == op(v, seq[x])
             c == [T \in SUBSET (1..n) |-> Max(T)]
             body(h, s) == IF s = {} THEN base ELSE LET x == Max(s) IN op(h[s \ {x}], seq[x])
  <1>1. \A T \in SUBSET (1..n) : T # {} => c[T] \in T
    BY MaxIs
  <1>2. IsFiniteSet(1..n)
    BY FS_Interval
  <1>3. \E h : Iterates(1..n, base, step, c, h)
    <2> HIDE DEF step, c
    <2> QED
      BY <1>1, <1>2, IterationExists
  <1>4. PICK h : Iterates(1..n, base, step, c, h)
    BY <1>3
  <1>5. h = [s \in SUBSET (1..n) |-> body(h, s)]
    BY <1>4 DEF Iterates
  <1>6. \E f : f = [s \in SUBSET (1..n) |-> body(f, s)] /\ FoldLeft(op, base, seq) = f[1..n]
    BY <1>5 DEF FoldLeft, MapThenFoldSet
  <1>7. PICK f : f = [s \in SUBSET (1..n) |-> body(f, s)] /\ FoldLeft(op, base, seq) = f[1..n]
    BY <1>6
  <1> DEFINE g == [k \in 0..n |-> f[1..k]]
  <1>8. g[0] = base
    <2>1. 1..0 = {} /\ {} \in SUBSET (1..n) /\ 0 \in 0..n
      OBVIOUS
    <2>2. f[{}] = base
      BY <1>7, <2>1
    <2>3. g[0] = f[1..0]
      BY <2>1
    <2> QED
      BY <2>1, <2>2, <2>3
  <1>9. ASSUME NEW k \in 1..n PROVE g[k] = op(g[k - 1], seq[k])
    <2>1. 1..k \in SUBSET (1..n) /\ 1..k # {} /\ k \in Nat \ {0} /\ k - 1 \in 0..n /\ k \in 0..n
      OBVIOUS
    <2>2. f[1..k] = op(f[(1..k) \ {Max(1..k)}], seq[Max(1..k)])
      BY <1>7, <2>1
    <2>3. f[1..k] = op(f[1..k - 1], seq[k])
      BY <2>1, <2>2, MaxOfPrefix
    <2> QED
      BY <2>1, <2>3
  <1>10. g[n] = f[1..n]
    OBVIOUS
  <1> HIDE DEF g
  <1> QED
    BY <1>7, <1>8, <1>9, <1>10 DEF FoldSteps

-----------------------------------------------------------------------------
(* The terms of a sum over a set, as a function.                           *)
Terms(op(_), S, f) == f = [x \in S |-> op(x)]

(* A sum of natural numbers over a finite set is at least each of them.    *)
LEMMA SumBounds ==
  ASSUME NEW S, IsFiniteSet(S), NEW op(_), NEW f \in [S -> Nat], Terms(op, S, f)
  PROVE  MapThenSumSet(op, S) \in Nat /\ \A x \in S : f[x] <= MapThenSumSet(op, S)
  <1> DEFINE step(v, x) == op(x) + v
             c == [T \in SUBSET S |-> CHOOSE y \in T : TRUE]
             body(h, s) == IF s = {} THEN 0 ELSE LET x == CHOOSE y \in s : TRUE IN op(x) + h[s \ {x}]
  <1>1. \A T \in SUBSET S : T # {} => c[T] \in T
    OBVIOUS
  <1>2. \E h : Iterates(S, 0, step, c, h)
    <2> HIDE DEF step, c
    <2> QED
      BY <1>1, IterationExists
  <1>3. PICK h : Iterates(S, 0, step, c, h)
    BY <1>2
  <1>4. h = [s \in SUBSET S |-> body(h, s)]
    BY <1>3 DEF Iterates
  <1>5. \E g : g = [s \in SUBSET S |-> body(g, s)] /\ MapThenSumSet(op, S) = g[S]
    BY <1>4 DEF MapThenSumSet, MapThenFoldSet
  <1>6. PICK g : g = [s \in SUBSET S |-> body(g, s)] /\ MapThenSumSet(op, S) = g[S]
    BY <1>5
  <1> DEFINE P == {T \in SUBSET S : g[T] \in Nat /\ \A x \in T : f[x] <= g[T]}
  <1>7. g[{}] = 0
    BY <1>6
  <1>8. ASSUME NEW T \in SUBSET S, T # {}, T \ {c[T]} \in P PROVE T \in P
    <2> DEFINE x == CHOOSE y \in T : TRUE
    <2>1. x \in T /\ c[T] = x /\ op(x) = f[x] /\ f[x] \in Nat
      BY <1>1, <1>8 DEF Terms
    <2>2. g[T] = f[x] + g[T \ {x}]
      BY <1>6, <1>8, <2>1
    <2> HIDE DEF x
    <2>3. g[T \ {x}] \in Nat /\ \A y \in T \ {x} : f[y] <= g[T \ {x}]
      BY <1>8, <2>1
    <2>4. g[T] \in Nat /\ f[x] <= g[T] /\ g[T \ {x}] <= g[T]
      BY <2>1, <2>2, <2>3
    <2>5. \A y \in T : f[y] \in Nat
      OBVIOUS
    <2>6. ASSUME NEW y \in T \ {x} PROVE f[y] <= g[T]
      BY <2>3, <2>4, <2>5
    <2> QED
      BY <2>4, <2>6
  <1>9. ClosedUp(S, P, c)
    <2>1. {} \in P
      BY <1>7
    <2> HIDE DEF P, c
    <2> QED
      BY <1>1, <1>8, <2>1 DEF ClosedUp
  <1>10. S \in P
    <2> HIDE DEF P, c
    <2>1. \A T \in SUBSET S : T \in P
      BY <1>9, SubsetsUp
    <2>2. S \in SUBSET S
      OBVIOUS
    <2> QED
      BY <2>1, <2>2
  <1> QED
    BY <1>6, <1>10
=============================================================================

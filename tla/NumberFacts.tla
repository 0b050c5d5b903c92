----------------------------- MODULE NumberFacts -----------------------------
(***************************************************************************)
(* What the proofs need to know about numbers and the library does not     *)
(* say: sets of numbers have a least and, when finite, a largest member,   *)
(* and a power of two is a number.                                         *)
(***************************************************************************)
EXTENDS Integers, FiniteSetsExt, FiniteSetTheorems, WellFoundedInduction, TLAPS

\* A nonempty set of natural numbers has a least one.
LEMMA LeastNumber ==
    ASSUME NEW N \in SUBSET Nat, N # {}
    PROVE  \E m \in N : \A n \in N : m <= n
  <1>1. PICK m \in N : \A n \in N : <<n, m>> \notin OpToRel(<, Nat)
    BY WFMin, NatLessThanWellFounded, Zenon
  <1>2. \A n \in N : ~ (n < m)
    BY <1>1, Zenon DEF OpToRel
  <1>3. QED BY <1>2

\* Induction over the natural numbers, for a set instead of a predicate.
LEMMA Induction ==
    ASSUME NEW N, 0 \in N, \A n \in Nat : n \in N => n + 1 \in N
    PROVE  Nat \subseteq N
  <1> SUFFICES ASSUME Nat \ N # {}
               PROVE  FALSE
    OBVIOUS
  <1>1. PICK m \in Nat \ N : \A n \in Nat \ N : m <= n
    BY LeastNumber
  <1>2. m # 0 /\ m - 1 \in Nat
    BY <1>1
  <1>3. m - 1 \in N
    BY <1>1, <1>2
  <1>4. m - 1 + 1 \in N
    BY <1>2, <1>3
  <1>5. QED BY <1>1, <1>4

\* The least member is the one with the fewest members up to it.
LEMMA LeastMember ==
    ASSUME NEW S \in SUBSET Int, IsFiniteSet(S), S # {}
    PROVE  \E m \in S : \A n \in S : m <= n
  <1> DEFINE upTo(x) == {n \in S : n <= x}
             sizes == {Cardinality(upTo(x)) : x \in S}
  <1>1. \A x \in S : IsFiniteSet(upTo(x)) /\ Cardinality(upTo(x)) \in Nat
    <2> TAKE x \in S
    <2>1. IsFiniteSet(upTo(x))
      BY FS_Subset
    <2>2. QED BY <2>1, FS_CardinalityType
  <1>2. PICK x \in S : \A y \in S : Cardinality(upTo(x)) <= Cardinality(upTo(y))
    <2> HIDE DEF upTo
    <2>1. sizes \in SUBSET Nat /\ sizes # {}
      BY <1>1
    <2> HIDE DEF sizes
    <2>2. PICK m \in sizes : \A k \in sizes : m <= k
      BY <2>1, LeastNumber
    <2>3. QED BY <2>2 DEF sizes
  <1>3. \A n \in S : x <= n
    <2> SUFFICES ASSUME NEW n \in S, n < x
                 PROVE  FALSE
      OBVIOUS
    <2>1. upTo(n) \subseteq upTo(x) /\ x \in upTo(x) \ upTo(n)
      <3>1. n \in Int /\ x \in Int
        OBVIOUS
      <3>2. x \in upTo(x) /\ x \notin upTo(n)
        BY <3>1
      <3>3. ASSUME NEW y \in upTo(n)
            PROVE  y \in upTo(x)
        <4>1. y \in Int
          OBVIOUS
        <4>2. QED BY <3>1, <3>3, <4>1
      <3>4. QED BY <3>2, <3>3
    <2> HIDE DEF upTo
    <2>2. Cardinality(upTo(n)) <= Cardinality(upTo(x)) /\ Cardinality(upTo(n)) # Cardinality(upTo(x))
      BY <1>1, <2>1, FS_Subset
    <2>3. QED BY <1>1, <1>2, <2>2
  <1>4. QED BY <1>3

LEMMA LargestMember ==
    ASSUME NEW S \in SUBSET Int, IsFiniteSet(S), S # {}
    PROVE  \E m \in S : \A n \in S : n <= m
  <1> DEFINE from(x) == {n \in S : x <= n}
             sizes == {Cardinality(from(x)) : x \in S}
  <1>1. \A x \in S : IsFiniteSet(from(x)) /\ Cardinality(from(x)) \in Nat
    <2> TAKE x \in S
    <2>1. IsFiniteSet(from(x))
      BY FS_Subset
    <2>2. QED BY <2>1, FS_CardinalityType
  <1>2. PICK x \in S : \A y \in S : Cardinality(from(x)) <= Cardinality(from(y))
    <2> HIDE DEF from
    <2>1. sizes \in SUBSET Nat /\ sizes # {}
      BY <1>1
    <2> HIDE DEF sizes
    <2>2. PICK m \in sizes : \A k \in sizes : m <= k
      BY <2>1, LeastNumber
    <2>3. QED BY <2>2 DEF sizes
  <1>3. \A n \in S : n <= x
    <2> SUFFICES ASSUME NEW n \in S, x < n
                 PROVE  FALSE
      OBVIOUS
    <2>1. from(n) \subseteq from(x) /\ x \in from(x) \ from(n)
      <3>1. n \in Int /\ x \in Int
        OBVIOUS
      <3>2. x \in from(x) /\ x \notin from(n)
        BY <3>1
      <3>3. ASSUME NEW y \in from(n)
            PROVE  y \in from(x)
        <4>1. y \in Int
          OBVIOUS
        <4>2. QED BY <3>1, <3>3, <4>1
      <3>4. QED BY <3>2, <3>3
    <2> HIDE DEF from
    <2>2. Cardinality(from(n)) <= Cardinality(from(x)) /\ Cardinality(from(n)) # Cardinality(from(x))
      BY <1>1, <2>1, FS_Subset
    <2>3. QED BY <1>1, <1>2, <2>2
  <1>4. QED BY <1>3

\* A finite set in an order in which any two members compare has a last member.
LEMMA LastInOrder ==
    ASSUME NEW S, IsFiniteSet(S), S # {}, NEW order,
           \A q, r \in S : <<q, r>> \in order \/ <<r, q>> \in order,
           \A p, q, r \in S : <<p, q>> \in order /\ <<q, r>> \in order => <<p, r>> \in order
    PROVE  \E r \in S : \A q \in S : <<q, r>> \in order
  <1> DEFINE HasLast(T) == \E r \in T : \A q \in T : <<q, r>> \in order
             N == {n \in Nat : \A T \in SUBSET S : Cardinality(T) = n + 1 => HasLast(T)}
  <1>0. \A T \in SUBSET S : IsFiniteSet(T) /\ Cardinality(T) \in Nat
    BY FS_Subset, FS_CardinalityType
  <1>1. 0 \in N
    <2> SUFFICES ASSUME NEW T \in SUBSET S, Cardinality(T) = 1
                 PROVE  HasLast(T)
      OBVIOUS
    <2>1. IsFiniteSet(T)
      BY <1>0
    <2>2. PICK x : T = {x}
      BY <2>1, FS_Singleton
    <2>3. QED BY <2>2
  <1>2. ASSUME NEW n \in Nat, n \in N
        PROVE  n + 1 \in N
    <2> SUFFICES ASSUME NEW T \in SUBSET S, Cardinality(T) = n + 2
                 PROVE  HasLast(T)
      OBVIOUS
    <2>1. PICK x : x \in T
      <3>1. n + 2 # 0
        OBVIOUS
      <3>2. QED BY <3>1, FS_EmptySet
    <2>2. Cardinality(T \ {x}) = n + 1 /\ T \ {x} \in SUBSET S
      <3>1. Cardinality(T \ {x}) = Cardinality(T) - 1
        BY <1>0, <2>1, FS_RemoveElement
      <3>2. QED BY <3>1
    <2>3. PICK r \in T \ {x} : \A q \in T \ {x} : <<q, r>> \in order
      BY <1>2, <2>2
    <2>4. x \in S /\ r \in S /\ <<x, x>> \in order
      BY <2>1
    <2>5. CASE <<x, r>> \in order
      BY <2>3, <2>5
    <2>6. CASE <<x, r>> \notin order
      <3>1. <<r, x>> \in order
        BY <2>4, <2>6
      <3>2. \A q \in T : <<q, x>> \in order
        BY <2>3, <2>4, <3>1
      <3>3. QED BY <2>1, <3>2
    <2>7. QED BY <2>5, <2>6
  <1> HIDE DEF N
  <1>3. Nat \subseteq N
    BY <1>1, <1>2, Induction
  <1>4. Cardinality(S) \in Nat /\ Cardinality(S) # 0
    BY FS_CardinalityType, FS_EmptySet
  <1>5. Cardinality(S) - 1 \in N /\ Cardinality(S) - 1 + 1 = Cardinality(S)
    BY <1>3, <1>4
  <1>6. HasLast(S)
    BY <1>5 DEF N
  <1>7. QED BY <1>6

\* The library chooses them.
LEMMA MaxIsLargest ==
    ASSUME NEW S \in SUBSET Int, IsFiniteSet(S), S # {}
    PROVE  Max(S) \in S /\ \A n \in S : n <= Max(S)
  <1>1. \E m \in S : \A n \in S : m >= n
    BY LargestMember
  <1>2. Max(S) \in S /\ \A n \in S : Max(S) >= n
    BY <1>1 DEF Max
  <1>3. QED BY <1>2

LEMMA MinIsLeast ==
    ASSUME NEW S \in SUBSET Int, IsFiniteSet(S), S # {}
    PROVE  Min(S) \in S /\ \A n \in S : Min(S) <= n
  <1>1. \E m \in S : \A n \in S : m =< n
    BY LeastMember
  <1>2. Min(S) \in S /\ \A n \in S : Min(S) =< n
    BY <1>1 DEF Min
  <1>3. QED BY <1>2

\* tlapm knows powers of two as the sizes of sets of subsets only.
LEMMA PowerOfTwo == ASSUME NEW n \in Nat PROVE 2 ^ n \in Nat
  <1>1. IsFiniteSet(1 .. n) /\ Cardinality(1 .. n) = n
    BY FS_Interval
  <1>2. IsFiniteSet(SUBSET (1 .. n)) /\ Cardinality(SUBSET (1 .. n)) = 2 ^ n
    BY <1>1, FS_SUBSET
  <1>3. QED BY <1>2, FS_CardinalityType
-----------------------------------------------------------------------------
(* A fold takes the members of a finite set away one by one, next[s] from   *)
(* what is left of it. The recursion of the library's folds has a solution. *)

CanFold(S, D, base, next, op) ==
    /\ IsFiniteSet(S) /\ base \in D
    /\ \A s \in SUBSET S : s # {} => next[s] \in s
    /\ \A d \in D, x \in S : op[<<d, x>>] \in D

IsFold(f, S, base, next, op) ==
    \A s \in SUBSET S :
       f[s] = IF s = {} THEN base ELSE op[<<f[s \ {next[s]}], next[s]>>]

LEMMA FoldExists ==
    ASSUME NEW S, NEW D, NEW base, NEW next, NEW op, CanFold(S, D, base, next, op)
    PROVE  \E f \in [SUBSET S -> D] : IsFold(f, S, base, next, op)
  <1> USE DEF CanFold
  <1> DEFINE Upto(n) == {s \in SUBSET S : Cardinality(s) <= n}
             Of(f, s) == IF s = {} THEN base ELSE op[<<f[s \ {next[s]}], next[s]>>]
             Solves(f, n) == f \in [Upto(n) -> D] /\ \A s \in Upto(n) : f[s] = Of(f, s)
             N == {n \in Nat : \E f : Solves(f, n)}
  <1>1. \A s \in SUBSET S : IsFiniteSet(s) /\ Cardinality(s) \in Nat
    BY FS_Subset, FS_CardinalityType
  <1>2. \A s \in SUBSET S : Cardinality(s) = 0 <=> s = {}
    BY <1>1, FS_EmptySet
  <1>3. 0 \in N
    <2>1. Upto(0) = {{}}
      BY <1>1, <1>2
    <2>2. Solves([s \in Upto(0) |-> base], 0)
      BY <2>1
    <2>3. QED BY <2>2
  <1>4. ASSUME NEW n \in Nat, n \in N
        PROVE  n + 1 \in N
    <2>1. PICK f : Solves(f, n)
      BY <1>4
    <2> DEFINE g == [s \in Upto(n + 1) |-> Of(f, s)]
    <2>2. \A s \in Upto(n + 1) : s # {} =>
             /\ next[s] \in S /\ s \ {next[s]} \in Upto(n) /\ s \ {next[s]} \in Upto(n + 1)
      <3> SUFFICES ASSUME NEW s \in Upto(n + 1), s # {}
                   PROVE  /\ next[s] \in S
                          /\ s \ {next[s]} \in Upto(n) /\ s \ {next[s]} \in Upto(n + 1)
        OBVIOUS
      <3>1. next[s] \in s
        OBVIOUS
      <3>2. Cardinality(s \ {next[s]}) = Cardinality(s) - 1
        BY <1>1, <3>1, FS_RemoveElement
      <3>3. s \ {next[s]} \in SUBSET S /\ Cardinality(s) \in Nat /\ Cardinality(s) <= n + 1
        BY <1>1
      <3>4. QED BY <3>1, <3>2, <3>3
    <2>3. \A s \in Upto(n) : s \in Upto(n + 1)
      BY <1>1
    <2>4. \A s \in Upto(n) : g[s] = f[s]
      BY <2>1, <2>3
    <2> HIDE DEF Upto
    <2>5. \A s \in Upto(n + 1) : g[s] = Of(g, s)
      BY <2>2, <2>4
    <2>6. \A s \in Upto(n + 1) : g[s] \in D
      BY <2>1, <2>2
    <2> HIDE DEF Of
    <2>7. Solves(g, n + 1)
      BY <2>5, <2>6
    <2> HIDE DEF Solves, g
    <2>8. \E h : Solves(h, n + 1)
      BY <2>7
    <2>9. QED BY <2>8
  <1> HIDE DEF N
  <1>5. Cardinality(S) \in N
    BY <1>1, <1>3, <1>4, Induction
  <1>6. PICK f : Solves(f, Cardinality(S))
    BY <1>5 DEF N
  <1>7. Upto(Cardinality(S)) = SUBSET S
    BY <1>1, FS_Subset
  <1>8. QED BY <1>6, <1>7 DEF IsFold

\* The fold of a sequence takes the last element first.
LEMMA LastOfPrefix ==
    ASSUME NEW n \in Nat
    PROVE  /\ \A k \in 1 .. n : Max(1 .. k) = k /\ (1 .. k) \ {k} = 1 .. k - 1
           /\ \A s \in SUBSET (1 .. n) : s # {} => Max(s) \in s
           /\ IsFiniteSet(1 .. n)
  <1>1. IsFiniteSet(1 .. n)
    BY FS_Interval
  <1>2. \A s \in SUBSET (1 .. n) : s # {} => Max(s) \in s /\ \A x \in s : x <= Max(s)
    <2> SUFFICES ASSUME NEW s \in SUBSET (1 .. n), s # {}
                 PROVE  Max(s) \in s /\ \A x \in s : x <= Max(s)
      OBVIOUS
    <2>1. IsFiniteSet(s)
      BY <1>1, FS_Subset
    <2>2. s \in SUBSET Int
      OBVIOUS
    <2>3. QED BY <2>1, <2>2, MaxIsLargest
  <1>3. ASSUME NEW k \in 1 .. n
        PROVE  Max(1 .. k) = k
    <2>1. 1 .. k \in SUBSET (1 .. n) /\ k \in 1 .. k
      OBVIOUS
    <2>2. Max(1 .. k) \in 1 .. k /\ k <= Max(1 .. k)
      BY <1>2, <2>1
    <2>3. QED BY <2>2
  <1>4. QED BY <1>1, <1>2, <1>3

IsSequenceFold(f, n, base, op) ==
    \A s \in SUBSET (1 .. n) :
       f[s] = IF s = {} THEN base ELSE op[<<f[s \ {Max(s)}], Max(s)>>]

LEMMA SequenceFoldExists ==
    ASSUME NEW n \in Nat, NEW D, NEW base \in D,
           NEW op, \A d \in D, i \in 1 .. n : op[<<d, i>>] \in D
    PROVE  \E f \in [SUBSET (1 .. n) -> D] : IsSequenceFold(f, n, base, op)
  <1> DEFINE S == 1 .. n
             next == [s \in SUBSET S |-> Max(s)]
  <1>1. CanFold(S, D, base, next, op)
    BY LastOfPrefix DEF CanFold
  <1>2. PICK f \in [SUBSET S -> D] : IsFold(f, S, base, next, op)
    <2> HIDE DEF S, next
    <2>1. QED BY <1>1, FoldExists
  <1>3. \A s \in SUBSET S : next[s] = Max(s)
    OBVIOUS
  <1> HIDE DEF next
  <1>4. IsSequenceFold(f, n, base, op)
    BY <1>2, <1>3 DEF IsFold, IsSequenceFold
  <1>5. QED BY <1>2, <1>4
==============================================================================

------------------------- MODULE Enumeration_proofs -------------------------
(* What Enumeration's operators return, for every finite set.                *)
EXTENDS Enumeration, Sequences, FiniteSetTheorems, TLAPS

(* A function on 1..n is a sequence, and of any set that has its elements.   *)
LEMMA SequenceOf ==
    ASSUME NEW T, NEW n \in Nat, NEW s \in [1..n -> T]
    PROVE  s \in Seq(T) /\ Len(s) = n /\ DOMAIN s = 1..n
  OBVIOUS

(* A sequence over a set is one over any larger set.                         *)
LEMMA SequenceOfMore ==
    ASSUME NEW S, NEW T, S \subseteq T, NEW s \in Seq(S)
    PROVE  s \in Seq(T) /\ \A i \in DOMAIN s : s[i] \in S
  OBVIOUS

(* The empty sequence is the one without places.                             *)
LEMMA EmptySequence ==
    ASSUME NEW T, NEW s \in Seq(T)
    PROVE  s = <<>> <=> DOMAIN s = {}
  OBVIOUS

(* A sequence is one over its own elements.                                  *)
LEMMA SequenceOfItsOwn ==
    ASSUME NEW T, NEW s \in Seq(T)
    PROVE  s \in Seq(Range(s))
  <1>1. Len(s) \in Nat /\ DOMAIN s = 1..Len(s)
    OBVIOUS
  <1>2. s \in [1..Len(s) -> Range(s)]
    BY <1>1 DEF Range
  <1> QED
    BY <1>1, <1>2, SequenceOf

(* A strict total order of S.                                                *)
Orders(order, S) ==
    /\ \A x \in S : <<x, x>> \notin order
    /\ \A x, y \in S : x # y => <<x, y>> \in order \/ <<y, x>> \in order
    /\ \A x, y, z \in S :
          <<x, y>> \in order /\ <<y, z>> \in order => <<x, z>> \in order

(* Who comes later has more before it.                                       *)
LEMMA LaterHasMoreBefore ==
    ASSUME NEW S, IsFiniteSet(S), NEW order, Orders(order, S),
           NEW x \in S, NEW y \in S, <<x, y>> \in order
    PROVE  Cardinality(Before(S, order, x)) < Cardinality(Before(S, order, y))
  <1> DEFINE A == Before(S, order, x)
             B == Before(S, order, y)
  <1>1. A \subseteq B /\ x \in B /\ x \notin A /\ A \subseteq S /\ B \subseteq S
    BY DEF Before, Orders
  <1> HIDE DEF A, B
  <1>2. IsFiniteSet(A) /\ IsFiniteSet(B)
    BY <1>1, FS_Subset
  <1>3. Cardinality(A) <= Cardinality(B) /\ Cardinality(A) # Cardinality(B)
    BY <1>1, <1>2, FS_Subset
  <1>4. Cardinality(A) \in Nat /\ Cardinality(B) \in Nat
    BY <1>2, FS_CardinalityType
  <1>5. Cardinality(A) < Cardinality(B)
    BY <1>3, <1>4
  <1> QED
    BY <1>5 DEF A, B

(* Every place below the size of S is the place of one element.              *)
LEMMA EveryPlaceTaken ==
    ASSUME NEW S, IsFiniteSet(S), NEW order, Orders(order, S),
           NEW n \in 0..(Cardinality(S) - 1)
    PROVE  \E x \in S : Cardinality(Before(S, order, x)) = n
  <1> DEFINE N == Cardinality(S)
             T == 0..(N - 1)
             f == [x \in S |-> Cardinality(Before(S, order, x))]
  <1>1. N \in Nat
    BY FS_CardinalityType
  <1>2. \A x \in S : Cardinality(Before(S, order, x)) \in T
    <2> TAKE x \in S
    <2>1. Before(S, order, x) \subseteq S /\ x \notin Before(S, order, x)
      BY DEF Before, Orders
    <2>2. Cardinality(Before(S, order, x)) <= N
          /\ Cardinality(Before(S, order, x)) # N
          /\ IsFiniteSet(Before(S, order, x))
      BY <2>1, FS_Subset
    <2>3. Cardinality(Before(S, order, x)) \in Nat
      BY <2>2, FS_CardinalityType
    <2> QED
      BY <1>1, <2>2, <2>3
  <1>3. f \in [S -> T]
    BY <1>2
  <1>4. \A x, y \in S : f[x] = f[y] => x = y
    <2> SUFFICES ASSUME NEW x \in S, NEW y \in S, x # y PROVE f[x] # f[y]
      OBVIOUS
    <2>1. f[x] \in Int /\ f[y] \in Int
      BY <1>1, <1>2
    <2>2. CASE <<x, y>> \in order
      BY <2>1, <2>2, LaterHasMoreBefore
    <2>3. CASE <<y, x>> \in order
      BY <2>1, <2>3, LaterHasMoreBefore
    <2> QED
      BY <2>2, <2>3 DEF Orders
  <1>5. f \in Injection(S, T)
    BY <1>3, <1>4 DEF Injection, IsInjective
  <1>6. IsFiniteSet(T) /\ Cardinality(T) = N
    BY <1>1, FS_Interval
  <1>7. f \in Surjection(S, T)
    <2> HIDE DEF f, T
    <2> QED
      BY <1>5, <1>6, FS_Injection
  <1>8. \E x \in S : f[x] = n
    BY <1>7 DEF Surjection
  <1> QED
    BY <1>8

(* InOrder lists every element of S once, each before those it precedes.     *)
THEOREM InOrderSorts ==
    ASSUME NEW S, IsFiniteSet(S), NEW order, Orders(order, S)
    PROVE  /\ InOrder(S, order) \in [1..Cardinality(S) -> S]
           /\ \A x \in S : \E i \in 1..Cardinality(S) : InOrder(S, order)[i] = x
           /\ \A i, j \in 1..Cardinality(S) :
                 i < j => <<InOrder(S, order)[i], InOrder(S, order)[j]>> \in order
  <1> DEFINE N == Cardinality(S)
             s == InOrder(S, order)
             rank(x) == Cardinality(Before(S, order, x))
  <1>1. N \in Nat
    BY FS_CardinalityType
  <1>2. \A x \in S : rank(x) \in 0..(N - 1)
    <2> TAKE x \in S
    <2>1. Before(S, order, x) \subseteq S /\ x \notin Before(S, order, x)
      BY DEF Before, Orders
    <2>2. rank(x) <= N /\ rank(x) # N /\ IsFiniteSet(Before(S, order, x))
      BY <2>1, FS_Subset
    <2>3. rank(x) \in Nat
      BY <2>2, FS_CardinalityType
    <2> QED
      BY <1>1, <2>2, <2>3
  <1>3. \A i \in 1..N : s[i] \in S /\ rank(s[i]) = i - 1
    <2> TAKE i \in 1..N
    <2>1. i - 1 \in 0..(N - 1)
      BY <1>1
    <2>2. \E x \in S : rank(x) = i - 1
      BY <2>1, EveryPlaceTaken
    <2>3. s[i] = CHOOSE x \in S : rank(x) = i - 1
      BY DEF InOrder
    <2> QED
      BY <2>2, <2>3
  <1>4. s \in [1..N -> S]
    BY <1>3 DEF InOrder
  <1>5. \A x, y \in S : <<x, y>> \in order => rank(x) < rank(y)
    BY LaterHasMoreBefore
  <1> HIDE DEF N, s, rank
  <1>6. \A x, y \in S : rank(x) = rank(y) => x = y
    <2> SUFFICES ASSUME NEW x \in S, NEW y \in S, x # y PROVE rank(x) # rank(y)
      OBVIOUS
    <2>1. <<x, y>> \in order \/ <<y, x>> \in order
      BY DEF Orders
    <2> QED
      BY <1>1, <1>2, <1>5, <2>1
  <1>7. \A x \in S : \E i \in 1..N : s[i] = x
    <2> TAKE x \in S
    <2>1. rank(x) + 1 \in 1..N
      BY <1>1, <1>2
    <2>2. rank(s[rank(x) + 1]) = rank(x)
      BY <1>1, <1>2, <1>3, <2>1
    <2> QED
      BY <1>3, <1>6, <2>1, <2>2
  <1>8. \A i, j \in 1..N : i < j => <<s[i], s[j]>> \in order
    <2> SUFFICES ASSUME NEW i \in 1..N, NEW j \in 1..N, i < j
                 PROVE  <<s[i], s[j]>> \in order
      OBVIOUS
    <2>1. s[i] \in S /\ s[j] \in S /\ rank(s[i]) = i - 1 /\ rank(s[j]) = j - 1
      BY <1>3
    <2>2. s[i] # s[j] /\ ~ (rank(s[j]) < rank(s[i]))
      BY <1>1, <2>1
    <2>3. <<s[i], s[j]>> \in order \/ <<s[j], s[i]>> \in order
      BY <2>1, <2>2 DEF Orders
    <2> QED
      BY <1>5, <2>1, <2>2, <2>3
  <1> QED
    BY <1>4, <1>7, <1>8 DEF N, s

(* A finite set has a last element, and a first.                             *)
LEMMA LastAndFirst ==
    ASSUME NEW S, IsFiniteSet(S), S # {}, NEW order, Orders(order, S)
    PROVE  /\ \E x \in S : \A y \in S \ {x} : <<y, x>> \in order
           /\ \E x \in S : \A y \in S \ {x} : <<x, y>> \in order
  <1> DEFINE n == Cardinality(S)
             s == InOrder(S, order)
  <1>1. /\ s \in [1..n -> S]
        /\ \A x \in S : \E i \in 1..n : s[i] = x
        /\ \A i, j \in 1..n : i < j => <<s[i], s[j]>> \in order
    BY InOrderSorts
  <1>2. n \in Nat /\ n # 0
    BY FS_CardinalityType, FS_EmptySet
  <1> HIDE DEF n, s
  <1>3. 1 \in 1..n /\ n \in 1..n
    BY <1>2
  <1>4. \A y \in S \ {s[n]} : <<y, s[n]>> \in order
    <2> TAKE y \in S \ {s[n]}
    <2>1. PICK i \in 1..n : s[i] = y
      BY <1>1
    <2>2. i < n
      BY <1>2, <2>1
    <2> QED
      BY <1>1, <1>3, <2>1, <2>2
  <1>5. \A y \in S \ {s[1]} : <<s[1], y>> \in order
    <2> TAKE y \in S \ {s[1]}
    <2>1. PICK i \in 1..n : s[i] = y
      BY <1>1
    <2>2. 1 < i
      BY <1>2, <2>1
    <2> QED
      BY <1>1, <1>3, <2>1, <2>2
  <1> QED
    BY <1>1, <1>3, <1>4, <1>5

(* A pair is in Ascending when it ascends.                                   *)
LEMMA AscendingPairs ==
    ASSUME NEW D
    PROVE  \A x, y \in D : <<x, y>> \in Ascending(D) <=> x < y
  <1> TAKE x, y \in D
  <1>1. <<x, y>> \in D \X D
    OBVIOUS
  <1>2. <<x, y>>[1] = x /\ <<x, y>>[2] = y
    OBVIOUS
  <1> QED
    BY <1>1, <1>2, Zenon DEF Ascending

(* What is kept of s are its elements in S, at the n places `at' of s, which *)
(* ascend.                                                                   *)
KeptAt(s, S, n, at) ==
    /\ n \in Nat /\ at \in [1..n -> DOMAIN s]
    /\ Kept(s, S) = [i \in 1..n |-> s[at[i]]]
    /\ \A i \in 1..n : s[at[i]] \in S
    /\ \A j \in DOMAIN s : s[j] \in S => \E i \in 1..n : at[i] = j
    /\ \A i, j \in 1..n : i < j => at[i] < at[j]

(* Filtering a sequence keeps its elements in S in the order they had.       *)
THEOREM KeptInPlace ==
    ASSUME NEW T, NEW s \in Seq(T), NEW S
    PROVE  \E n, at : KeptAt(s, S, n, at)
  <1> DEFINE D == {i \in DOMAIN s : s[i] \in S}
             ascending == Ascending(DOMAIN s)
             at == InOrder(D, ascending)
             n == Cardinality(D)
  <1>1. DOMAIN s = 1..Len(s) /\ Len(s) \in Nat
    OBVIOUS
  <1>2. IsFiniteSet(D)
    <2>1. IsFiniteSet(1..Len(s)) /\ D \subseteq 1..Len(s)
      BY <1>1, FS_Interval
    <2> QED
      BY <2>1, FS_Subset
  <1>3. Orders(ascending, D)
    <2>1. D \subseteq DOMAIN s /\ DOMAIN s \subseteq Int
      BY <1>1
    <2>2. \A x, y \in DOMAIN s : <<x, y>> \in ascending <=> x < y
      BY AscendingPairs
    <2> HIDE DEF D, ascending
    <2> QED
      BY <2>1, <2>2 DEF Orders
  <1>4. /\ at \in [1..n -> D]
        /\ \A x \in D : \E i \in 1..n : at[i] = x
        /\ \A i, j \in 1..n : i < j => <<at[i], at[j]>> \in ascending
    <2> HIDE DEF D, ascending
    <2> QED
      BY <1>2, <1>3, InOrderSorts
  <1>5. n \in Nat
    BY <1>2, FS_CardinalityType
  <1>6. Kept(s, S) = [i \in 1..n |-> s[at[i]]]
    <2>1. Kept(s, S) = [i \in DOMAIN at |-> s[at[i]]]
      BY DEF Kept
    <2>2. DOMAIN at = 1..n
      BY <1>4
    <2> QED
      BY <2>1, <2>2
  <1> HIDE DEF at, n
  <1>7. at \in [1..n -> DOMAIN s] /\ \A i \in 1..n : s[at[i]] \in S
    BY <1>4
  <1>8. \A i, j \in 1..n : i < j => at[i] < at[j]
    BY <1>4, <1>7, AscendingPairs
  <1>9. \A j \in DOMAIN s : s[j] \in S => \E i \in 1..n : at[i] = j
    BY <1>4
  <1> HIDE DEF D, ascending
  <1>10. KeptAt(s, S, n, at)
    BY <1>5, <1>6, <1>7, <1>8, <1>9 DEF KeptAt
  <1> QED
    BY <1>10

(* So it has exactly the elements of s in S, and repeats none that s does    *)
(* not repeat.                                                               *)
THEOREM KeptKeeps ==
    ASSUME NEW T, NEW s \in Seq(T), NEW S
    PROVE  /\ Kept(s, S) \in Seq(T)
           /\ Range(Kept(s, S)) = Range(s) \cap S
           /\ IsInjective(s) => IsInjective(Kept(s, S))
  <1>0. PICK n, at : KeptAt(s, S, n, at)
    BY KeptInPlace
  <1>1. /\ n \in Nat /\ at \in [1..n -> DOMAIN s]
        /\ Kept(s, S) = [i \in 1..n |-> s[at[i]]]
        /\ \A i \in 1..n : s[at[i]] \in S
        /\ \A j \in DOMAIN s : s[j] \in S => \E i \in 1..n : at[i] = j
        /\ \A i, j \in 1..n : i < j => at[i] < at[j]
    BY <1>0 DEF KeptAt
  <1>2. DOMAIN s \subseteq Int /\ \A j \in DOMAIN s : s[j] \in T
    OBVIOUS
  <1>3. Kept(s, S) \in Seq(T)
    BY <1>1, <1>2
  <1>4. Range(Kept(s, S)) = Range(s) \cap S
    <2>1. \A i \in 1..n : Kept(s, S)[i] = s[at[i]] /\ at[i] \in DOMAIN s
      BY <1>1
    <2>2. DOMAIN Kept(s, S) = 1..n
      BY <1>1
    <2>3. Range(Kept(s, S)) \subseteq Range(s) \cap S
      BY <1>1, <2>1, <2>2 DEF Range
    <2>4. \A j \in DOMAIN s : s[j] \in S => s[j] \in Range(Kept(s, S))
      BY <1>1, <2>1, <2>2 DEF Range
    <2> QED
      BY <2>3, <2>4 DEF Range
  <1>5. IsInjective(s) => IsInjective(Kept(s, S))
    <2> SUFFICES ASSUME IsInjective(s), NEW i \in 1..n, NEW j \in 1..n,
                        s[at[i]] = s[at[j]]
                 PROVE  i = j
      BY <1>1 DEF IsInjective
    <2>1. at[i] \in DOMAIN s /\ at[j] \in DOMAIN s
      BY <1>1
    <2>2. at[i] = at[j] /\ at[i] \in Int
      BY <1>2, <2>1 DEF IsInjective
    <2>3. ~ (i < j) /\ ~ (j < i)
      BY <1>1, <2>2
    <2>4. i \in Int /\ j \in Int
      BY <1>1
    <2> QED
      BY <2>3, <2>4
  <1> QED
    BY <1>3, <1>4, <1>5

(* One element of S, if it has one.                                          *)
LEMMA AtMostOneOf ==
    ASSUME NEW S
    PROVE  /\ AtMostOne(S) \in Seq(S)
           /\ Len(AtMostOne(S)) <= 1
           /\ Range(AtMostOne(S)) \subseteq S
           /\ S # {} => Range(AtMostOne(S)) # {}
  <1>1. CASE S = {}
    BY <1>1 DEF AtMostOne, Range
  <1>2. CASE S # {}
    <2>1. PICK x \in S : AtMostOne(S) = <<x>>
      BY <1>2 DEF AtMostOne
    <2> QED
      BY <2>1 DEF Range
  <1> QED
    BY <1>1, <1>2
=============================================================================

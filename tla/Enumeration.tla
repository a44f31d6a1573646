---------------------------- MODULE Enumeration ----------------------------
(* Sorting and filtering as the queue's rules do them, by what they return:  *)
(* the sort of a set under a strict order, and the elements of a sequence    *)
(* that belong to a set.  SetToSortSeq and SelectSeq say the same, in a form *)
(* no proof can be made about.                                               *)
EXTENDS Integers, FiniteSets

(* The elements of S that come before x; an order is a set of pairs.         *)
Before(S, order, x) == {y \in S : <<y, x>> \in order}

(* The elements of S from the first to the last.                             *)
InOrder(S, order) ==
    [i \in 1..Cardinality(S) |->
        CHOOSE x \in S : Cardinality(Before(S, order, x)) = i - 1]

(* Numbers from the smallest to the largest.                                 *)
Ascending(D) == {p \in D \X D : p[1] < p[2]}

(* The elements of the sequence s that are in S, in the order of s.          *)
Kept(s, S) ==
    LET places == InOrder({i \in DOMAIN s : s[i] \in S}, Ascending(DOMAIN s))
    IN  [n \in DOMAIN places |-> s[places[n]]]

(* At most one element of S, as a sequence.                                  *)
AtMostOne(S) == IF S = {} THEN <<>> ELSE <<CHOOSE x \in S : TRUE>>
=============================================================================

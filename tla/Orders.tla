-------------------------------- MODULE Orders --------------------------------
(***************************************************************************)
(* Lists made from finite sets of numbers and from other lists, and the    *)
(* places in them.                                                         *)
(***************************************************************************)
EXTENDS Naturals, Sequences, FiniteSets

(* The elements of a finite set of numbers in ascending order.             *)
Ascending(S) ==
  [i \in 1..Cardinality(S) |-> CHOOSE r \in S : Cardinality({q \in S : q < r}) = i - 1]

(* What m maps them to, in that order.                                     *)
InOrder(S, m) == [i \in 1..Cardinality(S) |-> m[Ascending(S)[i]]]

(* The elements of list s that are in S, in the order of the list.         *)
Among(s, S) == InOrder({i \in 1..Len(s) : s[i] \in S}, s)

(* How many different elements of a list come before the first x.          *)
Rank(x, list) ==
  Cardinality({list[j] : j \in {i \in DOMAIN list : \A h \in 1..i : list[h] # x}})

(* The least of a set of numbers, or none.                                 *)
Least(S, none) == IF S = {} THEN none ELSE CHOOSE i \in S : \A j \in S : i <= j
=============================================================================

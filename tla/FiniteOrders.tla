------------------------------ MODULE FiniteOrders ------------------------------
(***************************************************************************)
(* A finite set in a given order: what sorted() makes of one.              *)
(***************************************************************************)
EXTENDS Naturals, FiniteSets

\* A finite set in the order in which before[x] are the elements before x.
InOrder(before) ==
    LET place == [x \in DOMAIN before |-> Cardinality(before[x])]
    IN  [n \in 1..Cardinality(DOMAIN before) |->
            CHOOSE x \in DOMAIN before : place[x] = n - 1]

\* The elements of a sequence that are in a set, in their order.
Among(s, set) ==
    LET places == {i \in DOMAIN s : s[i] \in set}
        order == InOrder([i \in places |-> {j \in places : j < i}])
    IN  [n \in DOMAIN order |-> s[order[n]]]
================================================================================

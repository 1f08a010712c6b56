------------------------------- MODULE Ordering ------------------------------
(***************************************************************************)
(* Lists as the code makes them from lists: filter() and sort(), which     *)
(* keep the order they find where they have no other, and the spread of    *)
(* one object over another.  They are told by the places of the elements:  *)
(* the element at place n of a list in order is the one that n - 1 others  *)
(* come before, which can be reasoned about without an induction.          *)
(***************************************************************************)
EXTENDS Integers, Sequences, FiniteSets

\* The domain of `before` in order, where before[x] are those that come before x.
InOrder(before) ==
    LET ranks == {<<Cardinality(before[x]), x>> : x \in DOMAIN before}
    IN  [n \in 1..Cardinality(DOMAIN before) |-> (CHOOSE r \in ranks : r[1] = n - 1)[2]]

\* Numbers from the smallest.
Ascending(set) == InOrder([i \in set |-> {k \in set : k < i}])

\* Array.filter(): the elements of s at the given places, in their order.
Filtered(s, at) ==
    LET place == Ascending(at) IN [n \in DOMAIN place |-> s[place[n]]]

\* Array.sort() by a number, which is stable.
Sorted(s, key) ==
    LET place == InOrder([i \in DOMAIN s |-> {k \in DOMAIN s : key[k] < key[i] \/ (key[k] = key[i] /\ k < i)}])
    IN  [n \in DOMAIN place |-> s[place[n]]]

\* {...g, ...f}
Over(f, g) == [k \in DOMAIN f \cup DOMAIN g |-> IF k \in DOMAIN f THEN f[k] ELSE g[k]]
==============================================================================

------------------------------- MODULE MCBot -------------------------------
(* One chat, one goroutine per node; copies of a message and other messages. *)
EXTENDS Bot, TLC
CONSTANTS c1, i1, i2, i3, m1, m2

TwoItems   == {i1, i2}
ThreeItems == {i1, i2, i3}
InOneChat  == [i \in Items |-> c1]
OneEach    == [n \in Nodes |-> 1]

Distinct     == (i1 :> m1) @@ (i2 :> m2)
Copies       == (i1 :> m1) @@ (i2 :> m1)
CopiesAndOne == (i1 :> m1) @@ (i2 :> m1) @@ (i3 :> m2)

(* the copies of m1 are alike *)
Alike == Permutations({i1, i2})
=============================================================================

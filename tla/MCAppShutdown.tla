--------------------------- MODULE MCAppShutdown ---------------------------
(* One chat, one goroutine per node, two messages. *)
EXTENDS AppShutdown, TLC
CONSTANTS c1, i1, i2, m1, m2

TwoItems  == {i1, i2}
InOneChat == [i \in Items |-> c1]
OneEach   == [n \in Nodes |-> 1]
Distinct  == (i1 :> m1) @@ (i2 :> m2)
=============================================================================

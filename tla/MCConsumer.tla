----------------------------- MODULE MCConsumer -----------------------------
(* Two goroutines, two partitions, three items: two goroutines can race for
   the key with two items while the third item keeps the other busy. *)
EXTENDS Consumer, TLC
CONSTANTS k1, k2, i1, i2, i3

MCKeys  == {k1, k2}
MCItems == {i1, i2, i3}
MCKeyOf == (i1 :> k1) @@ (i2 :> k1) @@ (i3 :> k2)
(* 0 and -1 are normalised; a batch of two with one retry *)
MCConfigs == {[batch |-> 0, retries |-> -1], [batch |-> 2, retries |-> 1]}
OneConfig == {[batch |-> 1, retries |-> 0]}
=============================================================================

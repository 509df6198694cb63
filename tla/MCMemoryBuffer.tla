--------------------------- MODULE MCMemoryBuffer ---------------------------
(* A small buffer: two partitions, five items (three of them in one
   partition), one blocking reader.  Two places per partition and three in
   all: a Put can be held up by its partition alone (k1 full, k2 empty), by
   the global limit alone (two in k1, one in k2, one more for k2), or by both. *)
EXTENDS MemoryBuffer, TLC
CONSTANTS k1, k2, i1, i2, i3, i4, i5, t1

MCKeys   == {k1, k2}
MCItems  == {i1, i2, i3, i4, i5}
MCKeyOf  == (i1 :> k1) @@ (i2 :> k1) @@ (i3 :> k1) @@ (i4 :> k2) @@ (i5 :> k2)
MCTakers == {t1}
=============================================================================

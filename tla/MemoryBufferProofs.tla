------------------------- MODULE MemoryBufferProofs -------------------------
(* Theorems about MemoryBuffer, for every set of keys, items and takers and
   every configured capacity. *)
EXTENDS MemoryBuffer, FiniteSetTheorems, TLAPS

(* A capacity is positive, whatever was configured. *)
LEMMA CapacityPositive == PerKey \in Nat \ {0} /\ Global \in Nat \ {0}
  BY CapacityAssumption DEF PerKey, Global

(* A removal asks for between one item and all there are. *)
LEMMA AtMostBounds ==
  ASSUME BufferTypeOK, NEW k \in Keys, queues[k] # <<>>, NEW max \in Int
  PROVE  AtMost(max, k) \in 1..Len(queues[k])
  BY DEF AtMost, BufferTypeOK

(* The tail that a removal leaves. *)
LEMMA TailFacts ==
  ASSUME NEW S, NEW s \in Seq(S), NEW n \in 0..Len(s)
  PROVE  /\ SubSeq(s, n + 1, Len(s)) \in Seq(S)
         /\ Len(SubSeq(s, n + 1, Len(s))) = Len(s) - n
  OBVIOUS

-----------------------------------------------------------------------------
(* Slots is finite and the counter is its size; this strengthening of
   CountedAndBounded is inductive together with BufferTypeOK. *)
CountInv ==
  /\ IsFiniteSet(Slots)
  /\ CountedAndBounded

LEMMA InitInv == BufferInit => BufferTypeOK /\ CountInv
<1> SUFFICES ASSUME BufferInit PROVE BufferTypeOK /\ CountInv
  OBVIOUS
<1>1. BufferTypeOK
  BY KeyOfAssumption DEF BufferInit, BufferTypeOK, PutStates, TakeStates
<1>2. Slots = {}
  BY CapacityPositive DEF BufferInit, Slots
<1>3. IsFiniteSet(Slots) /\ Cardinality(Slots) = 0
  BY <1>2, FS_EmptySet
<1> QED
  BY <1>1, <1>3, CapacityPositive DEF CountInv, CountedAndBounded, BufferInit

(* Storing an item adds one slot. *)
LEMMA StoreSlots ==
  ASSUME BufferTypeOK, CountInv, NEW i \in Items, PutStore(i)
  PROVE  BufferTypeOK' /\ CountInv'
<1> DEFINE k == KeyOf[i]
           new == <<k, Len(queues[k]) + 1>>
<1>1. k \in Keys /\ queues[k] \in Seq(Items) /\ Len(queues[k]) \in Nat
  BY KeyOfAssumption DEF BufferTypeOK
<1>2. queues' = [queues EXCEPT ![k] = Append(queues[k], i)] /\ total' = total + 1
  BY DEF PutStore
<1>3. Append(queues[k], i) \in Seq(Items) /\ Len(Append(queues[k], i)) = Len(queues[k]) + 1
  BY <1>1
<1>4. BufferTypeOK'
  <2>1. queues' \in [Keys -> Seq(Items)] /\ total' \in Nat
    BY <1>1, <1>2, <1>3 DEF BufferTypeOK
  <2>2. call' \in [Items -> PutStates] /\ shut' \in {"open", "marked", "done"}
    BY DEF PutStore, BufferTypeOK, PutStates
  <2>3. taker' \in [Takers -> [at : TakeStates, key : Keys]]
    BY DEF PutStore, BufferTypeOK, WakeTakers, TakeStates
  <2> QED
    BY <2>1, <2>2, <2>3 DEF BufferTypeOK
<1>5. Len(queues[k]) < PerKey /\ total < Global
  BY DEF PutStore, HasRoom
<1>6. Slots' = Slots \cup {new} /\ new \notin Slots
  <2>1. \A j \in Keys : Len(queues'[j]) = IF j = k THEN Len(queues[j]) + 1 ELSE Len(queues[j])
    BY <1>1, <1>2, <1>3 DEF BufferTypeOK
  <2>2. \A j \in Keys : Len(queues[j]) \in Nat
    BY DEF BufferTypeOK
  <2>3. ASSUME NEW j \in Keys, NEW m \in 1..PerKey
        PROVE  m <= Len(queues'[j]) <=> m <= Len(queues[j]) \/ <<j, m>> = new
    BY <1>1, <2>1, <2>2, CapacityPositive
  <2>4. Len(queues[k]) + 1 \in 1..PerKey /\ ~ (Len(queues[k]) + 1 <= Len(queues[k]))
    BY <1>1, <1>5, CapacityPositive
  <2>5. new \in Keys \X (1..PerKey) /\ new \notin Slots
    BY <1>1, <2>4 DEF Slots
  <2>6. ASSUME NEW s \in Keys \X (1..PerKey) PROVE s \in Slots' <=> s \in Slots \cup {new}
    <3>1. PICK j \in Keys, m \in 1..PerKey : s = <<j, m>>
      OBVIOUS
    <3> QED
      BY <3>1, <2>3 DEF Slots
  <2> QED
    BY <2>5, <2>6 DEF Slots
<1>7. IsFiniteSet(Slots') /\ Cardinality(Slots') = Cardinality(Slots) + 1
  BY <1>6, FS_AddElement DEF CountInv
<1>8. CountedAndBounded'
  BY <1>1, <1>2, <1>3, <1>5, <1>7, CapacityPositive
     DEF CountInv, CountedAndBounded, BufferTypeOK
<1> QED
  BY <1>4, <1>7, <1>8 DEF CountInv

(* Removing n items of one partition removes its n last slots. *)
LEMMA DequeueSlots ==
  ASSUME BufferTypeOK, CountInv, NEW k \in Keys, NEW n \in 1..Len(queues[k]), Dequeue(k, n)
  PROVE  /\ queues' \in [Keys -> Seq(Items)]
         /\ total' \in Nat
         /\ call' \in [Items -> PutStates]
         /\ CountInv'
<1> DEFINE gone == (Len(queues[k]) - n + 1)..Len(queues[k])
           goneSlots == {<<k, m>> : m \in gone}
<1>1. queues[k] \in Seq(Items) /\ Len(queues[k]) \in Nat /\ n \in Nat
  BY DEF BufferTypeOK
<1>2. /\ SubSeq(queues[k], n + 1, Len(queues[k])) \in Seq(Items)
      /\ Len(SubSeq(queues[k], n + 1, Len(queues[k]))) = Len(queues[k]) - n
  BY <1>1, TailFacts
<1>3. queues' = [queues EXCEPT ![k] = SubSeq(queues[k], n + 1, Len(queues[k]))]
  BY DEF Dequeue
<1>4. queues' \in [Keys -> Seq(Items)]
  BY <1>2, <1>3 DEF BufferTypeOK
<1>5. \A j \in Keys : Len(queues'[j]) = IF j = k THEN Len(queues[j]) - n ELSE Len(queues[j])
  BY <1>2, <1>3 DEF BufferTypeOK
<1>6. \A j \in Keys : Len(queues[j]) \in Nat /\ Len(queues[j]) <= PerKey
  BY DEF BufferTypeOK, CountInv, CountedAndBounded
<1>7. Slots' = Slots \ goneSlots /\ goneSlots \subseteq Slots
  BY <1>1, <1>5, <1>6, CapacityPositive DEF Slots
<1>8. IsFiniteSet(goneSlots) /\ Cardinality(goneSlots) = n
  <2>1. IsFiniteSet(gone) /\ Cardinality(gone) = n
    <3> DEFINE lo == Len(queues[k]) - n + 1
               hi == Len(queues[k])
    <3>1. lo \in Int /\ hi \in Int /\ ~ (lo > hi) /\ hi - lo + 1 = n
      BY <1>1
    <3> HIDE DEF lo, hi
    <3>2. IsFiniteSet(lo..hi) /\ Cardinality(lo..hi) = n
      BY <3>1, FS_Interval
    <3> QED
      BY <3>2 DEF lo, hi
  <2>2. ExistsBijection(gone, goneSlots)
    <3> DEFINE f == [m \in gone |-> <<k, m>>]
    <3>1. f \in Bijection(gone, goneSlots)
      BY DEF Bijection, Injection, Surjection, IsInjective
    <3> QED
      BY <3>1 DEF ExistsBijection
  <2> QED
    BY <2>1, <2>2, FS_Bijection
<1>9. IsFiniteSet(Slots') /\ Cardinality(Slots') = Cardinality(Slots) - n
  <2>1. IsFiniteSet(Slots)
    BY DEF CountInv
  <2>2. Cardinality(Slots \ goneSlots) = Cardinality(Slots) - Cardinality(Slots \cap goneSlots)
    BY <2>1, FS_Difference
  <2>3. Slots \cap goneSlots = goneSlots
    BY <1>7
  <2> QED
    BY <1>7, <1>8, <2>1, <2>2, <2>3, FS_Difference
<1>10. Cardinality(Slots') \in Nat
  BY <1>9, FS_CardinalityType
<1>11. total' = total - n /\ total' \in Nat /\ total' <= Global
  BY <1>9, <1>10, CapacityPositive DEF Dequeue, CountInv, CountedAndBounded, BufferTypeOK
<1>12. CountedAndBounded'
  BY <1>1, <1>5, <1>6, <1>9, <1>11, CapacityPositive DEF CountInv, CountedAndBounded
<1>13. call' \in [Items -> PutStates]
  BY DEF Dequeue, WakePutters, BufferTypeOK, PutStates
<1> QED
  BY <1>4, <1>9, <1>11, <1>12, <1>13 DEF CountInv

LEMMA StepInv == BufferTypeOK /\ CountInv /\ [BufferNext]_bufferVars => BufferTypeOK' /\ CountInv'
<1> SUFFICES ASSUME BufferTypeOK, CountInv, [BufferNext]_bufferVars
             PROVE  BufferTypeOK' /\ CountInv'
  OBVIOUS
<1> USE DEF PutStates, TakeStates
<1>1. ASSUME UNCHANGED <<queues, total>>, BufferTypeOK' PROVE BufferTypeOK' /\ CountInv'
  BY <1>1 DEF CountInv, CountedAndBounded, Slots
<1>2. ASSUME NEW i \in Items, PutStep(i) PROVE BufferTypeOK' /\ CountInv'
  <2>1. CASE PutStore(i)
    BY <2>1, StoreSlots
  <2>2. CASE BeginPut(i)
    BY <2>2, <1>1 DEF BeginPut, BufferTypeOK
  <2>3. CASE PutPark(i)
    BY <2>3, <1>1 DEF PutPark, BufferTypeOK
  <2>4. CASE PutClosed(i)
    BY <2>4, <1>1 DEF PutClosed, BufferTypeOK
  <2>5. CASE PutCancel(i)
    BY <2>5, <1>1 DEF PutCancel, BufferTypeOK
  <2>6. CASE PutReturn(i)
    BY <2>6, <1>1 DEF PutReturn, BufferTypeOK
  <2> QED
    BY <1>2, <2>1, <2>2, <2>3, <2>4, <2>5, <2>6 DEF PutStep
<1>3. ASSUME NEW t \in Takers, TakeStep(t) PROVE BufferTypeOK' /\ CountInv'
  <2>1. ASSUME NEW max \in Maxes, TakeItems(t, max) PROVE BufferTypeOK' /\ CountInv'
    <3>1. taker[t].key \in Keys /\ max \in Int
      BY MaxesAssumption DEF BufferTypeOK
    <3>2. AtMost(max, taker[t].key) \in 1..Len(queues[taker[t].key])
      BY <2>1, <3>1, AtMostBounds DEF TakeItems
    <3>3. /\ queues' \in [Keys -> Seq(Items)] /\ total' \in Nat
          /\ call' \in [Items -> PutStates] /\ CountInv'
      BY <2>1, <3>1, <3>2, DequeueSlots DEF TakeItems
    <3> QED
      BY <2>1, <3>3 DEF TakeItems, BufferTypeOK
  <2>2. ASSUME NEW k \in Keys, BeginTake(t, k) PROVE BufferTypeOK' /\ CountInv'
    BY <2>2, <1>1 DEF BeginTake, BufferTypeOK
  <2>3. CASE TakeClosed(t)
    BY <2>3, <1>1 DEF TakeClosed, BufferTypeOK
  <2>4. CASE TakePark(t)
    BY <2>4, <1>1 DEF TakePark, BufferTypeOK
  <2>5. CASE TakeWakeOnDone(t)
    BY <2>5, <1>1 DEF TakeWakeOnDone, BufferTypeOK
  <2>6. CASE TakeCancel(t)
    BY <2>6, <1>1 DEF TakeCancel, BufferTypeOK
  <2> QED
    BY <1>3, <2>1, <2>2, <2>3, <2>4, <2>5, <2>6 DEF TakeStep
<1>4. ASSUME NEW k \in Keys, NEW max \in Maxes, TakeReady(k, max)
      PROVE  BufferTypeOK' /\ CountInv'
  <2>1. AtMost(max, k) \in 1..Len(queues[k])
    BY <1>4, AtMostBounds, MaxesAssumption DEF TakeReady
  <2>2. /\ queues' \in [Keys -> Seq(Items)] /\ total' \in Nat
        /\ call' \in [Items -> PutStates] /\ CountInv'
    BY <1>4, <2>1, DequeueSlots DEF TakeReady
  <2> QED
    BY <1>4, <2>2 DEF TakeReady, BufferTypeOK
<1>5. CASE CloseMark
  BY <1>5, <1>1 DEF CloseMark, BufferTypeOK
<1>6. CASE CloseDone
  BY <1>6, <1>1 DEF CloseDone, BufferTypeOK
<1>7. CASE UNCHANGED bufferVars
  BY <1>7, <1>1 DEF bufferVars, BufferTypeOK
<1> QED
  BY <1>2, <1>3, <1>4, <1>5, <1>6, <1>7 DEF BufferNext

(* The types hold in every reachable state. *)
THEOREM BufferTyping == BufferSpec => []BufferTypeOK
<1>1. BufferSpec => [](BufferTypeOK /\ CountInv)
  BY InitInv, StepInv, PTL DEF BufferSpec
<1> QED
  BY <1>1, PTL

(* The counter is exact and both capacities are respected, for any number of
   racing Puts and removals. *)
THEOREM BufferCounted == BufferSpec => []CountedAndBounded
<1>1. BufferSpec => [](BufferTypeOK /\ CountInv)
  BY InitInv, StepInv, PTL DEF BufferSpec
<1>2. CountInv => CountedAndBounded
  BY DEF CountInv
<1> QED
  BY <1>1, <1>2, PTL

-----------------------------------------------------------------------------
(* After a removal nobody waits for room, and a partition that was empty still
   is. *)
LEMMA DequeueWakes ==
  ASSUME BufferTypeOK, NEW k \in Keys, NEW n \in Int, queues[k] # <<>>, Dequeue(k, n)
  PROVE  /\ \A i \in Items : call'[i] # "parked"
         /\ \A j \in Keys : queues[j] = <<>> => queues'[j] = <<>>
<1>1. \A i \in Items : call'[i] # "parked"
  BY DEF Dequeue, WakePutters
<1>2. \A j \in Keys : queues[j] = <<>> => queues'[j] = <<>>
  BY DEF Dequeue, BufferTypeOK
<1> QED
  BY <1>1, <1>2

LEMMA StrandedStep ==
  BufferTypeOK /\ NoStrandedWaiter /\ [BufferNext]_bufferVars => NoStrandedWaiter'
<1> SUFFICES ASSUME BufferTypeOK, NoStrandedWaiter, [BufferNext]_bufferVars
             PROVE  NoStrandedWaiter'
  OBVIOUS
<1> DEFINE PuttersFine == \A i \in Items : call[i] = "parked" => ~ HasRoom(KeyOf[i])
           TakersFine == \A t \in Takers : taker[t].at = "parked"
                                          => queues[taker[t].key] = <<>>
<1>1. PuttersFine /\ TakersFine /\ (NoStrandedWaiter' <=> PuttersFine' /\ TakersFine')
  BY DEF NoStrandedWaiter
<1> HIDE DEF PuttersFine, TakersFine
<1>2. ASSUME UNCHANGED <<queues, total>>,
             \A i \in Items : call'[i] = "parked" => call[i] = "parked" \/ ~ HasRoom(KeyOf[i])
      PROVE  PuttersFine'
  BY <1>1, <1>2 DEF PuttersFine, HasRoom
<1>3. ASSUME UNCHANGED queues,
             \A t \in Takers : taker'[t].at = "parked" =>
                 \/ taker'[t] = taker[t]
                 \/ queues[taker'[t].key] = <<>>
      PROVE  TakersFine'
  BY <1>1, <1>3 DEF TakersFine
<1>4. ASSUME NEW i \in Items, PutStep(i) PROVE PuttersFine' /\ TakersFine'
  <2>1. CASE PutStore(i)
    <3>1. KeyOf[i] \in Keys /\ queues[KeyOf[i]] \in Seq(Items)
      BY KeyOfAssumption DEF BufferTypeOK
    <3>2. TakersFine'
      BY <2>1 DEF PutStore, TakersFine, WakeTakers, BufferTypeOK, TakeStates
    <3>3. \A j \in Keys : Len(queues'[j]) >= Len(queues[j]) /\ Len(queues[j]) \in Nat
      BY <2>1, <3>1 DEF PutStore, BufferTypeOK
    <3>4. ASSUME NEW j \in Items, call'[j] = "parked" PROVE ~ HasRoom(KeyOf[j])'
      <4>1. call[j] = "parked" /\ KeyOf[j] \in Keys
        BY <2>1, <3>4, KeyOfAssumption DEF PutStore, BufferTypeOK
      <4>2. ~ HasRoom(KeyOf[j])
        BY <1>1, <4>1 DEF PuttersFine
      <4> QED
        BY <2>1, <3>3, <4>1, <4>2, CapacityAssumption
           DEF HasRoom, PutStore, BufferTypeOK, PerKey, Global
    <3> QED
      BY <3>2, <3>4 DEF PuttersFine
  <2>2. CASE PutPark(i)
    BY <2>2, <1>2, <1>3 DEF PutPark, BufferTypeOK
  <2>3. CASE BeginPut(i) \/ PutClosed(i) \/ PutCancel(i) \/ PutReturn(i)
    BY <2>3, <1>2, <1>3 DEF BeginPut, PutClosed, PutCancel, PutReturn, BufferTypeOK
  <2> QED
    BY <1>4, <2>1, <2>2, <2>3 DEF PutStep
<1>5. ASSUME NEW t \in Takers, TakeStep(t) PROVE PuttersFine' /\ TakersFine'
  <2>1. ASSUME NEW max \in Maxes, TakeItems(t, max) PROVE PuttersFine' /\ TakersFine'
    <3>1. taker[t].key \in Keys /\ AtMost(max, taker[t].key) \in Int
      BY <2>1, AtMostBounds, MaxesAssumption DEF BufferTypeOK, TakeItems
    <3>2. /\ \A i \in Items : call'[i] # "parked"
          /\ \A j \in Keys : queues[j] = <<>> => queues'[j] = <<>>
      BY <2>1, <3>1, DequeueWakes DEF TakeItems
    <3> QED
      BY <1>1, <2>1, <3>2 DEF PuttersFine, TakersFine, TakeItems, BufferTypeOK
  <2>2. ASSUME NEW k \in Keys, BeginTake(t, k) PROVE PuttersFine' /\ TakersFine'
    BY <2>2, <1>2, <1>3 DEF BeginTake, BufferTypeOK
  <2>3. CASE TakeClosed(t) \/ TakePark(t) \/ TakeWakeOnDone(t) \/ TakeCancel(t)
    BY <2>3, <1>2, <1>3 DEF TakeClosed, TakePark, TakeWakeOnDone, TakeCancel, BufferTypeOK
  <2> QED
    BY <1>5, <2>1, <2>2, <2>3 DEF TakeStep
<1>6. ASSUME NEW k \in Keys, NEW max \in Maxes, TakeReady(k, max)
      PROVE  PuttersFine' /\ TakersFine'
  <2>1. AtMost(max, k) \in Int
    BY <1>6, AtMostBounds, MaxesAssumption DEF TakeReady
  <2>2. /\ \A i \in Items : call'[i] # "parked"
        /\ \A j \in Keys : queues[j] = <<>> => queues'[j] = <<>>
    BY <1>6, <2>1, DequeueWakes DEF TakeReady
  <2> QED
    BY <1>1, <1>6, <2>2 DEF PuttersFine, TakersFine, TakeReady, BufferTypeOK
<1>7. ASSUME CloseMark \/ CloseDone \/ UNCHANGED bufferVars
      PROVE  PuttersFine' /\ TakersFine'
  BY <1>7, <1>2, <1>3 DEF CloseMark, CloseDone, bufferVars
<1>8. BufferNext \/ UNCHANGED bufferVars
  OBVIOUS
<1>9. PuttersFine' /\ TakersFine'
  BY <1>4, <1>5, <1>6, <1>7, <1>8 DEF BufferNext
<1> QED
  BY <1>1, <1>9

(* No Put sleeps while there is room for its item and no Take sleeps while its
   partition has items, for any number of callers. *)
THEOREM BufferNoStrandedWaiter == BufferSpec => []NoStrandedWaiter
<1>1. BufferInit => NoStrandedWaiter
  BY DEF BufferInit, NoStrandedWaiter
<1> QED
  BY <1>1, BufferTyping, StrandedStep, PTL DEF BufferSpec

-----------------------------------------------------------------------------
(* A step of the buffer lengthens a queue only while the buffer is open. *)
LEMMA DrainStep ==
  ASSUME BufferTypeOK, BufferNext, shut # "open"
  PROVE  \A k \in Keys : Len(queues'[k]) <= Len(queues[k])
<1>1. \A k \in Keys : queues[k] \in Seq(Items) /\ Len(queues[k]) \in Nat
  BY DEF BufferTypeOK
<1>2. ASSUME NEW k \in Keys, NEW n \in 1..Len(queues[k]), Dequeue(k, n)
      PROVE  \A j \in Keys : Len(queues'[j]) <= Len(queues[j])
  <2> DEFINE tail == SubSeq(queues[k], n + 1, Len(queues[k]))
  <2>1. n \in 0..Len(queues[k]) /\ n \in Nat
    BY <1>1
  <2>2. Len(tail) = Len(queues[k]) - n
    BY <1>1, <2>1, TailFacts
  <2>3. \A j \in Keys : queues'[j] = IF j = k THEN tail ELSE queues[j]
    BY <1>2 DEF Dequeue, BufferTypeOK
  <2> HIDE DEF tail
  <2>4. Len(tail) <= Len(queues[k])
    BY <1>1, <2>1, <2>2
  <2>5. ASSUME NEW j \in Keys PROVE Len(queues'[j]) <= Len(queues[j])
    BY <1>1, <2>3, <2>4
  <2> QED
    BY <2>5
<1>3. ASSUME NEW i \in Items, PutStep(i) PROVE UNCHANGED queues
  BY <1>3 DEF PutStep, BeginPut, PutStore, PutPark, PutClosed, PutCancel, PutReturn, Closed
<1>4. ASSUME NEW t \in Takers, TakeStep(t)
      PROVE  UNCHANGED queues \/ \E max \in Maxes : TakeItems(t, max)
  BY <1>4 DEF TakeStep, BeginTake, TakeClosed, TakePark, TakeWakeOnDone, TakeCancel
<1>5. ASSUME NEW t \in Takers, NEW max \in Maxes, TakeItems(t, max)
      PROVE  \A j \in Keys : Len(queues'[j]) <= Len(queues[j])
  <2>1. taker[t].key \in Keys
    BY DEF BufferTypeOK
  <2>2. AtMost(max, taker[t].key) \in 1..Len(queues[taker[t].key])
    BY <1>5, <2>1, AtMostBounds, MaxesAssumption DEF TakeItems
  <2> QED
    BY <1>2, <1>5, <2>1, <2>2 DEF TakeItems
<1>6. ASSUME NEW k \in Keys, NEW max \in Maxes, TakeReady(k, max)
      PROVE  \A j \in Keys : Len(queues'[j]) <= Len(queues[j])
  <2>1. AtMost(max, k) \in 1..Len(queues[k])
    BY <1>6, AtMostBounds, MaxesAssumption DEF TakeReady
  <2> QED
    BY <1>2, <1>6, <2>1 DEF TakeReady
<1>7. ASSUME UNCHANGED queues PROVE \A j \in Keys : Len(queues'[j]) <= Len(queues[j])
  BY <1>1, <1>7
<1> QED
  BY <1>3, <1>4, <1>5, <1>6, <1>7 DEF BufferNext, CloseMark, CloseDone

(* Once Close has set its flag no step lets an item in, neither a Put that was
   past its first check nor one that was parked; what was accepted before may
   still be taken. *)
THEOREM BufferClosedOnlyDrains == BufferSpec => ClosedOnlyDrains
<1>1. BufferTypeOK /\ [BufferNext]_bufferVars =>
        [shut # "open" => \A k \in Keys : Len(queues'[k]) <= Len(queues[k])]_bufferVars
  BY DrainStep
<1> QED
  BY <1>1, BufferTyping, PTL DEF BufferSpec, ClosedOnlyDrains
=============================================================================

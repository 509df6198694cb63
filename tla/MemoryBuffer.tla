---------------------------- MODULE MemoryBuffer ----------------------------
(***************************************************************************)
(* pipeline/buffer.go: the in-process FIFO between two nodes.  One queue   *)
(* per key, one global limit.  Put parks while there is no room, Take      *)
(* parks while its partition is empty; every Put wakes every parked taker  *)
(* and every removal wakes every parked putter (the channels "data" and    *)
(* "space" are closed and replaced under the lock).                        *)
(*                                                                         *)
(* One Put call exists per item: call[i] is where that call stands.  An    *)
(* item is put again only once it has left the system, so items identify   *)
(* deliveries.                                                             *)
(***************************************************************************)
EXTENDS Integers, Sequences, FiniteSets

CONSTANTS
  Keys,       (* partitions: one per account and group                     *)
  Items,      (* what travels                                              *)
  KeyOf,      (* KeyOf[i] is the partition of item i                       *)
  Takers,     (* goroutines that call the blocking Take                    *)
  Maxes,      (* how many items a reader asks for: a bound of the model    *)
  RawPerKey,  (* configured capacity of one partition                      *)
  RawGlobal   (* configured capacity of the whole buffer                   *)

ASSUME KeyOfAssumption == KeyOf \in [Items -> Keys]
ASSUME CapacityAssumption == RawPerKey \in Int /\ RawGlobal \in Int
ASSUME MaxesAssumption == Maxes \subseteq Int

(* NewMemoryBuffer: a capacity that is not positive is replaced. *)
PerKey == IF RawPerKey <= 0 THEN 1 ELSE RawPerKey
Global == IF RawGlobal <= 0 THEN PerKey ELSE RawGlobal

VARIABLES
  queues,    (* queues[k]: the items of partition k, in arrival order      *)
  total,     (* the counter kept beside the queues                         *)
  shut,      (* "open", "marked" (closed set), "done" (channel done closed) *)
  call,      (* call[i]: the Put call of item i                            *)
  taker      (* taker[t]: the Take call of goroutine t                     *)

bufferVars == <<queues, total, shut, call, taker>>

PutStates  == {"idle", "putting", "parked", "stored"}
TakeStates == {"idle", "taking", "parked"}

(* The state of the buffer is well formed. *)
BufferTypeOK ==
  /\ queues \in [Keys -> Seq(Items)]
  /\ total \in Nat
  /\ shut \in {"open", "marked", "done"}
  /\ call \in [Items -> PutStates]
  /\ taker \in [Takers -> [at : TakeStates, key : Keys]]

BufferInit ==
  /\ queues = [k \in Keys |-> <<>>]
  /\ total = 0
  /\ shut = "open"
  /\ call = [i \in Items |-> "idle"]
  /\ taker \in [Takers -> [at : {"idle"}, key : Keys]]

-----------------------------------------------------------------------------
ClosedUnseen == shut = "done"   \* mutant: the flag follows the channel
Closed == shut # "open"

Buffered(i) == \E n \in DOMAIN queues[KeyOf[i]] : queues[KeyOf[i]][n] = i

HasRoomInPartition(k) == Len(queues[k]) < PerKey   \* mutant: no global limit
HasRoom(k) == Len(queues[k]) < PerKey /\ total < Global

(* broadcast(&b.space) and broadcast(&b.data): every waiter holds the old
   channel, so every waiter retries. *)
WakeNoPutter == call   \* mutant: removals do not broadcast
WakePutters == [i \in Items |-> IF call[i] = "parked" THEN "putting" ELSE call[i]]
WakeTakers  == [t \in Takers |-> IF taker[t].at = "parked"
                                 THEN [taker[t] EXCEPT !.at = "taking"] ELSE taker[t]]

(* The first n items of partition k leave it: the common tail of Take and
   TakeReady. *)
Dequeue(k, n) ==
  /\ queues' = [queues EXCEPT ![k] = SubSeq(@, n + 1, Len(@))]
  /\ total' = total - n
  /\ call' = WakePutters

AsAsked(max, k) == max   \* mutant: no min with what is there
(* min(max, len(q)), where a max that is not positive counts as 1 *)
AtMost(max, k) ==
  LET m == IF max <= 0 THEN 1 ELSE max
  IN  IF m < Len(queues[k]) THEN m ELSE Len(queues[k])

-----------------------------------------------------------------------------
(* Put *)

BeginPut(i) ==
  /\ call[i] = "idle"
  /\ ~ Buffered(i)
  /\ call' = [call EXCEPT ![i] = "putting"]
  /\ UNCHANGED <<queues, total, shut, taker>>

(* One turn of Put's loop that stores the item. *)
PutStore(i) ==
  /\ call[i] = "putting"
  /\ ~ Closed
  /\ HasRoom(KeyOf[i])
  /\ queues' = [queues EXCEPT ![KeyOf[i]] = Append(@, i)]
  /\ total' = total + 1
  /\ call' = [call EXCEPT ![i] = "stored"]
  /\ taker' = WakeTakers
  /\ UNCHANGED shut

(* One turn of Put's loop that finds no room: it takes the current space
   channel under the lock and waits on it. *)
PutPark(i) ==
  /\ call[i] = "putting"
  /\ ~ Closed
  /\ ~ HasRoom(KeyOf[i])
  /\ call' = [call EXCEPT ![i] = "parked"]
  /\ UNCHANGED <<queues, total, shut, taker>>

PutClosedAtCheck(i) ==   \* mutant: a waiting Put does not watch done
  /\ call[i] = "putting" /\ Closed
  /\ call' = [call EXCEPT ![i] = "idle"]
  /\ UNCHANGED <<queues, total, shut, taker>>

(* Put returns ErrClosed: the flag seen under the lock, or the done channel
   seen while waiting. *)
PutClosed(i) ==
  /\ \/ call[i] = "putting" /\ Closed
     \/ call[i] = "parked" /\ shut = "done"
  /\ call' = [call EXCEPT ![i] = "idle"]
  /\ UNCHANGED <<queues, total, shut, taker>>

(* ctx is done while Put waits for room: the item is refused. *)
PutCancel(i) ==
  /\ call[i] = "parked"
  /\ call' = [call EXCEPT ![i] = "idle"]
  /\ UNCHANGED <<queues, total, shut, taker>>

(* The caller goes on after a successful Put. *)
PutReturn(i) ==
  /\ call[i] = "stored"
  /\ call' = [call EXCEPT ![i] = "idle"]
  /\ UNCHANGED <<queues, total, shut, taker>>

-----------------------------------------------------------------------------
(* TakeReady and Take *)

TakeReady(k, max) ==
  /\ queues[k] # <<>>
  /\ Dequeue(k, AtMost(max, k))
  /\ UNCHANGED <<shut, taker>>

BeginTake(t, k) ==
  /\ taker[t].at = "idle"
  /\ taker' = [taker EXCEPT ![t] = [at |-> "taking", key |-> k]]
  /\ UNCHANGED <<queues, total, shut, call>>

(* A turn of Take's loop: items first, even after Close; then ErrClosed;
   then wait on the data channel. *)
TakeItems(t, max) ==
  /\ taker[t].at = "taking"
  /\ queues[taker[t].key] # <<>>
  /\ Dequeue(taker[t].key, AtMost(max, taker[t].key))
  /\ taker' = [taker EXCEPT ![t].at = "idle"]
  /\ UNCHANGED shut

TakeClosed(t) ==
  /\ taker[t].at = "taking"
  /\ queues[taker[t].key] = <<>>
  /\ Closed
  /\ taker' = [taker EXCEPT ![t].at = "idle"]
  /\ UNCHANGED <<queues, total, shut, call>>

TakePark(t) ==
  /\ taker[t].at = "taking"
  /\ queues[taker[t].key] = <<>>
  /\ ~ Closed
  /\ taker' = [taker EXCEPT ![t].at = "parked"]
  /\ UNCHANGED <<queues, total, shut, call>>

(* The done channel sends a parked Take round its loop again. *)
TakeWakeOnDone(t) ==
  /\ taker[t].at = "parked"
  /\ shut = "done"
  /\ taker' = [taker EXCEPT ![t].at = "taking"]
  /\ UNCHANGED <<queues, total, shut, call>>

(* ctx is done while Take waits. *)
TakeCancel(t) ==
  /\ taker[t].at = "parked"
  /\ taker' = [taker EXCEPT ![t].at = "idle"]
  /\ UNCHANGED <<queues, total, shut, call>>

-----------------------------------------------------------------------------
(* Close: the flag is set under the lock, the done channel is closed after
   it is released. *)

CloseMark ==
  /\ shut = "open"
  /\ shut' = "marked"
  /\ UNCHANGED <<queues, total, call, taker>>

CloseDone ==
  /\ shut = "marked"
  /\ shut' = "done"
  /\ UNCHANGED <<queues, total, call, taker>>

-----------------------------------------------------------------------------
PutStep(i) ==
  \/ BeginPut(i) \/ PutStore(i) \/ PutPark(i)
  \/ PutClosed(i) \/ PutCancel(i) \/ PutReturn(i)

TakeStep(t) ==
  \/ \E k \in Keys : BeginTake(t, k)
  \/ \E max \in Maxes : TakeItems(t, max)
  \/ TakeClosed(t) \/ TakePark(t) \/ TakeWakeOnDone(t) \/ TakeCancel(t)

BufferNext ==
  \/ \E i \in Items : PutStep(i)
  \/ \E t \in Takers : TakeStep(t)
  \/ \E k \in Keys, max \in Maxes : TakeReady(k, max)
  \/ CloseMark \/ CloseDone

BufferSpec == BufferInit /\ [][BufferNext]_bufferVars

(* A goroutine inside a call is scheduled again, and Close, once begun, is
   finished.  Nobody is obliged to start a call or to be cancelled. *)
BufferFairness ==
  /\ WF_bufferVars(CloseDone)
  /\ \A i \in Items :
       WF_bufferVars(PutStore(i) \/ PutPark(i) \/ PutClosed(i) \/ PutReturn(i))
  /\ \A t \in Takers :
       WF_bufferVars(\/ \E max \in Maxes : TakeItems(t, max)
                     \/ TakeClosed(t) \/ TakePark(t) \/ TakeWakeOnDone(t))

FairBufferSpec == BufferSpec /\ BufferFairness

-----------------------------------------------------------------------------
(* Properties *)

(* Occupied places, as pairs of a partition and a position in it. *)
Slots == {s \in Keys \X (1..PerKey) : s[2] <= Len(queues[s[1]])}

(* The counter that Put and TakeReady maintain is the number of items in the
   buffer, and neither limit is ever exceeded, whatever Puts and removals
   race (buffer.go: "len(q) < b.perKey && b.total < b.global"). *)
CountedAndBounded ==
  /\ total = Cardinality(Slots)
  /\ total <= Global
  /\ \A k \in Keys : Len(queues[k]) <= PerKey

(* No lost wakeup: a Put that sleeps has no room for its item and a Take that
   sleeps has nothing to take (the reason buffer.go gives for broadcasting
   instead of using a one-slot channel). *)
NoStrandedWaiter ==
  /\ \A i \in Items : call[i] = "parked" => ~ HasRoom(KeyOf[i])
  /\ \A t \in Takers : taker[t].at = "parked" => queues[taker[t].key] = <<>>

(* After Close no item enters: a Put that was already past its first check,
   or parked when Close came, cannot store.  Removals go on, so what was
   accepted before can still be drained. *)
ClosedOnlyDrains ==
  [][shut # "open" => \A k \in Keys : Len(queues'[k]) <= Len(queues[k])]_bufferVars

(* Close releases every caller that is blocked inside the buffer. *)
CloseReleasesCallers ==
  /\ \A i \in Items : (shut # "open" /\ call[i] = "parked") ~> call[i] = "idle"
  /\ \A t \in Takers : (shut # "open" /\ taker[t].at = "parked") ~> taker[t].at = "idle"
=============================================================================

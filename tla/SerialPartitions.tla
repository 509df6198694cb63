-------------------------- MODULE SerialPartitions --------------------------
(***************************************************************************)
(* What a node promises the domain handler it drives (pipeline/consumer.go *)
(* lines 28-36): batches are never empty, hold items of one key only and   *)
(* keep their arrival order; no key is handled by two goroutines at once;  *)
(* whatever was accepted stays until a handler has dealt with it.          *)
(***************************************************************************)
EXTENDS Sequences, Functions

CONSTANTS Keys, Items, KeyOf

VARIABLES
  waiting,  (* waiting[k]: accepted items of k, in arrival order           *)
  batch,    (* batch[k]: the batch being put together for the handler      *)
  failed,   (* failed[k]: items the handler gave back                      *)
  phase     (* phase[k]: "free", "collecting" or "retrying"                *)

vars == <<waiting, batch, failed, phase>>

Init ==
  /\ waiting = [k \in Keys |-> <<>>]
  /\ batch = [k \in Keys |-> <<>>]
  /\ failed = [k \in Keys |-> {}]
  /\ phase = [k \in Keys |-> "free"]

Accept(i) ==
  /\ waiting' = [waiting EXCEPT ![KeyOf[i]] = Append(@, i)]
  /\ UNCHANGED <<batch, failed, phase>>

(* The oldest items move on, in order. *)
Collect(k) ==
  /\ phase[k] \in {"free", "collecting"}
  /\ \E n \in 1..Len(waiting[k]) :
       /\ waiting' = [waiting EXCEPT ![k] = SubSeq(@, n + 1, Len(@))]
       /\ batch' = [batch EXCEPT ![k] = @ \o SubSeq(waiting[k], 1, n)]
  /\ phase' = [phase EXCEPT ![k] = "collecting"]
  /\ UNCHANGED failed

(* The handler gets a non-empty batch of this key and gives some of it back. *)
HandleBatch(k) ==
  /\ phase[k] = "collecting"
  /\ batch[k] # <<>>
  /\ \A i \in Range(batch[k]) : KeyOf[i] = k
  /\ \E bad \in SUBSET Range(batch[k]) :
       /\ failed' = [failed EXCEPT ![k] = bad]
       /\ phase' = [phase EXCEPT ![k] = IF bad = {} THEN "free" ELSE "retrying"]
  /\ batch' = [batch EXCEPT ![k] = <<>>]
  /\ UNCHANGED waiting

(* Another round over what was given back, or giving up on it. *)
Settle(k) ==
  /\ phase[k] = "retrying"
  /\ \E bad \in SUBSET failed[k] :
       /\ failed' = [failed EXCEPT ![k] = bad]
       /\ phase' = [phase EXCEPT ![k] = IF bad = {} THEN "free" ELSE "retrying"]
  /\ UNCHANGED <<waiting, batch>>

Next ==
  \/ \E i \in Items : Accept(i)
  \/ \E k \in Keys : Collect(k) \/ HandleBatch(k) \/ Settle(k)

Spec == Init /\ [][Next]_vars
=============================================================================

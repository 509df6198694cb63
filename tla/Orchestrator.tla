---------------------------- MODULE Orchestrator ----------------------------
(***************************************************************************)
(* bot/orchestrator.go and the wiring of bot/handler.go: the router node   *)
(* and the three domain nodes of the chat workflow, each a MemoryBuffer    *)
(* with a Consumer on top.  A node hands its batch to the domain handler   *)
(* and the orchestrator puts what the handler signals into the next node.  *)
(*                                                                         *)
(* A node appears here as its handler sees it, which is what the module    *)
(* SerialPartitions states and the module Consumer is checked to provide:  *)
(* batches of one chat in arrival order, one goroutine per chat.  Handlers *)
(* give nothing back to be retried (they would for an item that cannot be  *)
(* decoded, and the orchestrator encoded every one of them itself).        *)
(***************************************************************************)
EXTENDS Integers, Sequences, FiniteSets, SequencesExt

CONSTANTS
  Items,       (* one per event pushed in                                  *)
  Chats,       (* partition keys: workspace and chat                       *)
  ChatOf,      (* the chat of an item                                      *)
  PerChat,     (* capacity of a node for one chat                          *)
  Global,      (* capacity of a node                                       *)
  MaxBatch,    (* largest batch any node is configured with                *)
  Concurrency  (* goroutines of each node's pool                           *)

Nodes == {"sync", "command", "assets", "agent"}

ASSUME OrchestratorAssumption ==
  /\ ChatOf \in [Items -> Chats]
  /\ {PerChat, Global, MaxBatch} \subseteq Nat \ {0}
  /\ Concurrency \in [Nodes -> Nat \ {0}]

(* NewBot: the one workflow.  The router names a workflow, which enter()
   turns into its first node; the other events are looked up in next. *)
Advance == [chat |-> "command", command_pass |-> "assets", tagged |-> "agent"]
Ends == {"command_done", "replied"}

VARIABLES
  queue,     (* queue[n][k]: what node n has buffered for chat k           *)
  hand,      (* hand[n][k]: the goroutine of node n that holds chat k      *)
  bufDown,   (* nodes whose buffer is closed                               *)
  poolDown,  (* nodes whose consumer is closed                             *)
  admitted,  (* admitted[k]: items of k in the order they were let in      *)
  handled,   (* <<n, i>>: node n's handler has seen item i                 *)
  ended,     (* items whose last event is an end of the workflow           *)
  lost       (* items dropped because the next buffer was closed           *)

fates == <<handled, ended, lost>>
flowVars == <<queue, hand, bufDown, poolDown, admitted, fates>>

(* "free": no goroutine holds the chat.  "drain": about to take a batch.
   "handle": batch taken.  "send": hops left to put.  "more": batch done. *)
FreeHand == [at |-> "free", batch |-> <<>>, hops |-> <<>>]

FlowInit ==
  /\ queue = [n \in Nodes |-> [k \in Chats |-> <<>>]]
  /\ hand = [n \in Nodes |-> [k \in Chats |-> FreeHand]]
  /\ bufDown = {} /\ poolDown = {}
  /\ admitted = [k \in Chats |-> <<>>]
  /\ handled = {} /\ ended = {} /\ lost = {}

-----------------------------------------------------------------------------
(* MemoryBuffer.Total and Consumer.Active of node n. *)
Buffered(n) == UNION {ToSet(queue[n][k]) : k \in Chats}
Total(n) == Cardinality(Buffered(n))
Held(n) == {k \in Chats : hand[n][k].at # "free"}
Active(n) == Cardinality(Held(n))

HasRoomShared(n, k) ==   \* mutant: one limit for all nodes together
  /\ Len(queue[n][k]) < PerChat
  /\ Total("sync") + Total("command") + Total("assets") + Total("agent") < Global
HasRoom(n, k) == Len(queue[n][k]) < PerChat /\ Total(n) < Global

(* orchestrator.admit: the buffered event is the router's to pick up. *)
Admit(i) ==
  LET k == ChatOf[i] IN
  /\ "sync" \notin bufDown
  /\ HasRoom("sync", k)
  /\ queue' = [queue EXCEPT !["sync"][k] = Append(@, i)]
  /\ admitted' = [admitted EXCEPT ![k] = Append(@, i)]
  /\ UNCHANGED <<hand, bufDown, poolDown, fates>>

-----------------------------------------------------------------------------
(* A node *)

SetHand(n, k, h) == hand' = [hand EXCEPT ![n][k] = h]

(* next(): a free goroutine takes a chat nobody holds *)
Pick(n, k) ==
  /\ hand[n][k].at = "free"
  /\ queue[n][k] # <<>>
  /\ n \notin poolDown
  /\ Active(n) < Concurrency[n]
  /\ SetHand(n, k, [FreeHand EXCEPT !.at = "drain"])
  /\ UNCHANGED <<queue, bufDown, poolDown, admitted, fates>>

CollectNewest(n, k) ==   \* mutant: the batch is taken from the wrong end
  /\ hand[n][k].at \in {"drain", "more"}
  /\ \E c \in 1..MaxBatch :
       /\ c <= Len(queue[n][k])
       /\ queue' = [queue EXCEPT ![n][k] = SubSeq(@, 1, Len(@) - c)]
       /\ SetHand(n, k, [FreeHand EXCEPT !.at = "handle",
                            !.batch = SubSeq(queue[n][k], Len(queue[n][k]) - c + 1, Len(queue[n][k]))])
  /\ UNCHANGED <<bufDown, poolDown, admitted, fates>>
(* takeBatch; a closed buffer still gives what it has.  The batch size in
   force may be smaller than MaxBatch, and linger may let more arrive. *)
Collect(n, k) ==
  /\ hand[n][k].at \in {"drain", "more"}
  /\ \E c \in 1..MaxBatch :
       /\ c <= Len(queue[n][k])
       /\ queue' = [queue EXCEPT ![n][k] = SubSeq(@, c + 1, Len(@))]
       /\ SetHand(n, k, [FreeHand EXCEPT !.at = "handle",
                                         !.batch = SubSeq(queue[n][k], 1, c)])
  /\ UNCHANGED <<bufDown, poolDown, admitted, fates>>

(* The events each domain may answer an item with.  PrepareBatch leaves out
   what it has seen or will not keep: the router makes no pick for it. *)
Answers == [sync    |-> {"chat", "left_out"},
            command |-> {"command_pass", "command_done"},
            assets  |-> {"tagged"},
            agent   |-> {"replied"}]

GoesOn(event) == event \notin Ends \cup {"left_out"}

(* What of a batch a node passes on, in the order of the batch *)
Onward(batch, answer) ==
  LET kept[x \in 0..Len(batch)] ==
        IF x = 0 THEN <<>>
        ELSE IF GoesOn(answer[batch[x]]) THEN Append(kept[x - 1], batch[x]) ELSE kept[x - 1]
  IN  kept[Len(batch)]

(* routerBatch and consume with dispatch: the handler runs, an end of the
   workflow stays without a hop, every other answer becomes one. *)
Handle(n, k, answer) ==
  LET batch  == hand[n][k].batch
      onward == Onward(batch, answer)
  IN
  /\ hand[n][k].at = "handle"
  /\ SetHand(n, k, [at    |-> IF onward = <<>> THEN "more" ELSE "send",
                    batch |-> <<>>,
                    hops  |-> [x \in DOMAIN onward |->
                                 [to |-> Advance[answer[onward[x]]], item |-> onward[x]]]])
  /\ handled' = handled \cup ({n} \X ToSet(batch))
  /\ ended' = ended \cup (ToSet(batch) \ ToSet(onward))
  /\ UNCHANGED <<queue, bufDown, poolDown, admitted, lost>>

HopDone(n, k) ==
  SetHand(n, k, [hand[n][k] EXCEPT !.hops = Tail(@),
                                   !.at = IF Len(hand[n][k].hops) = 1 THEN "more" ELSE "send"])

SendOrDrop(n, k) ==   \* mutant: a full buffer is not waited for
  /\ hand[n][k].at = "send"
  /\ LET hop == Head(hand[n][k].hops) IN
       /\ hop.to \notin bufDown
       /\ queue' = IF HasRoom(hop.to, k) THEN [queue EXCEPT ![hop.to][k] = Append(@, hop.item)]
                   ELSE queue
  /\ HopDone(n, k)
  /\ UNCHANGED <<bufDown, poolDown, admitted, fates>>
(* send: Put waits for room as long as it takes, the context is Run's own *)
Send(n, k) ==
  /\ hand[n][k].at = "send"
  /\ LET hop == Head(hand[n][k].hops) IN
       /\ hop.to \notin bufDown
       /\ HasRoom(hop.to, k)
       /\ queue' = [queue EXCEPT ![hop.to][k] = Append(@, hop.item)]
  /\ HopDone(n, k)
  /\ UNCHANGED <<bufDown, poolDown, admitted, fates>>

(* send: ErrClosed is logged, the item stops here *)
SendClosed(n, k) ==
  /\ hand[n][k].at = "send"
  /\ Head(hand[n][k].hops).to \in bufDown
  /\ lost' = lost \cup {Head(hand[n][k].hops).item}
  /\ HopDone(n, k)
  /\ UNCHANGED <<queue, bufDown, poolDown, admitted, handled, ended>>

(* The queue is empty or the burst is used up: release(). *)
Release(n, k) ==
  /\ hand[n][k].at = "more"
  /\ SetHand(n, k, FreeHand)
  /\ UNCHANGED <<queue, bufDown, poolDown, admitted, fates>>

(* allNodes: the router comes first, the domains in map order *)
InTurn(n, down) == n \notin down /\ (n = "sync" \/ "sync" \in down)

CloseBuffer(n) ==
  /\ InTurn(n, bufDown)
  /\ bufDown' = bufDown \cup {n}
  /\ UNCHANGED <<queue, hand, poolDown, admitted, fates>>

ClosePool(n) ==
  /\ InTurn(n, poolDown)
  /\ poolDown' = poolDown \cup {n}
  /\ UNCHANGED <<queue, hand, bufDown, admitted, fates>>

NodeStep(n, k) ==
  \/ Pick(n, k) \/ Collect(n, k) \/ Send(n, k) \/ SendClosed(n, k) \/ Release(n, k)
  \/ \E answer \in [ToSet(hand[n][k].batch) -> Answers[n]] : Handle(n, k, answer)

-----------------------------------------------------------------------------
(* The orchestrator on its own: events come in, and the nodes are closed in
   the order Run uses, every buffer before any consumer. *)
Fresh(i) == i \notin ToSet(admitted[ChatOf[i]])

FlowNext ==
  \/ \E i \in Items : Fresh(i) /\ Admit(i)
  \/ \E n \in Nodes, k \in Chats : NodeStep(n, k)
  \/ \E n \in Nodes : CloseBuffer(n) \/ (bufDown = Nodes /\ ClosePool(n))

FlowSpec == FlowInit /\ [][FlowNext]_flowVars

-----------------------------------------------------------------------------
(* Properties *)

Hops == [to : Nodes, item : Items]
HandRecords == [at : {"free", "drain", "handle", "send", "more"},
                batch : Seq(Items), hops : Seq(Hops)]

(* The state is well formed, capacities hold at every node, and the pool size bounds the
   chats in work. *)
FlowTypeOK ==
  /\ queue \in [Nodes -> [Chats -> Seq(Items)]]
  /\ hand \in [Nodes -> [Chats -> HandRecords]]
  /\ bufDown \subseteq Nodes /\ poolDown \subseteq Nodes
  /\ admitted \in [Chats -> Seq(Items)]
  /\ handled \subseteq Nodes \X Items
  /\ ended \subseteq Items /\ lost \subseteq Items
  /\ \A n \in Nodes : /\ \A k \in Chats : Len(queue[n][k]) <= PerChat
                     /\ Total(n) <= Global /\ Active(n) <= Concurrency[n]

InHand(n, k) == hand[n][k].batch \o [x \in DOMAIN hand[n][k].hops |-> hand[n][k].hops[x].item]

(* Everything of chat k from the last node back to the first. *)
Line(k) == InHand("agent", k) \o queue["agent"][k] \o InHand("assets", k) \o queue["assets"][k]
           \o InHand("command", k) \o queue["command"][k] \o InHand("sync", k) \o queue["sync"][k]

(* i stands before j *)
Precedes(seq, i, j) == \E a, b \in DOMAIN seq : a < b /\ seq[a] = i /\ seq[b] = j

(* The messages of a chat never overtake one another, over all nodes, hops and
   batches (docs/domains/pipeline.md: a group's messages are processed in
   arrival order). *)
ChatOrder ==
  \A k \in Chats : /\ ToSet(Line(k)) \subseteq ToSet(admitted[k])
                   /\ \A x, y \in DOMAIN Line(k) :
                        x < y => Precedes(admitted[k], Line(k)[x], Line(k)[y])

(* What was let in is in exactly one place, or a handler ended it, or it was
   dropped because a buffer had been closed: no hop loses or doubles it. *)
NothingVanishes ==
  \A k \in Chats : \A i \in ToSet(admitted[k]) :
    \/ i \in ToSet(Line(k)) /\ i \notin ended /\ i \notin lost
    \/ i \notin ToSet(Line(k)) /\ i \in ended /\ i \notin lost
    \/ i \notin ToSet(Line(k)) /\ i \notin ended /\ i \in lost /\ bufDown # {}
=============================================================================

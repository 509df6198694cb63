-------------------------------- MODULE Bot --------------------------------
(***************************************************************************)
(* bot/ingest.go and the dedup table of bot/handler.go around the          *)
(* orchestrator: AcceptEvent lets events in from concurrent HTTP handlers, *)
(* and Run takes the whole chain down once the application context ends.   *)
(***************************************************************************)
EXTENDS Orchestrator

CONSTANTS
  Messages,   (* dedup keys: workspace, chat and message id                *)
  MsgOf,      (* several events may push one message: they are redelivered *)
  Redelivered,(* messages that may come again after dedupTTL               *)
  CacheSize,  (* max_cache_msg: slots of a chat's cache                    *)
  DrainTimeout (* drain_timeout_sec; how long it is does not matter        *)

ASSUME BotAssumption ==
  /\ MsgOf \in [Items -> Messages]
  /\ \A i, j \in Items : MsgOf[i] = MsgOf[j] => ChatOf[i] = ChatOf[j]
  /\ Redelivered \subseteq Messages
  /\ CacheSize \in Nat \ {0} /\ DrainTimeout \in Nat

VARIABLES
  call,     (* call[i]: how far AcceptEvent is with event i                *)
  claimed,  (* messageDedup.seen                                           *)
  expired,  (* messages whose claim has run out                            *)
  late,     (* those whose claim did so before they were through the chain *)
  cached,   (* cached[k]: messages in the ring of chat k, oldest first     *)
  evicted,  (* messages whose slot in the ring was taken by another        *)
  closed,   (* Bot.closed                                                  *)
  run       (* where Bot.Run stands; left: nodes idle() has still to read  *)

entryVars == <<call, claimed, expired, late, cached, evicted>>
cacheVars == <<cached, evicted>>
vars == <<flowVars, entryVars, closed, run>>

Init ==
  /\ FlowInit
  /\ call = [i \in Items |-> "new"]
  /\ claimed = {} /\ expired = {} /\ late = {}
  /\ cached = [k \in Chats |-> <<>>] /\ evicted = {}
  /\ closed = FALSE
  /\ run = [at |-> "serving", left |-> {}]

-----------------------------------------------------------------------------
(* AcceptEvent *)

SetCall(i, at) == call' = [call EXCEPT ![i] = at]

(* closed is looked at once, on entry *)
Enter(i) ==
  /\ call[i] = "new"
  /\ SetCall(i, IF closed THEN "refused" ELSE "entered")
  /\ UNCHANGED <<flowVars, claimed, expired, late, cacheVars, closed, run>>

(* no workspace takes the event *)
Disown(i) ==
  /\ call[i] = "entered"
  /\ SetCall(i, "disowned")
  /\ UNCHANGED <<flowVars, claimed, expired, late, cacheVars, closed, run>>

ClaimChat(i) ==   \* mutant: the key lacks the message id
  /\ call[i] = "entered"
  /\ IF ChatOf[i] \in claimed
     THEN SetCall(i, "duplicate") /\ UNCHANGED claimed
     ELSE SetCall(i, "claimed") /\ claimed' = claimed \cup {ChatOf[i]}
  /\ UNCHANGED <<flowVars, expired, late, cacheVars, closed, run>>
Claim(i) ==
  /\ call[i] = "entered"
  /\ IF MsgOf[i] \in claimed
     THEN SetCall(i, "duplicate") /\ UNCHANGED claimed
     ELSE SetCall(i, "claimed") /\ claimed' = claimed \cup {MsgOf[i]}
  /\ UNCHANGED <<flowVars, expired, late, cacheVars, closed, run>>

Accept(i) ==
  /\ call[i] = "claimed"
  /\ Admit(i)
  /\ SetCall(i, "accepted")
  /\ UNCHANGED <<claimed, expired, late, cacheVars, closed, run>>

(* Put gives up: the buffer is closed, or it found no room for enqueueTimeout *)
Fail(i) ==
  /\ call[i] = "claimed"
  /\ "sync" \in bufDown \/ ~ HasRoom("sync", ChatOf[i])
  /\ SetCall(i, "failing")
  /\ UNCHANGED <<flowVars, claimed, expired, late, cacheVars, closed, run>>

ForgetNothing(i) ==   \* mutant: the claim stays behind
  /\ call[i] = "failing"
  /\ SetCall(i, "refused")
  /\ UNCHANGED <<flowVars, claimed, expired, late, cacheVars, closed, run>>
Forget(i) ==
  /\ call[i] = "failing"
  /\ claimed' = claimed \ {MsgOf[i]}
  /\ SetCall(i, "refused")
  /\ UNCHANGED <<flowVars, expired, late, cacheVars, closed, run>>

(* dedupTTL runs out: ten minutes, far above the enqueueTimeout of a call under
   way, but not above what a message may wait for in the chain *)
Passing(i) == i \in ToSet(Line(ChatOf[i]))

Expire(m) ==
  /\ m \in Redelivered \cap claimed
  /\ \A i \in Items : MsgOf[i] = m => call[i] \notin {"claimed", "failing"}
  /\ claimed' = claimed \ {m}
  /\ expired' = expired \cup {m}
  /\ late' = IF \E i \in Items : MsgOf[i] = m /\ Passing(i) THEN late \cup {m} ELSE late
  /\ UNCHANGED <<flowVars, call, cacheVars, closed, run>>

-----------------------------------------------------------------------------
(* The chat's cache, as far as it tells redeliveries apart *)

(* GroupMsgCache.Add: an id it holds is left alone; when the ring is full the
   oldest slot is overwritten and its id forgotten *)
Added(ring, m) ==
  IF m \in ToSet(ring) THEN ring
  ELSE IF Len(ring) < CacheSize THEN Append(ring, m) ELSE Append(Tail(ring), m)

AddedAll(ring, batch) ==
  LET after[x \in 0..Len(batch)] ==
        IF x = 0 THEN ring ELSE Added(after[x - 1], MsgOf[batch[x]])
  IN  after[Len(batch)]

-----------------------------------------------------------------------------
(* The domains *)

NeverSeen(k, m) == FALSE   \* mutant: the cache does not know what it holds
HasSeen(k, m) == m \in ToSet(cached[k])

(* what a handler leaves in the cache: the agent adds the batch, and the replies
   it and the commands record take the slots of the oldest messages *)
Caches(n, k, batch) ==
  LET full == IF n = "agent" THEN AddedAll(cached[k], batch) ELSE cached[k] IN
  IF n \in {"command", "agent"} THEN {SubSeq(full, own + 1, Len(full)) : own \in 0..Len(full)}
  ELSE {full}

(* PrepareBatch leaves out what the chat's cache holds and the second copy
   within one batch.  Commands that end the workflow never reach the cache. *)
Domain(n, k) ==
  LET batch == hand[n][k].batch IN
  /\ \E answer \in [ToSet(batch) -> Answers[n]] :
       /\ n = "sync" =>
            \A y \in DOMAIN batch :
              \/ HasSeen(k, MsgOf[batch[y]])
              \/ \E x \in 1..(y - 1) : MsgOf[batch[x]] = MsgOf[batch[y]]
              => answer[batch[y]] = "left_out"
       /\ Handle(n, k, answer)
  /\ \E ring \in Caches(n, k, batch) :
       /\ cached' = [cached EXCEPT ![k] = ring]
       /\ evicted' = evicted \cup (((ToSet(cached[k]) \cup
            IF n = "agent" THEN {MsgOf[i] : i \in ToSet(batch)} ELSE {}) \ ToSet(ring)))

Chain(n, k) ==
  /\ \/ (Pick(n, k) \/ Collect(n, k) \/ Send(n, k) \/ SendClosed(n, k) \/ Release(n, k))
          /\ UNCHANGED cacheVars
     \/ Domain(n, k)
  /\ UNCHANGED <<call, claimed, expired, late, closed, run>>

-----------------------------------------------------------------------------
(* Run *)

GoTo(at, left) == run' = [at |-> at, left |-> left]

(* drain with no timeout returns at once *)
ContextDone ==
  /\ run.at = "serving"
  /\ IF DrainTimeout = 0 THEN GoTo("expired", {}) ELSE GoTo("pending", Nodes)
  /\ UNCHANGED <<flowVars, entryVars, closed>>

(* allNodes: the router is read first *)
NextToRead(n) == n \in run.left /\ (n = "sync" \/ "sync" \notin run.left)

(* idle(): pending() adds up Total node by node, then active() adds up the
   chats in work node by node; anything found sends drain back to sleep. *)
ReadPending(n) ==
  /\ run.at = "pending" /\ NextToRead(n)
  /\ IF Total(n) # 0 THEN GoTo("pending", Nodes)
     ELSE IF run.left = {n} THEN GoTo("active", Nodes)
     ELSE GoTo("pending", run.left \ {n})
  /\ UNCHANGED <<flowVars, entryVars, closed>>

ReadActive(n) ==
  /\ run.at = "active" /\ NextToRead(n)
  /\ IF Active(n) # 0 THEN GoTo("pending", Nodes)
     ELSE IF run.left = {n} THEN GoTo("idle", {})
     ELSE GoTo("active", run.left \ {n})
  /\ UNCHANGED <<flowVars, entryVars, closed>>

(* DrainTimeout is over at the head of drain's loop. *)
Deadline ==
  /\ run.at = "pending" /\ run.left = Nodes
  /\ GoTo("expired", {})
  /\ UNCHANGED <<flowVars, entryVars, closed>>

RaiseClosed ==
  /\ run.at \in {"idle", "expired"}
  /\ closed' = TRUE
  /\ GoTo("buffers", {})
  /\ UNCHANGED <<flowVars, entryVars>>

CloseNodeBuffer(n) ==
  /\ run.at = "buffers"
  /\ CloseBuffer(n)
  /\ GoTo(IF bufDown' = Nodes THEN "pools" ELSE "buffers", {})
  /\ UNCHANGED <<entryVars, closed>>

CloseNodePool(n) ==
  /\ run.at = "pools"
  /\ ClosePool(n)
  /\ GoTo(IF poolDown' = Nodes THEN "wait" ELSE "pools", {})
  /\ UNCHANGED <<entryVars, closed>>

(* orch.wait: every pool has run dry *)
Return ==
  /\ run.at = "wait"
  /\ \A n \in Nodes : Held(n) = {}
  /\ GoTo("returned", {})
  /\ UNCHANGED <<flowVars, entryVars, closed>>

-----------------------------------------------------------------------------
Calls(i) == Enter(i) \/ Disown(i) \/ Claim(i) \/ Accept(i) \/ Fail(i) \/ Forget(i)

Shutdown ==
  \/ \E n \in Nodes : ReadPending(n) \/ ReadActive(n) \/ CloseNodeBuffer(n) \/ CloseNodePool(n)
  \/ RaiseClosed \/ Return

Next ==
  \/ \E i \in Items : Calls(i)
  \/ \E m \in Messages : Expire(m)
  \/ \E n \in Nodes, k \in Chats : Chain(n, k)
  \/ ContextDone \/ Deadline \/ Shutdown

Spec == Init /\ [][Next]_vars

(* Goroutines are scheduled, handlers return and the clock of drain moves on;
   AcceptEvent runs to its end once entered.  Nothing makes events arrive or
   the context end.  The deadline is strongly fair: drain meets it at the head
   of its loop, however often it goes round. *)
Fairness ==
  /\ \A n \in Nodes, k \in Chats : WF_vars(Chain(n, k))
  /\ \A i \in Items : WF_vars(call[i] # "new" /\ Calls(i))
  /\ WF_vars(Shutdown) /\ SF_vars(Deadline)

FairSpec == Spec /\ Fairness

-----------------------------------------------------------------------------
(* Properties *)

(* The state is well formed. *)
BotTypeOK ==
  /\ FlowTypeOK
  /\ call \in [Items -> {"new", "entered", "disowned", "duplicate", "claimed",
                         "accepted", "failing", "refused"}]
  /\ claimed \subseteq Messages /\ late \subseteq expired /\ expired \subseteq Messages
  /\ cached \in [Chats -> Seq(Messages)] /\ evicted \subseteq Messages
  /\ \A k \in Chats : Len(cached[k]) <= CacheSize
  /\ closed \in BOOLEAN
  /\ run \in [at : {"serving", "pending", "active", "idle", "expired", "buffers",
                    "pools", "wait", "returned"}, left : SUBSET Nodes]

(* The two layers against redelivery together (handler.go 46-47): the claim covers a message for
   dedupTTL, the chat's cache for as long as its slot is not overwritten.  So the agent answers a
   message twice only when the claim ran out while the first copy was still on its way, or ran out
   and the cache had forgotten the message; and a command, which has effects that must not happen
   twice (handler.go 160) and never gets into the cache when it ends the workflow, runs once
   within dedupTTL. *)
HandledOnce ==
  \A i, j \in Items : MsgOf[i] = MsgOf[j] /\ i # j =>
    /\ <<"agent", i>> \in handled /\ <<"agent", j>> \in handled =>
         MsgOf[i] \in late \/ MsgOf[i] \in expired \cap evicted
    /\ <<"command", i>> \in handled /\ <<"command", j>> \in handled => MsgOf[i] \in expired

(* A claim stands for an event that is on its way in or was accepted; one left behind would make
   the platform's retry bounce for ten minutes.  And 503 asks the sender to push again: nothing
   of that event is in the chain. *)
RefusalLeavesNothing ==
  /\ \A m \in claimed : \E i \in Items :
       MsgOf[i] = m /\ call[i] \in {"claimed", "failing", "accepted"}
  /\ \A i \in Items : call[i] \in {"failing", "refused"} =>
       i \notin ToSet(admitted[ChatOf[i]]) /\ \A n \in Nodes : <<n, i>> \notin handled

(* Back-pressure does not wedge the chain, and everything comes to an end although events keep
   coming and goroutines wait for room in full buffers: what was let in gets to an end, every HTTP
   call that got past the entrance is answered, and a shutdown that began is completed. *)
EverythingEnds ==
  /\ \A i \in Items : ~ Fresh(i) ~> (i \in ended \/ bufDown # {})
  /\ \A i \in Items : call[i] = "entered" ~> call[i] \in {"disowned", "duplicate", "accepted", "refused"}
  /\ run.at # "serving" ~> run.at = "returned"

(* orchestrator.go 505: idle means neither backlog nor work under way, it is
   safe to leave.  What came in at the router meanwhile is not held against
   the answer, only what is further down the chain. *)
IdleIsSafe ==
  run.at = "idle" =>
    \A n \in Nodes \ {"sync"}, k \in Chats : queue[n][k] = <<>> /\ hand[n][k].at = "free"
=============================================================================

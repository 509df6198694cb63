------------------------------ MODULE Consumer ------------------------------
(***************************************************************************)
(* pipeline/consumer.go: a fixed pool of workers over one MemoryBuffer.    *)
(* A worker takes the longest-waiting ready key, works through at most     *)
(* MaxBurst batches of it and gives it back.  A key is held by one worker  *)
(* at a time.                                                              *)
(*                                                                         *)
(* Everything the code does under c.mu in one critical section is one      *)
(* action; the buffer has its own lock, so every buffer operation is an    *)
(* action too.  Handler calls are atomic, their outcome is any subset of   *)
(* failed items.                                                           *)
(***************************************************************************)
EXTENDS MemoryBuffer, Functions

CONSTANTS
  RawConcurrency, (* configured pool size                                  *)
  RawConfigs,     (* values the hot-reloaded config takes: [batch, retries] *)
  MaxBurst,       (* maxBurstPerTurn                                       *)
  NoKey           (* not a partition                                       *)

ASSUME ConsumerAssumption ==
  /\ RawConcurrency \in Int
  /\ RawConfigs # {} /\ RawConfigs \subseteq [batch : Int, retries : Int]
  /\ MaxBurst \in Nat \ {0}
  /\ NoKey \notin Keys

NormaliseNot(cfg) == cfg   \* mutant: the raw values are used
(* Config(): non-positive values are replaced. *)
Normalise(cfg) ==
  [batch   |-> IF cfg.batch <= 0 THEN 1 ELSE cfg.batch,
   retries |-> IF cfg.retries < 0 THEN 0 ELSE cfg.retries]
Configs == {Normalise(cfg) : cfg \in RawConfigs}
Workers == 1..(IF RawConcurrency <= 0 THEN 1 ELSE RawConcurrency)

ASSUME MaxesCoverBatches ==
  1 \in Maxes /\ \A cfg \in Configs : cfg.batch > 1 => cfg.batch - 1 \in Maxes

VARIABLES
  ready,     (* keys waiting for a worker, longest waiting first           *)
  readySet,  (* the index of ready                                         *)
  inflight,  (* keys some worker holds                                     *)
  worker,    (* worker[w]: where goroutine w stands and what it holds      *)
  closed,    (* Consumer.Close was called                                  *)
  cancelled, (* the context given to Run is done                           *)
  attempts   (* attempts[i]: Item.Attempts of item i in this delivery      *)

poolVars == <<ready, readySet, inflight, worker, closed, cancelled>>
vars == <<bufferVars, poolVars, attempts>>

(* "off": before Run.  "next", "waiting": inside next().  "drain": at the
   head of drain's loop.  "linger": one item taken.  "handle": about to call
   the handler, "retry": about to begin another round with what failed. *)
WorkerStates == {"off", "next", "waiting", "drain", "linger", "handle",
                 "retry", "release", "exited"}
Holding == {"drain", "linger", "handle", "retry", "release"}

NoConfig == Normalise([batch |-> 0, retries |-> 0])

Idle(at) == [at |-> at, key |-> NoKey, batch |-> <<>>, failed |-> {},
             burst |-> 0, round |-> 0, cfg |-> NoConfig]

Init ==
  /\ BufferInit
  /\ ready = <<>> /\ readySet = {} /\ inflight = {}
  /\ worker = [w \in Workers |-> Idle("off")]
  /\ closed = FALSE /\ cancelled = FALSE
  /\ attempts = [i \in Items |-> 0]

-----------------------------------------------------------------------------
(* The items worker w still answers for. *)
Held(w) == Range(worker[w].batch) \cup worker[w].failed

SignalledNobody(ws) == {ws}   \* mutant: the key is listed, nobody is told
(* cond.Signal wakes one goroutine asleep in next(), if there is one. *)
Signalled(ws) ==
  LET asleep == {w \in Workers : ws[w].at = "waiting"}
  IN  IF asleep = {} THEN {ws}
      ELSE {[ws EXCEPT ![w].at = "next"] : w \in asleep}

MarkReadyAgain(k, ws) ==   \* mutant: the index is not consulted
  /\ ready' = Append(ready, k) /\ readySet' = readySet \cup {k}
  /\ worker' \in Signalled(ws)

(* markReadyLocked followed by Signal; ws is the pool before the signal. *)
MarkReady(k, ws) ==
  /\ IF k \in readySet
     THEN UNCHANGED <<ready, readySet>>
     ELSE ready' = Append(ready, k) /\ readySet' = readySet \cup {k}
  /\ worker' \in Signalled(ws)

-----------------------------------------------------------------------------
(* Callers: Put, then Submit *)

Enqueue(i) ==
  /\ \/ BeginPut(i) /\ (\A w \in Workers : i \notin Held(w)) /\ attempts' = [attempts EXCEPT ![i] = 0]
     \/ (PutStore(i) \/ PutPark(i) \/ PutClosed(i) \/ PutCancel(i))
          /\ UNCHANGED attempts
  /\ UNCHANGED poolVars

(* Submit of a key that is being worked on relies on release to look back. *)
Submit(i) ==
  /\ PutReturn(i)
  /\ IF closed \/ KeyOf[i] \in inflight
     THEN UNCHANGED <<ready, readySet, worker>>
     ELSE MarkReady(KeyOf[i], worker)
  /\ UNCHANGED <<inflight, closed, cancelled, attempts>>

-----------------------------------------------------------------------------
(* Workers *)

Run ==
  /\ \A w \in Workers : worker[w].at = "off"
  /\ worker' = [w \in Workers |-> Idle("next")]
  /\ UNCHANGED <<bufferVars, ready, readySet, inflight, closed, cancelled, attempts>>

NextExit(w) ==
  /\ worker[w].at = "next"
  /\ closed \/ cancelled
  /\ worker' = [worker EXCEPT ![w] = Idle("exited")]
  /\ UNCHANGED <<bufferVars, ready, readySet, inflight, closed, cancelled, attempts>>

Runnable(n) ==
  /\ ready[n] \in readySet
  /\ ready[n] \notin inflight
  /\ queues[ready[n]] # <<>>

NextPickUnmarked(w) ==   \* mutant: inflight is not set
  /\ worker[w].at = "next"
  /\ ~ (closed \/ cancelled)
  /\ \E n \in DOMAIN ready :
       /\ Runnable(n) /\ \A m \in 1..(n - 1) : ~ Runnable(m)
       /\ ready' = SubSeq(ready, n + 1, Len(ready))
       /\ readySet' = readySet \ {ready[m] : m \in 1..n}
       /\ worker' = [worker EXCEPT ![w] = [Idle("drain") EXCEPT !.key = ready[n]]]
  /\ UNCHANGED <<bufferVars, inflight, closed, cancelled, attempts>>

(* next() pops ready until it finds a key that has work. *)
NextPick(w) ==
  /\ worker[w].at = "next"
  /\ ~ (closed \/ cancelled)
  /\ \E n \in DOMAIN ready :
       /\ Runnable(n) /\ \A m \in 1..(n - 1) : ~ Runnable(m)
       /\ ready' = SubSeq(ready, n + 1, Len(ready))
       /\ readySet' = readySet \ {ready[m] : m \in 1..n}
       /\ inflight' = inflight \cup {ready[n]}
       /\ worker' = [worker EXCEPT ![w] = [Idle("drain") EXCEPT !.key = ready[n]]]
  /\ UNCHANGED <<bufferVars, closed, cancelled, attempts>>

NextWait(w) ==
  /\ worker[w].at = "next"
  /\ ~ (closed \/ cancelled)
  /\ \A n \in DOMAIN ready : ~ Runnable(n)
  /\ ready' = <<>>
  /\ readySet' = readySet \ {ready[n] : n \in DOMAIN ready}
  /\ worker' = [worker EXCEPT ![w].at = "waiting"]
  /\ UNCHANGED <<bufferVars, inflight, closed, cancelled, attempts>>

(* drain's loop condition fails, or there is nothing left to take. *)
DrainEnd(w) ==
  /\ worker[w].at = "drain"
  /\ \/ worker[w].burst >= MaxBurst
     \/ cancelled
     \/ queues[worker[w].key] = <<>>
  /\ worker' = [worker EXCEPT ![w].at = "release"]
  /\ UNCHANGED <<bufferVars, ready, readySet, inflight, closed, cancelled, attempts>>

(* takeBatch, first half: the config is read afresh and one item is taken. *)
TakeFirst(w) ==
  LET k == worker[w].key IN
  /\ worker[w].at = "drain"
  /\ worker[w].burst < MaxBurst
  /\ ~ cancelled
  /\ TakeReady(k, 1)
  /\ \E cfg \in Configs :
       worker' = [worker EXCEPT ![w].at = "linger", ![w].cfg = cfg,
                                ![w].batch = SubSeq(queues[k], 1, 1)]
  /\ UNCHANGED <<ready, readySet, inflight, closed, cancelled, attempts>>

FilledFront(w, n) ==   \* mutant: what came later goes first
  SubSeq(queues[worker[w].key], 1, n) \o worker[w].batch
(* The batch with the next n items of its partition. *)
Filled(w, n) == worker[w].batch \o SubSeq(queues[worker[w].key], 1, n)

(* takeBatch, second half: after the linger time the batch is filled up. *)
TakeRest(w) ==
  LET k    == worker[w].key
      rest == worker[w].cfg.batch - 1
  IN
  /\ worker[w].at = "linger"
  /\ IF rest > 0 /\ queues[k] # <<>>
     THEN /\ TakeReady(k, rest)
          /\ worker' = [worker EXCEPT ![w].at = "handle",
                          ![w].batch = Filled(w, AtMost(rest, k))]
     ELSE /\ worker' = [worker EXCEPT ![w].at = "handle"]
          /\ UNCHANGED bufferVars
  /\ UNCHANGED <<ready, readySet, inflight, closed, cancelled, attempts>>

AfterRoundUncounted(w, failed) ==   \* mutant: the burst is not counted
  IF failed = {} THEN [Idle("drain") EXCEPT !.key = worker[w].key]
  ELSE [worker[w] EXCEPT !.at = "retry", !.batch = <<>>, !.failed = failed,
                         !.round = @ + 1]
(* The worker after a handler round: what failed stays with it to be retried,
   when nothing failed the burst goes on. *)
AfterRound(w, failed) ==
  IF failed = {}
  THEN [worker[w] EXCEPT !.at = "drain", !.batch = <<>>, !.failed = {},
                         !.burst = @ + 1, !.round = 0, !.cfg = NoConfig]
  ELSE [worker[w] EXCEPT !.at = "retry", !.batch = <<>>, !.failed = failed,
                         !.round = @ + 1]

(* process: the first call gets the whole batch, any part of it may fail *)
Handle(w) ==
  /\ worker[w].at = "handle"
  /\ \E failed \in SUBSET Range(worker[w].batch) :
       worker' = [worker EXCEPT ![w] = AfterRound(w, failed)]
  /\ UNCHANGED <<bufferVars, ready, readySet, inflight, closed, cancelled, attempts>>

(* attempt > retries is where process gives up *)
MayRetry(w) == worker[w].round <= worker[w].cfg.retries

(* process: what failed is retried item by item *)
Retry(w) ==
  /\ worker[w].at = "retry"
  /\ MayRetry(w)
  /\ ~ cancelled
  /\ attempts' = [i \in Items |-> attempts[i] + IF i \in worker[w].failed THEN 1 ELSE 0]
  /\ \E failed \in SUBSET worker[w].failed :
       worker' = [worker EXCEPT ![w] = AfterRound(w, failed)]
  /\ UNCHANGED <<bufferVars, ready, readySet, inflight, closed, cancelled>>

(* process: retries used up, or the context is done *)
DeadLetter(w) ==
  /\ worker[w].at = "retry"
  /\ ~ MayRetry(w) \/ cancelled
  /\ worker' = [worker EXCEPT ![w] = AfterRound(w, {})]
  /\ UNCHANGED <<bufferVars, ready, readySet, inflight, closed, cancelled, attempts>>

ReleaseBlindly(w) ==   \* mutant: no look back at the queue
  /\ worker[w].at = "release"
  /\ inflight' = inflight \ {worker[w].key}
  /\ worker' = [worker EXCEPT ![w] = Idle("next")]
  /\ UNCHANGED <<bufferVars, ready, readySet, closed, cancelled, attempts>>

Release(w) ==
  LET k    == worker[w].key
      done == [worker EXCEPT ![w] = Idle("next")]
  IN
  /\ worker[w].at = "release"
  /\ inflight' = inflight \ {k}
  /\ IF ~ closed /\ queues[k] # <<>>
     THEN MarkReady(k, done)
     ELSE worker' = done /\ UNCHANGED <<ready, readySet>>
  /\ UNCHANGED <<bufferVars, closed, cancelled, attempts>>

-----------------------------------------------------------------------------
(* Shutdown *)

CloseBuffer ==
  /\ CloseMark \/ CloseDone
  /\ UNCHANGED <<poolVars, attempts>>

WakeNobody == worker   \* mutant: Close does not broadcast
(* cond.Broadcast: every sleeping worker looks again. *)
WakeAll == [w \in Workers |-> IF worker[w].at = "waiting"
                              THEN [worker[w] EXCEPT !.at = "next"] ELSE worker[w]]

Close ==
  /\ ~ closed
  /\ closed' = TRUE
  /\ worker' = WakeAll
  /\ UNCHANGED <<bufferVars, ready, readySet, inflight, cancelled, attempts>>

Cancel ==
  /\ ~ cancelled
  /\ cancelled' = TRUE
  /\ UNCHANGED <<bufferVars, ready, readySet, inflight, worker, closed, attempts>>

-----------------------------------------------------------------------------
WorkerStep(w) ==
  \/ NextExit(w) \/ NextPick(w) \/ NextWait(w)
  \/ DrainEnd(w) \/ TakeFirst(w) \/ TakeRest(w)
  \/ Handle(w) \/ Retry(w) \/ DeadLetter(w) \/ Release(w)

Next ==
  \/ \E i \in Items : Enqueue(i) \/ Submit(i)
  \/ Run
  \/ \E w \in Workers : WorkerStep(w)
  \/ CloseBuffer \/ Close \/ Cancel

Spec == Init /\ [][Next]_vars

(* Goroutines are scheduled, handlers return (every one of them runs under a
   timeout), Run is called.  Nobody has to send or to shut down. *)
Fairness ==
  /\ WF_vars(Run)
  /\ \A w \in Workers : WF_vars(WorkerStep(w))
  /\ \A i \in Items : WF_vars(Submit(i))

FairSpec == Spec /\ Fairness

-----------------------------------------------------------------------------
(* Properties *)

WorkerRecords ==
  [at : WorkerStates, key : Keys \cup {NoKey}, batch : Seq(Items),
   failed : SUBSET Items, burst : Nat, round : Nat,
   cfg : [batch : Nat \ {0}, retries : Nat]]

PoolTypeOK ==
  /\ ready \in Seq(Keys)
  /\ readySet \subseteq Keys
  /\ inflight \subseteq Keys
  /\ worker \in [Workers -> WorkerRecords]
  /\ closed \in BOOLEAN /\ cancelled \in BOOLEAN
  /\ attempts \in [Items -> Nat]

(* The state of buffer and pool is well formed; what drives a batch is the
   normalised configuration (a batch of at least one, no negative retries). *)
ConsumerTypeOK == BufferTypeOK /\ PoolTypeOK

(* No key is worked on by two goroutines, and inflight is exactly the set of
   keys being worked on (consumer.go 59-60: one account's messages in one
   group are processed serially). *)
SerialPerKey ==
  /\ \A v, w \in Workers :
       worker[v].at \in Holding /\ worker[w].at \in Holding
         /\ worker[v].key = worker[w].key => v = w
  /\ inflight = {worker[w].key : w \in {v \in Workers : worker[v].at \in Holding}}

(* The ready list and its index agree: no key is listed twice, none is
   indexed without being listed (it could never become ready again), and no
   key being worked on is listed (the second check in next() never hits). *)
ReadyIndexExact ==
  /\ readySet = Range(ready)
  /\ IsInjective(ready)
  /\ readySet \cap inflight = {}

(* A partition with items is never forgotten, whatever Put, Submit, next and
   release interleave: it is listed, it is held by a worker, or a caller that
   has stored an item is still on its way to Submit. *)
NoForgottenKey ==
  \A k \in Keys :
    queues[k] # <<>> =>
      \/ k \in readySet
      \/ k \in inflight
      \/ \E i \in Items : KeyOf[i] = k /\ call[i] = "stored"
      \/ closed

(* No lost signal: as long as a goroutine sleeps in next(), every listed key
   has an awake goroutine of its own coming for it.  (A cancelled context
   wakes nobody: a pool that is cancelled and never closed keeps sleeping,
   which is why Bot.Run closes the consumers before it waits for them.) *)
WorkConserving ==
  ~ cancelled /\ (\E w \in Workers : worker[w].at = "waiting") =>
     Len(ready) <= Cardinality({w \in Workers : worker[w].at = "next"})

(* The goroutine that works on k. *)
Holder(k) == CHOOSE w \in Workers : worker[w].at \in Holding /\ worker[w].key = k

Phase(at) == CASE at \in {"linger", "handle"} -> "collecting"
               [] at = "retry"               -> "retrying"
               [] OTHER                      -> "free"

(* What the partitions are doing, read off the goroutines that hold them. *)
BatchOf  == [k \in Keys |-> IF k \in inflight THEN worker[Holder(k)].batch ELSE <<>>]
FailedOf == [k \in Keys |-> IF k \in inflight THEN worker[Holder(k)].failed ELSE {}]
PhaseOf  == [k \in Keys |-> IF k \in inflight THEN Phase(worker[Holder(k)].at) ELSE "free"]

(* The pool implements the handler's contract. *)
Partitions == INSTANCE SerialPartitions WITH
  waiting <- queues, batch <- BatchOf, failed <- FailedOf, phase <- PhaseOf
HandlerContract == Partitions!Spec

Down == closed \/ cancelled

(* Nothing that was accepted waits for ever while the pool is up, also when
   another key never runs dry (maxBurstPerTurn: a worker makes room). *)
EveryItemServed ==
  \A i \in Items : Buffered(i) ~> (~ Buffered(i) \/ Down)

(* Close ends every goroutine of a started pool: Wait returns. *)
CloseEndsPool ==
  closed ~> \A w \in Workers : worker[w].at = "exited"
=============================================================================

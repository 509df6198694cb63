--------------------------- MODULE ConsumerProofs ---------------------------
(* Theorems about Consumer, for every number of keys, items and workers,
   every configuration and every burst limit: PoolInv and the properties of
   the ready list and the keys in flight; WorkInv, that no signal is lost;
   ContractInv and the refinement of SerialPartitions. *)
EXTENDS Consumer, MemoryBufferProofs

(* What the pool's records satisfy besides their types. *)
HoldInv == \A w \in Workers :
  /\ worker[w].at \in Holding => worker[w].key \in Keys
  /\ worker[w].cfg \in Configs \cup {NoConfig}

(* The inductive invariant: mutual exclusion needs inflight to be exact, the
   exactness of inflight needs the ready list to be free of keys in flight, and
   no key is forgotten only because both are exact. *)
PoolInv ==
  /\ PoolTypeOK
  /\ HoldInv
  /\ SerialPerKey
  /\ ReadyIndexExact
  /\ NoForgottenKey

LEMMA ConfigTypes ==
  /\ Configs \subseteq [batch : Nat \ {0}, retries : Nat]
  /\ NoConfig \in [batch : Nat \ {0}, retries : Nat]
  BY ConsumerAssumption DEF Configs, NoConfig, Normalise

(* A goroutine with nothing in its hands. *)
LEMMA IdleFacts ==
  ASSUME NEW at \in WorkerStates
  PROVE  /\ Idle(at) \in WorkerRecords /\ Idle(at).at = at
         /\ Idle(at).cfg \in Configs \cup {NoConfig}
  BY ConfigTypes DEF Idle, WorkerRecords

-----------------------------------------------------------------------------
(* Every step of the pool is a step of its buffer or leaves it alone. *)
LEMMA BufferStep ==
  ASSUME HoldInv, [Next]_vars
  PROVE  [BufferNext]_bufferVars
<1>1. ASSUME NEW i \in Items, Enqueue(i) PROVE BufferNext
  BY <1>1 DEF Enqueue, BufferNext, PutStep
<1>2. ASSUME NEW i \in Items, Submit(i) PROVE BufferNext
  BY <1>2 DEF Submit, BufferNext, PutStep
<1>3. ASSUME NEW w \in Workers, WorkerStep(w) PROVE [BufferNext]_bufferVars
  <2>1. CASE TakeFirst(w)
    <3>1. worker[w].key \in Keys /\ 1 \in Maxes
      BY <2>1, MaxesCoverBatches DEF TakeFirst, HoldInv, Holding
    <3>2. TakeReady(worker[w].key, 1)
      BY <2>1 DEF TakeFirst
    <3> QED
      BY <3>1, <3>2 DEF BufferNext
  <2>2. CASE TakeRest(w)
    <3> DEFINE rest == worker[w].cfg.batch - 1
    <3>1. CASE rest > 0 /\ queues[worker[w].key] # <<>>
      <4>1. worker[w].key \in Keys /\ worker[w].cfg \in Configs \cup {NoConfig}
        BY <2>2 DEF TakeRest, HoldInv, Holding
      <4>2. NoConfig.batch = 1
        BY DEF NoConfig, Normalise
      <4>3. worker[w].cfg.batch \in Nat
        BY <4>1, ConfigTypes
      <4>4. rest \in Maxes
        BY <3>1, <4>1, <4>2, <4>3, MaxesCoverBatches
      <4>5. TakeReady(worker[w].key, rest)
        BY <2>2, <3>1 DEF TakeRest
      <4> QED
        BY <4>1, <4>4, <4>5 DEF BufferNext
    <3>2. CASE ~ (rest > 0 /\ queues[worker[w].key] # <<>>)
      BY <2>2, <3>2 DEF TakeRest
    <3> QED
      BY <3>1, <3>2
  <2>3. CASE \/ NextExit(w) \/ NextPick(w) \/ NextWait(w) \/ DrainEnd(w)
             \/ Handle(w) \/ Retry(w) \/ DeadLetter(w) \/ Release(w)
    BY <2>3 DEF NextExit, NextPick, NextWait, DrainEnd, Handle, Retry, DeadLetter, Release
  <2> QED
    BY <1>3, <2>1, <2>2, <2>3 DEF WorkerStep
<1>4. CASE Run \/ Close \/ Cancel \/ UNCHANGED vars
  BY <1>4 DEF Run, Close, Cancel, vars
<1>5. CASE CloseBuffer
  BY <1>5 DEF CloseBuffer, BufferNext
<1> QED
  BY <1>1, <1>2, <1>3, <1>4, <1>5 DEF Next

-----------------------------------------------------------------------------
LEMMA PoolInit == Init => PoolInv
<1> SUFFICES ASSUME Init PROVE PoolInv
  OBVIOUS
<1>1. PoolTypeOK
  <2>1. worker \in [Workers -> WorkerRecords]
    BY IdleFacts DEF Init, WorkerStates
  <2>2. ready \in Seq(Keys) /\ attempts \in [Items -> Nat]
    BY DEF Init
  <2>3. readySet \subseteq Keys /\ inflight \subseteq Keys
    BY DEF Init
  <2>4. closed \in BOOLEAN /\ cancelled \in BOOLEAN
    BY DEF Init
  <2> QED
    BY <2>1, <2>2, <2>3, <2>4 DEF PoolTypeOK
<1>2. HoldInv /\ SerialPerKey
  BY DEF Init, HoldInv, SerialPerKey, Idle, Holding
<1>3. ReadyIndexExact
  BY DEF Init, ReadyIndexExact, Range, IsInjective
<1>4. NoForgottenKey
  BY DEF Init, BufferInit, NoForgottenKey
<1> QED
  BY <1>1, <1>2, <1>3, <1>4 DEF PoolInv

(* A worker that holds a key goes on working on it. *)
LEMMA KeepWorking ==
  ASSUME PoolInv, NEW w \in Workers, worker[w].at \in Holding,
         NEW r \in WorkerRecords,
         r.at \in Holding, r.key = worker[w].key, r.cfg \in Configs \cup {NoConfig},
         worker' = [worker EXCEPT ![w] = r],
         attempts' \in [Items -> Nat],
         UNCHANGED <<ready, readySet, inflight, closed, cancelled>>,
         \A k \in Keys : queues'[k] = queues[k] \/ k = r.key,
         \A i \in Items : call[i] = "stored" => call'[i] = "stored"
  PROVE  PoolInv'
<1>1. PoolTypeOK /\ HoldInv /\ SerialPerKey /\ ReadyIndexExact /\ NoForgottenKey
  BY DEF PoolInv
<1>2. PoolTypeOK'
  BY <1>1 DEF PoolTypeOK
<1>3. \A v \in Workers : worker'[v].at \in Holding <=> worker[v].at \in Holding
  BY <1>1 DEF PoolTypeOK
<1>4. \A v \in Workers : worker'[v].key = worker[v].key
  BY <1>1 DEF PoolTypeOK
<1>5. HoldInv'
  BY <1>1, <1>3, <1>4 DEF HoldInv, PoolTypeOK
<1>6. SerialPerKey'
  BY <1>1, <1>3, <1>4 DEF SerialPerKey
<1>7. ReadyIndexExact'
  BY <1>1 DEF ReadyIndexExact
<1>8. r.key \in inflight
  BY <1>1 DEF SerialPerKey
<1>9. NoForgottenKey'
  BY <1>1, <1>8 DEF NoForgottenKey
<1> QED
  BY <1>2, <1>5, <1>6, <1>7, <1>9 DEF PoolInv

(* A worker between two keys changes its state; nothing else of the pool
   changes but closed and cancelled, which only grow. *)
LEMMA StayOutside ==
  ASSUME PoolInv,
         worker' \in [Workers -> WorkerRecords],
         \A v \in Workers : worker'[v] = worker[v]
             \/ (/\ worker[v].at \notin Holding /\ worker'[v].at \notin Holding
                 /\ worker'[v].cfg \in Configs \cup {NoConfig}),
         UNCHANGED <<ready, readySet, inflight, attempts>>,
         closed' \in BOOLEAN, cancelled' \in BOOLEAN, closed => closed',
         \A k \in Keys : queues'[k] = queues[k],
         \A i \in Items : call[i] = "stored" => call'[i] = "stored"
  PROVE  PoolInv'
<1>1. PoolTypeOK /\ HoldInv /\ SerialPerKey /\ ReadyIndexExact /\ NoForgottenKey
  BY DEF PoolInv
<1>2. PoolTypeOK'
  BY <1>1 DEF PoolTypeOK
<1>3. HoldInv'
  BY <1>1 DEF HoldInv
<1>4. \A v \in Workers : /\ worker'[v].at \in Holding <=> worker[v].at \in Holding
                         /\ worker[v].at \in Holding => worker'[v].key = worker[v].key
  OBVIOUS
<1>5. SerialPerKey'
  BY <1>1, <1>4 DEF SerialPerKey
<1>6. ReadyIndexExact' /\ NoForgottenKey'
  BY <1>1 DEF ReadyIndexExact, NoForgottenKey
<1> QED
  BY <1>2, <1>3, <1>5, <1>6 DEF PoolInv

-----------------------------------------------------------------------------
(* A signal wakes at most one sleeper and changes nothing else. *)
LEMMA SignalFacts ==
  ASSUME NEW ws \in [Workers -> WorkerRecords], NEW ws2 \in Signalled(ws)
  PROVE  /\ ws2 \in [Workers -> WorkerRecords]
         /\ \A v \in Workers : \/ ws2[v] = ws[v]
                               \/ ws[v].at = "waiting" /\ ws2[v] = [ws[v] EXCEPT !.at = "next"]
<1>1. CASE {w \in Workers : ws[w].at = "waiting"} = {}
  BY <1>1 DEF Signalled
<1>2. CASE {w \in Workers : ws[w].at = "waiting"} # {}
  <2>1. PICK w \in Workers : ws[w].at = "waiting" /\ ws2 = [ws EXCEPT ![w].at = "next"]
    BY <1>2 DEF Signalled
  <2>2. [ws[w] EXCEPT !.at = "next"] \in WorkerRecords
    BY DEF WorkerRecords, WorkerStates
  <2> QED
    BY <2>1, <2>2
<1> QED
  BY <1>1, <1>2

(* Listing a key that no worker holds keeps the list and its index exact. *)
LEMMA MarkReadyFacts ==
  ASSUME ready \in Seq(Keys), readySet \subseteq Keys, readySet = Range(ready),
         IsInjective(ready), NEW k \in Keys,
         NEW ws \in [Workers -> WorkerRecords], MarkReady(k, ws)
  PROVE  /\ ready' \in Seq(Keys)
         /\ readySet' = readySet \cup {k}
         /\ readySet' = Range(ready)'
         /\ IsInjective(ready)'
         /\ worker' \in Signalled(ws)
<1>1. CASE k \in readySet
  BY <1>1 DEF MarkReady
<1>2. CASE k \notin readySet
  <2>1. ready' = Append(ready, k) /\ readySet' = readySet \cup {k}
    BY <1>2 DEF MarkReady
  <2>2. /\ DOMAIN ready' = 1..(Len(ready) + 1) /\ DOMAIN ready = 1..Len(ready)
        /\ Len(ready) \in Nat
        /\ \A n \in 1..(Len(ready) + 1) : ready'[n] = IF n = Len(ready) + 1 THEN k ELSE ready[n]
    BY <2>1
  <2>3. readySet' = Range(ready)'
    <3>1. \A x : x \in Range(ready)' <=> \E n \in 1..(Len(ready) + 1) : ready'[n] = x
      BY <2>2 DEF Range
    <3>2. \A x : x \in Range(ready) <=> \E n \in 1..Len(ready) : ready[n] = x
      BY <2>2 DEF Range
    <3>3. ASSUME NEW x, x \in Range(ready)' PROVE x \in readySet'
      BY <2>1, <2>2, <3>1, <3>2, <3>3
    <3>4. ASSUME NEW x, x \in readySet' PROVE x \in Range(ready)'
      BY <2>1, <2>2, <3>1, <3>2, <3>4
    <3> QED
      BY <3>3, <3>4
  <2>4. \A n \in 1..Len(ready) : ready[n] # k
    BY <1>2, <2>2 DEF Range
  <2>5. IsInjective(ready)'
    BY <2>2, <2>4 DEF IsInjective
  <2> QED
    BY <2>1, <2>3, <2>5 DEF MarkReady
<1> QED
  BY <1>1, <1>2

-----------------------------------------------------------------------------
(* Callers *)

LEMMA EnqueueInv ==
  ASSUME PoolInv, BufferTypeOK, NEW i \in Items, Enqueue(i)
  PROVE  PoolInv'
<1>1. PoolTypeOK /\ HoldInv /\ SerialPerKey /\ ReadyIndexExact /\ NoForgottenKey
  BY DEF PoolInv
<1>2. UNCHANGED poolVars
  BY DEF Enqueue
<1>3. attempts' \in [Items -> Nat]
  BY <1>1 DEF Enqueue, PoolTypeOK
<1>4. PoolTypeOK' /\ HoldInv' /\ SerialPerKey' /\ ReadyIndexExact'
  BY <1>1, <1>2, <1>3 DEF poolVars, PoolTypeOK, HoldInv, SerialPerKey, ReadyIndexExact
<1>5. \A j \in Items : call[j] = "stored" => call'[j] = "stored"
  BY DEF Enqueue, BeginPut, PutStore, PutPark, PutClosed, PutCancel, BufferTypeOK
<1>6. \A k \in Keys : \/ queues'[k] = queues[k]
                      \/ k = KeyOf[i] /\ call'[i] = "stored"
  BY DEF Enqueue, BeginPut, PutStore, PutPark, PutClosed, PutCancel, BufferTypeOK
<1>7. NoForgottenKey'
  BY <1>1, <1>2, <1>5, <1>6 DEF NoForgottenKey, poolVars
<1> QED
  BY <1>4, <1>7 DEF PoolInv

LEMMA SubmitInv ==
  ASSUME PoolInv, BufferTypeOK, NEW i \in Items, Submit(i)
  PROVE  PoolInv'
<1> DEFINE k == KeyOf[i]
<1>1. PoolTypeOK /\ HoldInv /\ SerialPerKey /\ ReadyIndexExact /\ NoForgottenKey
  BY DEF PoolInv
<1>2. k \in Keys
  BY KeyOfAssumption
<1>3. /\ UNCHANGED <<queues, inflight, closed, cancelled, attempts>>
      /\ \A j \in Items : call[j] = "stored" => call'[j] = "stored" \/ j = i
  BY DEF Submit, PutReturn, BufferTypeOK
<1>4. CASE closed \/ k \in inflight
  <2>1. UNCHANGED <<ready, readySet, worker>>
    BY <1>4 DEF Submit
  <2>2. PoolTypeOK' /\ HoldInv' /\ SerialPerKey' /\ ReadyIndexExact'
    BY <1>1, <1>3, <2>1 DEF PoolTypeOK, HoldInv, SerialPerKey, ReadyIndexExact
  <2>3. NoForgottenKey'
    BY <1>1, <1>3, <1>4, <2>1 DEF NoForgottenKey
  <2> QED
    BY <2>2, <2>3 DEF PoolInv
<1>5. CASE ~ (closed \/ k \in inflight)
  <2>1. MarkReady(k, worker)
    BY <1>5 DEF Submit
  <2>2. worker \in [Workers -> WorkerRecords]
    BY <1>1 DEF PoolTypeOK
  <2>3. /\ ready' \in Seq(Keys) /\ readySet' = readySet \cup {k}
        /\ readySet' = Range(ready)' /\ IsInjective(ready)'
        /\ worker' \in Signalled(worker)
    BY <1>1, <1>2, <2>1, <2>2, MarkReadyFacts DEF PoolTypeOK, ReadyIndexExact
  <2>4. /\ worker' \in [Workers -> WorkerRecords]
        /\ \A v \in Workers :
              \/ worker'[v] = worker[v]
              \/ worker[v].at = "waiting" /\ worker'[v] = [worker[v] EXCEPT !.at = "next"]
    BY <2>2, <2>3, SignalFacts
  <2>5. PoolTypeOK'
    BY <1>1, <1>2, <1>3, <2>3, <2>4 DEF PoolTypeOK
  <2>6. \A v \in Workers : /\ worker'[v].at \in Holding <=> worker[v].at \in Holding
                           /\ worker'[v].key = worker[v].key
                           /\ worker'[v].cfg = worker[v].cfg
    BY <2>2, <2>4 DEF Holding, WorkerRecords
  <2>7. HoldInv' /\ SerialPerKey'
    BY <1>1, <1>3, <2>6 DEF HoldInv, SerialPerKey
  <2>8. ReadyIndexExact'
    BY <1>1, <1>3, <1>5, <2>3 DEF ReadyIndexExact
  <2>9. NoForgottenKey'
    BY <1>1, <1>3, <2>3 DEF NoForgottenKey
  <2> QED
    BY <2>5, <2>7, <2>8, <2>9 DEF PoolInv
<1> QED
  BY <1>4, <1>5

-----------------------------------------------------------------------------
(* next() *)

LEMMA RunInv ==
  ASSUME PoolInv, Run PROVE PoolInv'
<1>1. PoolTypeOK
  BY DEF PoolInv
<1>2. Idle("next") \in WorkerRecords /\ Idle("next").at = "next"
      /\ Idle("next").cfg \in Configs \cup {NoConfig}
  BY IdleFacts DEF WorkerStates
<1>3. worker' = [w \in Workers |-> Idle("next")]
  BY DEF Run
<1>4. worker' \in [Workers -> WorkerRecords]
  BY <1>2, <1>3
<1>5. \A v \in Workers : /\ worker[v].at \notin Holding /\ worker'[v].at \notin Holding
                         /\ worker'[v].cfg \in Configs \cup {NoConfig}
  BY <1>2, <1>3 DEF Run, Holding
<1>6. UNCHANGED <<ready, readySet, inflight, attempts, closed, cancelled, queues, call>>
  BY DEF Run, bufferVars
<1> QED
  BY <1>1, <1>4, <1>5, <1>6, StayOutside DEF PoolTypeOK

LEMMA NextExitInv ==
  ASSUME PoolInv, NEW w \in Workers, NextExit(w) PROVE PoolInv'
<1>1. PoolTypeOK
  BY DEF PoolInv
<1>2. Idle("exited") \in WorkerRecords /\ Idle("exited").at = "exited"
      /\ Idle("exited").cfg \in Configs \cup {NoConfig}
  BY IdleFacts DEF WorkerStates
<1>3. worker' = [worker EXCEPT ![w] = Idle("exited")] /\ worker[w].at = "next"
  BY DEF NextExit
<1>4. worker' \in [Workers -> WorkerRecords]
  BY <1>1, <1>2, <1>3 DEF PoolTypeOK
<1>5. \A v \in Workers : worker'[v] = worker[v]
        \/ (/\ worker[v].at \notin Holding /\ worker'[v].at \notin Holding
            /\ worker'[v].cfg \in Configs \cup {NoConfig})
  BY <1>1, <1>2, <1>3 DEF Holding, PoolTypeOK
<1>6. UNCHANGED <<ready, readySet, inflight, attempts, closed, cancelled, queues, call>>
  BY DEF NextExit, bufferVars
<1> QED
  BY <1>1, <1>4, <1>5, <1>6, StayOutside DEF PoolTypeOK

LEMMA NextPickInv ==
  ASSUME PoolInv, BufferTypeOK, NEW w \in Workers, NextPick(w) PROVE PoolInv'
<1>1. PoolTypeOK /\ HoldInv /\ SerialPerKey /\ ReadyIndexExact /\ NoForgottenKey
  BY DEF PoolInv
<1>2. PICK n \in DOMAIN ready :
        /\ Runnable(n) /\ \A m \in 1..(n - 1) : ~ Runnable(m)
        /\ ready' = SubSeq(ready, n + 1, Len(ready))
        /\ readySet' = readySet \ {ready[m] : m \in 1..n}
        /\ inflight' = inflight \cup {ready[n]}
        /\ worker' = [worker EXCEPT ![w] = [Idle("drain") EXCEPT !.key = ready[n]]]
  BY DEF NextPick
<1> DEFINE k == ready[n]
           r == [Idle("drain") EXCEPT !.key = k]
<1>3. /\ ready \in Seq(Keys) /\ DOMAIN ready = 1..Len(ready) /\ Len(ready) \in Nat
      /\ n \in 1..Len(ready) /\ k \in Keys
  BY <1>1, <1>2 DEF PoolTypeOK
<1>4. UNCHANGED <<queues, call, closed, cancelled, attempts>> /\ worker[w].at = "next"
  BY DEF NextPick, bufferVars
<1>5. r \in WorkerRecords /\ r.at = "drain" /\ r.key = k /\ r.cfg \in Configs \cup {NoConfig}
  BY <1>3, IdleFacts DEF WorkerStates, WorkerRecords
<1>6. worker' = [worker EXCEPT ![w] = r] /\ worker \in [Workers -> WorkerRecords]
  BY <1>1, <1>2 DEF PoolTypeOK
<1> HIDE DEF r
<1>7. k \notin inflight
  BY <1>2 DEF Runnable
<1>8. /\ ready' \in Seq(Keys) /\ DOMAIN ready' = 1..(Len(ready) - n)
      /\ \A m \in 1..(Len(ready) - n) : ready'[m] = ready[m + n]
  BY <1>2, <1>3
<1>9. PoolTypeOK'
  BY <1>1, <1>2, <1>3, <1>4, <1>5, <1>6, <1>8 DEF PoolTypeOK
<1>10. HoldInv'
  BY <1>1, <1>3, <1>5, <1>6 DEF HoldInv
<1>11. SerialPerKey'
  <2>1. \A v \in Workers : worker[v].at \in Holding => worker[v].key \in inflight
    BY <1>1 DEF SerialPerKey
  <2>2. worker'[w].at \in Holding /\ worker'[w].key = k /\ worker[w].at \notin Holding
    BY <1>4, <1>5, <1>6 DEF Holding
  <2>3. \A v \in Workers \ {w} : worker'[v] = worker[v]
    BY <1>6
  <2>4. ASSUME NEW u \in Workers, NEW v \in Workers,
               worker'[u].at \in Holding, worker'[v].at \in Holding,
               worker'[u].key = worker'[v].key
        PROVE  u = v
    BY <1>1, <1>7, <2>1, <2>2, <2>3, <2>4 DEF SerialPerKey
  <2>5. inflight' = {worker'[v].key : v \in {u \in Workers : worker'[u].at \in Holding}}
    BY <1>1, <1>2, <2>1, <2>2, <2>3 DEF SerialPerKey
  <2> QED
    BY <2>4, <2>5 DEF SerialPerKey
<1>12. ReadyIndexExact'
  <2>1. readySet = {ready[m] : m \in 1..Len(ready)}
    BY <1>1, <1>3 DEF ReadyIndexExact, Range
  <2>2. \A a, b \in 1..Len(ready) : ready[a] = ready[b] => a = b
    BY <1>1, <1>3 DEF ReadyIndexExact, IsInjective
  <2>3. IsInjective(ready)'
    BY <1>3, <1>8, <2>2 DEF IsInjective
  <2>4. Range(ready)' = {ready[m + n] : m \in 1..(Len(ready) - n)}
    BY <1>8 DEF Range
  <2>5. ASSUME NEW x \in readySet' PROVE x \in Range(ready)'
    <3>1. PICK m \in 1..Len(ready) : ready[m] = x /\ m \notin 1..n
      BY <1>2, <2>1, <2>5
    <3>2. m - n \in 1..(Len(ready) - n) /\ (m - n) + n = m
      BY <1>3, <3>1
    <3> QED
      BY <2>4, <3>1, <3>2
  <2>6. ASSUME NEW x \in Range(ready)' PROVE x \in readySet'
    <3>1. PICK m \in 1..(Len(ready) - n) : ready[m + n] = x
      BY <2>4, <2>6
    <3>2. m + n \in 1..Len(ready) /\ m + n \notin 1..n
      BY <1>3, <3>1
    <3>3. x \in readySet
      BY <2>1, <3>1, <3>2
    <3>4. ASSUME NEW b \in 1..n PROVE ready[b] # x
      BY <1>3, <2>2, <3>1, <3>2
    <3> QED
      BY <1>2, <3>3, <3>4
  <2>7. k \notin readySet'
    BY <1>2, <1>3
  <2>8. readySet' \cap inflight' = {}
    BY <1>1, <1>2, <2>7 DEF ReadyIndexExact
  <2> QED
    BY <2>3, <2>5, <2>6, <2>8 DEF ReadyIndexExact
<1>13. NoForgottenKey'
  <2>1. ASSUME NEW j \in Keys, j \in readySet, j \notin readySet', queues[j] # <<>>
        PROVE  j \in inflight'
    <3>1. PICK m \in 1..n : ready[m] = j
      BY <1>2, <2>1
    <3>2. CASE m = n
      BY <1>2, <3>1, <3>2
    <3>3. CASE m # n
      <4>1. m \in 1..(n - 1)
        BY <1>3, <3>3
      <4>2. ~ Runnable(m)
        BY <1>2, <4>1
      <4> QED
        BY <1>2, <2>1, <3>1, <4>2 DEF Runnable
    <3> QED
      BY <3>2, <3>3
  <2> QED
    BY <1>1, <1>2, <1>4, <2>1 DEF NoForgottenKey
<1> QED
  BY <1>9, <1>10, <1>11, <1>12, <1>13 DEF PoolInv

LEMMA NextWaitInv ==
  ASSUME PoolInv, BufferTypeOK, NEW w \in Workers, NextWait(w) PROVE PoolInv'
<1>1. PoolTypeOK /\ HoldInv /\ SerialPerKey /\ ReadyIndexExact /\ NoForgottenKey
  BY DEF PoolInv
<1>2. /\ worker[w].at = "next" /\ worker' = [worker EXCEPT ![w].at = "waiting"]
      /\ ready' = <<>> /\ readySet' = {}
      /\ UNCHANGED <<queues, call, inflight, closed, cancelled, attempts>>
  BY <1>1 DEF NextWait, bufferVars, ReadyIndexExact, Range
<1>3. [worker[w] EXCEPT !.at = "waiting"] \in WorkerRecords
  BY <1>1 DEF PoolTypeOK, WorkerRecords, WorkerStates
<1>4. PoolTypeOK'
  BY <1>1, <1>2, <1>3 DEF PoolTypeOK
<1>5. \A v \in Workers : /\ worker'[v].at \in Holding <=> worker[v].at \in Holding
                         /\ worker'[v].key = worker[v].key
                         /\ worker'[v].cfg = worker[v].cfg
  BY <1>1, <1>2 DEF PoolTypeOK, Holding, WorkerRecords
<1>6. HoldInv' /\ SerialPerKey'
  BY <1>1, <1>2, <1>5 DEF HoldInv, SerialPerKey
<1>7. ReadyIndexExact'
  BY <1>2 DEF ReadyIndexExact, Range, IsInjective
<1>8. NoForgottenKey'
  <2>1. ASSUME NEW j \in Keys, j \in readySet, queues[j] # <<>> PROVE FALSE
    <3>1. PICK n \in DOMAIN ready : ready[n] = j
      BY <1>1, <2>1 DEF ReadyIndexExact, Range
    <3>2. ~ Runnable(n)
      BY DEF NextWait
    <3> QED
      BY <1>1, <2>1, <3>1, <3>2 DEF Runnable, ReadyIndexExact
  <2> QED
    BY <1>1, <1>2, <2>1 DEF NoForgottenKey
<1> QED
  BY <1>4, <1>6, <1>7, <1>8 DEF PoolInv

-----------------------------------------------------------------------------
(* drain, takeBatch, process: the worker keeps its key *)

LEMMA AfterRoundFacts ==
  ASSUME PoolInv, NEW w \in Workers, worker[w].at \in Holding, NEW failed \in SUBSET Items
  PROVE  /\ AfterRound(w, failed) \in WorkerRecords
         /\ AfterRound(w, failed).at \in Holding
         /\ AfterRound(w, failed).key = worker[w].key
         /\ AfterRound(w, failed).cfg \in Configs \cup {NoConfig}
<1>1. worker[w] \in WorkerRecords /\ worker[w].cfg \in Configs \cup {NoConfig}
  BY DEF PoolInv, PoolTypeOK, HoldInv
<1>2. CASE failed = {}
  <2>1. AfterRound(w, failed) =
          [worker[w] EXCEPT !.at = "drain", !.batch = <<>>, !.failed = {},
                            !.burst = @ + 1, !.round = 0, !.cfg = NoConfig]
    BY <1>2 DEF AfterRound
  <2>2. worker[w].burst + 1 \in Nat /\ <<>> \in Seq(Items) /\ {} \in SUBSET Items
    BY <1>1 DEF WorkerRecords
  <2>3. AfterRound(w, failed) \in WorkerRecords
    <3>1. AfterRound(w, failed) =
            [at |-> "drain", key |-> worker[w].key, batch |-> <<>>, failed |-> {},
             burst |-> worker[w].burst + 1, round |-> 0, cfg |-> NoConfig]
      BY <1>1, <2>1 DEF WorkerRecords
    <3>2. NoConfig \in [batch : Nat \ {0}, retries : Nat]
      BY ConfigTypes
    <3>3. worker[w].key \in Keys \cup {NoKey}
      BY <1>1 DEF WorkerRecords
    <3> QED
      BY <2>2, <3>1, <3>2, <3>3 DEF WorkerRecords, WorkerStates
  <2>4. /\ AfterRound(w, failed).at = "drain"
        /\ AfterRound(w, failed).key = worker[w].key
        /\ AfterRound(w, failed).cfg = NoConfig
    BY <1>1, <2>1 DEF WorkerRecords
  <2> QED
    BY <2>3, <2>4 DEF Holding
<1>3. CASE failed # {}
  <2>1. AfterRound(w, failed) =
          [worker[w] EXCEPT !.at = "retry", !.batch = <<>>, !.failed = failed,
                            !.round = @ + 1]
    BY <1>3 DEF AfterRound
  <2>2. worker[w].round + 1 \in Nat /\ <<>> \in Seq(Items)
    BY <1>1 DEF WorkerRecords
  <2>3. AfterRound(w, failed) \in WorkerRecords
    BY <1>1, <2>1, <2>2 DEF WorkerRecords, WorkerStates
  <2>4. /\ AfterRound(w, failed).at = "retry"
        /\ AfterRound(w, failed).key = worker[w].key
        /\ AfterRound(w, failed).cfg = worker[w].cfg
    BY <1>1, <2>1 DEF WorkerRecords
  <2> QED
    BY <1>1, <2>3, <2>4 DEF Holding
<1> QED
  BY <1>2, <1>3

LEMMA ProcessInv ==
  ASSUME PoolInv, NEW w \in Workers, Handle(w) \/ Retry(w) \/ DeadLetter(w)
  PROVE  PoolInv'
<1>1. worker \in [Workers -> WorkerRecords] /\ attempts \in [Items -> Nat]
  BY DEF PoolInv, PoolTypeOK
<1>2. worker[w].at \in Holding
  BY DEF Handle, Retry, DeadLetter, Holding
<1>3. Range(worker[w].batch) \subseteq Items /\ worker[w].failed \subseteq Items
  BY <1>1 DEF WorkerRecords, Range
<1>4. PICK failed \in SUBSET Items : worker' = [worker EXCEPT ![w] = AfterRound(w, failed)]
  BY <1>3 DEF Handle, Retry, DeadLetter
<1>5. attempts' \in [Items -> Nat]
  BY <1>1 DEF Handle, Retry, DeadLetter
<1>6. UNCHANGED <<ready, readySet, inflight, closed, cancelled, queues, call>>
  BY DEF Handle, Retry, DeadLetter, bufferVars
<1> DEFINE r == AfterRound(w, failed)
<1>7. /\ r \in WorkerRecords /\ r.at \in Holding /\ r.key = worker[w].key
      /\ r.cfg \in Configs \cup {NoConfig}
  BY <1>2, AfterRoundFacts
<1> HIDE DEF r
<1>8. worker' = [worker EXCEPT ![w] = r]
  BY <1>4 DEF r
<1> QED
  BY <1>2, <1>5, <1>6, <1>7, <1>8, KeepWorking

LEMMA DrainEndInv ==
  ASSUME PoolInv, NEW w \in Workers, DrainEnd(w) PROVE PoolInv'
<1>1. worker \in [Workers -> WorkerRecords] /\ attempts \in [Items -> Nat]
      /\ worker[w].cfg \in Configs \cup {NoConfig}
  BY DEF PoolInv, PoolTypeOK, HoldInv
<1> DEFINE r == [worker[w] EXCEPT !.at = "release"]
<1>2. /\ r \in WorkerRecords /\ r.at \in Holding /\ r.key = worker[w].key
      /\ r.cfg \in Configs \cup {NoConfig} /\ worker[w].at \in Holding
  BY <1>1 DEF DrainEnd, WorkerRecords, WorkerStates, Holding
<1>3. worker' = [worker EXCEPT ![w] = r]
  BY DEF DrainEnd
<1>4. UNCHANGED <<ready, readySet, inflight, closed, cancelled, queues, call, attempts>>
  BY DEF DrainEnd, bufferVars
<1> HIDE DEF r
<1> QED
  BY <1>1, <1>2, <1>3, <1>4, KeepWorking

(* A removal leaves the other partitions and the stored calls alone. *)
LEMMA TakeReadyFacts ==
  ASSUME BufferTypeOK, NEW k \in Keys, NEW max \in Int, TakeReady(k, max)
  PROVE  /\ \A j \in Keys : queues'[j] = queues[j] \/ j = k
         /\ \A i \in Items : call[i] = "stored" => call'[i] = "stored"
         /\ AtMost(max, k) \in 1..Len(queues[k])
<1>1. AtMost(max, k) \in 1..Len(queues[k])
  BY AtMostBounds DEF TakeReady
<1>2. \A j \in Keys : queues'[j] = queues[j] \/ j = k
  BY DEF TakeReady, Dequeue, BufferTypeOK
<1>3. \A i \in Items : call[i] = "stored" => call'[i] = "stored"
  BY DEF TakeReady, Dequeue, WakePutters
<1> QED
  BY <1>1, <1>2, <1>3

LEMMA TakeFirstInv ==
  ASSUME PoolInv, BufferTypeOK, NEW w \in Workers, TakeFirst(w) PROVE PoolInv'
<1> DEFINE k == worker[w].key
<1>1. worker \in [Workers -> WorkerRecords] /\ attempts \in [Items -> Nat]
      /\ worker[w].at \in Holding /\ k \in Keys
  BY DEF PoolInv, PoolTypeOK, HoldInv, TakeFirst, Holding
<1>2. TakeReady(k, 1) /\ queues[k] \in Seq(Items) /\ queues[k] # <<>>
  BY <1>1 DEF TakeFirst, TakeReady, BufferTypeOK
<1>3. PICK cfg \in Configs :
        worker' = [worker EXCEPT ![w].at = "linger", ![w].cfg = cfg,
                                 ![w].batch = SubSeq(queues[k], 1, 1)]
  BY DEF TakeFirst
<1> DEFINE r == [worker[w] EXCEPT !.at = "linger", !.cfg = cfg,
                                  !.batch = SubSeq(queues[k], 1, 1)]
<1>4. SubSeq(queues[k], 1, 1) \in Seq(Items)
  BY <1>2
<1>5. cfg \in [batch : Nat \ {0}, retries : Nat]
  BY ConfigTypes
<1>6. /\ r \in WorkerRecords /\ r.at \in Holding /\ r.key = k
      /\ r.cfg \in Configs \cup {NoConfig}
  BY <1>1, <1>4, <1>5 DEF WorkerRecords, WorkerStates, Holding
<1>7. worker' = [worker EXCEPT ![w] = r]
  BY <1>1, <1>3
<1>8. UNCHANGED <<ready, readySet, inflight, closed, cancelled, attempts>>
  BY DEF TakeFirst
<1>9. /\ \A j \in Keys : queues'[j] = queues[j] \/ j = k
      /\ \A i \in Items : call[i] = "stored" => call'[i] = "stored"
  BY <1>1, <1>2, TakeReadyFacts
<1> HIDE DEF r
<1> QED
  BY <1>1, <1>6, <1>7, <1>8, <1>9, KeepWorking

LEMMA TakeRestInv ==
  ASSUME PoolInv, BufferTypeOK, NEW w \in Workers, TakeRest(w) PROVE PoolInv'
<1> DEFINE k    == worker[w].key
           rest == worker[w].cfg.batch - 1
<1>1. worker \in [Workers -> WorkerRecords] /\ attempts \in [Items -> Nat]
      /\ worker[w].at \in Holding /\ k \in Keys
      /\ worker[w].cfg \in Configs \cup {NoConfig}
  BY DEF PoolInv, PoolTypeOK, HoldInv, TakeRest, Holding
<1>2. UNCHANGED <<ready, readySet, inflight, closed, cancelled, attempts>>
  BY DEF TakeRest
<1>3. CASE rest > 0 /\ queues[k] # <<>>
  <2>1. rest \in Int
    BY <1>1 DEF WorkerRecords
  <2>2. TakeReady(k, rest) /\ queues[k] \in Seq(Items)
    BY <1>1, <1>3 DEF TakeRest, BufferTypeOK
  <2>3. /\ \A j \in Keys : queues'[j] = queues[j] \/ j = k
        /\ \A i \in Items : call[i] = "stored" => call'[i] = "stored"
        /\ AtMost(rest, k) \in 1..Len(queues[k])
    BY <1>1, <2>1, <2>2, TakeReadyFacts
  <2> DEFINE n == AtMost(rest, k)
             r == [worker[w] EXCEPT !.at = "handle", !.batch = Filled(w, n)]
  <2>4. worker' = [worker EXCEPT ![w].at = "handle", ![w].batch = Filled(w, n)]
    BY <1>3 DEF TakeRest
  <2>5. worker' = [worker EXCEPT ![w] = r]
    BY <1>1, <2>4
  <2> HIDE DEF n
  <2>6. SubSeq(queues[k], 1, n) \in Seq(Items)
    BY <2>2, <2>3 DEF n
  <2>7. worker[w].batch \in Seq(Items)
    BY <1>1 DEF WorkerRecords
  <2>8. Filled(w, n) \in Seq(Items)
    BY <2>6, <2>7 DEF Filled
  <2>9. /\ r \in WorkerRecords /\ r.at \in Holding /\ r.key = k
        /\ r.cfg \in Configs \cup {NoConfig}
    BY <1>1, <2>8 DEF WorkerRecords, WorkerStates, Holding
  <2> HIDE DEF r
  <2> QED
    BY <1>1, <1>2, <2>3, <2>5, <2>9, KeepWorking
<1>4. CASE ~ (rest > 0 /\ queues[k] # <<>>)
  <2> DEFINE r == [worker[w] EXCEPT !.at = "handle"]
  <2>1. worker' = [worker EXCEPT ![w] = r] /\ UNCHANGED <<queues, call>>
    BY <1>1, <1>4 DEF TakeRest, bufferVars
  <2>2. /\ r \in WorkerRecords /\ r.at \in Holding /\ r.key = k
        /\ r.cfg \in Configs \cup {NoConfig}
    BY <1>1 DEF WorkerRecords, WorkerStates, Holding
  <2> HIDE DEF r
  <2> QED
    BY <1>1, <1>2, <2>1, <2>2, KeepWorking
<1> QED
  BY <1>3, <1>4

-----------------------------------------------------------------------------
(* release *)

LEMMA ReleaseInv ==
  ASSUME PoolInv, BufferTypeOK, NEW w \in Workers, Release(w) PROVE PoolInv'
<1> DEFINE k    == worker[w].key
           done == [worker EXCEPT ![w] = Idle("next")]
<1>1. PoolTypeOK /\ HoldInv /\ SerialPerKey /\ ReadyIndexExact /\ NoForgottenKey
  BY DEF PoolInv
<1>2. /\ worker[w].at \in Holding /\ k \in Keys /\ k \in inflight
      /\ worker \in [Workers -> WorkerRecords]
  BY <1>1 DEF Release, Holding, HoldInv, SerialPerKey, PoolTypeOK
<1>3. /\ inflight' = inflight \ {k}
      /\ UNCHANGED <<queues, call, closed, cancelled, attempts>>
  BY DEF Release, bufferVars
<1>4. /\ Idle("next") \in WorkerRecords /\ Idle("next").at = "next"
      /\ Idle("next").cfg \in Configs \cup {NoConfig}
  BY IdleFacts DEF WorkerStates
<1>5. done \in [Workers -> WorkerRecords]
  BY <1>2, <1>4
<1>6. /\ worker' \in [Workers -> WorkerRecords]
      /\ \A v \in Workers : \/ worker'[v] = done[v]
                            \/ done[v].at = "waiting"
                               /\ worker'[v] = [done[v] EXCEPT !.at = "next"]
      /\ ready' \in Seq(Keys) /\ readySet' = Range(ready)' /\ IsInjective(ready)'
      /\ readySet' \in {readySet, readySet \cup {k}}
      /\ ~ closed /\ queues[k] # <<>> => k \in readySet'
  <2>1. CASE ~ closed /\ queues[k] # <<>>
    <3>1. MarkReady(k, done)
      BY <2>1 DEF Release
    <3> HIDE DEF done, k
    <3>2. /\ ready' \in Seq(Keys) /\ readySet' = readySet \cup {k}
          /\ readySet' = Range(ready)' /\ IsInjective(ready)'
          /\ worker' \in Signalled(done)
      BY <1>1, <1>2, <1>5, <3>1, MarkReadyFacts DEF PoolTypeOK, ReadyIndexExact
    <3> QED
      BY <1>5, <3>2, SignalFacts
  <2>2. CASE ~ (~ closed /\ queues[k] # <<>>)
    <3>1. worker' = done /\ UNCHANGED <<ready, readySet>>
      BY <2>2 DEF Release
    <3> HIDE DEF done, k
    <3> QED
      BY <1>1, <1>5, <2>2, <3>1 DEF PoolTypeOK, ReadyIndexExact
  <2> QED
    BY <2>1, <2>2
<1>7. PoolTypeOK'
  BY <1>1, <1>2, <1>3, <1>6 DEF PoolTypeOK
<1>8. \A v \in Workers : v # w =>
        /\ worker'[v].at \in Holding <=> worker[v].at \in Holding
        /\ worker'[v].key = worker[v].key /\ worker'[v].cfg = worker[v].cfg
  <2> SUFFICES ASSUME NEW v \in Workers, v # w
               PROVE  /\ worker'[v].at \in Holding <=> worker[v].at \in Holding
                      /\ worker'[v].key = worker[v].key /\ worker'[v].cfg = worker[v].cfg
    OBVIOUS
  <2>1. done[v] = worker[v] /\ worker[v] \in WorkerRecords
    BY <1>2
  <2>2. \/ worker'[v] = worker[v]
        \/ worker[v].at = "waiting" /\ worker'[v] = [worker[v] EXCEPT !.at = "next"]
    BY <1>6, <2>1
  <2> QED
    BY <2>1, <2>2 DEF Holding, WorkerRecords
<1>9. /\ worker'[w].at \notin Holding
      /\ worker'[w].cfg \in Configs \cup {NoConfig}
  BY <1>2, <1>4, <1>6 DEF Holding, WorkerRecords
<1>10. HoldInv'
  BY <1>1, <1>8, <1>9 DEF HoldInv
<1>11. SerialPerKey'
  <2>1. \A u, v \in Workers : worker'[u].at \in Holding /\ worker'[v].at \in Holding
           /\ worker'[u].key = worker'[v].key => u = v
    BY <1>1, <1>8, <1>9 DEF SerialPerKey
  <2>2. inflight = {worker[v].key : v \in {u \in Workers : worker[u].at \in Holding}}
    BY <1>1 DEF SerialPerKey
  <2>3. ASSUME NEW j \in inflight' PROVE \E v \in Workers : worker'[v].at \in Holding /\ worker'[v].key = j
    <3>1. PICK v \in Workers : worker[v].at \in Holding /\ worker[v].key = j
      BY <1>3, <2>2
    <3>2. v # w
      BY <1>3, <3>1
    <3> QED
      BY <1>8, <3>1, <3>2
  <2>4. ASSUME NEW v \in Workers, worker'[v].at \in Holding PROVE worker'[v].key \in inflight'
    <3>1. v # w /\ worker[v].at \in Holding /\ worker'[v].key = worker[v].key
      BY <1>8, <1>9, <2>4
    <3>2. worker[v].key # k
      BY <1>1, <1>2, <3>1 DEF SerialPerKey
    <3> QED
      BY <1>3, <2>2, <3>1, <3>2
  <2> QED
    BY <2>1, <2>3, <2>4 DEF SerialPerKey
<1>12. ReadyIndexExact'
  <2>1. k \notin inflight'
    BY <1>3
  <2> QED
    BY <1>1, <1>3, <1>6, <2>1 DEF ReadyIndexExact
<1>13. NoForgottenKey'
  BY <1>1, <1>3, <1>6 DEF NoForgottenKey
<1> QED
  BY <1>7, <1>10, <1>11, <1>12, <1>13 DEF PoolInv

-----------------------------------------------------------------------------
(* Close, Cancel *)

LEMMA ShutdownInv ==
  ASSUME PoolInv, Close \/ Cancel \/ CloseBuffer \/ UNCHANGED vars PROVE PoolInv'
<1>1. worker \in [Workers -> WorkerRecords] /\ closed \in BOOLEAN /\ cancelled \in BOOLEAN
      /\ \A v \in Workers : worker[v].cfg \in Configs \cup {NoConfig}
  BY DEF PoolInv, PoolTypeOK, HoldInv
<1>2. UNCHANGED <<ready, readySet, inflight, attempts, queues, call>>
  BY DEF Close, Cancel, CloseBuffer, CloseMark, CloseDone, vars, poolVars, bufferVars
<1>3. \A v \in Workers : \/ worker'[v] = worker[v]
                         \/ worker[v].at = "waiting"
                            /\ worker'[v] = [worker[v] EXCEPT !.at = "next"]
  BY DEF Close, Cancel, CloseBuffer, WakeAll, vars, poolVars
<1>4. worker' \in [Workers -> WorkerRecords]
  <2>1. CASE Close
    <3>1. \A v \in Workers : worker[v] \in WorkerRecords
                            /\ [worker[v] EXCEPT !.at = "next"] \in WorkerRecords
      BY <1>1 DEF WorkerRecords, WorkerStates
    <3> QED
      BY <2>1, <3>1 DEF Close, WakeAll
  <2>2. CASE Cancel \/ CloseBuffer \/ UNCHANGED vars
    BY <1>1, <2>2 DEF Cancel, CloseBuffer, vars, poolVars
  <2> QED
    BY <2>1, <2>2
<1>5. closed' \in BOOLEAN /\ cancelled' \in BOOLEAN /\ (closed => closed')
  BY <1>1 DEF Close, Cancel, CloseBuffer, vars, poolVars
<1>6. \A v \in Workers : worker'[v] = worker[v]
        \/ (/\ worker[v].at \notin Holding /\ worker'[v].at \notin Holding
            /\ worker'[v].cfg \in Configs \cup {NoConfig})
  BY <1>1, <1>3 DEF Holding, WorkerRecords
<1> QED
  BY <1>2, <1>4, <1>5, <1>6, StayOutside

-----------------------------------------------------------------------------
LEMMA PoolStep ==
  ASSUME PoolInv, BufferTypeOK, [Next]_vars PROVE PoolInv'
<1>1. ASSUME NEW i \in Items, Enqueue(i) \/ Submit(i) PROVE PoolInv'
  BY <1>1, EnqueueInv, SubmitInv
<1>2. ASSUME NEW w \in Workers, WorkerStep(w) PROVE PoolInv'
  BY <1>2, NextExitInv, NextPickInv, NextWaitInv, DrainEndInv, TakeFirstInv, TakeRestInv,
     ProcessInv, ReleaseInv DEF WorkerStep
<1> QED
  BY <1>1, <1>2, RunInv, ShutdownInv DEF Next

LEMMA PoolInvariant == Spec => [](PoolInv /\ BufferTypeOK /\ CountInv)
<1>1. Init => PoolInv /\ BufferTypeOK /\ CountInv
  BY PoolInit, InitInv DEF Init
<1>2. PoolInv /\ BufferTypeOK /\ CountInv /\ [Next]_vars
        => PoolInv' /\ BufferTypeOK' /\ CountInv'
  <2> SUFFICES ASSUME PoolInv, BufferTypeOK, CountInv, [Next]_vars
               PROVE  PoolInv' /\ BufferTypeOK' /\ CountInv'
    OBVIOUS
  <2>1. [BufferNext]_bufferVars
    BY BufferStep DEF PoolInv
  <2> QED
    BY <2>1, PoolStep, StepInv
<1> QED
  BY <1>1, <1>2, PTL DEF Spec

(* The types of the pool and of its buffer. *)
THEOREM ConsumerTyping == Spec => []ConsumerTypeOK
<1>1. PoolInv /\ BufferTypeOK => ConsumerTypeOK
  BY DEF PoolInv, ConsumerTypeOK
<1> QED
  BY <1>1, PoolInvariant, PTL

(* A key is worked on by one goroutine at most, whatever the pool size. *)
THEOREM ConsumerSerialPerKey == Spec => []SerialPerKey
<1>1. PoolInv => SerialPerKey
  BY DEF PoolInv
<1> QED
  BY <1>1, PoolInvariant, PTL

(* The ready list has no duplicates, is exactly indexed and is disjoint from
   the keys in flight. *)
THEOREM ConsumerReadyIndex == Spec => []ReadyIndexExact
<1>1. PoolInv => ReadyIndexExact
  BY DEF PoolInv
<1> QED
  BY <1>1, PoolInvariant, PTL

(* A partition that holds items is listed, held, about to be submitted, or the
   pool was closed: no schedule of Put, Submit, next, drain and release
   forgets it. *)
THEOREM ConsumerNoForgottenKey == Spec => []NoForgottenKey
<1>1. PoolInv => NoForgottenKey
  BY DEF PoolInv
<1> QED
  BY <1>1, PoolInvariant, PTL

(* The pool uses its buffer as the buffer's own specification allows, so every
   theorem about MemoryBuffer holds of the buffer of a node. *)
THEOREM ConsumerUsesBuffer == Spec => BufferSpec
<1>1. Init => BufferInit
  BY DEF Init
<1>2. PoolInv /\ [Next]_vars => [BufferNext]_bufferVars
  BY BufferStep DEF PoolInv
<1> QED
  BY <1>1, <1>2, PoolInvariant, PTL DEF Spec, BufferSpec

-----------------------------------------------------------------------------
(* No lost signal *)

(* A closed pool has no sleepers: Close wakes everyone, and nobody falls
   asleep after it. *)
ClosedSleepers == closed => \A w \in Workers : worker[w].at # "waiting"

Awake(ws) == {w \in Workers : ws[w].at = "next"}

LEMMA WorkersFinite == IsFiniteSet(Workers)
<1>1. Workers = 1..(IF RawConcurrency <= 0 THEN 1 ELSE RawConcurrency)
  BY DEF Workers
<1>2. (IF RawConcurrency <= 0 THEN 1 ELSE RawConcurrency) \in Int
  BY ConsumerAssumption
<1> QED
  BY <1>1, <1>2, FS_Interval

LEMMA AwakeCount ==
  ASSUME NEW ws
  PROVE  IsFiniteSet(Awake(ws)) /\ Cardinality(Awake(ws)) \in Nat
<1>1. Awake(ws) \subseteq Workers
  BY DEF Awake
<1>2. IsFiniteSet(Awake(ws))
  BY <1>1, WorkersFinite, FS_Subset
<1> QED
  BY <1>2, FS_CardinalityType

(* Whoever is awake stays awake, and w joins. *)
LEMMA OneMoreAwake ==
  ASSUME NEW ws, NEW ws2, NEW w \in Workers,
         Awake(ws) \subseteq Awake(ws2), w \in Awake(ws2), w \notin Awake(ws)
  PROVE  Cardinality(Awake(ws2)) >= Cardinality(Awake(ws)) + 1
<1>1. IsFiniteSet(Awake(ws)) /\ Cardinality(Awake(ws)) \in Nat
      /\ IsFiniteSet(Awake(ws2)) /\ Cardinality(Awake(ws2)) \in Nat
  BY AwakeCount
<1>2. Cardinality(Awake(ws) \cup {w}) = Cardinality(Awake(ws)) + 1
  BY <1>1, FS_AddElement
<1>3. Awake(ws) \cup {w} \subseteq Awake(ws2)
  OBVIOUS
<1>4. Cardinality(Awake(ws) \cup {w}) <= Cardinality(Awake(ws2))
  BY <1>1, <1>3, FS_Subset
<1> QED
  BY <1>1, <1>2, <1>4

LEMMA NoFewerAwake ==
  ASSUME NEW ws, NEW ws2, Awake(ws) \subseteq Awake(ws2)
  PROVE  Cardinality(Awake(ws2)) >= Cardinality(Awake(ws))
<1>1. IsFiniteSet(Awake(ws)) /\ Cardinality(Awake(ws)) \in Nat
      /\ IsFiniteSet(Awake(ws2)) /\ Cardinality(Awake(ws2)) \in Nat
  BY AwakeCount
<1>2. Cardinality(Awake(ws)) <= Cardinality(Awake(ws2))
  BY <1>1, FS_Subset
<1> QED
  BY <1>1, <1>2

(* A signal puts nobody to sleep. *)
LEMMA SignalSleepers ==
  ASSUME NEW ws \in [Workers -> WorkerRecords], NEW ws2 \in Signalled(ws),
         NEW v \in Workers, ws2[v].at = "waiting"
  PROVE  ws[v].at = "waiting"
<1>1. \/ ws2[v] = ws[v]
      \/ ws[v].at = "waiting" /\ ws2[v] = [ws[v] EXCEPT !.at = "next"]
  BY SignalFacts
<1> QED
  BY <1>1

(* A signal that leaves a sleeper has woken another one. *)
LEMMA SignalCounts ==
  ASSUME NEW ws \in [Workers -> WorkerRecords], NEW ws2 \in Signalled(ws),
         NEW v \in Workers, ws2[v].at = "waiting"
  PROVE  Cardinality(Awake(ws2)) >= Cardinality(Awake(ws)) + 1
<1>1. ws[v].at = "waiting"
  BY SignalSleepers
<1>2. PICK w \in Workers : ws[w].at = "waiting" /\ ws2 = [ws EXCEPT ![w].at = "next"]
  BY <1>1 DEF Signalled
<1>3. w \in Awake(ws2) /\ w \notin Awake(ws) /\ Awake(ws) \subseteq Awake(ws2)
  BY <1>2 DEF Awake, WorkerRecords
<1> QED
  BY <1>3, OneMoreAwake

(* Listing a key lengthens the list by one at most. *)
LEMMA MarkReadyLength ==
  ASSUME ready \in Seq(Keys), NEW k \in Keys, NEW ws, MarkReady(k, ws)
  PROVE  Len(ready') <= Len(ready) + 1 /\ Len(ready) \in Nat /\ Len(ready') \in Nat
  BY DEF MarkReady

(* WorkConserving, said of a count. *)
LEMMA WorkMeaning ==
  WorkConserving <=>
    (~ cancelled /\ (\E w \in Workers : worker[w].at = "waiting")
       => Len(ready) <= Cardinality(Awake(worker)))
  BY DEF WorkConserving, Awake

LEMMA WorkMeaningNext ==
  WorkConserving' <=>
    (~ cancelled' /\ (\E w \in Workers : worker'[w].at = "waiting")
       => Len(ready') <= Cardinality(Awake(worker')))
  BY DEF WorkConserving, Awake

WorkInv == WorkConserving /\ ClosedSleepers

(* Nobody new sleeps, nobody awake goes away, the list stays. *)
LEMMA WorkStays ==
  ASSUME PoolInv, WorkInv, Awake(worker) \subseteq Awake(worker'),
         \A v \in Workers : worker'[v].at = "waiting" => worker[v].at = "waiting",
         UNCHANGED <<ready, closed>>, cancelled => cancelled'
  PROVE  WorkInv'
<1>1. ClosedSleepers'
  BY DEF WorkInv, ClosedSleepers
<1>2. ASSUME ~ cancelled', NEW v \in Workers, worker'[v].at = "waiting"
      PROVE  Len(ready') <= Cardinality(Awake(worker'))
  <2>1. Len(ready) <= Cardinality(Awake(worker))
    BY <1>2, WorkMeaning DEF WorkInv
  <2>2. Cardinality(Awake(worker)) <= Cardinality(Awake(worker'))
        /\ Cardinality(Awake(worker)) \in Nat /\ Cardinality(Awake(worker')) \in Nat
    BY NoFewerAwake, AwakeCount
  <2>3. ready \in Seq(Keys)
    BY DEF PoolInv, PoolTypeOK
  <2> QED
    BY <2>1, <2>2, <2>3
<1> QED
  BY <1>1, <1>2, WorkMeaningNext DEF WorkInv

LEMMA WorkSubmit ==
  ASSUME PoolInv, WorkInv, NEW i \in Items, Submit(i) PROVE WorkInv'
<1> DEFINE k == KeyOf[i]
<1>1. /\ k \in Keys /\ ready \in Seq(Keys) /\ worker \in [Workers -> WorkerRecords]
      /\ UNCHANGED <<closed, cancelled>>
  BY KeyOfAssumption DEF PoolInv, PoolTypeOK, Submit
<1>2. CASE closed \/ k \in inflight
  <2>1. UNCHANGED <<ready, worker>>
    BY <1>2 DEF Submit
  <2> QED
    BY <1>1, <2>1, WorkStays
<1>3. CASE ~ (closed \/ k \in inflight)
  <2>1. MarkReady(k, worker)
    BY <1>3 DEF Submit
  <2>2. worker' \in Signalled(worker)
    BY <2>1 DEF MarkReady
  <2>3. Len(ready') <= Len(ready) + 1 /\ Len(ready) \in Nat /\ Len(ready') \in Nat
    BY <1>1, <2>1, MarkReadyLength
  <2>4. ASSUME ~ cancelled', NEW v \in Workers, worker'[v].at = "waiting"
        PROVE  Len(ready') <= Cardinality(Awake(worker'))
    <3>1. worker[v].at = "waiting"
      BY <1>1, <2>2, <2>4, SignalSleepers
    <3>2. Len(ready) <= Cardinality(Awake(worker))
      BY <1>1, <2>4, <3>1, WorkMeaning DEF WorkInv
    <3>3. Cardinality(Awake(worker')) >= Cardinality(Awake(worker)) + 1
      BY <1>1, <2>2, <2>4, SignalCounts
    <3> QED
      BY <2>3, <3>2, <3>3, AwakeCount
  <2>5. ClosedSleepers'
    BY <1>1, <1>3 DEF ClosedSleepers
  <2> QED
    BY <2>4, <2>5, WorkMeaningNext DEF WorkInv
<1> QED
  BY <1>2, <1>3

LEMMA WorkNextPick ==
  ASSUME PoolInv, WorkInv, NEW w \in Workers, NextPick(w) PROVE WorkInv'
<1>1. PICK n \in DOMAIN ready :
        /\ ready' = SubSeq(ready, n + 1, Len(ready))
        /\ worker' = [worker EXCEPT ![w] = [Idle("drain") EXCEPT !.key = ready[n]]]
  BY DEF NextPick
<1> DEFINE r == [Idle("drain") EXCEPT !.key = ready[n]]
<1>2. /\ ready \in Seq(Keys) /\ worker \in [Workers -> WorkerRecords]
      /\ worker[w].at = "next" /\ ~ closed /\ UNCHANGED <<closed, cancelled>>
  BY DEF PoolInv, PoolTypeOK, NextPick
<1>3. Len(ready) \in Nat /\ Len(ready') \in Nat /\ Len(ready') <= Len(ready) - 1
  BY <1>1, <1>2
<1>4. r.at = "drain"
  BY DEF Idle
<1> HIDE DEF r
<1>5. worker' = [worker EXCEPT ![w] = r]
  BY <1>1 DEF r
<1>6. Awake(worker') = Awake(worker) \ {w} /\ w \in Awake(worker)
  BY <1>2, <1>4, <1>5 DEF Awake
<1>7. Cardinality(Awake(worker')) = Cardinality(Awake(worker)) - 1
  BY <1>6, AwakeCount, FS_RemoveElement
<1>8. ASSUME ~ cancelled', NEW v \in Workers, worker'[v].at = "waiting"
      PROVE  Len(ready') <= Cardinality(Awake(worker'))
  <2>1. worker[v].at = "waiting"
    BY <1>2, <1>4, <1>5, <1>8
  <2>2. Len(ready) <= Cardinality(Awake(worker))
    BY <1>2, <1>8, <2>1, WorkMeaning DEF WorkInv
  <2> QED
    BY <1>3, <1>7, <2>2, AwakeCount
<1>9. ClosedSleepers'
  BY <1>2 DEF ClosedSleepers
<1> QED
  BY <1>8, <1>9, WorkMeaningNext DEF WorkInv

LEMMA WorkNextWait ==
  ASSUME PoolInv, WorkInv, NEW w \in Workers, NextWait(w) PROVE WorkInv'
<1>1. ready' = <<>> /\ ~ closed'
  BY DEF NextWait
<1>2. Len(ready') <= Cardinality(Awake(worker'))
  BY <1>1, AwakeCount
<1>3. ClosedSleepers'
  BY <1>1 DEF ClosedSleepers
<1> QED
  BY <1>2, <1>3, WorkMeaningNext DEF WorkInv

LEMMA WorkNextExit ==
  ASSUME PoolInv, WorkInv, NEW w \in Workers, NextExit(w) PROVE WorkInv'
<1>1. /\ closed \/ cancelled
      /\ UNCHANGED <<closed, cancelled>>
      /\ worker' = [worker EXCEPT ![w] = Idle("exited")]
      /\ worker \in [Workers -> WorkerRecords]
  BY DEF PoolInv, PoolTypeOK, NextExit
<1>2. \A v \in Workers : worker'[v].at = "waiting" => worker[v].at = "waiting"
  BY <1>1 DEF Idle
<1>3. ClosedSleepers'
  BY <1>1, <1>2 DEF WorkInv, ClosedSleepers
<1>4. cancelled' \/ ~ \E v \in Workers : worker'[v].at = "waiting"
  BY <1>1, <1>3 DEF ClosedSleepers
<1> QED
  BY <1>3, <1>4, WorkMeaningNext DEF WorkInv

(* A worker with a key goes on holding it: sleepers and listed keys stay. *)
LEMMA WorkHolding ==
  ASSUME PoolInv, WorkInv, NEW w \in Workers,
         DrainEnd(w) \/ TakeFirst(w) \/ TakeRest(w) \/ Handle(w) \/ Retry(w) \/ DeadLetter(w)
  PROVE  WorkInv'
<1>1. worker \in [Workers -> WorkerRecords]
  BY DEF PoolInv, PoolTypeOK
<1>2. UNCHANGED <<ready, closed, cancelled>>
  BY DEF DrainEnd, TakeFirst, TakeRest, Handle, Retry, DeadLetter
<1>3. \A v \in Workers : v # w => worker'[v] = worker[v]
  BY <1>1 DEF DrainEnd, TakeFirst, TakeRest, Handle, Retry, DeadLetter
<1>4. worker[w].at \in Holding
  BY DEF DrainEnd, TakeFirst, TakeRest, Handle, Retry, DeadLetter, Holding
<1>5. worker'[w].at \in Holding
  <2>1. CASE DrainEnd(w) \/ TakeFirst(w) \/ TakeRest(w)
    BY <1>1, <2>1 DEF DrainEnd, TakeFirst, TakeRest, Holding, WorkerRecords
  <2>2. CASE Handle(w) \/ Retry(w) \/ DeadLetter(w)
    <3>1. Range(worker[w].batch) \subseteq Items /\ worker[w].failed \subseteq Items
      BY <1>1 DEF WorkerRecords, Range
    <3>2. PICK failed \in SUBSET Items : worker' = [worker EXCEPT ![w] = AfterRound(w, failed)]
      BY <2>2, <3>1 DEF Handle, Retry, DeadLetter
    <3>3. AfterRound(w, failed).at \in Holding
      BY <1>4, AfterRoundFacts
    <3> QED
      BY <1>1, <3>2, <3>3
  <2> QED
    BY <2>1, <2>2
<1>6. Awake(worker) \subseteq Awake(worker')
  BY <1>3, <1>4 DEF Awake, Holding
<1>7. \A v \in Workers : worker'[v].at = "waiting" => worker[v].at = "waiting"
  BY <1>3, <1>5 DEF Holding
<1> QED
  BY <1>2, <1>6, <1>7, WorkStays

LEMMA WorkRelease ==
  ASSUME PoolInv, WorkInv, NEW w \in Workers, Release(w) PROVE WorkInv'
<1> DEFINE k    == worker[w].key
           done == [worker EXCEPT ![w] = Idle("next")]
<1>1. /\ ready \in Seq(Keys) /\ worker \in [Workers -> WorkerRecords]
      /\ worker[w].at = "release" /\ k \in Keys /\ UNCHANGED <<closed, cancelled>>
  BY DEF PoolInv, PoolTypeOK, HoldInv, Holding, Release
<1>2. Idle("next") \in WorkerRecords /\ Idle("next").at = "next"
  BY IdleFacts DEF WorkerStates
<1>3. /\ done \in [Workers -> WorkerRecords]
      /\ Awake(worker) \subseteq Awake(done)
      /\ \A v \in Workers : done[v].at = "waiting" => worker[v].at = "waiting"
  BY <1>1, <1>2 DEF Awake
<1>4. CASE ~ closed /\ queues[k] # <<>>
  <2>1. MarkReady(k, done)
    BY <1>4 DEF Release
  <2> HIDE DEF done, k
  <2>2. worker' \in Signalled(done)
    BY <2>1 DEF MarkReady
  <2>3. Len(ready') <= Len(ready) + 1 /\ Len(ready) \in Nat /\ Len(ready') \in Nat
    BY <1>1, <2>1, MarkReadyLength
  <2>4. ASSUME ~ cancelled', NEW v \in Workers, worker'[v].at = "waiting"
        PROVE  Len(ready') <= Cardinality(Awake(worker'))
    <3>1. worker[v].at = "waiting"
      BY <1>3, <2>2, <2>4, SignalSleepers
    <3>2. Len(ready) <= Cardinality(Awake(worker))
      BY <1>1, <2>4, <3>1, WorkMeaning DEF WorkInv
    <3>3. Cardinality(Awake(worker')) >= Cardinality(Awake(done)) + 1
      BY <1>3, <2>2, <2>4, SignalCounts
    <3>4. Cardinality(Awake(done)) >= Cardinality(Awake(worker))
      BY <1>3, NoFewerAwake
    <3> QED
      BY <2>3, <3>2, <3>3, <3>4, AwakeCount
  <2>5. ClosedSleepers'
    BY <1>1, <1>4 DEF ClosedSleepers
  <2> QED
    BY <2>4, <2>5, WorkMeaningNext DEF WorkInv
<1>5. CASE ~ (~ closed /\ queues[k] # <<>>)
  <2>1. worker' = done /\ UNCHANGED ready
    BY <1>5 DEF Release
  <2> HIDE DEF done
  <2> QED
    BY <1>1, <1>3, <2>1, WorkStays
<1> QED
  BY <1>4, <1>5

LEMMA WorkStep ==
  ASSUME PoolInv, WorkInv, [Next]_vars PROVE WorkInv'
<1>1. ASSUME NEW i \in Items, Enqueue(i) PROVE WorkInv'
  BY <1>1, WorkStays DEF Enqueue, poolVars
<1>2. CASE Run
  <2>1. \A v \in Workers : worker'[v].at # "waiting"
    BY <1>2 DEF Run, Idle
  <2> QED
    BY <2>1, WorkMeaningNext DEF WorkInv, ClosedSleepers
<1>3. CASE Close
  <2>1. \A v \in Workers : worker'[v].at # "waiting"
    BY <1>3 DEF Close, WakeAll, PoolInv, PoolTypeOK, WorkerRecords
  <2> QED
    BY <2>1, WorkMeaningNext DEF WorkInv, ClosedSleepers
<1>4. CASE Cancel \/ CloseBuffer \/ UNCHANGED vars
  BY <1>4, WorkStays DEF Cancel, CloseBuffer, vars, poolVars
<1>5. ASSUME NEW w \in Workers, WorkerStep(w) PROVE WorkInv'
  BY <1>5, WorkNextExit, WorkNextPick, WorkNextWait, WorkHolding, WorkRelease DEF WorkerStep
<1> QED
  BY <1>1, <1>2, <1>3, <1>4, <1>5, WorkSubmit DEF Next

(* While a goroutine sleeps in next(), every listed key has an awake goroutine
   of its own coming for it: no schedule of Submit, next and release loses a
   signal, whatever the size of the pool. *)
THEOREM ConsumerWorkConserving == Spec => []WorkConserving
<1>1. Init => WorkInv
  <2> SUFFICES ASSUME Init PROVE WorkInv
    OBVIOUS
  <2>1. \A w \in Workers : worker[w].at # "waiting"
    BY DEF Init, Idle
  <2> QED
    BY <2>1 DEF WorkInv, WorkConserving, ClosedSleepers
<1>2. PoolInv /\ WorkInv /\ [Next]_vars => WorkInv'
  BY WorkStep
<1>3. WorkInv => WorkConserving
  BY DEF WorkInv
<1> QED
  BY <1>1, <1>2, <1>3, PoolInvariant, PTL DEF Spec

-----------------------------------------------------------------------------
(* The pool implements the handler's contract *)

(* Partition k queues items of its own only. *)
OwnItems == \A k \in Keys : \A n \in DOMAIN queues[k] : KeyOf[queues[k][n]] = k

(* What a goroutine has in its hands, by where it stands. *)
GoodHands(r) ==
  /\ r.at \in {"linger", "handle"} =>
       /\ r.batch # <<>> /\ r.failed = {}
       /\ \A n \in DOMAIN r.batch : KeyOf[r.batch[n]] = r.key
  /\ r.at \in {"drain", "release"} => r.batch = <<>> /\ r.failed = {}
  /\ r.at = "retry" => r.batch = <<>>

BatchInv == \A w \in Workers : GoodHands(worker[w])

ContractInv == PoolInv /\ BufferTypeOK /\ OwnItems /\ BatchInv

(* A goroutine that contributes nothing to the abstract state. *)
Resting(r) == \/ r.at \notin Holding
              \/ r.at \in {"drain", "release"} /\ r.batch = <<>> /\ r.failed = {}

(* The abstract state, said of every holder and of every free key. *)
Views ==
  /\ \A w \in Workers : worker[w].at \in Holding =>
       /\ worker[w].key \in Keys
       /\ BatchOf[worker[w].key] = worker[w].batch
       /\ FailedOf[worker[w].key] = worker[w].failed
       /\ PhaseOf[worker[w].key] = Phase(worker[w].at)
  /\ \A k \in Keys : (\A w \in Workers : worker[w].at \in Holding => worker[w].key # k) =>
       BatchOf[k] = <<>> /\ FailedOf[k] = {} /\ PhaseOf[k] = "free"

LEMMA ViewsHold == PoolInv => Views
<1> SUFFICES ASSUME PoolInv PROVE Views
  OBVIOUS
<1>1. SerialPerKey /\ HoldInv
  BY DEF PoolInv
<1>2. ASSUME NEW w \in Workers, worker[w].at \in Holding
      PROVE  /\ worker[w].key \in Keys
             /\ BatchOf[worker[w].key] = worker[w].batch
             /\ FailedOf[worker[w].key] = worker[w].failed
             /\ PhaseOf[worker[w].key] = Phase(worker[w].at)
  <2> DEFINE k == worker[w].key
  <2>1. k \in Keys /\ k \in inflight
    BY <1>1, <1>2 DEF HoldInv, SerialPerKey
  <2>2. Holder(k) \in Workers /\ worker[Holder(k)].at \in Holding /\ worker[Holder(k)].key = k
    BY <1>2 DEF Holder
  <2>3. Holder(k) = w
    BY <1>1, <1>2, <2>2 DEF SerialPerKey
  <2> QED
    BY <2>1, <2>3 DEF BatchOf, FailedOf, PhaseOf
<1>3. ASSUME NEW k \in Keys, \A w \in Workers : worker[w].at \in Holding => worker[w].key # k
      PROVE  BatchOf[k] = <<>> /\ FailedOf[k] = {} /\ PhaseOf[k] = "free"
  <2>1. k \notin inflight
    BY <1>1, <1>3 DEF SerialPerKey
  <2> QED
    BY <2>1 DEF BatchOf, FailedOf, PhaseOf
<1> QED
  BY <1>2, <1>3 DEF Views

LEMMA ViewsNext == PoolInv' => Views'
  BY ViewsHold, PTL

(* Goroutines that rest, before and after, do not show. *)
LEMMA ViewSame ==
  ASSUME Views, Views',
         \A v \in Workers :
           \/ Resting(worker[v]) /\ Resting(worker'[v])
           \/ /\ worker[v].at \in Holding /\ worker'[v].at \in Holding
              /\ worker'[v].key = worker[v].key
              /\ worker'[v].batch = worker[v].batch
              /\ worker'[v].failed = worker[v].failed
              /\ Phase(worker'[v].at) = Phase(worker[v].at)
  PROVE  UNCHANGED <<BatchOf, FailedOf, PhaseOf>>
<1>1. Phase("drain") = "free" /\ Phase("release") = "free"
  BY DEF Phase
<1>2. ASSUME NEW k \in Keys
      PROVE  BatchOf'[k] = BatchOf[k] /\ FailedOf'[k] = FailedOf[k] /\ PhaseOf'[k] = PhaseOf[k]
  <2>1. CASE \E v \in Workers : worker[v].at \in Holding /\ worker[v].key = k /\ ~ Resting(worker[v])
    <3>1. PICK v \in Workers : worker[v].at \in Holding /\ worker[v].key = k /\ ~ Resting(worker[v])
      BY <2>1
    <3>2. /\ worker'[v].at \in Holding /\ worker'[v].key = k
          /\ worker'[v].batch = worker[v].batch
          /\ worker'[v].failed = worker[v].failed
          /\ Phase(worker'[v].at) = Phase(worker[v].at)
      BY <3>1
    <3> QED
      BY <3>1, <3>2 DEF Views
  <2>2. CASE ~ \E v \in Workers : worker[v].at \in Holding /\ worker[v].key = k /\ ~ Resting(worker[v])
    <3>1. BatchOf[k] = <<>> /\ FailedOf[k] = {} /\ PhaseOf[k] = "free"
      BY <1>1, <2>2 DEF Views, Resting
    <3>2. \A v \in Workers : worker'[v].at \in Holding /\ worker'[v].key = k =>
             /\ worker'[v].batch = <<>> /\ worker'[v].failed = {}
             /\ Phase(worker'[v].at) = "free"
      <4> SUFFICES ASSUME NEW v \in Workers, worker'[v].at \in Holding, worker'[v].key = k
                   PROVE  /\ worker'[v].batch = <<>> /\ worker'[v].failed = {}
                          /\ Phase(worker'[v].at) = "free"
        OBVIOUS
      <4>1. CASE Resting(worker'[v])
        BY <1>1, <4>1 DEF Resting
      <4>2. CASE ~ Resting(worker'[v])
        <5>1. /\ worker[v].at \in Holding /\ worker[v].key = k
              /\ worker'[v].batch = worker[v].batch
              /\ worker'[v].failed = worker[v].failed
              /\ Phase(worker'[v].at) = Phase(worker[v].at)
          BY <4>2
        <5>2. Resting(worker[v])
          BY <2>2, <5>1
        <5> QED
          BY <1>1, <5>1, <5>2 DEF Resting
      <4> QED
        BY <4>1, <4>2
    <3>3. BatchOf'[k] = <<>> /\ FailedOf'[k] = {} /\ PhaseOf'[k] = "free"
      BY <3>2 DEF Views
    <3> QED
      BY <3>1, <3>3
  <2> QED
    BY <2>1, <2>2
<1>3. BatchOf' = BatchOf
  BY <1>2 DEF BatchOf
<1>4. FailedOf' = FailedOf
  BY <1>2 DEF FailedOf
<1>5. PhaseOf' = PhaseOf
  BY <1>2 DEF PhaseOf
<1> QED
  BY <1>3, <1>4, <1>5

(* A step of the goroutine that holds k changes the abstract state at k. *)
LEMMA ViewStep ==
  ASSUME Views, Views', NEW w \in Workers,
         worker[w].at \in Holding, worker'[w].at \in Holding,
         worker'[w].key = worker[w].key,
         \A v \in Workers : v # w => worker'[v] = worker[v], SerialPerKey
  PROVE  /\ worker[w].key \in Keys
         /\ BatchOf[worker[w].key] = worker[w].batch
         /\ FailedOf[worker[w].key] = worker[w].failed
         /\ PhaseOf[worker[w].key] = Phase(worker[w].at)
         /\ BatchOf' = [BatchOf EXCEPT ![worker[w].key] = worker'[w].batch]
         /\ FailedOf' = [FailedOf EXCEPT ![worker[w].key] = worker'[w].failed]
         /\ PhaseOf' = [PhaseOf EXCEPT ![worker[w].key] = Phase(worker'[w].at)]
<1> DEFINE k == worker[w].key
           r == worker'[w]
<1>1. worker'[w] = r /\ \A v \in Workers : v # w => worker'[v] = worker[v]
  OBVIOUS
<1>2. /\ k \in Keys
      /\ BatchOf[k] = worker[w].batch /\ FailedOf[k] = worker[w].failed
      /\ PhaseOf[k] = Phase(worker[w].at)
  BY DEF Views
<1>3. BatchOf'[k] = r.batch /\ FailedOf'[k] = r.failed /\ PhaseOf'[k] = Phase(r.at)
  BY <1>1 DEF Views
<1>4. ASSUME NEW j \in Keys, j # k
      PROVE  BatchOf'[j] = BatchOf[j] /\ FailedOf'[j] = FailedOf[j] /\ PhaseOf'[j] = PhaseOf[j]
  <2>1. CASE \E v \in Workers : worker[v].at \in Holding /\ worker[v].key = j
    <3>1. PICK v \in Workers : worker[v].at \in Holding /\ worker[v].key = j
      BY <2>1
    <3>2. worker'[v] = worker[v]
      BY <1>1, <1>4, <3>1
    <3> QED
      BY <3>1, <3>2 DEF Views
  <2>2. CASE ~ \E v \in Workers : worker[v].at \in Holding /\ worker[v].key = j
    <3>1. \A v \in Workers : worker'[v].at \in Holding => worker'[v].key # j
      BY <1>1, <1>4, <2>2
    <3> QED
      BY <2>2, <3>1 DEF Views
  <2> QED
    BY <2>1, <2>2
<1>5. BatchOf' = [BatchOf EXCEPT ![k] = r.batch]
  BY <1>2, <1>3, <1>4 DEF BatchOf
<1>6. FailedOf' = [FailedOf EXCEPT ![k] = r.failed]
  <2>1. FailedOf = [j \in Keys |-> FailedOf[j]]
    BY DEF FailedOf
  <2>2. FailedOf' = [j \in Keys |-> FailedOf'[j]]
    BY DEF FailedOf
  <2> HIDE DEF k
  <2>3. [FailedOf EXCEPT ![k] = r.failed] = [j \in Keys |-> IF j = k THEN r.failed ELSE FailedOf[j]]
    BY <2>1, Zenon
  <2>4. \A j \in Keys : FailedOf'[j] = IF j = k THEN r.failed ELSE FailedOf[j]
    BY <1>3, <1>4
  <2> QED
    BY <2>2, <2>3, <2>4
<1>7. PhaseOf' = [PhaseOf EXCEPT ![k] = Phase(r.at)]
  BY <1>2, <1>3, <1>4 DEF PhaseOf
<1> QED
  BY <1>2, <1>5, <1>6, <1>7

-----------------------------------------------------------------------------
(* Items keep to their partition. *)
LEMMA OwnItemsStep ==
  ASSUME BufferTypeOK, OwnItems, [BufferNext]_bufferVars
  PROVE  OwnItems'
<1>1. ASSUME NEW i \in Items, PutStore(i) PROVE OwnItems'
  <2> DEFINE k == KeyOf[i]
  <2>1. k \in Keys /\ queues[k] \in Seq(Items) /\ queues \in [Keys -> Seq(Items)]
    BY KeyOfAssumption DEF BufferTypeOK
  <2>2. queues' = [queues EXCEPT ![k] = Append(queues[k], i)]
    BY <1>1 DEF PutStore
  <2>3. \A n \in DOMAIN Append(queues[k], i) : KeyOf[Append(queues[k], i)[n]] = k
    BY <2>1 DEF OwnItems
  <2> QED
    BY <2>1, <2>2, <2>3 DEF OwnItems
<1>2. ASSUME NEW k \in Keys, NEW n \in 1..Len(queues[k]), Dequeue(k, n) PROVE OwnItems'
  <2>1. queues[k] \in Seq(Items) /\ queues \in [Keys -> Seq(Items)]
    BY DEF BufferTypeOK
  <2>2. queues' = [queues EXCEPT ![k] = SubSeq(queues[k], n + 1, Len(queues[k]))]
    BY <1>2 DEF Dequeue
  <2> DEFINE tail == SubSeq(queues[k], n + 1, Len(queues[k]))
  <2>3. \A m \in DOMAIN tail : KeyOf[tail[m]] = k
    <3>1. ASSUME NEW m \in DOMAIN tail PROVE KeyOf[tail[m]] = k
      <4>1. Len(queues[k]) \in Nat /\ DOMAIN queues[k] = 1..Len(queues[k]) /\ n \in Nat
        BY <2>1
      <4>2. m \in 1..(Len(queues[k]) - n) /\ tail[m] = queues[k][m + n]
        BY <2>1, <3>1
      <4>3. m + n \in DOMAIN queues[k]
        BY <4>1, <4>2
      <4> QED
        BY <4>2, <4>3 DEF OwnItems
    <3> QED
      BY <3>1
  <2> QED
    BY <2>1, <2>2, <2>3 DEF OwnItems
<1>3. ASSUME NEW k \in Keys, NEW max \in Maxes, TakeReady(k, max) PROVE OwnItems'
  <2>1. AtMost(max, k) \in 1..Len(queues[k]) /\ Dequeue(k, AtMost(max, k))
    BY <1>3, AtMostBounds, MaxesAssumption DEF TakeReady
  <2> QED
    BY <1>2, <2>1
<1>4. ASSUME NEW t \in Takers, NEW max \in Maxes, TakeItems(t, max) PROVE OwnItems'
  <2>1. taker[t].key \in Keys
    BY DEF BufferTypeOK
  <2>2. AtMost(max, taker[t].key) \in 1..Len(queues[taker[t].key])
        /\ Dequeue(taker[t].key, AtMost(max, taker[t].key))
    BY <1>4, <2>1, AtMostBounds, MaxesAssumption DEF TakeItems
  <2> QED
    BY <1>2, <2>1, <2>2
<1>5. CASE UNCHANGED queues
  BY <1>5 DEF OwnItems
<1>6. ASSUME NEW i \in Items, PutStep(i) PROVE PutStore(i) \/ UNCHANGED queues
  BY <1>6 DEF PutStep, BeginPut, PutPark, PutClosed, PutCancel, PutReturn
<1>7. ASSUME NEW t \in Takers, TakeStep(t)
      PROVE  (\E max \in Maxes : TakeItems(t, max)) \/ UNCHANGED queues
  BY <1>7 DEF TakeStep, BeginTake, TakeClosed, TakePark, TakeWakeOnDone, TakeCancel
<1> QED
  BY <1>1, <1>3, <1>4, <1>5, <1>6, <1>7 DEF BufferNext, CloseMark, CloseDone, bufferVars

(* One goroutine changes its hands. *)
LEMMA OneHand ==
  ASSUME BatchInv, worker \in [Workers -> WorkerRecords], NEW w \in Workers, NEW r,
         GoodHands(r), worker' = [worker EXCEPT ![w] = r]
  PROVE  BatchInv'
  BY DEF BatchInv

(* Goroutines that wake up or leave have nothing in their hands. *)
LEMMA EmptyHands ==
  ASSUME BatchInv,
         \A v \in Workers : worker'[v] = worker[v] \/ worker'[v].at \notin Holding
  PROVE  BatchInv'
  BY DEF BatchInv, GoodHands, Holding

LEMMA SubSeqFacts ==
  ASSUME NEW S, NEW s \in Seq(S), NEW n \in 1..Len(s)
  PROVE  /\ SubSeq(s, 1, n) \in Seq(S) /\ SubSeq(s, 1, n) # <<>>
         /\ \A m \in DOMAIN SubSeq(s, 1, n) : m \in DOMAIN s /\ SubSeq(s, 1, n)[m] = s[m]
  OBVIOUS

(* Appending to a batch of k items of k. *)
LEMMA FilledFacts ==
  ASSUME ContractInv, NEW w \in Workers, worker[w].key \in Keys,
         worker[w].at = "linger", NEW n \in 1..Len(queues[worker[w].key])
  PROVE  /\ Filled(w, n) \in Seq(Items) /\ Filled(w, n) # <<>>
         /\ \A m \in DOMAIN Filled(w, n) : KeyOf[Filled(w, n)[m]] = worker[w].key
<1> DEFINE k == worker[w].key
           b == worker[w].batch
           s == SubSeq(queues[k], 1, n)
<1>1. b \in Seq(Items) /\ queues[k] \in Seq(Items)
  BY DEF ContractInv, PoolInv, PoolTypeOK, WorkerRecords, BufferTypeOK
<1>2. s \in Seq(Items) /\ s # <<>>
  BY <1>1, SubSeqFacts
<1>3. \A m \in DOMAIN s : KeyOf[s[m]] = k
  BY <1>1, SubSeqFacts DEF ContractInv, OwnItems
<1>4. \A m \in DOMAIN b : KeyOf[b[m]] = k
  BY DEF ContractInv, BatchInv, GoodHands
<1> HIDE DEF b, s, k
<1>5. /\ b \o s \in Seq(Items) /\ b \o s # <<>>
      /\ \A m \in DOMAIN (b \o s) : KeyOf[(b \o s)[m]] = k
  BY <1>1, <1>2, <1>3, <1>4
<1> QED
  BY <1>5 DEF Filled, b, s, k

-----------------------------------------------------------------------------
(* Every step of the pool is a step of the contract, or does not show. *)
ContractStep == \/ Partitions!Next
                \/ UNCHANGED <<queues, BatchOf, FailedOf, PhaseOf>>

LEMMA EnqueueContract ==
  ASSUME ContractInv, Views, Views', NEW i \in Items, Enqueue(i)
  PROVE  BatchInv' /\ ContractStep
<1>1. UNCHANGED poolVars
  BY DEF Enqueue
<1>2. BatchInv'
  BY <1>1 DEF ContractInv, BatchInv, poolVars
<1>3. UNCHANGED <<BatchOf, FailedOf, PhaseOf>>
  <2>1. \A v \in Workers : worker'[v] = worker[v]
    BY <1>1 DEF poolVars
  <2>2. \A v \in Workers :
           \/ Resting(worker[v]) /\ Resting(worker'[v])
           \/ /\ worker[v].at \in Holding /\ worker'[v].at \in Holding
              /\ worker'[v].key = worker[v].key
              /\ worker'[v].batch = worker[v].batch
              /\ worker'[v].failed = worker[v].failed
              /\ Phase(worker'[v].at) = Phase(worker[v].at)
    BY <2>1 DEF Resting
  <2> QED
    BY <2>2, ViewSame
<1>4. CASE PutStore(i)
  <2>1. queues' = [queues EXCEPT ![KeyOf[i]] = Append(@, i)]
    BY <1>4 DEF PutStore
  <2>2. Partitions!Accept(i)
    BY <1>3, <2>1 DEF Partitions!Accept
  <2> QED
    BY <1>2, <2>2 DEF ContractStep, Partitions!Next
<1>5. CASE ~ PutStore(i)
  <2>1. UNCHANGED queues
    BY <1>5 DEF Enqueue, BeginPut, PutPark, PutClosed, PutCancel
  <2> QED
    BY <1>2, <1>3, <2>1 DEF ContractStep
<1> QED
  BY <1>4, <1>5

(* Goroutines outside drain come and go without a batch. *)
LEMMA OutsideContract ==
  ASSUME ContractInv, Views, Views', UNCHANGED queues,
         \A v \in Workers : \/ worker'[v] = worker[v]
                            \/ Resting(worker[v]) /\ Resting(worker'[v])
  PROVE  BatchInv' /\ ContractStep
<1>1. BatchInv'
  BY DEF ContractInv, BatchInv, GoodHands, Resting, Holding
<1>2. \A v \in Workers :
        \/ Resting(worker[v]) /\ Resting(worker'[v])
        \/ /\ worker[v].at \in Holding /\ worker'[v].at \in Holding
           /\ worker'[v].key = worker[v].key
           /\ worker'[v].batch = worker[v].batch
           /\ worker'[v].failed = worker[v].failed
           /\ Phase(worker'[v].at) = Phase(worker[v].at)
  BY DEF Resting
<1>3. UNCHANGED <<BatchOf, FailedOf, PhaseOf>>
  BY <1>2, ViewSame
<1> QED
  BY <1>1, <1>3 DEF ContractStep

LEMMA QuietContract ==
  ASSUME ContractInv, Views, Views', NEW w \in Workers,
         \/ \E i \in Items : Submit(i)
         \/ Run \/ Close \/ Cancel \/ CloseBuffer \/ UNCHANGED vars
         \/ NextExit(w) \/ NextPick(w) \/ NextWait(w) \/ DrainEnd(w) \/ Release(w)
  PROVE  BatchInv' /\ ContractStep
<1>1. worker \in [Workers -> WorkerRecords] /\ BatchInv
  BY DEF ContractInv, PoolInv, PoolTypeOK
<1>2. UNCHANGED queues
  BY DEF Submit, PutReturn, Run, Close, Cancel, CloseBuffer, CloseMark, CloseDone, vars,
         NextExit, NextPick, NextWait, DrainEnd, Release, bufferVars
<1>3. ASSUME NEW ws \in [Workers -> WorkerRecords], NEW ws2 \in Signalled(ws), NEW v \in Workers
      PROVE  ws2[v] = ws[v] \/ (ws[v].at = "waiting" /\ ws2[v].at = "next")
  <2>1. \/ ws2[v] = ws[v]
        \/ ws[v].at = "waiting" /\ ws2[v] = [ws[v] EXCEPT !.at = "next"]
    BY SignalFacts
  <2> QED
    BY <2>1 DEF WorkerRecords
<1>4. ASSUME NEW i \in Items, Submit(i) PROVE BatchInv' /\ ContractStep
  <2>1. worker' = worker \/ worker' \in Signalled(worker)
    BY <1>4 DEF Submit, MarkReady
  <2>2. \A v \in Workers : worker'[v] = worker[v] \/ (worker[v].at = "waiting" /\ worker'[v].at = "next")
    BY <1>1, <1>3, <2>1
  <2> QED
    BY <1>2, <2>2, OutsideContract DEF Resting, Holding
<1>5. CASE Run
  BY <1>1, <1>2, <1>5, OutsideContract DEF Run, Idle, Resting, Holding
<1>6. CASE Close
  <2>1. \A v \in Workers : worker'[v] = worker[v] \/ (worker[v].at = "waiting" /\ worker'[v].at = "next")
    BY <1>1, <1>6 DEF Close, WakeAll, WorkerRecords
  <2> QED
    BY <1>2, <2>1, OutsideContract DEF Resting, Holding
<1>7. CASE Cancel \/ CloseBuffer \/ UNCHANGED vars
  BY <1>2, <1>7, OutsideContract DEF Cancel, CloseBuffer, vars, poolVars
<1>8. CASE NextExit(w)
  <2>1. worker' = [worker EXCEPT ![w] = Idle("exited")] /\ Idle("exited").at = "exited"
    BY <1>8 DEF NextExit, Idle
  <2> QED
    BY <1>1, <1>2, <1>8, <2>1, OutsideContract DEF NextExit, Resting, Holding
<1>9. CASE NextPick(w)
  <2>1. PICK n \in DOMAIN ready :
          worker' = [worker EXCEPT ![w] = [Idle("drain") EXCEPT !.key = ready[n]]]
    BY <1>9 DEF NextPick
  <2> DEFINE r == [Idle("drain") EXCEPT !.key = ready[n]]
  <2>2. r.at = "drain" /\ r.batch = <<>> /\ r.failed = {}
    BY DEF Idle
  <2>3. worker[w].at = "next"
    BY <1>9 DEF NextPick
  <2> HIDE DEF r
  <2>4. worker' = [worker EXCEPT ![w] = r]
    BY <2>1 DEF r
  <2> QED
    BY <1>1, <1>2, <2>2, <2>3, <2>4, OutsideContract DEF Resting, Holding
<1>10. CASE NextWait(w)
  <2>1. worker' = [worker EXCEPT ![w].at = "waiting"] /\ worker[w].at = "next"
    BY <1>10 DEF NextWait
  <2>2. worker'[w].at = "waiting" /\ \A v \in Workers : v # w => worker'[v] = worker[v]
    BY <1>1, <2>1 DEF WorkerRecords
  <2> QED
    BY <1>2, <2>1, <2>2, OutsideContract DEF Resting, Holding
<1>11. CASE DrainEnd(w)
  <2>1. worker' = [worker EXCEPT ![w].at = "release"] /\ worker[w].at = "drain"
    BY <1>11 DEF DrainEnd
  <2>2. worker[w].batch = <<>> /\ worker[w].failed = {}
    BY <1>1, <2>1 DEF BatchInv, GoodHands
  <2>3. /\ worker'[w].at = "release" /\ worker'[w].batch = <<>> /\ worker'[w].failed = {}
        /\ \A v \in Workers : v # w => worker'[v] = worker[v]
    BY <1>1, <2>1, <2>2 DEF WorkerRecords
  <2> QED
    BY <1>2, <2>1, <2>2, <2>3, OutsideContract DEF Resting
<1>12. CASE Release(w)
  <2> DEFINE done == [worker EXCEPT ![w] = Idle("next")]
  <2>1. worker' = done \/ worker' \in Signalled(done)
    BY <1>12 DEF Release, MarkReady
  <2>2. done \in [Workers -> WorkerRecords] /\ done[w].at = "next"
        /\ \A v \in Workers : v # w => done[v] = worker[v]
    BY <1>1, IdleFacts DEF WorkerStates
  <2> HIDE DEF done
  <2>3. \A v \in Workers : worker'[v] = done[v] \/ (done[v].at = "waiting" /\ worker'[v].at = "next")
    BY <1>3, <2>1, <2>2
  <2>4. worker[w].at = "release" /\ worker[w].batch = <<>> /\ worker[w].failed = {}
    BY <1>1, <1>12 DEF Release, BatchInv, GoodHands
  <2>5. \A v \in Workers : worker'[v] = worker[v] \/ (Resting(worker[v]) /\ Resting(worker'[v]))
    BY <2>2, <2>3, <2>4 DEF Resting, Holding
  <2> QED
    BY <1>2, <2>5, OutsideContract
<1> QED
  BY <1>4, <1>5, <1>6, <1>7, <1>8, <1>9, <1>10, <1>11, <1>12

LEMMA TakeFirstContract ==
  ASSUME ContractInv, Views, Views', NEW w \in Workers, TakeFirst(w)
  PROVE  BatchInv' /\ ContractStep
<1> DEFINE k == worker[w].key
<1>1. /\ worker \in [Workers -> WorkerRecords] /\ SerialPerKey /\ BatchInv
      /\ worker[w].at = "drain" /\ worker[w].at \in Holding /\ k \in Keys
  BY DEF ContractInv, PoolInv, PoolTypeOK, HoldInv, TakeFirst, Holding
<1>2. TakeReady(k, 1) /\ queues \in [Keys -> Seq(Items)] /\ queues[k] \in Seq(Items)
  BY <1>1 DEF TakeFirst, ContractInv, BufferTypeOK
<1>3. AtMost(1, k) = 1 /\ 1 \in 1..Len(queues[k])
  <2>1. Len(queues[k]) \in Nat /\ Len(queues[k]) # 0
    BY <1>2 DEF TakeReady
  <2> HIDE DEF k
  <2>2. 1 \in 1..Len(queues[k])
    BY <2>1
  <2>3. AtMost(1, k) = IF 1 < Len(queues[k]) THEN 1 ELSE Len(queues[k])
    BY DEF AtMost
  <2> QED
    BY <2>1, <2>2, <2>3
<1>4. queues' = [queues EXCEPT ![k] = SubSeq(@, 1 + 1, Len(@))]
  BY <1>2, <1>3 DEF TakeReady, Dequeue
<1>5. PICK cfg \in Configs :
        worker' = [worker EXCEPT ![w].at = "linger", ![w].cfg = cfg,
                                 ![w].batch = SubSeq(queues[k], 1, 1)]
  BY DEF TakeFirst
<1> DEFINE r == [worker[w] EXCEPT !.at = "linger", !.cfg = cfg,
                                  !.batch = SubSeq(queues[k], 1, 1)]
<1>6. worker' = [worker EXCEPT ![w] = r]
  BY <1>1, <1>5
<1>7. worker[w].batch = <<>> /\ worker[w].failed = {}
  BY <1>1 DEF BatchInv, GoodHands
<1>8. r.at = "linger" /\ r.key = k /\ r.batch = SubSeq(queues[k], 1, 1) /\ r.failed = {}
  BY <1>1, <1>7 DEF WorkerRecords
<1>9. /\ SubSeq(queues[k], 1, 1) # <<>>
      /\ \A n \in DOMAIN SubSeq(queues[k], 1, 1) : KeyOf[SubSeq(queues[k], 1, 1)[n]] = k
  BY <1>1, <1>2, <1>3, SubSeqFacts DEF ContractInv, OwnItems
<1>10. GoodHands(r) /\ r.at \in Holding
  BY <1>8, <1>9 DEF GoodHands, Holding
<1> HIDE DEF r
<1>11. BatchInv'
  BY <1>1, <1>6, <1>10, OneHand
<1>12. worker'[w] = r /\ \A v \in Workers : v # w => worker'[v] = worker[v]
  BY <1>1, <1>6
<1>13. /\ BatchOf[k] = <<>> /\ PhaseOf[k] = Phase("drain")
       /\ FailedOf[k] = {}
       /\ BatchOf' = [BatchOf EXCEPT ![k] = SubSeq(queues[k], 1, 1)]
       /\ FailedOf' = [FailedOf EXCEPT ![k] = {}]
       /\ PhaseOf' = [PhaseOf EXCEPT ![k] = Phase("linger")]
  BY <1>1, <1>7, <1>8, <1>10, <1>12, ViewStep
<1>14. Phase("drain") = "free" /\ Phase("linger") = "collecting"
  BY DEF Phase
<1>15. FailedOf' = FailedOf
  BY <1>13 DEF FailedOf
<1>16. SubSeq(queues[k], 1, 1) \in Seq(Items)
  BY <1>2, <1>3, SubSeqFacts
<1>17. BatchOf[k] \o SubSeq(queues[k], 1, 1) = SubSeq(queues[k], 1, 1)
  BY <1>13, <1>16
<1>18. Partitions!Collect(k)
  BY <1>3, <1>4, <1>13, <1>14, <1>15, <1>17 DEF Partitions!Collect
<1> QED
  BY <1>1, <1>11, <1>18 DEF ContractStep, Partitions!Next

LEMMA TakeRestContract ==
  ASSUME ContractInv, Views, Views', NEW w \in Workers, TakeRest(w)
  PROVE  BatchInv' /\ ContractStep
<1> DEFINE k    == worker[w].key
           rest == worker[w].cfg.batch - 1
<1>1. /\ worker \in [Workers -> WorkerRecords] /\ SerialPerKey /\ BatchInv
      /\ worker[w].at = "linger" /\ worker[w].at \in Holding /\ k \in Keys
  BY DEF ContractInv, PoolInv, PoolTypeOK, HoldInv, TakeRest, Holding
<1>2. worker[w].failed = {} /\ GoodHands(worker[w])
  BY <1>1 DEF BatchInv, GoodHands
<1>3. Phase("linger") = "collecting" /\ Phase("handle") = "collecting"
  BY DEF Phase
<1>4. CASE rest > 0 /\ queues[k] # <<>>
  <2> DEFINE n == AtMost(rest, k)
             r == [worker[w] EXCEPT !.at = "handle", !.batch = Filled(w, n)]
  <2>1. rest \in Int /\ BufferTypeOK /\ queues[k] \in Seq(Items)
    BY <1>1 DEF WorkerRecords, ContractInv, BufferTypeOK
  <2>2. TakeReady(k, rest)
    BY <1>4 DEF TakeRest
  <2>3. n \in 1..Len(queues[k])
    BY <1>1, <1>4, <2>1, AtMostBounds
  <2>4. queues' = [queues EXCEPT ![k] = SubSeq(@, n + 1, Len(@))]
    BY <2>2 DEF TakeReady, Dequeue
  <2>5. worker' = [worker EXCEPT ![w].at = "handle", ![w].batch = Filled(w, n)]
    BY <1>4 DEF TakeRest
  <2>6. worker' = [worker EXCEPT ![w] = r]
    BY <1>1, <2>5
  <2> HIDE DEF n
  <2>7. r.at = "handle" /\ r.key = k /\ r.batch = Filled(w, n) /\ r.failed = {}
    BY <1>1, <1>2 DEF WorkerRecords
  <2>8. Filled(w, n) # <<>> /\ \A m \in DOMAIN Filled(w, n) : KeyOf[Filled(w, n)[m]] = k
    BY <1>1, <2>3, FilledFacts
  <2>9. GoodHands(r) /\ r.at \in Holding
    BY <2>7, <2>8 DEF GoodHands, Holding
  <2> HIDE DEF r
  <2>10. BatchInv'
    BY <1>1, <2>6, <2>9, OneHand
  <2>11. worker'[w] = r /\ \A v \in Workers : v # w => worker'[v] = worker[v]
    BY <1>1, <2>6
  <2>12. /\ BatchOf[k] = worker[w].batch /\ PhaseOf[k] = Phase("linger")
         /\ FailedOf[k] = {}
         /\ BatchOf' = [BatchOf EXCEPT ![k] = Filled(w, n)]
         /\ FailedOf' = [FailedOf EXCEPT ![k] = {}]
         /\ PhaseOf' = [PhaseOf EXCEPT ![k] = Phase("handle")]
    BY <1>1, <1>2, <2>7, <2>9, <2>11, ViewStep
  <2>13. FailedOf' = FailedOf
    BY <2>12 DEF FailedOf
  <2>14. BatchOf[k] \o SubSeq(queues[k], 1, n) = Filled(w, n)
    BY <2>12 DEF Filled
  <2>15. Partitions!Collect(k)
    BY <1>3, <2>3, <2>4, <2>12, <2>13, <2>14 DEF Partitions!Collect
  <2> QED
    BY <1>1, <2>10, <2>15 DEF ContractStep, Partitions!Next
<1>5. CASE ~ (rest > 0 /\ queues[k] # <<>>)
  <2> DEFINE r == [worker[w] EXCEPT !.at = "handle"]
  <2>1. worker' = [worker EXCEPT ![w] = r] /\ UNCHANGED queues
    BY <1>1, <1>5 DEF TakeRest, bufferVars
  <2>2. /\ r.at = "handle" /\ r.key = k /\ r.batch = worker[w].batch
        /\ r.failed = worker[w].failed
    BY <1>1 DEF WorkerRecords
  <2>3. GoodHands(r) /\ r.at \in Holding
    BY <1>1, <1>2, <2>2 DEF GoodHands, Holding
  <2> HIDE DEF r
  <2>4. BatchInv'
    BY <1>1, <2>1, <2>3, OneHand
  <2>5. \A v \in Workers :
           \/ Resting(worker[v]) /\ Resting(worker'[v])
           \/ /\ worker[v].at \in Holding /\ worker'[v].at \in Holding
              /\ worker'[v].key = worker[v].key
              /\ worker'[v].batch = worker[v].batch
              /\ worker'[v].failed = worker[v].failed
              /\ Phase(worker'[v].at) = Phase(worker[v].at)
    BY <1>1, <1>3, <2>1, <2>2, <2>3 DEF Resting
  <2>6. UNCHANGED <<BatchOf, FailedOf, PhaseOf>>
    BY <2>5, ViewSame
  <2> QED
    BY <2>1, <2>4, <2>6 DEF ContractStep
<1> QED
  BY <1>4, <1>5

(* The record after a round, read as hands and as a phase. *)
LEMMA RoundHands ==
  ASSUME NEW w \in Workers, worker \in [Workers -> WorkerRecords],
         NEW failed \in SUBSET Items
  PROVE  /\ AfterRound(w, failed).key = worker[w].key
         /\ AfterRound(w, failed).batch = <<>>
         /\ AfterRound(w, failed).failed = failed
         /\ AfterRound(w, failed).at \in Holding
         /\ Phase(AfterRound(w, failed).at) = IF failed = {} THEN "free" ELSE "retrying"
         /\ GoodHands(AfterRound(w, failed))
<1>1. CASE failed = {}
  <2>1. AfterRound(w, failed) =
          [worker[w] EXCEPT !.at = "drain", !.batch = <<>>, !.failed = {},
                            !.burst = @ + 1, !.round = 0, !.cfg = NoConfig]
    BY <1>1 DEF AfterRound
  <2>2. /\ AfterRound(w, failed).at = "drain"
        /\ AfterRound(w, failed).key = worker[w].key
        /\ AfterRound(w, failed).batch = <<>> /\ AfterRound(w, failed).failed = {}
    BY <2>1 DEF WorkerRecords
  <2> QED
    BY <1>1, <2>2 DEF Holding, Phase, GoodHands
<1>2. CASE failed # {}
  <2>1. AfterRound(w, failed) =
          [worker[w] EXCEPT !.at = "retry", !.batch = <<>>, !.failed = failed,
                            !.round = @ + 1]
    BY <1>2 DEF AfterRound
  <2>2. /\ AfterRound(w, failed).at = "retry"
        /\ AfterRound(w, failed).key = worker[w].key
        /\ AfterRound(w, failed).batch = <<>> /\ AfterRound(w, failed).failed = failed
    BY <2>1 DEF WorkerRecords
  <2> QED
    BY <1>2, <2>2 DEF Holding, Phase, GoodHands
<1> QED
  BY <1>1, <1>2

LEMMA ProcessContract ==
  ASSUME ContractInv, Views, Views', NEW w \in Workers, Handle(w) \/ Retry(w) \/ DeadLetter(w)
  PROVE  BatchInv' /\ ContractStep
<1> DEFINE k    == worker[w].key
           from == IF worker[w].at = "handle" THEN Range(worker[w].batch) ELSE worker[w].failed
<1>1. /\ worker \in [Workers -> WorkerRecords] /\ SerialPerKey /\ BatchInv
      /\ worker[w].at \in {"handle", "retry"} /\ worker[w].at \in Holding /\ k \in Keys
      /\ UNCHANGED queues
  BY DEF ContractInv, PoolInv, PoolTypeOK, HoldInv, Handle, Retry, DeadLetter, Holding, bufferVars
<1>2. Range(worker[w].batch) \subseteq Items /\ worker[w].failed \subseteq Items
  BY <1>1 DEF WorkerRecords, Range
<1>3. PICK bad \in SUBSET from : worker' = [worker EXCEPT ![w] = AfterRound(w, bad)]
  BY DEF Handle, Retry, DeadLetter
<1>4. bad \in SUBSET Items
  BY <1>2
<1> DEFINE r == AfterRound(w, bad)
<1>5. /\ r.key = k /\ r.batch = <<>> /\ r.failed = bad /\ r.at \in Holding
      /\ Phase(r.at) = (IF bad = {} THEN "free" ELSE "retrying")
      /\ GoodHands(r)
  BY <1>1, <1>4, RoundHands
<1>6. worker' = [worker EXCEPT ![w] = r]
  BY <1>3
<1> HIDE DEF r
<1>7. BatchInv'
  BY <1>1, <1>5, <1>6, OneHand
<1>8. worker'[w] = r /\ \A v \in Workers : v # w => worker'[v] = worker[v]
  BY <1>1, <1>6
<1>9. /\ BatchOf[k] = worker[w].batch /\ PhaseOf[k] = Phase(worker[w].at)
      /\ FailedOf[k] = worker[w].failed
      /\ BatchOf' = [BatchOf EXCEPT ![k] = <<>>]
      /\ FailedOf' = [FailedOf EXCEPT ![k] = bad]
      /\ PhaseOf' = [PhaseOf EXCEPT ![k] = IF bad = {} THEN "free" ELSE "retrying"]
  BY <1>1, <1>5, <1>8, ViewStep
<1>10. CASE worker[w].at = "handle"
  <2>1. PhaseOf[k] = "collecting"
    BY <1>9, <1>10 DEF Phase
  <2>2. BatchOf[k] # <<>> /\ \A i \in Range(BatchOf[k]) : KeyOf[i] = k
    BY <1>1, <1>9, <1>10 DEF BatchInv, GoodHands, Range
  <2>3. bad \in SUBSET Range(BatchOf[k])
    BY <1>3, <1>9, <1>10
  <2>4. Partitions!HandleBatch(k)
    BY <1>1, <1>9, <2>1, <2>2, <2>3 DEF Partitions!HandleBatch, Partitions!Range, Range
  <2> QED
    BY <1>1, <1>7, <2>4 DEF ContractStep, Partitions!Next
<1>11. CASE worker[w].at = "retry"
  <2>1. PhaseOf[k] = "retrying"
    BY <1>9, <1>11 DEF Phase
  <2>2. BatchOf' = BatchOf
    <3>1. BatchOf[k] = <<>>
      BY <1>1, <1>9, <1>11 DEF BatchInv, GoodHands
    <3> QED
      BY <1>9, <3>1 DEF BatchOf
  <2>3. bad \in SUBSET FailedOf[k]
    BY <1>3, <1>9, <1>11
  <2>4. Partitions!Settle(k)
    BY <1>1, <1>9, <2>1, <2>2, <2>3 DEF Partitions!Settle
  <2> QED
    BY <1>1, <1>7, <2>4 DEF ContractStep, Partitions!Next
<1> QED
  BY <1>1, <1>10, <1>11

LEMMA ContractNext ==
  ASSUME ContractInv, PoolInv', [Next]_vars
  PROVE  BatchInv' /\ ContractStep
<1>1. Views /\ Views'
  BY ViewsHold, ViewsNext DEF ContractInv
<1>2. ASSUME NEW i \in Items, Enqueue(i) PROVE BatchInv' /\ ContractStep
  BY <1>1, <1>2, EnqueueContract
<1>3. 1 \in Workers
  BY ConsumerAssumption DEF Workers
<1>4. ASSUME NEW w \in Workers, WorkerStep(w) PROVE BatchInv' /\ ContractStep
  BY <1>1, <1>4, QuietContract, TakeFirstContract, TakeRestContract, ProcessContract DEF WorkerStep
<1>5. CASE (\E i \in Items : Submit(i)) \/ Run \/ Close \/ Cancel \/ CloseBuffer \/ UNCHANGED vars
  BY <1>1, <1>3, <1>5, QuietContract
<1> QED
  BY <1>2, <1>4, <1>5 DEF Next

(* The pool implements SerialPartitions: under every interleaving of Put,
   Submit, next, drain, retries, release, Close and cancellation a handler is
   given non-empty batches of one key, in arrival order, one goroutine per key,
   and what was accepted stays until a handler has dealt with it. *)
THEOREM ConsumerImplementsContract == Spec => HandlerContract
<1>1. Init => ContractInv /\ Partitions!Init
  <2> SUFFICES ASSUME Init PROVE ContractInv /\ Partitions!Init
    OBVIOUS
  <2>1. PoolInv /\ BufferTypeOK
    BY PoolInit, InitInv DEF Init
  <2>2. \A w \in Workers : worker[w].at = "off"
    BY DEF Init, Idle
  <2>3. BatchInv
    BY <2>2 DEF BatchInv, GoodHands
  <2>4. OwnItems
    BY DEF Init, BufferInit, OwnItems
  <2>5. Partitions!Init
    BY DEF Init, BufferInit, BatchOf, FailedOf, PhaseOf, Partitions!Init
  <2> QED
    BY <2>1, <2>3, <2>4, <2>5 DEF ContractInv
<1>2. ContractInv /\ PoolInv' /\ BufferTypeOK' /\ [Next]_vars
        => ContractInv' /\ [Partitions!Next]_(Partitions!vars)
  <2> SUFFICES ASSUME ContractInv, PoolInv', BufferTypeOK', [Next]_vars
               PROVE  ContractInv' /\ [Partitions!Next]_(Partitions!vars)
    OBVIOUS
  <2>1. [BufferNext]_bufferVars
    BY BufferStep DEF ContractInv, PoolInv
  <2>2. OwnItems'
    BY <2>1, OwnItemsStep DEF ContractInv
  <2>3. BatchInv' /\ ContractStep
    BY ContractNext
  <2> QED
    BY <2>2, <2>3 DEF ContractInv, ContractStep, Partitions!vars
<1> QED
  BY <1>1, <1>2, PoolInvariant, PTL DEF Spec, HandlerContract, Partitions!Spec
=============================================================================

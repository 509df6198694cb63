--------------------------- MODULE SpeechProofs ----------------------------
(***************************************************************************)
(* Proofs about Speech, for every set of messages, every length of a reply,  *)
(* every limit and every number of faults: typing with the worker's slot,    *)
(* the three promises of the delivery against the ledger, and the pause      *)
(* after speaking.                                                           *)
(***************************************************************************)
EXTENDS Speech, SequenceTheorems, TLAPS

Somebody == Msgs \cup {None}

AgentSet ==
  [at: {"idle", "item", "next", "judge", "write", "load", "send", "mark", "anchor", "record"},
   batch: Seq(Msgs), cand: Somebody, msg: Somebody, parts: 0..ReplyMax, next: 1..ReplyMax + 1,
   res: {"none", "sent", "unsure", "refused"}, said: BOOLEAN, asked: BOOLEAN]

PaceSet ==
  [judged: 0..JudgeEvery, replied: 0..Cooldown, active: 0..SilenceReset + 1, streak: 0..MaxStreak,
   running: BOOLEAN, pending: Somebody]

CmdSet == [at: {"idle", "say", "note"}, msg: Somebody]

(* what the nodes hold *)
NodesShape ==
  /\ line \in Seq(Msgs) /\ queue \in Seq(Msgs)
  /\ cmd \in CmdSet /\ (cmd.at # "idle" => cmd.msg \in Msgs)
  /\ agent \in AgentSet /\ pace \in PaceSet

(* what outlives them, and what is counted *)
RecordShape ==
  /\ kind \in Scripts /\ came \in [Msgs -> 0..2] /\ faults \in 0..MaxFaults
  /\ enabled \in BOOLEAN /\ ending \in BOOLEAN
  /\ ledger \subseteq Msgs \X Parts /\ doubt \subseteq Msgs \X Parts
  /\ anchor \in [msg: Somebody, parts: 0..ReplyMax]
  /\ got \in [Msgs -> [Parts -> 0..2]]

(* where a reply stands, by where its agent stands *)
ReplyRule(a) ==
  /\ a.at \in {"load", "send", "mark", "anchor"} => a.msg \in Msgs /\ a.parts \in Parts /\ a.next <= a.parts + 1
  /\ a.at \in {"send", "mark"} => a.next <= a.parts
  /\ a.at \in {"judge", "write"} => a.msg \in Msgs
  /\ a.at = "record" => ~ a.asked
  /\ a.at \in {"idle", "item", "next", "judge", "write"} => a.next = 1

(* the worker that judges: it runs when the batch is through *)
Working(a) ==
  \/ a.at \in {"next", "judge", "record"}
  \/ a.at \in {"write", "load", "send", "mark", "anchor"} /\ ~ a.asked

SlotRule ==
  /\ pace.running <=> Working(agent)
  /\ Working(agent) => agent.batch = <<>>

Known(m, i) == <<m, i>> \in ledger \cup doubt

(* the delivery: what has come out is in the ledger or in doubt, but for the part whose mark is
   being written; the parts before the one in work are behind it; and one that is sent although
   the ledger has it is in doubt *)
Delivery ==
  /\ \A m \in Msgs, i \in Parts : got[m][i] > 0 =>
       Known(m, i) \/ (agent.at = "mark" /\ agent.res # "refused" /\ agent.msg = m /\ agent.next = i)
  /\ SentOnce
  /\ agent.at \in {"load", "send", "mark"} => \A j \in Parts : j < agent.next => Known(agent.msg, j)
  /\ agent.at = "anchor" => \A j \in 1..agent.parts : Known(agent.msg, j)
  /\ agent.at = "send" => (ThisPart \in ledger => ThisPart \in doubt)
  /\ NoGap /\ AnchorMeansSent

SpeechInv == NodesShape /\ RecordShape /\ ReplyRule(agent) /\ SlotRule /\ Delivery
-----------------------------------------------------------------------------
(* Delivery, for steps that only move the agent and the numbers around it *)

LEMMA DeliveryStays ==
  ASSUME Delivery, UNCHANGED <<agent, ledger, doubt, got, anchor>>
  PROVE  Delivery'
BY DEF Delivery, Known, ThisPart, SentOnce, NoGap, AnchorMeansSent

LEMMA DeliveryApart ==
  ASSUME Delivery, UNCHANGED <<ledger, got, anchor>>, doubt \subseteq doubt',
         agent'.at \notin {"load", "send", "mark", "anchor"},
         agent.at = "mark" => agent.res = "refused"
  PROVE  Delivery'
<1>1. \A m \in Msgs, i \in Parts : got'[m][i] > 0 => Known(m, i)'
  BY DEF Delivery, Known
<1>2. SentOnce' BY DEF Delivery, SentOnce
<1>3. NoGap' BY DEF Delivery, NoGap
<1>4. AnchorMeansSent' BY DEF Delivery, AnchorMeansSent
<1> QED BY <1>1, <1>2, <1>3, <1>4 DEF Delivery

(* a chat's environment and its command node leave the agent alone *)
LEMMA AgentAlone ==
  ASSUME SpeechInv, UNCHANGED <<agent, ledger, doubt, got, anchor, kind, faults>>,
         came' \in [Msgs -> 0..2], line' \in Seq(Msgs), queue' \in Seq(Msgs),
         cmd' \in CmdSet, cmd'.at # "idle" => cmd'.msg \in Msgs,
         enabled' \in BOOLEAN, ending' \in BOOLEAN,
         pace' \in PaceSet, pace'.running = pace.running
  PROVE  SpeechInv'
<1>1. NodesShape' BY DEF SpeechInv, NodesShape
<1>2. RecordShape' BY DEF SpeechInv, RecordShape
<1>3. ReplyRule(agent') BY DEF SpeechInv
<1>4. SlotRule' BY DEF SpeechInv, SlotRule, Working
<1>5. Delivery' BY DeliveryStays DEF SpeechInv
<1> QED BY <1>1, <1>2, <1>3, <1>4, <1>5 DEF SpeechInv, ReplyRule

(* and a step of the agent leaves the rest alone *)
LEMMA AgentSteps ==
  ASSUME SpeechInv, UNCHANGED <<kind, came, line, cmd, enabled, ending>>,
         agent' \in AgentSet, ReplyRule(agent'), queue' \in Seq(Msgs), pace' \in PaceSet,
         pace'.running <=> Working(agent'), Working(agent') => agent'.batch = <<>>,
         ledger' \subseteq Msgs \X Parts, doubt' \subseteq Msgs \X Parts, faults' \in 0..MaxFaults,
         anchor' \in [msg: Somebody, parts: 0..ReplyMax], got' \in [Msgs -> [Parts -> 0..2]],
         Delivery'
  PROVE  SpeechInv'
<1>1. NodesShape' BY DEF SpeechInv, NodesShape
<1>2. RecordShape' BY DEF SpeechInv, RecordShape
<1>3. SlotRule' BY DEF SlotRule, Working
<1> QED BY <1>1, <1>2, <1>3 DEF SpeechInv, ReplyRule

LEMMA AgedBound ==
  ASSUME NEW limit \in Nat, NEW age \in 0..limit
  PROVE  Aged(age, limit) \in 0..limit
BY DEF Aged

-----------------------------------------------------------------------------
LEMMA SpeechStarts == Init => SpeechInv
<1> SUFFICES ASSUME Init PROVE SpeechInv OBVIOUS
<1> USE SpeechAssumption
<1>1. NodesShape
  <2>1. agent \in AgentSet BY DEF Init, Idle, AgentSet, Somebody
  <2>2. pace \in PaceSet BY DEF Init, Fresh, PaceSet, Somebody
  <2>3. cmd \in CmdSet /\ cmd.at = "idle" BY DEF Init, CmdSet, Somebody
  <2>4. line \in Seq(Msgs) /\ queue \in Seq(Msgs) BY EmptySeq DEF Init
  <2> QED BY <2>1, <2>2, <2>3, <2>4 DEF NodesShape
<1>2. RecordShape
  <2>1. got \in [Msgs -> [Parts -> 0..2]] BY DEF Init
  <2>2. anchor \in [msg: Somebody, parts: 0..ReplyMax] BY DEF Init, Somebody
  <2>3. enabled \in BOOLEAN /\ ending \in BOOLEAN BY DEF Init
  <2>4. /\ kind \in Scripts /\ came \in [Msgs -> 0..2] /\ faults \in 0..MaxFaults
        /\ ledger \subseteq Msgs \X Parts /\ doubt \subseteq Msgs \X Parts
    BY DEF Init
  <2> QED BY <2>1, <2>2, <2>3, <2>4 DEF RecordShape
<1>3. ReplyRule(agent) BY DEF Init, Idle, ReplyRule
<1>4. SlotRule BY DEF Init, Idle, Fresh, SlotRule, Working
<1>5. Delivery
  <2>1. \A m \in Msgs, i \in Parts : got[m][i] = 0 BY DEF Init
  <2>2. agent.at = "idle" /\ anchor.msg = None BY DEF Init, Idle
  <2> QED BY <2>1, <2>2 DEF Delivery, SentOnce, NoGap, AnchorMeansSent
<1> QED BY <1>1, <1>2, <1>3, <1>4, <1>5 DEF SpeechInv

LEMMA ArriveKeeps ==
  ASSUME SpeechInv, NEW m \in Msgs, Arrive(m)
  PROVE  SpeechInv'
<1>1. came' \in [Msgs -> 0..2] BY DEF Arrive, SpeechInv, RecordShape
<1>2. line' \in Seq(Msgs) BY AppendProperties DEF Arrive, SpeechInv, NodesShape
<1> QED BY <1>1, <1>2, AgentAlone DEF Arrive, SpeechInv, NodesShape, RecordShape, seen, heard

LEMMA TickKeeps == SpeechInv /\ Tick => SpeechInv'
<1> SUFFICES ASSUME SpeechInv, Tick PROVE SpeechInv' OBVIOUS
<1>1. pace' \in PaceSet /\ pace'.running = pace.running
  <2>0. pace \in PaceSet BY DEF SpeechInv, NodesShape
  <2>1. /\ Aged(pace.judged, JudgeEvery) \in 0..JudgeEvery /\ Aged(pace.replied, Cooldown) \in 0..Cooldown
        /\ Aged(pace.active, SilenceReset + 1) \in 0..SilenceReset + 1
    BY <2>0, AgedBound, SpeechAssumption DEF PaceSet
  <2> QED BY <2>0, <2>1 DEF Tick, PaceSet
<1> QED BY <1>1, AgentAlone DEF Tick, SpeechInv, NodesShape, RecordShape, chat, front

LEMMA StopKeeps == SpeechInv /\ Stop => SpeechInv'
<1> SUFFICES ASSUME SpeechInv, Stop PROVE SpeechInv' OBVIOUS
<1>1. ending' \in BOOLEAN BY DEF Stop
<1> QED BY <1>1, AgentAlone DEF Stop, SpeechInv, NodesShape, RecordShape, chat, front, seen, heard

LEMMA NoteDirectOK ==
  ASSUME NEW p \in PaceSet
  PROVE  NoteDirect(p) \in PaceSet /\ NoteDirect(p).running = p.running
<1>1. 0 \in 0..Cooldown /\ 0 \in 0..MaxStreak BY SpeechAssumption
<1>2. [p EXCEPT !.streak = 0] \in PaceSet /\ [p EXCEPT !.streak = 0].running = p.running
  BY <1>1 DEF PaceSet
<1>3. \A q \in PaceSet : [q EXCEPT !.replied = 0] \in PaceSet /\ [q EXCEPT !.replied = 0].running = q.running
  BY <1>1 DEF PaceSet
<1>4. NoteDirect(p) = [[p EXCEPT !.streak = 0] EXCEPT !.replied = 0] BY DEF NoteDirect
<1> QED BY <1>2, <1>3, <1>4

LEMMA CommandKeeps == SpeechInv /\ Command => SpeechInv'
<1> SUFFICES ASSUME SpeechInv, Command PROVE SpeechInv' OBVIOUS
<1>0. /\ line \in Seq(Msgs) /\ queue \in Seq(Msgs) /\ cmd \in CmdSet /\ pace \in PaceSet
      /\ cmd.at # "idle" => cmd.msg \in Msgs
      /\ came \in [Msgs -> 0..2] /\ enabled \in BOOLEAN /\ ending \in BOOLEAN
  BY DEF SpeechInv, NodesShape, RecordShape
<1>1. CASE PassOn
  <2>1. line' \in Seq(Msgs) /\ queue' \in Seq(Msgs)
    BY <1>0, <1>1, HeadTailProperties, AppendProperties DEF PassOn, Behind
  <2> QED BY <1>0, <1>1, <2>1, AgentAlone DEF PassOn, chat, seen, heard
<1>2. CASE RunCommand
  <2>1. line' \in Seq(Msgs) /\ Head(line) \in Msgs BY <1>0, <1>2, HeadTailProperties DEF RunCommand
  <2>2. cmd' \in CmdSet /\ cmd'.msg \in Msgs BY <1>2, <2>1 DEF RunCommand, CmdSet, Somebody
  <2>3. enabled' \in BOOLEAN BY <1>0, <1>2 DEF RunCommand, Switch
  <2> QED BY <1>0, <1>2, <2>1, <2>2, <2>3, AgentAlone DEF RunCommand, chat, seen, heard
<1>3. CASE SayResult
  <2>1. cmd' \in CmdSet /\ cmd'.msg \in Msgs BY <1>0, <1>3 DEF SayResult, CmdSet
  <2> QED BY <1>0, <1>3, <2>1, AgentAlone DEF SayResult, chat
<1>4. CASE NoteCommand
  <2>1. cmd' \in CmdSet /\ cmd'.at = "idle" BY <1>4 DEF NoteCommand, CmdSet, Somebody
  <2>2. queue' \in Seq(Msgs) BY <1>0, <1>4, AppendProperties DEF NoteCommand, Behind
  <2>3. pace' \in PaceSet /\ pace'.running = pace.running
    BY <1>0, <1>4, NoteDirectOK DEF NoteCommand
  <2> QED BY <1>0, <1>4, <2>1, <2>2, <2>3, AgentAlone DEF NoteCommand, chat, heard
<1> QED BY <1>1, <1>2, <1>3, <1>4 DEF Command
-----------------------------------------------------------------------------
(* The agent before a reply: the batch, the slot, the judge *)

(* a step that has nothing to do with the delivery *)
LEMMA AgentApart ==
  ASSUME SpeechInv, Apart, UNCHANGED <<ledger, got>>, doubt' \subseteq Msgs \X Parts, doubt \subseteq doubt',
         faults' \in 0..MaxFaults, queue' \in Seq(Msgs), pace' \in PaceSet,
         agent' \in AgentSet, ReplyRule(agent'), agent'.at \notin {"load", "send", "mark", "anchor"},
         agent.at = "mark" => agent.res = "refused",
         pace'.running <=> Working(agent'), Working(agent') => agent'.batch = <<>>
  PROVE  SpeechInv'
<1>1. Delivery' BY DeliveryApart DEF SpeechInv, Apart
<1> QED BY <1>1, AgentSteps DEF Apart, chat, front, SpeechInv, RecordShape

LEMMA Holds ==
  ASSUME SpeechInv
  PROVE  /\ agent \in AgentSet /\ pace \in PaceSet /\ queue \in Seq(Msgs) /\ line \in Seq(Msgs)
         /\ ledger \subseteq Msgs \X Parts /\ doubt \subseteq Msgs \X Parts /\ faults \in 0..MaxFaults
         /\ anchor \in [msg: Somebody, parts: 0..ReplyMax] /\ got \in [Msgs -> [Parts -> 0..2]]
         /\ ReplyRule(agent) /\ Delivery
         /\ pace.running <=> Working(agent)
         /\ Working(agent) => agent.batch = <<>>
BY DEF SpeechInv, NodesShape, RecordShape, SlotRule

LEMMA IdleOK == /\ Idle \in AgentSet /\ Idle.at = "idle" /\ ReplyRule(Idle) /\ ~ Working(Idle)
BY SpeechAssumption, EmptySeq DEF Idle, AgentSet, Somebody, ReplyRule, Working

LEMMA StirredOK ==
  ASSUME pace \in PaceSet
  PROVE  /\ Stirred \in PaceSet /\ Stirred.running = pace.running
         /\ \A x \in Somebody, r \in BOOLEAN :
              LET q == [Stirred EXCEPT !.running = r, !.pending = x]
              IN  q \in PaceSet /\ q.running = r
         /\ \A x \in Somebody : LET q == [Stirred EXCEPT !.pending = x]
                                IN  q \in PaceSet /\ q.running = pace.running
         /\ LET q == [Stirred EXCEPT !.pending = None, !.judged = 0]
            IN  q \in PaceSet /\ q.running = pace.running
         /\ LET q == [Stirred EXCEPT !.running = FALSE]
            IN  q \in PaceSet /\ q.running = FALSE
         /\ \A j \in {pace.judged, 0} : LET q == [Stirred EXCEPT !.running = FALSE, !.pending = None, !.judged = j]
                                      IN  q \in PaceSet /\ q.running = FALSE
<1>0. 0 \in 0..MaxStreak /\ 0 \in 0..SilenceReset + 1 /\ 0 \in 0..JudgeEvery /\ None \in Somebody
  BY SpeechAssumption DEF Somebody
<1>1. \A q \in PaceSet, j \in 0..JudgeEvery : [q EXCEPT !.judged = j] \in PaceSet /\ [q EXCEPT !.judged = j].running = q.running
  BY DEF PaceSet
<1>2. \A q \in PaceSet, x \in Somebody : [q EXCEPT !.pending = x] \in PaceSet /\ [q EXCEPT !.pending = x].running = q.running
  BY DEF PaceSet
<1>3. \A q \in PaceSet, r \in BOOLEAN : [q EXCEPT !.running = r] \in PaceSet /\ [q EXCEPT !.running = r].running = r
  BY DEF PaceSet
<1>4. Stirred \in PaceSet /\ Stirred.running = pace.running
  <2> DEFINE n == IF Silent THEN 0 ELSE pace.streak
             p == [pace EXCEPT !.streak = n]
  <2>1. n \in 0..MaxStreak BY <1>0 DEF PaceSet
  <2> HIDE DEF n
  <2>2. p \in PaceSet /\ p.running = pace.running BY <2>1 DEF PaceSet
  <2>3. Stirred = [p EXCEPT !.active = 0] BY DEF Stirred, n
  <2> HIDE DEF p
  <2> QED BY <1>0, <2>2, <2>3 DEF PaceSet
<1>5. pace.judged \in 0..JudgeEvery BY DEF PaceSet
<1> HIDE DEF Stirred
<1>6. ASSUME NEW x \in Somebody, NEW r \in BOOLEAN
      PROVE  LET q == [Stirred EXCEPT !.running = r, !.pending = x] IN q \in PaceSet /\ q.running = r
  <2>1. [Stirred EXCEPT !.running = r] \in PaceSet /\ [Stirred EXCEPT !.running = r].running = r
    BY <1>3, <1>4
  <2> QED BY <1>2, <2>1
<1>7. ASSUME NEW j \in {pace.judged, 0}
      PROVE  LET q == [Stirred EXCEPT !.running = FALSE, !.pending = None, !.judged = j]
             IN  q \in PaceSet /\ q.running = FALSE
  <2> DEFINE q == [Stirred EXCEPT !.running = FALSE, !.pending = None]
  <2>1. q \in PaceSet /\ q.running = FALSE BY <1>0, <1>6
  <2>2. [Stirred EXCEPT !.running = FALSE, !.pending = None, !.judged = j] = [q EXCEPT !.judged = j] OBVIOUS
  <2> HIDE DEF q
  <2> QED BY <1>0, <1>1, <1>5, <2>1, <2>2
<1>8. LET q == [Stirred EXCEPT !.pending = None, !.judged = 0] IN q \in PaceSet /\ q.running = pace.running
  <2>1. [Stirred EXCEPT !.pending = None] \in PaceSet /\ [Stirred EXCEPT !.pending = None].running = pace.running
    BY <1>0, <1>2, <1>4
  <2> QED BY <1>0, <1>1, <2>1
<1>9. LET q == [Stirred EXCEPT !.running = FALSE] IN q \in PaceSet /\ q.running = FALSE
  BY <1>3, <1>4
<1>10. ASSUME NEW x \in Somebody
       PROVE  LET q == [Stirred EXCEPT !.pending = x] IN q \in PaceSet /\ q.running = pace.running
  BY <1>2, <1>4
<1> QED BY <1>4, <1>6, <1>7, <1>8, <1>9, <1>10
LEMMA TakeBatchKeeps == SpeechInv /\ TakeBatch => SpeechInv'
<1> SUFFICES ASSUME SpeechInv, TakeBatch PROVE SpeechInv' OBVIOUS
<1> DEFINE n == IF Len(queue) < Batch THEN Len(queue) ELSE Batch
           a == [Idle EXCEPT !.at = "item", !.batch = SubSeq(queue, 1, n)]
<1>0. queue \in Seq(Msgs) /\ Len(queue) \in Nat /\ n \in 0..Len(queue)
  BY Holds, LenProperties, SpeechAssumption
<1>1. SubSeq(queue, 1, n) \in Seq(Msgs)
  <2>1. \A i \in 1..n : queue[i] \in Msgs BY <1>0, ElementOfSeq
  <2> QED BY <1>0, <2>1, SubSeqProperties
<1>2. SubSeq(queue, n + 1, Len(queue)) \in Seq(Msgs)
  <2>1. \A i \in n + 1..Len(queue) : queue[i] \in Msgs BY <1>0, ElementOfSeq
  <2> QED BY <1>0, <2>1, SubSeqProperties
<1>3. agent' = a /\ queue' = SubSeq(queue, n + 1, Len(queue)) /\ Apart /\ agent.at = "idle"
      /\ UNCHANGED <<pace, ledger, faults, got, doubt>>
  BY DEF TakeBatch, seen, heard
<1>4. a \in AgentSet /\ a.at = "item" /\ a.next = 1
  BY <1>1, IdleOK DEF Idle, AgentSet
<1> HIDE DEF a, n
<1>5. ReplyRule(a) /\ ~ Working(a) BY <1>4 DEF ReplyRule, Working
<1>6. ~ pace.running BY <1>3, Holds DEF Working
<1> QED BY <1>2, <1>3, <1>4, <1>5, <1>6, Holds, AgentApart

(* one message of the batch *)
LEMMA ItemKeeps == SpeechInv /\ (Muted \/ Addressed \/ Overheard) => SpeechInv'
<1> SUFFICES ASSUME SpeechInv, Muted \/ Addressed \/ Overheard PROVE SpeechInv' OBVIOUS
<1>0. /\ agent.at = "item" /\ agent.batch # <<>> /\ Apart
      /\ UNCHANGED <<queue, pace, ledger, faults, got, doubt>>
  BY DEF Muted, Addressed, Overheard, OnItem, seen, heard
<1>1. agent \in AgentSet /\ agent.next = 1 /\ ~ pace.running
  BY <1>0, Holds DEF ReplyRule, Working
<1>2. Tail(agent.batch) \in Seq(Msgs) /\ Item \in Msgs
  BY <1>0, <1>1, HeadTailProperties DEF AgentSet, Item
<1>3. CASE Muted
  <2> DEFINE a == [agent EXCEPT !.batch = Tail(@)]
  <2>1. agent' = a BY <1>3 DEF Muted
  <2>2. a \in AgentSet /\ a.at = "item" /\ a.next = 1 BY <1>0, <1>1, <1>2 DEF AgentSet
  <2> HIDE DEF a
  <2>3. ReplyRule(a) /\ ~ Working(a) BY <2>2 DEF ReplyRule, Working
  <2> QED BY <1>0, <1>1, <2>1, <2>2, <2>3, Holds, AgentApart
<1>4. CASE Addressed
  <2> DEFINE a == [agent EXCEPT !.at = "write", !.batch = Tail(@), !.msg = Item, !.asked = TRUE]
  <2>1. agent' = a BY <1>4 DEF Addressed
  <2>2. a \in AgentSet /\ a.at = "write" /\ a.next = 1 /\ a.msg \in Msgs /\ a.asked
    BY <1>0, <1>1, <1>2 DEF AgentSet, Somebody
  <2> HIDE DEF a
  <2>3. ReplyRule(a) /\ ~ Working(a) BY <2>2 DEF ReplyRule, Working
  <2> QED BY <1>0, <1>1, <2>1, <2>2, <2>3, Holds, AgentApart
<1>5. CASE Overheard
  <2> DEFINE a == [agent EXCEPT !.batch = Tail(@), !.cand = Item]
  <2>1. agent' = a BY <1>5 DEF Overheard
  <2>2. a \in AgentSet /\ a.at = "item" /\ a.next = 1
    BY <1>0, <1>1, <1>2 DEF AgentSet, Somebody
  <2> HIDE DEF a
  <2>3. ReplyRule(a) /\ ~ Working(a) BY <2>2 DEF ReplyRule, Working
  <2> QED BY <1>0, <1>1, <2>1, <2>2, <2>3, Holds, AgentApart
<1> QED BY <1>3, <1>4, <1>5

(* the batch is through: the candidate is left, or the worker starts *)
LEMMA EndKeeps == SpeechInv /\ (LeaveIt \/ Enqueue) => SpeechInv'
<1> SUFFICES ASSUME SpeechInv, LeaveIt \/ Enqueue PROVE SpeechInv' OBVIOUS
<1>0. /\ agent.at = "item" /\ agent.batch = <<>> /\ Apart /\ UNCHANGED <<queue, ledger, faults, got, doubt>>
  BY DEF LeaveIt, Enqueue, EndOfBatch, heard
<1>1. /\ agent \in AgentSet /\ agent.next = 1 /\ ~ pace.running /\ pace \in PaceSet
  BY <1>0, Holds DEF ReplyRule, Working
<1>2. CASE LeaveIt
  BY <1>0, <1>1, <1>2, IdleOK, Holds, AgentApart DEF LeaveIt
<1>3. CASE Enqueue /\ Limited(Stirred)
  <2>1. agent' = Idle /\ pace' = Stirred BY <1>1, <1>3 DEF Enqueue
  <2> QED BY <1>0, <1>1, <2>1, IdleOK, StirredOK, Holds, AgentApart
<1>4. CASE Enqueue /\ ~ Limited(Stirred)
  <2> DEFINE a == [agent EXCEPT !.at = "next"]
  <2>1. agent' = a /\ pace' = [Stirred EXCEPT !.running = TRUE, !.pending = agent.cand]
    BY <1>1, <1>4 DEF Enqueue
  <2>2. a \in AgentSet /\ a.at = "next" /\ a.next = 1 /\ a.batch = <<>> /\ agent.cand \in Somebody
    BY <1>0, <1>1 DEF AgentSet
  <2> HIDE DEF a
  <2>3. ReplyRule(a) /\ Working(a) BY <2>2 DEF ReplyRule, Working
  <2>4. pace' \in PaceSet /\ pace'.running BY <1>1, <2>1, <2>2, StirredOK
  <2> QED BY <1>0, <2>1, <2>2, <2>3, <2>4, Holds, AgentApart
<1> QED BY <1>2, <1>3, <1>4

(* the loop of the worker *)
LEMMA NextKeeps == SpeechInv /\ (NoMore \/ Drop \/ Abandon \/ Judge) => SpeechInv'
<1> SUFFICES ASSUME SpeechInv, NoMore \/ Drop \/ Abandon \/ Judge PROVE SpeechInv' OBVIOUS
<1>0. agent.at = "next" /\ Apart /\ UNCHANGED <<queue, ledger, faults, got, doubt>>
  BY DEF NoMore, Drop, Abandon, Judge, AtNext, heard
<1>1. /\ agent \in AgentSet /\ agent.next = 1 /\ agent.batch = <<>> /\ pace.running /\ pace \in PaceSet
      /\ Working(agent)
  BY <1>0, Holds DEF ReplyRule, Working
<1>2. CASE NoMore
  <2>1. agent' = Idle /\ pace' \in PaceSet /\ pace'.running = FALSE
    BY <1>1, <1>2, StirredOK DEF NoMore
  <2> QED BY <1>0, <2>1, IdleOK, Holds, AgentApart
<1>3. CASE Drop
  <2>1. agent' = agent /\ pace' = [Stirred EXCEPT !.pending = None] BY <1>3 DEF Drop
  <2>2. None \in Somebody BY DEF Somebody
  <2>3. pace' \in PaceSet /\ pace'.running = pace.running BY <1>1, <2>1, <2>2, StirredOK
  <2> QED BY <1>0, <1>1, <2>1, <2>3, Holds, AgentApart
<1>4. CASE Abandon
  <2>1. PICK j \in {pace.judged, 0} : pace' = [Stirred EXCEPT !.running = FALSE, !.pending = None, !.judged = j]
    BY <1>4 DEF Abandon, Stirred
  <2>2. agent' = Idle BY <1>4 DEF Abandon
  <2>3. pace' \in PaceSet /\ pace'.running = FALSE BY <1>1, <2>1, StirredOK
  <2> QED BY <1>0, <2>2, <2>3, IdleOK, Holds, AgentApart
<1>5. CASE Judge
  <2> DEFINE a == [agent EXCEPT !.at = "judge", !.msg = pace.pending, !.cand = None]
  <2>1. agent' = a /\ pace' = [Stirred EXCEPT !.pending = None, !.judged = 0] /\ pace.pending # None
    BY <1>5 DEF Judge
  <2>2. pace.pending \in Msgs BY <1>1, <2>1 DEF PaceSet, Somebody
  <2>3. a \in AgentSet /\ a.at = "judge" /\ a.next = 1 /\ a.batch = <<>> /\ a.msg \in Msgs
    BY <1>1, <2>2 DEF AgentSet, Somebody
  <2> HIDE DEF a
  <2>4. ReplyRule(a) /\ Working(a) BY <2>3 DEF ReplyRule, Working
  <2>5. pace' \in PaceSet /\ pace'.running BY <1>1, <2>1, StirredOK
  <2> QED BY <1>0, <2>1, <2>3, <2>4, <2>5, Holds, AgentApart
<1> QED BY <1>2, <1>3, <1>4, <1>5

LEMMA VerdictKeeps == SpeechInv /\ Verdict => SpeechInv'
<1> SUFFICES ASSUME SpeechInv, Verdict PROVE SpeechInv' OBVIOUS
<1>0. agent.at = "judge" /\ Apart /\ UNCHANGED <<queue, pace, ledger, faults, got, doubt>>
  BY DEF Verdict, seen, heard
<1>1. /\ agent \in AgentSet /\ agent.next = 1 /\ agent.batch = <<>> /\ pace.running /\ agent.msg \in Msgs
  BY <1>0, Holds DEF ReplyRule, Working
<1>2. CASE agent' = [agent EXCEPT !.at = "write", !.asked = FALSE]
  <2> DEFINE a == [agent EXCEPT !.at = "write", !.asked = FALSE]
  <2>1. a \in AgentSet /\ a.at = "write" /\ a.next = 1 /\ a.batch = <<>> /\ a.msg \in Msgs /\ a.asked = FALSE
    BY <1>1 DEF AgentSet
  <2>2. agent' = a BY <1>2
  <2> HIDE DEF a
  <2>3. ReplyRule(a) /\ Working(a) BY <2>1 DEF ReplyRule, Working
  <2> QED BY <1>0, <1>1, <2>1, <2>2, <2>3, Holds, AgentApart
<1>3. CASE agent' = [agent EXCEPT !.at = "next", !.msg = None]
  <2> DEFINE a == [agent EXCEPT !.at = "next", !.msg = None]
  <2>1. a \in AgentSet /\ a.at = "next" /\ a.next = 1 /\ a.batch = <<>>
    BY <1>1 DEF AgentSet, Somebody
  <2>2. agent' = a BY <1>3
  <2> HIDE DEF a
  <2>3. ReplyRule(a) /\ Working(a) BY <2>1 DEF ReplyRule, Working
  <2> QED BY <1>0, <1>1, <2>1, <2>2, <2>3, Holds, AgentApart
<1> QED BY <1>2, <1>3 DEF Verdict
-----------------------------------------------------------------------------
(* One reply *)

LEMMA BrokenOffOK ==
  ASSUME SpeechInv, agent.at \in {"write", "load", "mark", "anchor", "record"}
  PROVE  /\ BrokenOff \in AgentSet /\ BrokenOff.at \in {"item", "next"} /\ ReplyRule(BrokenOff)
         /\ Working(BrokenOff) <=> pace.running
         /\ Working(BrokenOff) => BrokenOff.batch = <<>>
<1>0. agent \in AgentSet /\ ReplyRule(agent) /\ (pace.running <=> Working(agent))
      /\ (Working(agent) => agent.batch = <<>>) /\ None \in Somebody
  BY Holds DEF Somebody
<1>1. pace.running <=> ~ agent.asked BY <1>0 DEF Working, ReplyRule
<1> DEFINE a == [agent EXCEPT !.at = After, !.msg = None, !.parts = 0, !.next = 1, !.res = "none",
                              !.said = FALSE, !.asked = FALSE]
<1>2. After \in {"item", "next"} /\ (After = "next" <=> ~ agent.asked) BY DEF After
<1>3. a \in AgentSet /\ a.at = After /\ a.next = 1 /\ a.batch = agent.batch
  <2>1. 0 \in 0..ReplyMax /\ 1 \in 1..ReplyMax + 1 BY SpeechAssumption
  <2> HIDE DEF After
  <2> QED BY <1>0, <1>2, <2>1 DEF AgentSet
<1>4. BrokenOff = a BY DEF BrokenOff
<1> HIDE DEF a
<1>5. ReplyRule(a) BY <1>2, <1>3 DEF ReplyRule
<1>6. Working(a) <=> ~ agent.asked BY <1>2, <1>3 DEF Working
<1> QED BY <1>0, <1>1, <1>2, <1>3, <1>4, <1>5, <1>6

(* a reply that ends early *)
LEMMA BreakOffKeeps == SpeechInv /\ (CutShort \/ Refused) => SpeechInv'
<1> SUFFICES ASSUME SpeechInv, CutShort \/ Refused PROVE SpeechInv' OBVIOUS
<1>0. /\ agent.at \in {"load", "mark"} /\ agent' = BrokenOff /\ Apart
      /\ UNCHANGED <<queue, pace, ledger, got>> /\ (agent.at = "mark" => agent.res = "refused")
  BY DEF CutShort, Refused, Replying
<1>1. doubt' \subseteq Msgs \X Parts /\ doubt \subseteq doubt' /\ faults' \in 0..MaxFaults
  <2>1. CASE CutShort
    <3>1. \/ UNCHANGED <<faults, doubt>>
          \/ ThisPart \in ledger /\ faults' = faults + 1 /\ faults < MaxFaults /\ doubt' = doubt \cup {ThisPart}
      BY <2>1 DEF CutShort, MustSend, Recorded, Fault
    <3> QED BY <3>1, Holds, SpeechAssumption
  <2>2. CASE Refused BY <2>2, Holds DEF Refused
  <2> QED BY <2>1, <2>2
<1> QED BY <1>0, <1>1, BrokenOffOK, Holds, AgentApart

LEMMA WriteKeeps == SpeechInv /\ Write => SpeechInv'
<1> SUFFICES ASSUME SpeechInv, Write PROVE SpeechInv' OBVIOUS
<1>0. agent.at = "write" /\ Apart /\ UNCHANGED <<queue, pace, ledger, faults, got, doubt>>
  BY DEF Write, Replying, seen, heard
<1>1. CASE agent' = BrokenOff BY <1>0, <1>1, BrokenOffOK, Holds, AgentApart
<1>2. ASSUME NEW n \in Parts, agent' = [agent EXCEPT !.at = "load", !.parts = n] PROVE SpeechInv'
  <2> DEFINE a == [agent EXCEPT !.at = "load", !.parts = n]
  <2>0. n \in 0..ReplyMax BY SpeechAssumption DEF Parts
  <2>1. agent \in AgentSet /\ agent.next = 1 /\ agent.msg \in Msgs BY <1>0, Holds DEF ReplyRule
  <2>2. /\ a \in AgentSet /\ a.at = "load" /\ a.next = 1 /\ a.msg \in Msgs /\ a.parts = n
        /\ a.batch = agent.batch /\ a.asked = agent.asked
    BY <2>0, <2>1 DEF AgentSet
  <2>3. agent' = a BY <1>2
  <2> HIDE DEF a
  <2>4. ReplyRule(a) /\ (Working(a) <=> Working(agent))
    BY <1>0, <2>0, <2>2 DEF ReplyRule, Working, Parts
  <2>5. Delivery'
    <3>1. \A j \in Parts : ~ (j < agent'.next) BY <2>2, <2>3 DEF Parts
    <3>2. \A m \in Msgs, i \in Parts : got'[m][i] > 0 => Known(m, i)'
      BY <1>0, Holds DEF Delivery, Known
    <3>3. SentOnce' /\ NoGap' /\ AnchorMeansSent'
      BY <1>0, Holds DEF Delivery, SentOnce, NoGap, AnchorMeansSent, Apart
    <3> QED BY <2>2, <2>3, <3>1, <3>2, <3>3 DEF Delivery
  <2> QED BY <1>0, <2>2, <2>3, <2>4, <2>5, Holds, AgentSteps DEF Apart, chat, front, SpeechInv, RecordShape
<1> QED BY <1>1, <1>2 DEF Write

(* the next part is looked at: it is in the ledger, or it is sent *)
LEMMA LoadKeeps == SpeechInv /\ (Skip \/ SendPart) => SpeechInv'
<1> SUFFICES ASSUME SpeechInv, Skip \/ SendPart PROVE SpeechInv' OBVIOUS
<1>0. /\ agent.at = "load" /\ Apart /\ agent.next <= agent.parts /\ UNCHANGED <<queue, pace, ledger, got>>
  BY DEF Skip, SendPart, Replying, More, seen, heard
<1>1. /\ agent \in AgentSet /\ agent.msg \in Msgs /\ agent.parts \in Parts /\ agent.next \in Parts
      /\ agent.next + 1 \in 1..ReplyMax + 1
  BY <1>0, Holds, SpeechAssumption DEF ReplyRule, AgentSet, Parts
<1>2. /\ \A m \in Msgs, i \in Parts : got[m][i] > 0 => Known(m, i)
      /\ \A j \in Parts : j < agent.next => Known(agent.msg, j)
  BY <1>0, Holds DEF Delivery
<1>3. /\ doubt \subseteq doubt' /\ doubt' \subseteq Msgs \X Parts /\ faults' \in 0..MaxFaults
  <2>1. CASE Skip BY <2>1, Holds DEF Skip, seen, heard
  <2>2. CASE SendPart
    <3>1. \/ ThisPart \notin ledger /\ UNCHANGED <<faults, doubt>>
          \/ ThisPart \in ledger /\ faults' = faults + 1 /\ faults < MaxFaults /\ doubt' = doubt \cup {ThisPart}
      BY <2>2 DEF SendPart, MustSend, Recorded, Fault
    <3> QED BY <3>1, Holds, SpeechAssumption
  <2> QED BY <2>1, <2>2
<1>4. SentOnce' /\ NoGap' /\ AnchorMeansSent'
  BY <1>0, <1>3, Holds DEF Delivery, SentOnce, NoGap, AnchorMeansSent, Apart
<1>5. \A m \in Msgs, i \in Parts : got'[m][i] > 0 => Known(m, i)'
  BY <1>0, <1>2, <1>3 DEF Known
<1>6. CASE Skip
  <2> DEFINE a == [agent EXCEPT !.next = @ + 1]
  <2>1. agent' = a /\ ThisPart \in ledger BY <1>6 DEF Skip, Recorded
  <2>2. /\ a \in AgentSet /\ a.at = "load" /\ a.next = agent.next + 1 /\ a.msg = agent.msg
        /\ a.parts = agent.parts /\ a.batch = agent.batch /\ a.asked = agent.asked
    BY <1>0, <1>1 DEF AgentSet
  <2> HIDE DEF a
  <2>3. ReplyRule(a) /\ (Working(a) <=> Working(agent))
    BY <1>0, <1>1, <2>2 DEF ReplyRule, Working, Parts
  <2>4. ASSUME NEW j \in Parts, j < agent'.next PROVE Known(agent.msg, j)
    <3>1. CASE j = agent.next BY <2>1, <3>1 DEF Known, ThisPart
    <3>2. CASE j < agent.next BY <1>2, <3>2
    <3> QED BY <1>1, <2>1, <2>2, <2>4, <3>1, <3>2 DEF Parts
  <2>5. Delivery' BY <1>0, <1>3, <1>4, <1>5, <2>1, <2>2, <2>4 DEF Delivery, Known
  <2> QED BY <1>0, <1>3, <2>1, <2>2, <2>3, <2>5, Holds, AgentSteps DEF Apart, chat, front, SpeechInv, RecordShape
<1>7. CASE SendPart
  <2> DEFINE a == [agent EXCEPT !.at = "send"]
  <2>1. agent' = a BY <1>7 DEF SendPart
  <2>2. /\ a \in AgentSet /\ a.at = "send" /\ a.next = agent.next /\ a.msg = agent.msg
        /\ a.parts = agent.parts /\ a.batch = agent.batch /\ a.asked = agent.asked
    BY <1>0, <1>1 DEF AgentSet
  <2> HIDE DEF a
  <2>3. ReplyRule(a) /\ (Working(a) <=> Working(agent))
    BY <1>0, <1>1, <2>2 DEF ReplyRule, Working, Parts
  <2>4. ThisPart' = ThisPart BY <2>1, <2>2 DEF ThisPart
  <2>5. ThisPart \notin ledger \/ ThisPart \in doubt'
    <3>1. \/ ThisPart \notin ledger /\ UNCHANGED <<faults, doubt>>
          \/ ThisPart \in ledger /\ doubt' = doubt \cup {ThisPart}
      BY <1>7 DEF SendPart, MustSend, Recorded, Fault
    <3> QED BY <3>1
  <2>6. Delivery' BY <1>0, <1>2, <1>3, <1>4, <1>5, <2>1, <2>2, <2>4, <2>5 DEF Delivery, Known
  <2> QED BY <1>0, <1>3, <2>1, <2>2, <2>3, <2>6, Holds, AgentSteps DEF Apart, chat, front, SpeechInv, RecordShape
<1> QED BY <1>6, <1>7
(* one more copy of a part *)
LEMMA OneMoreOut ==
  ASSUME NEW m \in Msgs, NEW i \in Parts, got \in [Msgs -> [Parts -> 0..2]]
  PROVE  /\ Out(m, i) \in [Msgs -> [Parts -> 0..2]]
         /\ \A n \in Msgs, j \in Parts : /\ n # m \/ j # i => Out(m, i)[n][j] = got[n][j]
                                        /\ Out(m, i)[n][j] >= got[n][j]
         /\ Out(m, i)[m][i] = 2 => got[m][i] > 0
<1> DEFINE g == IF got[m][i] < 2 THEN got[m][i] + 1 ELSE got[m][i]
<1>1. got[m] \in [Parts -> 0..2] /\ got[m][i] \in 0..2 OBVIOUS
<1>2. g \in 0..2 /\ g >= got[m][i] /\ (g = 2 => got[m][i] > 0) BY <1>1
<1>3. Out(m, i) = [got EXCEPT ![m] = [got[m] EXCEPT ![i] = g]] BY DEF Out
<1> HIDE DEF g
<1>4. Out(m, i) \in [Msgs -> [Parts -> 0..2]] BY <1>1, <1>2, <1>3
<1>5. Out(m, i)[m][i] = g BY <1>1, <1>3
<1>6. \A n \in Msgs, j \in Parts : n # m \/ j # i => Out(m, i)[n][j] = got[n][j] BY <1>1, <1>3
<1>7. \A n \in Msgs, j \in Parts : Out(m, i)[n][j] >= got[n][j]
  <2> SUFFICES ASSUME NEW n \in Msgs, NEW j \in Parts PROVE Out(m, i)[n][j] >= got[n][j] OBVIOUS
  <2>1. got[n][j] \in 0..2 OBVIOUS
  <2>2. CASE n = m /\ j = i BY <1>2, <1>5, <2>2
  <2>3. CASE n # m \/ j # i BY <1>6, <2>1, <2>3
  <2> QED BY <2>2, <2>3
<1> QED BY <1>2, <1>4, <1>5, <1>6, <1>7

(* the agent has sent the part in work, or was about to when the process ended *)
LEMMA OutInOrder ==
  ASSUME SpeechInv, agent.at = "send", UNCHANGED ledger, doubt \subseteq doubt',
         got' \in {got, Out(agent.msg, agent.next)}
  PROVE  /\ got' \in [Msgs -> [Parts -> 0..2]]
         /\ \A m \in Msgs, i \in Parts : got'[m][i] > 0 => Known(m, i)' \/ (m = agent.msg /\ i = agent.next)
         /\ SentOnce' /\ NoGap'
<1> DEFINE m == agent.msg
           i == agent.next
<1>0. /\ m \in Msgs /\ i \in Parts /\ got \in [Msgs -> [Parts -> 0..2]]
  BY Holds, SpeechAssumption DEF ReplyRule, AgentSet, Parts
<1>1. /\ \A n \in Msgs, j \in Parts : got[n][j] > 0 => Known(n, j)
      /\ \A j \in Parts : j < i => Known(m, j)
      /\ ThisPart \in ledger => ThisPart \in doubt
      /\ SentOnce /\ NoGap
  BY Holds DEF Delivery
<1>2. \A n \in Msgs, j \in Parts : Known(n, j) => Known(n, j)' BY DEF Known
<1>3. CASE got' = got
  BY <1>0, <1>1, <1>2, <1>3 DEF SentOnce, NoGap, Known
<1>4. CASE got' = Out(m, i)
  <2>1. /\ got' \in [Msgs -> [Parts -> 0..2]]
        /\ \A n \in Msgs, j \in Parts : /\ n # m \/ j # i => got'[n][j] = got[n][j]
                                       /\ got'[n][j] >= got[n][j]
        /\ got'[m][i] = 2 => got[m][i] > 0
    BY <1>0, <1>4, OneMoreOut
  <2>2. \A n \in Msgs, j \in Parts : got'[n][j] > 0 => Known(n, j)' \/ (n = m /\ j = i)
    BY <1>1, <1>2, <2>1
  <2>3. SentOnce'
    <3>1. got'[m][i] = 2 => <<m, i>> \in doubt'
      BY <1>0, <1>1, <2>1 DEF ThisPart, Known
    <3>2. ASSUME NEW n \in Msgs, NEW j \in Parts, got'[n][j] = 2, n # m \/ j # i PROVE <<n, j>> \in doubt'
      BY <1>1, <2>1, <3>2 DEF SentOnce
    <3> QED BY <3>1, <3>2 DEF SentOnce
  <2>4. NoGap'
    <3> SUFFICES ASSUME NEW n \in Msgs, NEW k \in Parts, NEW j \in Parts, j < k, got'[n][k] > 0
                 PROVE  got'[n][j] > 0 \/ Known(n, j)'
      BY DEF NoGap, Known
    <3>1. CASE n = m /\ k = i BY <1>1, <1>2, <3>1
    <3>2. CASE n # m \/ k # i
      <4>1. got[n][k] > 0 BY <2>1, <3>2
      <4>2. got[n][j] > 0 \/ Known(n, j) BY <1>1, <4>1 DEF NoGap, Known
      <4>3. got[n][j] \in 0..2 /\ got'[n][j] \in 0..2 /\ got'[n][j] >= got[n][j] BY <1>0, <2>1
      <4> QED BY <1>2, <4>2, <4>3
    <3> QED BY <3>1, <3>2
  <2> QED BY <2>1, <2>2, <2>3, <2>4
<1> QED BY <1>3, <1>4

LEMMA SendKeeps == SpeechInv /\ SendResult => SpeechInv'
<1> SUFFICES ASSUME SpeechInv, SendResult PROVE SpeechInv' OBVIOUS
<1>0. /\ agent.at = "send" /\ Apart /\ UNCHANGED <<queue, pace, ledger, faults, doubt>>
  BY DEF SendResult, Replying
<1>1. PICK res \in {"sent", "unsure", "refused"}, out \in BOOLEAN :
        /\ res # "unsure" => out = (res = "sent")
        /\ agent' = [agent EXCEPT !.at = "mark", !.res = res, !.said = @ \/ out]
        /\ IF out THEN got' = Out(agent.msg, agent.next) ELSE got' = got
  BY DEF SendResult
<1> DEFINE a == [agent EXCEPT !.at = "mark", !.res = res, !.said = @ \/ out]
<1>2. agent \in AgentSet /\ ReplyRule(agent) BY Holds
<1>3. /\ a \in AgentSet /\ a.at = "mark" /\ a.res = res /\ a.next = agent.next /\ a.msg = agent.msg
      /\ a.parts = agent.parts /\ a.batch = agent.batch /\ a.asked = agent.asked
  <2>1. (agent.said \/ out) \in BOOLEAN OBVIOUS
  <2> QED BY <1>2, <2>1 DEF AgentSet
<1>4. agent' = a BY <1>1
<1> HIDE DEF a
<1>5. ReplyRule(a) /\ (Working(a) <=> Working(agent))
  BY <1>0, <1>2, <1>3 DEF ReplyRule, Working
<1>6. res = "refused" => got' = got BY <1>1
<1>7. got' \in {got, Out(agent.msg, agent.next)} BY <1>1
<1>8. /\ got' \in [Msgs -> [Parts -> 0..2]]
      /\ \A m \in Msgs, i \in Parts : got'[m][i] > 0 => Known(m, i)' \/ (m = agent.msg /\ i = agent.next)
      /\ SentOnce' /\ NoGap'
  BY <1>0, <1>7, OutInOrder
<1>9. AnchorMeansSent' BY <1>0, Holds DEF Delivery, AnchorMeansSent, Apart
<1>10. \A m \in Msgs, i \in Parts : got'[m][i] > 0 =>
         Known(m, i)' \/ (agent'.at = "mark" /\ agent'.res # "refused" /\ agent'.msg = m /\ agent'.next = i)
  <2>1. CASE res = "refused"
    <3>1. \A m \in Msgs, i \in Parts : got[m][i] > 0 => Known(m, i) BY <1>0, Holds DEF Delivery
    <3> QED BY <1>0, <1>6, <2>1, <3>1 DEF Known
  <2>2. CASE res # "refused" BY <1>3, <1>4, <1>8, <2>2
  <2> QED BY <2>1, <2>2
<1>11. \A j \in Parts : j < agent'.next => <<agent'.msg, j>> \in ledger' \cup doubt'
  BY <1>0, <1>3, <1>4, Holds DEF Delivery, Known
<1>12. Delivery' BY <1>3, <1>4, <1>8, <1>9, <1>10, <1>11 DEF Delivery, Known
<1> QED BY <1>0, <1>3, <1>4, <1>5, <1>8, <1>12, Holds, AgentSteps DEF Apart, chat, front, SpeechInv, RecordShape

LEMMA MarkKeeps == SpeechInv /\ Mark => SpeechInv'
<1> SUFFICES ASSUME SpeechInv, Mark PROVE SpeechInv' OBVIOUS
<1>0. /\ agent.at = "mark" /\ agent.res # "refused" /\ Apart /\ UNCHANGED <<queue, pace, got>>
  BY DEF Mark, Replying
<1> DEFINE a == [agent EXCEPT !.at = "load", !.next = @ + 1, !.res = "none"]
<1>1. /\ agent \in AgentSet /\ ReplyRule(agent) /\ agent.msg \in Msgs /\ agent.parts \in Parts
      /\ agent.next \in Parts /\ agent.next + 1 \in 1..ReplyMax + 1
  BY <1>0, Holds, SpeechAssumption DEF ReplyRule, AgentSet, Parts
<1>2. /\ a \in AgentSet /\ a.at = "load" /\ a.next = agent.next + 1 /\ a.msg = agent.msg
      /\ a.parts = agent.parts /\ a.batch = agent.batch /\ a.asked = agent.asked
  BY <1>1 DEF AgentSet
<1>3. agent' = a BY DEF Mark, NextPart
<1> HIDE DEF a
<1>4. ReplyRule(a) /\ (Working(a) <=> Working(agent))
  BY <1>0, <1>1, <1>2 DEF ReplyRule, Working, Parts
<1>5. /\ ledger \subseteq ledger' /\ doubt \subseteq doubt' /\ ThisPart \in ledger' \cup doubt'
      /\ ledger' \subseteq Msgs \X Parts /\ doubt' \subseteq Msgs \X Parts /\ faults' \in 0..MaxFaults
  <2>0. ThisPart \in Msgs \X Parts BY <1>1 DEF ThisPart
  <2>1. CASE Marked({ThisPart}) BY <2>0, <2>1, Holds DEF Marked
  <2>2. CASE Unwritten
    <3>1. faults' \in 0..MaxFaults BY <2>2, Holds, SpeechAssumption DEF Unwritten, Fault
    <3> QED BY <2>0, <2>2, <3>1, Holds DEF Unwritten
  <2> QED BY <2>1, <2>2 DEF Mark
<1>6. \A m \in Msgs, i \in Parts : Known(m, i) => Known(m, i)' BY <1>5 DEF Known
<1>7. \A m \in Msgs, i \in Parts : got'[m][i] > 0 => Known(m, i)'
  <2> SUFFICES ASSUME NEW m \in Msgs, NEW i \in Parts, got[m][i] > 0 PROVE Known(m, i)'
    BY <1>0
  <2>1. CASE m = agent.msg /\ i = agent.next BY <1>5, <2>1 DEF Known, ThisPart
  <2>2. CASE ~ (m = agent.msg /\ i = agent.next)
    <3>1. Known(m, i) BY <2>2, Holds DEF Delivery
    <3> QED BY <1>6, <3>1
  <2> QED BY <2>1, <2>2
<1>8. \A j \in Parts : j < agent'.next => <<agent'.msg, j>> \in ledger' \cup doubt'
  <2> SUFFICES ASSUME NEW j \in Parts, j < agent.next + 1 PROVE <<agent.msg, j>> \in ledger' \cup doubt'
    BY <1>2, <1>3 DEF Known
  <2>1. CASE j = agent.next BY <1>5, <2>1 DEF Known, ThisPart
  <2>2. CASE j < agent.next
    <3>1. Known(agent.msg, j) BY <1>0, <2>2, Holds DEF Delivery
    <3> QED BY <1>1, <1>5, <3>1 DEF Known
  <2> QED BY <1>1, <2>1, <2>2 DEF Parts
<1>9. SentOnce' /\ NoGap' /\ AnchorMeansSent'
  BY <1>0, <1>5, Holds DEF Delivery, SentOnce, NoGap, AnchorMeansSent, Apart
<1>10. Delivery' BY <1>2, <1>3, <1>7, <1>8, <1>9 DEF Delivery, Known
<1> QED BY <1>0, <1>2, <1>3, <1>4, <1>5, <1>10, Holds, AgentSteps DEF Apart, chat, front, SpeechInv, RecordShape

(* every part is behind the reply: what was noted, and where the anchor goes *)
LEMMA NoteReplyKeeps == SpeechInv /\ NoteReply => SpeechInv'
<1> SUFFICES ASSUME SpeechInv, NoteReply PROVE SpeechInv' OBVIOUS
<1>0. /\ agent.at = "load" /\ ~ More /\ Apart /\ UNCHANGED <<queue, ledger, faults, got, doubt>>
      /\ pace' = NoteDirect(pace)
  BY DEF NoteReply, Replying
<1> DEFINE a == [agent EXCEPT !.at = "anchor"]
<1>1. agent \in AgentSet /\ ReplyRule(agent) BY Holds
<1>2. /\ a \in AgentSet /\ a.at = "anchor" /\ a.next = agent.next /\ a.msg = agent.msg
      /\ a.parts = agent.parts /\ a.batch = agent.batch /\ a.asked = agent.asked
  BY <1>1 DEF AgentSet
<1>3. agent' = a BY DEF NoteReply
<1> HIDE DEF a
<1>4. ReplyRule(a) /\ (Working(a) <=> Working(agent))
  BY <1>0, <1>1, <1>2 DEF ReplyRule, Working
<1>5. pace' \in PaceSet /\ pace'.running = pace.running BY <1>0, Holds, NoteDirectOK
<1>6. \A j \in 1..agent'.parts : <<agent'.msg, j>> \in ledger' \cup doubt'
  <2> SUFFICES ASSUME NEW j \in 1..agent.parts PROVE Known(agent.msg, j)
    BY <1>0, <1>2, <1>3 DEF Known
  <2>1. j \in Parts /\ j < agent.next
    BY <1>0, <1>1, SpeechAssumption DEF More, ReplyRule, AgentSet, Parts
  <2> QED BY <1>0, <2>1, Holds DEF Delivery
<1>7. Delivery'
  <2>1. \A m \in Msgs, i \in Parts : got'[m][i] > 0 => Known(m, i)'
    BY <1>0, Holds DEF Delivery, Known
  <2>2. SentOnce' /\ NoGap' /\ AnchorMeansSent'
    BY <1>0, Holds DEF Delivery, SentOnce, NoGap, AnchorMeansSent, Apart
  <2> QED BY <1>2, <1>3, <1>6, <2>1, <2>2 DEF Delivery, Known
<1> QED BY <1>0, <1>2, <1>3, <1>4, <1>5, <1>7, Holds, AgentSteps DEF Apart, chat, front, SpeechInv, RecordShape

LEMMA SetAnchorKeeps == SpeechInv /\ SetAnchor => SpeechInv'
<1> SUFFICES ASSUME SpeechInv, SetAnchor PROVE SpeechInv' OBVIOUS
<1>0. /\ agent.at = "anchor" /\ anchor' = [msg |-> agent.msg, parts |-> agent.parts]
      /\ UNCHANGED <<chat, front, queue, pace, enabled, ledger, ending, faults, got, doubt>>
  BY DEF SetAnchor, seen, heard
<1>1. agent \in AgentSet /\ ReplyRule(agent) /\ agent.msg \in Msgs BY <1>0, Holds DEF ReplyRule
<1>2. /\ agent' \in AgentSet /\ agent'.at \in {"item", "next", "record"} /\ ReplyRule(agent')
      /\ Working(agent') <=> pace.running
      /\ Working(agent') => agent'.batch = <<>>
  <2>1. CASE agent.asked
    <3>1. agent' = BrokenOff BY <2>1 DEF SetAnchor
    <3> QED BY <1>0, <3>1, BrokenOffOK
  <2>2. CASE ~ agent.asked
    <3> DEFINE a == [agent EXCEPT !.at = "record"]
    <3>1. agent' = a BY <2>2 DEF SetAnchor
    <3>2. a \in AgentSet /\ a.at = "record" /\ a.batch = agent.batch /\ a.asked = agent.asked
      BY <1>1 DEF AgentSet
    <3> HIDE DEF a
    <3>3. ReplyRule(a) /\ Working(a) /\ Working(agent)
      BY <1>0, <2>2, <3>2 DEF ReplyRule, Working
    <3> QED BY <3>1, <3>2, <3>3, Holds
  <2> QED BY <2>1, <2>2
<1>3. anchor' \in [msg: Somebody, parts: 0..ReplyMax] BY <1>0, <1>1 DEF AgentSet
<1>4. Delivery'
  <2>1. \A m \in Msgs, i \in Parts : got'[m][i] > 0 => Known(m, i)'
    BY <1>0, Holds DEF Delivery, Known
  <2>2. SentOnce' /\ NoGap' BY <1>0, Holds DEF Delivery, SentOnce, NoGap
  <2>3. AnchorMeansSent'
    <3>1. \A j \in 1..agent.parts : Known(agent.msg, j) BY <1>0, Holds DEF Delivery
    <3> QED BY <1>0, <3>1 DEF AnchorMeansSent, Known
  <2> QED BY <1>2, <2>1, <2>2, <2>3 DEF Delivery
<1> QED BY <1>0, <1>2, <1>3, <1>4, Holds, AgentSteps DEF chat, front, SpeechInv, RecordShape

LEMMA RecordKeeps == SpeechInv /\ Record => SpeechInv'
<1> SUFFICES ASSUME SpeechInv, Record PROVE SpeechInv' OBVIOUS
<1>0. /\ agent.at = "record" /\ Apart /\ UNCHANGED <<queue, ledger, faults, got, doubt>>
      /\ pace' = [pace EXCEPT !.replied = 0, !.streak = Aged(@, MaxStreak)] /\ agent' = BrokenOff
  BY DEF Record, Replying, heard
<1>1. pace' \in PaceSet /\ pace'.running = pace.running
  <2>1. pace \in PaceSet BY Holds
  <2>2. 0 \in 0..Cooldown /\ Aged(pace.streak, MaxStreak) \in 0..MaxStreak
    BY <2>1, AgedBound, SpeechAssumption DEF PaceSet
  <2>3. [pace EXCEPT !.replied = 0] \in PaceSet /\ [pace EXCEPT !.replied = 0].running = pace.running
    BY <2>1, <2>2 DEF PaceSet
  <2>4. \A q \in PaceSet, n \in 0..MaxStreak : [q EXCEPT !.streak = n] \in PaceSet /\ [q EXCEPT !.streak = n].running = q.running
    BY DEF PaceSet
  <2>5. pace' = [[pace EXCEPT !.replied = 0] EXCEPT !.streak = Aged(pace.streak, MaxStreak)]
    BY <1>0, <2>1 DEF PaceSet
  <2> QED BY <2>2, <2>3, <2>4, <2>5
<1> QED BY <1>0, <1>1, BrokenOffOK, Holds, AgentApart

(* a restart: the part on its way is in doubt *)
LEMMA RestartKeeps == SpeechInv /\ Restart => SpeechInv'
<1> SUFFICES ASSUME SpeechInv, Restart PROVE SpeechInv' OBVIOUS
<1>0. /\ faults < MaxFaults /\ faults' = faults + 1 /\ line' = <<>> /\ queue' = <<>> /\ agent' = Idle
      /\ cmd' = [at |-> "idle", msg |-> None] /\ pace' = Fresh /\ ending' = FALSE
      /\ UNCHANGED <<chat, enabled, ledger, anchor>> /\ doubt \subseteq doubt'
      /\ doubt' \subseteq doubt \cup {ThisPart}
      /\ agent.at \in {"send", "mark"} => ThisPart \in doubt'
      /\ agent.at \notin {"send", "mark"} => doubt' = doubt
      /\ agent.at = "send" => got' \in {got, Out(agent.msg, agent.next)}
      /\ agent.at # "send" => got' = got
  BY DEF Restart, Fault, ThisPart
<1>1. doubt' \subseteq Msgs \X Parts
  <2>1. agent.at \in {"send", "mark"} => ThisPart \in Msgs \X Parts
    BY Holds, SpeechAssumption DEF ThisPart, ReplyRule, AgentSet, Parts
  <2> QED BY <1>0, <2>1, Holds
<1>2. pace' \in PaceSet /\ pace'.running = FALSE BY <1>0, SpeechAssumption DEF Fresh, PaceSet, Somebody
<1>3. cmd' \in CmdSet /\ cmd'.at = "idle" BY <1>0 DEF CmdSet, Somebody
<1>4. faults' \in 0..MaxFaults BY <1>0, Holds, SpeechAssumption
<1>5. /\ got' \in [Msgs -> [Parts -> 0..2]]
      /\ \A m \in Msgs, i \in Parts : got'[m][i] > 0 => Known(m, i)'
      /\ SentOnce' /\ NoGap'
  <2>1. CASE agent.at = "send"
    <3>1. /\ got' \in [Msgs -> [Parts -> 0..2]]
          /\ \A m \in Msgs, i \in Parts : got'[m][i] > 0 => Known(m, i)' \/ (m = agent.msg /\ i = agent.next)
          /\ SentOnce' /\ NoGap'
      BY <1>0, <2>1, OutInOrder
    <3> QED BY <1>0, <2>1, <3>1 DEF Known, ThisPart
  <2>2. CASE agent.at # "send"
    <3>1. \A m \in Msgs, i \in Parts : got[m][i] > 0 =>
            Known(m, i) \/ (agent.at = "mark" /\ m = agent.msg /\ i = agent.next)
      BY Holds DEF Delivery
    <3>2. \A m \in Msgs, i \in Parts : got'[m][i] > 0 => Known(m, i)'
      BY <1>0, <2>2, <3>1 DEF Known, ThisPart
    <3>3. SentOnce' /\ NoGap' BY <1>0, <2>2, Holds DEF Delivery, SentOnce, NoGap
    <3> QED BY <1>0, <2>2, <3>2, <3>3, Holds
  <2> QED BY <2>1, <2>2
<1>6. AnchorMeansSent' BY <1>0, Holds DEF Delivery, AnchorMeansSent
<1>7. Delivery' BY <1>0, <1>5, <1>6, IdleOK DEF Delivery
<1>8. NodesShape' BY <1>0, <1>2, <1>3, IdleOK, EmptySeq DEF NodesShape
<1>9. RecordShape'
  <2>1. enabled' \in BOOLEAN /\ ending' \in BOOLEAN BY <1>0 DEF SpeechInv, RecordShape
  <2> QED BY <1>0, <1>1, <1>4, <1>5, <2>1 DEF SpeechInv, RecordShape, chat
<1>10. ReplyRule(agent)' BY <1>0, IdleOK DEF ReplyRule
<1>11. SlotRule'
  <2>1. ~ Working(agent') BY <1>0, IdleOK
  <2> QED BY <1>2, <2>1 DEF SlotRule, Working
<1> QED BY <1>7, <1>8, <1>9, <1>10, <1>11 DEF SpeechInv

-----------------------------------------------------------------------------
(* Both nodes, the slot of the worker and the records of what the chat saw, together: what was
   delivered depends on how far the reply at hand has come (deliver.go, proactive.go). *)
THEOREM SpeechInvariant == Spec => []SpeechInv
<1>1. SpeechInv /\ [Next]_vars => SpeechInv'
  <2> SUFFICES ASSUME SpeechInv, [Next]_vars PROVE SpeechInv' OBVIOUS
  <2>1. CASE UNCHANGED vars
    <3>1. UNCHANGED <<agent, ledger, doubt, got, anchor, kind, faults, came, line, queue, cmd, enabled, ending, pace>>
      BY <2>1 DEF vars, chat, front, seen, heard
    <3> QED BY <3>1, AgentAlone DEF SpeechInv, NodesShape, RecordShape
  <2>2. CASE Agent
    BY <2>2, TakeBatchKeeps, ItemKeeps, EndKeeps, NextKeeps, VerdictKeeps, WriteKeeps, LoadKeeps,
       BreakOffKeeps, SendKeeps, MarkKeeps, NoteReplyKeeps, SetAnchorKeeps, RecordKeeps DEF Agent
  <2> QED BY <2>1, <2>2, ArriveKeeps, TickKeeps, StopKeeps, RestartKeeps, CommandKeeps DEF Next
<1> QED BY SpeechStarts, <1>1, PTL DEF Spec

(* The variables stay in their sets, and the worker's slot is taken exactly while the worker runs,
   for every set of messages and every limit (proactive.go enqueue, next). *)
THEOREM SpeechTyping == Spec => []SpeechTypeOK
<1>1. SpeechInv => SpeechTypeOK
  <2> SUFFICES ASSUME SpeechInv PROVE SpeechTypeOK OBVIOUS
  <2>1. /\ agent.at \in {"idle", "item", "next", "judge", "write", "load", "send", "mark", "anchor", "record"}
        /\ agent.at \in {"load", "send", "mark", "anchor"} =>
             agent.msg \in Msgs /\ agent.parts \in Parts /\ agent.next \in 1..(agent.parts + 1)
    BY Holds, SpeechAssumption DEF AgentSet, ReplyRule, Parts
  <2>2. agent.at = "next" => agent.batch = <<>> BY Holds DEF Working
  <2>3. /\ pace.judged \in 0..JudgeEvery /\ pace.replied \in 0..Cooldown
        /\ pace.active \in 0..(SilenceReset + 1) /\ pace.streak \in 0..MaxStreak
    BY Holds DEF PaceSet
  <2>4. pace.running \in BOOLEAN /\ (pace.running <=> Working(agent)) BY Holds DEF PaceSet
  <2>5. pace.running = (\/ agent.at \in {"next", "judge", "record"}
                        \/ agent.at \in {"write", "load", "send", "mark", "anchor"} /\ ~ agent.asked)
    BY <2>4 DEF Working
  <2>6. enabled \in BOOLEAN /\ ending \in BOOLEAN BY DEF SpeechInv, RecordShape
  <2>7. /\ kind \in Scripts /\ came \in [Msgs -> 0..2] /\ faults \in 0..MaxFaults
        /\ ledger \subseteq Msgs \X Parts /\ doubt \subseteq Msgs \X Parts
        /\ anchor \in [msg : Msgs \cup {None}, parts : 0..ReplyMax]
    BY DEF SpeechInv, RecordShape, Somebody
  <2>8. line \in Seq(Msgs) /\ queue \in Seq(Msgs) /\ cmd \in [at : {"idle", "say", "note"}, msg : Msgs \cup {None}]
    BY DEF SpeechInv, NodesShape, CmdSet, Somebody
  <2> QED BY <2>1, <2>2, <2>3, <2>5, <2>6, <2>7, <2>8 DEF SpeechTypeOK
<1> QED BY SpeechInvariant, <1>1, PTL

(* A part comes out twice only when the ledger failed for it or a restart cut it, however often
   the process restarts and the message comes again (deliver.go 213 and 351). *)
THEOREM SpeechSentOnce == Spec => []SentOnce
<1>1. SpeechInv => SentOnce BY DEF SpeechInv, Delivery
<1> QED BY SpeechInvariant, <1>1, PTL

(* A part comes out only after those before it, for every length of a reply (deliver.go 242). *)
THEOREM SpeechNoGap == Spec => []NoGap
<1>1. SpeechInv => NoGap BY DEF SpeechInv, Delivery
<1> QED BY SpeechInvariant, <1>1, PTL

(* The anchor stands on a reply all of which is out (deliver.go 99). *)
THEOREM SpeechAnchor == Spec => []AnchorMeansSent
<1>1. SpeechInv => AnchorMeansSent BY DEF SpeechInv, Delivery
<1> QED BY SpeechInvariant, <1>1, PTL

-----------------------------------------------------------------------------
(* Having spoken is remembered: what was said last is no younger than the pace
   takes it to be, unless a send is not noted yet, the last reply broke off, or
   a restart made the pace forget. *)
QuietRule ==
  /\ quiet \in 0..Cooldown
  /\ \/ pace.replied <= quiet
     \/ cut
     \/ cmd.at = "note"
     \/ (agent.said /\ agent.at \in {"load", "send", "mark"})

(* what Limited reads of the pace is left alone *)
LEMMA StirredReplied ==
  ASSUME pace \in PaceSet
  PROVE  /\ Stirred.replied = pace.replied
         /\ \A x, r : [Stirred EXCEPT !.running = r, !.pending = x].replied = pace.replied
         /\ \A x : [Stirred EXCEPT !.pending = x].replied = pace.replied
         /\ \A r : [Stirred EXCEPT !.running = r].replied = pace.replied
         /\ \A x, j : [Stirred EXCEPT !.pending = x, !.judged = j].replied = pace.replied
         /\ \A r, x, j : [Stirred EXCEPT !.running = r, !.pending = x, !.judged = j].replied
                           = pace.replied
BY DEF Stirred, PaceSet

(* steps that neither say anything nor touch the pace's memory of it *)
LEMMA QuietStays ==
  ASSUME SpeechInv, QuietRule, UNCHANGED <<quiet, cut>>, pace'.replied = pace.replied,
         cmd.at = "note" => cmd'.at = "note",
         agent.at \in {"load", "send", "mark"} =>
           agent'.at \in {"load", "send", "mark"} /\ agent'.said = agent.said
  PROVE  QuietRule'
BY DEF QuietRule

LEMMA AgedOrder ==
  ASSUME NEW limit \in Nat, NEW a \in 0..limit, NEW b \in 0..limit, a <= b
  PROVE  Aged(a, limit) <= Aged(b, limit)
BY DEF Aged

LEMMA QuietOutside ==
  ASSUME SpeechInv, QuietRule, (\E m \in Msgs : Arrive(m)) \/ Tick \/ Stop \/ Restart \/ Command
  PROVE  QuietRule'
<1>0. pace \in PaceSet /\ pace.replied \in 0..Cooldown /\ quiet \in 0..Cooldown /\ Cooldown \in Nat
  BY Holds, SpeechAssumption DEF PaceSet, QuietRule
<1>1. CASE \E m \in Msgs : Arrive(m)
  BY <1>1, QuietStays DEF Arrive, seen, heard
<1>2. CASE Tick
  <2>1. /\ pace'.replied = Aged(pace.replied, Cooldown) /\ quiet' = Aged(quiet, Cooldown)
        /\ UNCHANGED <<cut, cmd, agent>>
    BY <1>0, <1>2 DEF Tick, front, PaceSet
  <2>2. quiet' \in 0..Cooldown BY <1>0, <2>1, AgedBound
  <2>3. pace.replied <= quiet => pace'.replied <= quiet' BY <1>0, <2>1, AgedOrder
  <2> QED BY <2>1, <2>2, <2>3 DEF QuietRule
<1>3. CASE Stop
  BY <1>3, QuietStays DEF Stop, seen, heard, front
<1>4. CASE Restart
  BY <1>0, <1>4 DEF Restart, QuietRule
<1>5. CASE PassOn
  BY <1>5, QuietStays DEF PassOn, seen, heard
<1>6. CASE RunCommand
  BY <1>6, QuietStays DEF RunCommand, seen, heard
<1>7. CASE SayResult
  <2>1. cmd'.at = "note" BY <1>7 DEF SayResult, SpeechInv, NodesShape, CmdSet
  <2>2. quiet' \in 0..Cooldown BY <1>0, <1>7 DEF SayResult
  <2> QED BY <2>1, <2>2 DEF QuietRule
<1>8. CASE NoteCommand
  <2>1. pace'.replied = 0 /\ quiet' = quiet BY <1>0, <1>8 DEF NoteCommand, NoteDirect, PaceSet, heard
  <2> QED BY <1>0, <2>1 DEF QuietRule
<1> QED BY <1>1, <1>2, <1>3, <1>4, <1>5, <1>6, <1>7, <1>8 DEF Command

LEMMA QuietBefore ==
  ASSUME SpeechInv, QuietRule,
         \/ TakeBatch \/ Muted \/ Addressed \/ Overheard \/ LeaveIt
         \/ Enqueue \/ NoMore \/ Drop \/ Abandon \/ Judge \/ Verdict \/ Write
  PROVE  QuietRule'
<1>1. pace \in PaceSet BY Holds
<1>2. UNCHANGED <<cmd, quiet, cut>> /\ agent.at \notin {"load", "send", "mark"}
  BY DEF TakeBatch, Muted, Addressed, Overheard, OnItem, LeaveIt, Enqueue, EndOfBatch, NoMore, Drop,
         Abandon, Judge, AtNext, Verdict, Write, Replying, Apart, front, seen, heard
<1>3. pace'.replied = pace.replied
  <2>1. CASE Enqueue
    <3>1. \/ pace' = [Stirred EXCEPT !.pending = agent.cand]
          \/ pace' = Stirred
          \/ pace' = [Stirred EXCEPT !.running = TRUE, !.pending = agent.cand]
      BY <2>1 DEF Enqueue
    <3>2. CASE pace' = [Stirred EXCEPT !.pending = agent.cand] BY <1>1, <3>2, StirredReplied
    <3>3. CASE pace' = Stirred BY <1>1, <3>3, StirredReplied
    <3>4. CASE pace' = [Stirred EXCEPT !.running = TRUE, !.pending = agent.cand]
      BY <1>1, <3>4, StirredReplied
    <3> QED BY <3>1, <3>2, <3>3, <3>4
  <2>2. CASE NoMore BY <1>1, <2>2, StirredReplied DEF NoMore
  <2>3. CASE Drop BY <1>1, <2>3, StirredReplied DEF Drop
  <2>4. CASE Abandon
    <3> DEFINE j == IF Limited(Stirred) THEN Stirred.judged ELSE 0
    <3>1. pace' = [Stirred EXCEPT !.running = FALSE, !.pending = None, !.judged = j]
      BY <2>4 DEF Abandon
    <3> HIDE DEF j
    <3> QED BY <1>1, <3>1, StirredReplied
  <2>5. CASE Judge BY <1>1, <2>5, StirredReplied DEF Judge
  <2>6. CASE TakeBatch \/ Muted \/ Addressed \/ Overheard \/ LeaveIt \/ Verdict \/ Write
    BY <2>6 DEF TakeBatch, Muted, Addressed, Overheard, OnItem, LeaveIt, Verdict, Write
  <2> QED BY <2>1, <2>2, <2>3, <2>4, <2>5, <2>6
<1> QED BY <1>2, <1>3, QuietStays

LEMMA QuietDuring ==
  ASSUME SpeechInv, QuietRule,
         Skip \/ SendPart \/ CutShort \/ SendResult \/ Mark \/ Refused \/ NoteReply \/ SetAnchor \/ Record
  PROVE  QuietRule'
<1>0. agent \in AgentSet /\ pace \in PaceSet /\ quiet \in 0..Cooldown /\ Cooldown \in Nat
  BY Holds, SpeechAssumption DEF QuietRule
<1>1. CASE Skip \/ SendPart
  <2>1. agent'.at \in {"load", "send"} /\ agent'.said = agent.said
    BY <1>0, <1>1 DEF Skip, SendPart, Replying, AgentSet
  <2> QED BY <1>1, <2>1, QuietStays DEF Skip, SendPart, Replying, Apart, front, seen, heard
<1>2. CASE CutShort \/ Refused
  <2>1. /\ cut' = (cut \/ agent.said) /\ UNCHANGED <<quiet, pace, cmd>>
    BY <1>2 DEF CutShort, Refused, Replying, Apart, front
  <2> QED BY <2>1 DEF QuietRule
<1>3. CASE SendResult
  <2>1. UNCHANGED <<pace, cut, cmd>> /\ agent.at = "send"
    BY <1>3 DEF SendResult, Replying, Apart, front
  <2>2. PICK res \in {"sent", "unsure", "refused"}, out \in BOOLEAN :
          /\ agent' = [agent EXCEPT !.at = "mark", !.res = res, !.said = @ \/ out]
          /\ IF out THEN quiet' = 0 ELSE quiet' = quiet
    BY <1>3 DEF SendResult
  <2>3. agent'.at = "mark" /\ agent'.said = (agent.said \/ out)
    BY <1>0, <2>2 DEF AgentSet
  <2>4. quiet' \in 0..Cooldown BY <1>0, <2>2
  <2> QED BY <2>1, <2>2, <2>3, <2>4 DEF QuietRule
<1>4. CASE Mark
  <2>1. agent'.at = "load" /\ agent'.said = agent.said
    BY <1>0, <1>4 DEF Mark, NextPart, AgentSet
  <2> QED BY <1>4, <2>1, QuietStays DEF Mark, Replying, Apart, front
<1>5. CASE NoteReply
  <2>1. pace'.replied = 0 /\ quiet' = quiet BY <1>0, <1>5 DEF NoteReply, NoteDirect, PaceSet
  <2> QED BY <1>0, <2>1 DEF QuietRule
<1>6. CASE SetAnchor
  BY <1>6, QuietStays DEF SetAnchor, front, seen, heard
<1>7. CASE Record
  <2>1. pace'.replied = 0 /\ quiet' = quiet BY <1>0, <1>7 DEF Record, PaceSet, heard
  <2> QED BY <1>0, <2>1 DEF QuietRule
<1> QED BY <1>1, <1>2, <1>3, <1>4, <1>5, <1>6, <1>7

(* Only Judge goes from the slot to the judge, and it looks at the limits. *)
LEMMA JudgedLate ==
  ASSUME SpeechInv, QuietRule, Next, agent.at = "next", agent'.at = "judge"
  PROVE  quiet >= Cooldown \/ cut \/ cmd.at = "note"
<1>1. agent.at # agent'.at
  OBVIOUS
<1>2. ~ (\E m \in Msgs : Arrive(m)) /\ ~ Tick /\ ~ Stop /\ ~ Command
  BY <1>1 DEF Arrive, Tick, Stop, Command, PassOn, RunCommand, SayResult, NoteCommand
<1>3. ~ Restart
  BY DEF Restart, Idle
<1>4. Agent
  BY <1>2, <1>3 DEF Next
<1>5. Judge
  <2>1. ~ (NoMore \/ Abandon)
    BY DEF NoMore, Abandon, Idle
  <2>2. ~ Drop
    BY <1>1 DEF Drop
  <2>3. ~ (\/ TakeBatch \/ Muted \/ Addressed \/ Overheard \/ LeaveIt \/ Enqueue \/ Verdict
           \/ Write \/ Skip \/ SendPart \/ CutShort \/ SendResult \/ Mark \/ Refused
           \/ NoteReply \/ SetAnchor \/ Record)
    BY DEF TakeBatch, Muted, Addressed, Overheard, OnItem, LeaveIt, Enqueue, EndOfBatch, Verdict,
           Write, Skip, SendPart, CutShort, SendResult, Mark, Refused, NoteReply, SetAnchor, Record,
           Replying
  <2> QED BY <1>4, <2>1, <2>2, <2>3 DEF Agent
<1>6. pace \in PaceSet /\ Stirred.replied = pace.replied
  BY Holds, StirredReplied
<1>7. ~ (pace.replied < Cooldown)
  BY <1>5, <1>6 DEF Judge, Limited
<1>8. pace.replied \in Int /\ quiet \in Int /\ Cooldown \in Int
  BY <1>6, SpeechAssumption DEF PaceSet, QuietRule
<1> QED BY <1>7, <1>8 DEF QuietRule

(* Having said something the bot waits for the cooldown before it considers speaking unasked, for
   every setting of the limits and every interleaving with a command (proactive.go 195); what is
   excepted is a reply that broke off, a restart, and a command between its send and its note. *)
THEOREM SpeechQuiet == Spec => QuietAfterSpeaking
<1>1. Init => QuietRule
  BY SpeechAssumption DEF Init, Fresh, QuietRule
<1>2. SpeechInv /\ QuietRule /\ [Next]_vars => QuietRule'
  <2> SUFFICES ASSUME SpeechInv, QuietRule, [Next]_vars PROVE QuietRule' OBVIOUS
  <2>1. CASE UNCHANGED vars
    BY <2>1, QuietStays DEF vars, front, seen, heard
  <2>2. CASE Agent
    BY <2>2, QuietBefore, QuietDuring DEF Agent
  <2> QED BY <2>1, <2>2, QuietOutside DEF Next
<1>3. SpeechInv /\ QuietRule /\ [Next]_vars =>
        [agent.at = "next" /\ agent'.at = "judge" =>
           quiet >= Cooldown \/ cut \/ cmd.at = "note"]_vars
  BY JudgedLate
<1> QED BY <1>1, <1>2, <1>3, SpeechInvariant, PTL DEF Spec, QuietAfterSpeaking
=============================================================================

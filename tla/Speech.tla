------------------------------- MODULE Speech -------------------------------
(***************************************************************************)
(* One chat of one workspace in the speech domain: the command node in     *)
(* front, the agent node behind it (bot/domains.go), the limits on         *)
(* speaking unasked (speech/proactive.go) and the delivery of a reply part *)
(* by part against the ledger in the database (speech/deliver.go).  Each   *)
(* node works on one batch of the chat at a time: module Consumer.         *)
(* What a message says is left out; the model's answers are choices.       *)
(***************************************************************************)
EXTENDS Integers, Sequences, SequencesExt

CONSTANTS
  Msgs, None,
  ReplyMax,     (* maxReplyMessages                                         *)
  Batch,        (* messages the agent takes at once                         *)
  MaxStreak, Cooldown, JudgeEvery, SilenceReset, (* limits, in ticks        *)
  Again,        (* messages that may be pushed a second time                *)
  Scripts,      (* what the messages are: functions from Msgs to Kinds      *)
  MaxFaults     (* bound: failed reads and writes of the ledger, restarts   *)

ASSUME SpeechAssumption ==
  /\ None \notin Msgs
  /\ Again \subseteq Msgs
  /\ Scripts \subseteq [Msgs -> {"plain", "mention", "start", "stop"}]
  /\ {ReplyMax, Batch, MaxStreak} \subseteq Nat \ {0}
  /\ {Cooldown, JudgeEvery, SilenceReset, MaxFaults} \subseteq Nat

Parts == 1..ReplyMax

VARIABLES
  kind, came,   (* what a message is, how often it was pushed               *)
  line, cmd,    (* the command node: its queue, the command under way       *)
  queue, agent, (* the agent node: its queue, the batch under way           *)
  pace,         (* proactiveGroup, times as ages that stop at their limit   *)
  enabled,      (* the chat's switch, persisted                             *)
  ledger,       (* send_ledger: parts (message and number) with Sent = true *)
  anchor,       (* LLMAnchor: the message and the parts it was set after    *)
  ending,       (* the context of Run is cancelled                          *)
  faults,
  \* what the platform and the chat have seen
  got,          (* got[m][i]: how often part i on m came out, at most twice *)
  doubt,        (* parts the ledger was unreachable for, or a restart cut   *)
  quiet, cut,   (* age of the last thing said; the last reply broke off     *)
  unasked       (* replies nobody asked for since the last one asked for    *)

chat  == <<kind, came>>
front == <<line, cmd>>
heard == <<got, doubt, quiet, cut>>
seen  == <<heard, unasked>>
vars  == <<chat, front, queue, agent, pace, enabled, ledger, anchor, ending, faults, seen>>

Idle == [at |-> "idle", batch |-> <<>>, cand |-> None, msg |-> None, parts |-> 0,
         next |-> 1, res |-> "none", said |-> FALSE, asked |-> FALSE]

Fresh == [judged |-> JudgeEvery, replied |-> Cooldown, active |-> SilenceReset,
          streak |-> 0, running |-> FALSE, pending |-> None]

Init ==
  /\ kind \in Scripts /\ came = [m \in Msgs |-> 0]
  /\ line = <<>> /\ cmd = [at |-> "idle", msg |-> None]
  /\ queue = <<>> /\ agent = Idle
  /\ pace = Fresh
  /\ enabled \in BOOLEAN   \* bot.agent_default_enabled
  /\ ledger = {}
  /\ anchor = [msg |-> None, parts |-> 0]
  /\ ending = FALSE /\ faults = 0
  /\ got = [m \in Msgs |-> [i \in Parts |-> 0]]
  /\ doubt = {} /\ quiet = Cooldown /\ cut = FALSE /\ unasked = 0

-----------------------------------------------------------------------------
(* The environment *)

Underway(m) ==
  m \in ToSet(line) \cup ToSet(queue) \cup ToSet(agent.batch) \cup {cmd.msg, agent.cand, agent.msg}

(* A message is pushed, and once more when neither the dedup table nor the
   chat's cache knows it any more (module Bot). *)
Arrive(m) ==
  /\ ~ ending /\ ~ Underway(m) /\ came[m] < IF m \in Again THEN 2 ELSE 1
  /\ came' = [came EXCEPT ![m] = @ + 1]
  /\ line' = Append(line, m)
  /\ UNCHANGED <<kind, cmd, queue, agent, pace, enabled, ledger, anchor, ending, faults, seen>>

Aged(age, limit) == IF age < limit THEN age + 1 ELSE age

Tick ==
  /\ pace' = [pace EXCEPT !.judged = Aged(@, JudgeEvery), !.replied = Aged(@, Cooldown),
                          !.active = Aged(@, SilenceReset + 1)]
  /\ quiet' = Aged(quiet, Cooldown)
  /\ UNCHANGED <<chat, front, queue, agent, enabled, ledger, anchor, ending, faults,
                 got, doubt, cut, unasked>>

Stop ==
  /\ ~ ending /\ ending' = TRUE
  /\ UNCHANGED <<chat, front, queue, agent, pace, enabled, ledger, anchor, faults, seen>>

Fault == faults < MaxFaults /\ faults' = faults + 1

Out(m, i) == [got EXCEPT ![m][i] = IF @ < 2 THEN @ + 1 ELSE @]

(* The process ends and starts again: what is in the database stays.  A part
   on its way may come out all the same; it is not in the ledger. *)
Restart ==
  /\ Fault
  /\ line' = <<>> /\ cmd' = [at |-> "idle", msg |-> None]
  /\ queue' = <<>> /\ agent' = Idle /\ pace' = Fresh /\ ending' = FALSE
  /\ doubt' = doubt \cup IF agent.at \in {"send", "mark"} THEN {<<agent.msg, agent.next>>} ELSE {}
  /\ got' \in {got} \cup IF agent.at = "send" THEN {Out(agent.msg, agent.next)} ELSE {}
  /\ cut' = TRUE /\ unasked' = 0
  /\ UNCHANGED <<chat, enabled, ledger, anchor, quiet>>

-----------------------------------------------------------------------------
(* proactiveRegistry: every operation holds its mutex *)

NoteDirect(p) == [p EXCEPT !.streak = 0, !.replied = 0]

(* a chat that was silent for long starts afresh; any call counts as activity *)
Silent   == pace.active > SilenceReset
Forgiven == IF Silent THEN 0 ELSE unasked
Stirred  == [pace EXCEPT !.streak = IF Silent THEN 0 ELSE @, !.active = 0]

Limited(p) == p.streak >= MaxStreak \/ p.replied < Cooldown \/ p.judged < JudgeEvery

-----------------------------------------------------------------------------
(* The command node *)

Behind(m) == queue' = Append(queue, m)

PassOn ==
  /\ cmd.at = "idle" /\ line # <<>> /\ kind[Head(line)] \in {"plain", "mention"}
  /\ line' = Tail(line) /\ Behind(Head(line))
  /\ UNCHANGED <<chat, cmd, agent, pace, enabled, ledger, anchor, ending, faults, seen>>

(* SetAgentEnabled, unless the user lacks the right *)
Switch(m) == enabled' \in {enabled, kind[m] = "start"}

RunCommand ==
  /\ cmd.at = "idle" /\ line # <<>> /\ kind[Head(line)] \in {"start", "stop"}
  /\ line' = Tail(line)
  /\ cmd' = [at |-> "say", msg |-> Head(line)]
  /\ Switch(Head(line))
  /\ UNCHANGED <<chat, queue, agent, pace, ledger, anchor, ending, faults, seen>>

(* Router.reply: the outcome of the call is not looked at *)
SayResult ==
  /\ cmd.at = "say"
  /\ cmd' = [cmd EXCEPT !.at = "note"]
  /\ quiet' \in {quiet, 0}
  /\ UNCHANGED <<chat, line, queue, agent, pace, enabled, ledger, anchor, ending, faults,
                 got, doubt, cut, unasked>>

(* noteDirect; then #启动 goes on to the agent, #关闭 ends here *)
NoteCommand ==
  /\ cmd.at = "note"
  /\ pace' = NoteDirect(pace) /\ unasked' = 0
  /\ cmd' = [at |-> "idle", msg |-> None]
  /\ IF kind[cmd.msg] = "start" THEN Behind(cmd.msg) ELSE UNCHANGED queue
  /\ UNCHANGED <<chat, line, agent, enabled, ledger, anchor, ending, faults, heard>>

Command == PassOn \/ RunCommand \/ SayResult \/ NoteCommand

-----------------------------------------------------------------------------
(* handleAgent, in the batch's order *)

Apart == UNCHANGED <<chat, front, enabled, anchor, ending>>

TakeBatch ==
  /\ agent.at = "idle" /\ queue # <<>>
  /\ LET n == IF Len(queue) < Batch THEN Len(queue) ELSE Batch IN
       /\ agent' = [Idle EXCEPT !.at = "item", !.batch = SubSeq(queue, 1, n)]
       /\ queue' = SubSeq(queue, n + 1, Len(queue))
  /\ Apart /\ UNCHANGED <<pace, ledger, faults, seen>>

OnItem == agent.at = "item" /\ agent.batch # <<>>
          /\ Apart /\ UNCHANGED <<queue, pace, ledger, faults, seen>>
Item   == Head(agent.batch)

(* the chat's switch is off: not even a word *)
Muted == OnItem /\ ~ enabled /\ agent' = [agent EXCEPT !.batch = Tail(@)]

(* RouteMessageNow, ReplyAddressedNow *)
Addressed ==
  /\ OnItem
  /\ enabled /\ kind[Item] \in {"mention", "start"}
  /\ agent' = [agent EXCEPT !.at = "write", !.batch = Tail(@), !.msg = Item, !.asked = TRUE]

(* latest wins: only the last plain message of the batch is a candidate *)
Overheard ==
  /\ OnItem
  /\ enabled /\ kind[Item] = "plain"
  /\ agent' = [agent EXCEPT !.batch = Tail(@), !.cand = Item]

-----------------------------------------------------------------------------
(* TryProactiveNow: enqueue, then runProactive on the same goroutine *)

EndOfBatch == agent.at = "item" /\ agent.batch = <<>>
              /\ Apart /\ UNCHANGED <<queue, ledger, faults, heard>>

(* no candidate, more to come, or tryProactive finds the message is not for it *)
LeaveIt == EndOfBatch /\ agent' = Idle /\ UNCHANGED <<pace, unasked>>

Enqueue ==
  /\ EndOfBatch /\ agent.cand # None /\ queue = <<>>
  /\ unasked' = Forgiven
  /\ IF pace.running
     THEN pace' = [Stirred EXCEPT !.pending = agent.cand] /\ agent' = Idle
     ELSE IF Limited(Stirred) THEN pace' = Stirred /\ agent' = Idle
     ELSE /\ pace' = [Stirred EXCEPT !.running = TRUE, !.pending = agent.cand]
          /\ agent' = [agent EXCEPT !.at = "next"]

AtNext == agent.at = "next" /\ unasked' = Forgiven
          /\ Apart /\ UNCHANGED <<queue, ledger, faults, heard>>

(* next(): nothing to judge, the worker leaves *)
NoMore ==
  AtNext /\ pace.pending = None /\ pace' = [Stirred EXCEPT !.running = FALSE] /\ agent' = Idle

DropInPlace ==   \* mutant: what is dropped stays in the slot
  AtNext /\ pace.pending # None /\ Limited(Stirred) /\ ~ ending
  /\ pace' = Stirred /\ UNCHANGED agent
(* next(): the limits are looked at again, what they hold back is dropped *)
Drop ==
  AtNext /\ pace.pending # None /\ Limited(Stirred) /\ ~ ending
  /\ pace' = [Stirred EXCEPT !.pending = None] /\ UNCHANGED agent

(* runProactive finds its context cancelled once next() has returned *)
Abandon ==
  AtNext /\ pace.pending # None /\ ending
  /\ agent' = Idle
  /\ pace' = [Stirred EXCEPT !.running = FALSE, !.pending = None,
                             !.judged = IF Limited(Stirred) THEN @ ELSE 0]

JudgeAtOnce ==   \* mutant: next() trusts the limits looked at by enqueue
  AtNext /\ pace.pending # None /\ ~ ending
  /\ pace' = [Stirred EXCEPT !.pending = None, !.judged = 0]
  /\ agent' = [agent EXCEPT !.at = "judge", !.msg = pace.pending, !.cand = None]
(* next(): the message goes to the judge, the interval counts from here *)
Judge ==
  AtNext /\ pace.pending # None /\ ~ Limited(Stirred) /\ ~ ending
  /\ pace' = [Stirred EXCEPT !.pending = None, !.judged = 0]
  /\ agent' = [agent EXCEPT !.at = "judge", !.msg = pace.pending, !.cand = None]

(* handleProactive: yes, or no, an error, an empty window *)
Verdict ==
  /\ agent.at = "judge"
  /\ \/ ~ ending /\ agent' = [agent EXCEPT !.at = "write", !.asked = FALSE]
     \/ agent' = [agent EXCEPT !.at = "next", !.msg = None]
  /\ Apart /\ UNCHANGED <<queue, pace, ledger, faults, seen>>

-----------------------------------------------------------------------------
(* One reply: Generate, deliverChat, sendReply *)

Replying(at) == agent.at = at /\ Apart /\ UNCHANGED queue
After == IF agent.asked THEN "item" ELSE "next"
BrokenOff == [agent EXCEPT !.at = After, !.msg = None, !.parts = 0, !.next = 1, !.res = "none",
                           !.said = FALSE, !.asked = FALSE]

WriteEmpty ==   \* mutant: an empty draft is a reply like any other
  /\ Replying("write") /\ UNCHANGED <<pace, ledger, faults, seen>>
  /\ \/ agent' = BrokenOff
     \/ ~ ending /\ \E n \in 0..ReplyMax : agent' = [agent EXCEPT !.at = "load", !.parts = n]
(* Generate returns; an error is dropped by both callers.  On a message that
   comes again the draft is a new one. *)
Write ==
  /\ Replying("write") /\ UNCHANGED <<pace, ledger, faults, seen>>
  /\ \/ agent' = BrokenOff
     \/ ~ ending /\ \E n \in Parts : agent' = [agent EXCEPT !.at = "load", !.parts = n]

MoreButOne == agent.next < agent.parts   \* mutant: the loop ends one early
More       == agent.next <= agent.parts
ThisPart  == <<agent.msg, agent.next>>
Recorded  == ThisPart \in ledger

(* the ledger knows the part, also one with an unsure outcome: not again *)
Skip ==
  /\ Replying("load") /\ More /\ Recorded
  /\ agent' = [agent EXCEPT !.next = @ + 1]
  /\ UNCHANGED <<pace, ledger, faults, seen>>

(* not recorded, or the ledger cannot be read *)
MustSend ==
  \/ ~ Recorded /\ UNCHANGED <<faults, doubt>>
  \/ Recorded /\ Fault /\ doubt' = doubt \cup {ThisPart}

(* the first part at once, the others after the interval *)
SendPart ==
  /\ Replying("load") /\ More
  /\ MustSend
  /\ agent.next > 1 => ~ ending
  /\ agent' = [agent EXCEPT !.at = "send"]
  /\ UNCHANGED <<pace, ledger, got, quiet, cut, unasked>>

(* the interval before a later part is cut short *)
CutShort ==
  /\ Replying("load") /\ More /\ MustSend /\ agent.next > 1 /\ ending
  /\ agent' = BrokenOff /\ cut' = (cut \/ agent.said)
  /\ UNCHANGED <<pace, ledger, got, quiet, unasked>>

(* sendAction: refused, or accepted; no answer counts as accepted, whether
   the part has come out or not *)
SendResult ==
  /\ Replying("send")
  /\ \E res \in {"sent", "unsure", "refused"}, out \in BOOLEAN :
       /\ res # "unsure" => out = (res = "sent")
       /\ agent' = [agent EXCEPT !.at = "mark", !.res = res, !.said = @ \/ out]
       /\ IF out THEN got' = Out(agent.msg, agent.next) /\ quiet' = 0
                 ELSE UNCHANGED <<got, quiet>>
  /\ UNCHANGED <<pace, ledger, faults, doubt, cut, unasked>>

Marked(m) == ledger' = ledger \cup m /\ UNCHANGED <<faults, doubt>>
Unwritten == Fault /\ doubt' = doubt \cup {ThisPart} /\ UNCHANGED ledger

NextPart == agent' = [agent EXCEPT !.at = "load", !.next = @ + 1, !.res = "none"]

MarkConfirmed ==   \* mutant: only a confirmed part counts as sent
  /\ Replying("mark") /\ agent.res # "refused"
  /\ Marked(IF agent.res = "sent" THEN {ThisPart} ELSE {}) \/ Unwritten
  /\ NextPart
  /\ UNCHANGED <<pace, got, quiet, cut, unasked>>
(* ledger.Mark; a write that fails is only logged *)
Mark ==
  /\ Replying("mark") /\ agent.res # "refused"
  /\ Marked({ThisPart}) \/ Unwritten
  /\ NextPart
  /\ UNCHANGED <<pace, got, quiet, cut, unasked>>

RefusedGoesOn ==   \* mutant: the refused part is passed over
  /\ Replying("mark") /\ agent.res = "refused"
  /\ NextPart
  /\ UNCHANGED <<pace, ledger, faults, seen>>
(* a refused part ends the reply: no later part, no noteDirect, no anchor.
   Its entry with Sent = false is to Load what no entry is. *)
Refused ==
  /\ Replying("mark") /\ agent.res = "refused"
  /\ agent' = BrokenOff /\ cut' = (cut \/ agent.said)
  /\ UNCHANGED <<pace, ledger, faults, got, doubt, quiet, unasked>>

(* every part is out: noteDirect, for an unasked reply as well *)
NoteReply ==
  /\ Replying("load") /\ ~ More
  /\ pace' = NoteDirect(pace)
  /\ unasked' = IF agent.asked THEN 0 ELSE unasked
  /\ cut' = FALSE
  /\ agent' = [agent EXCEPT !.at = "anchor"]
  /\ UNCHANGED <<ledger, faults, got, doubt, quiet>>

(* SetLLMAnchor and saveAnchor *)
SetAnchor ==
  /\ agent.at = "anchor"
  /\ anchor' = [msg |-> agent.msg, parts |-> agent.parts]
  /\ agent' = IF agent.asked THEN BrokenOff ELSE [agent EXCEPT !.at = "record"]
  /\ UNCHANGED <<chat, front, queue, pace, enabled, ledger, ending, faults, seen>>

(* recordReply *)
Record ==
  /\ Replying("record")
  /\ pace' = [pace EXCEPT !.replied = 0, !.streak = Aged(@, MaxStreak)]
  /\ unasked' = Aged(unasked, MaxStreak + 1)
  /\ agent' = BrokenOff
  /\ UNCHANGED <<ledger, faults, heard>>

-----------------------------------------------------------------------------
Agent ==
  \/ TakeBatch \/ Muted \/ Addressed \/ Overheard \/ LeaveIt
  \/ Enqueue \/ NoMore \/ Drop \/ Abandon \/ Judge \/ Verdict
  \/ Write \/ Skip \/ SendPart \/ CutShort \/ SendResult \/ Mark \/ Refused
  \/ NoteReply \/ SetAnchor \/ Record

Next ==
  \/ \E m \in Msgs : Arrive(m)
  \/ Tick \/ Stop \/ Restart
  \/ Command \/ Agent

(* The handlers' goroutines run and their calls return or time out. *)
Spec == Init /\ [][Next]_vars /\ WF_vars(Agent) /\ WF_vars(Command)

-----------------------------------------------------------------------------
(* Properties *)

(* The state is well formed; and the chat's one worker slot is taken exactly while the worker
   runs (proactive.go 206): a slot left taken would silence the chat for good. *)
SpeechTypeOK ==
  /\ kind \in Scripts /\ came \in [Msgs -> 0..2]
  /\ line \in Seq(Msgs) /\ queue \in Seq(Msgs)
  /\ cmd \in [at : {"idle", "say", "note"}, msg : Msgs \cup {None}]
  /\ agent.at \in {"idle", "item", "next", "judge", "write", "load", "send", "mark",
                   "anchor", "record"}
  /\ agent.at \in {"load", "send", "mark", "anchor"} =>
       agent.msg \in Msgs /\ agent.parts \in Parts /\ agent.next \in 1..(agent.parts + 1)
  /\ agent.at = "next" => agent.batch = <<>>
  /\ pace.judged \in 0..JudgeEvery /\ pace.replied \in 0..Cooldown
  /\ pace.active \in 0..(SilenceReset + 1) /\ pace.streak \in 0..MaxStreak
  /\ enabled \in BOOLEAN /\ ending \in BOOLEAN /\ faults \in 0..MaxFaults
  /\ ledger \subseteq Msgs \X Parts
  /\ anchor \in [msg : Msgs \cup {None}, parts : 0..ReplyMax]
  /\ doubt \subseteq Msgs \X Parts
  /\ pace.running = (\/ agent.at \in {"next", "judge", "record"}
                     \/ agent.at \in {"write", "load", "send", "mark", "anchor"} /\ ~ agent.asked)

(* deliver.go 213 and 351: a part that went out, or may have, is not sent
   again, across restarts and messages pushed twice.  It comes out twice only
   when the ledger could not be read or written for it, or the process died
   between the send and the mark. *)
SentOnce == \A m \in Msgs, i \in Parts : got[m][i] = 2 => <<m, i>> \in doubt

(* deliver.go 242: a part comes out only after those before it; the chat never
   reads the end of a reply whose beginning was refused.  What is unsure has
   been sent as far as the bot can know. *)
NoGap ==
  \A m \in Msgs, i, j \in Parts :
    j < i /\ got[m][i] > 0 =>
      got[m][j] > 0 \/ <<m, j>> \in ledger \cup doubt

(* deliver.go 99: the anchor moves only once the whole reply is out, so that
   the next window does not take what was never sent for sent. *)
AnchorMeansSent ==
  anchor.msg # None => \A i \in 1..anchor.parts :
    <<anchor.msg, i>> \in ledger \cup doubt

(* proactive.go 195: having said something the bot waits for the cooldown
   before it considers speaking unasked, also when a command was answered
   between enqueue and next.  Not so after a reply that broke off half way
   (deliver.go 241 leaves before noteDirect), after a restart, which forgets
   the pace, and while the command's goroutine is between its send and its
   noteDirect. *)
QuietAfterSpeaking ==
  [][agent.at = "next" /\ agent'.at = "judge" =>
       quiet >= Cooldown \/ cut \/ cmd.at = "note"]_vars

(* Every batch comes to an end: the loop over the slot does not go round for
   ever and the chat's next messages get their turn. *)
BatchEnds == agent.at # "idle" ~> agent.at = "idle"

(* docs/domains/speech.md 125: at most proactive_max_streak replies in a row
   nobody asked for; then the bot waits to be addressed or for silence. *)
UnaskedLimit == unasked <= MaxStreak
=============================================================================

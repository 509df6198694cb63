------------------------------ MODULE ChatStore ------------------------------
(***************************************************************************)
(* The memory of one chat: the message table, the ring of the last         *)
(* messages in front of it (conversation/cache.go), the anchor of the last  *)
(* window sent to the model, and the window the next request gets.  The     *)
(* sync node writes rows, the agent node adds to the ring and answers, the  *)
(* command node adds its own replies at any time in between.  A message     *)
(* is its id and its row; how long and how old it is, are constants.        *)
(***************************************************************************)
EXTENDS Integers, Sequences, FiniteSets, SequencesExt, FiniteSetsExt

CONSTANTS
  ChatMsgs, Replies,  (* messages of others; ids for replies of the bot       *)
  NoMsg,
  ChatCap,            (* max_cache_msg                                        *)
  SendCount,          (* llm_send_count                                       *)
  MaxTokens,          (* max_context_tokens, 0: no limit                      *)
  HitCost, MissCost,  (* price of a token the model's cache holds, or not     *)
  Weight, System,     (* tokens of a message, of the system prompt            *)
  Quotes,             (* the message one quotes, or NoMsg                     *)
  SentAt,             (* the time it bears, in whole seconds: ties are common *)
  Twice,              (* messages that may be pushed a second time            *)
  ChatFaults          (* bound: writes that fail, and restarts                *)

Ids == ChatMsgs \cup Replies

ASSUME ChatAssumption ==
  /\ IsFiniteSet(Ids) /\ NoMsg \notin Ids /\ ChatMsgs \cap Replies = {} /\ Twice \subseteq ChatMsgs
  /\ {ChatCap, SendCount, MissCost} \subseteq Nat \ {0}
  /\ {MaxTokens, HitCost, System, ChatFaults} \subseteq Nat
  /\ Weight \in [Ids -> Nat \ {0}] /\ Quotes \in [Ids -> Ids \cup {NoMsg}] /\ SentAt \in [Ids -> Nat]

VARIABLES
  chRows,    (* messages: the place of a message is its row number           *)
  chBuf, chAt, chFilled, chSeen,  (* GroupMsgCache                           *)
  chAnchor, chStored,             (* LLMAnchor in memory, in the database    *)
  chLine,    (* synced, on the way to the agent                              *)
  chAgent,   (* the agent node: where it is, its trigger, window, reply      *)
  chReply,   (* a reply of the command node, saved and not yet in the ring   *)
  chCame, chFaults,
  chStarts,  (* restarts so far                                              *)
  chSent     (* the last window the model answered since the start           *)

ring   == <<chBuf, chAt, chFilled, chSeen>>
marks  == <<chAnchor, chStored>>
chVars == <<chRows, ring, marks, chLine, chAgent, chReply, chCame, chFaults, chStarts, chSent>>

NoEntry == [msg |-> NoMsg, row |-> 0]
NoAnchor == [start |-> NoMsg, last |-> NoMsg]
NoWork  == [at |-> "idle", trigger |-> NoMsg, window |-> <<>>, reply |-> NoEntry, mode |-> "none"]

ChatInit ==
  /\ chRows = <<>>
  /\ chBuf = [i \in 0..ChatCap - 1 |-> NoEntry] /\ chAt = 0 /\ chFilled = FALSE /\ chSeen = {}
  /\ chAnchor = NoAnchor /\ chStored = NoAnchor
  /\ chLine = <<>> /\ chAgent = NoWork /\ chReply = NoEntry
  /\ chCame = [m \in ChatMsgs |-> 0] /\ chFaults = 0 /\ chStarts = 0 /\ chSent = <<>>

-----------------------------------------------------------------------------
(* The table *)

RowOf(rows, m) == {i \in DOMAIN rows : rows[i] = m}

(* mutant: insert without looking for the row *)
UpsertedNew(m) == Append(chRows, m)

(* SaveMessage: a row is updated in place and keeps its number *)
Upserted(m) == IF RowOf(chRows, m) # {} THEN chRows ELSE Append(chRows, m)

(* the number of the row: 0 when it could not be written *)
SaveMessage(m, row) ==
  \/ /\ chRows' = Upserted(m) /\ UNCHANGED chFaults
     /\ row \in RowOf(chRows', m)
  \/ /\ chFaults < ChatFaults /\ chFaults' = chFaults + 1 /\ UNCHANGED chRows
     /\ row = 0

RowNumbers == 0..Len(chRows) + 1

(* LoadRecent: the latest by time; the order of equal times is the database's *)
Recent(rows) ==
  LET n == IF Len(rows) < ChatCap THEN Len(rows) ELSE ChatCap IN
  {s \in [1..n -> DOMAIN rows] :
     /\ IsInjective(s)
     /\ \A i \in 1..n - 1 : SentAt[rows[s[i]]] <= SentAt[rows[s[i + 1]]]
     /\ \A j \in DOMAIN rows \ Range(s) : \A i \in 1..n : SentAt[rows[j]] <= SentAt[rows[s[i]]]}

-----------------------------------------------------------------------------
(* The ring *)

HasSeen(m) == m \in chSeen

RingAdd(e) ==
  IF HasSeen(e.msg) THEN UNCHANGED ring
  ELSE LET old == chBuf[chAt].msg IN
       /\ chBuf' = [chBuf EXCEPT ![chAt] = e]
       /\ chSeen' = (chSeen \ {old}) \cup {e.msg}
       /\ chAt' = (chAt + 1) % ChatCap
       /\ chFilled' = (chFilled \/ chAt + 1 = ChatCap)

(* mutant: a full ring read from its first place *)
GetAllUnturned == [i \in 1..IF chFilled THEN ChatCap ELSE chAt |-> chBuf[i - 1]]

GetAll ==
  IF chFilled THEN [i \in 1..ChatCap |-> chBuf[(chAt + i - 1) % ChatCap]]
  ELSE [i \in 1..chAt |-> chBuf[i - 1]]

FindMsgIndex(s, m) == LET at == {i \in DOMAIN s : s[i].msg = m} IN
                      IF at = {} THEN 0 ELSE Min(at)

-----------------------------------------------------------------------------
(* The window of a request *)

Tokens(s) ==
  LET sum[i \in 0..Len(s)] == IF i = 0 THEN 0 ELSE sum[i - 1] + Weight[s[i].msg] IN sum[Len(s)]
TailFrom(s, i) == SubSeq(s, i, Len(s))

(* the last messages, cut from the front until they fit; one always stays *)
ResetWindow(s) ==
  LET most == TailFrom(s, Max({Len(s) - SendCount, 0}) + 1)
      fits == {i \in DOMAIN most : MaxTokens = 0 \/ System + Tokens(TailFrom(most, i)) <= MaxTokens}
  IN TailFrom(most, IF fits = {} THEN Len(most) ELSE Min(fits))

(* decideChatWindow *)
Decide(s, anchor) ==
  LET first == IF anchor = NoAnchor THEN 0 ELSE FindMsgIndex(s, anchor.start)
      last  == Max({FindMsgIndex(s, anchor.last), first})
      hit   == System + Tokens(SubSeq(s, first, last))
      new   == Tokens(TailFrom(s, last + 1))
      reset == System + Tokens(TailFrom(s, Max({Len(s) - SendCount, 0}) + 1))
      cheap == /\ hit * HitCost + new * MissCost < reset * MissCost
               /\ MaxTokens = 0 \/ hit + new <= MaxTokens
  IN IF first > 0 /\ cheap THEN [mode |-> "extend", window |-> TailFrom(s, first)]
     ELSE [mode |-> "reset", window |-> ResetWindow(s)]

(* BuildChatLog: the numbers the model sees; a quote of what is not shown is left out *)
ChatLog(s) ==
  [i \in DOMAIN s |->
    [id |-> s[i].row,
     reply |-> LET q == FindMsgIndex(s, Quotes[s[i].msg]) IN IF q = 0 THEN 0 ELSE s[q].row]]

-----------------------------------------------------------------------------
(* The nodes *)

OnTheWay(m) == m = chAgent.trigger \/ \E i \in DOMAIN chLine : chLine[i].msg = m

(* PrepareBatch of one message *)
PrepareBatch(m) ==
  /\ ~ OnTheWay(m) /\ chCame[m] < (IF m \in Twice THEN 2 ELSE 1)
  /\ chCame' = [chCame EXCEPT ![m] = @ + 1]
  /\ IF HasSeen(m) THEN UNCHANGED <<chRows, chFaults, chLine>>
     ELSE \E n \in RowNumbers : SaveMessage(m, n) /\ chLine' = Append(chLine, [msg |-> m, row |-> n])
  /\ UNCHANGED <<ring, marks, chAgent, chReply, chStarts, chSent>>

(* handleAgent comes to a message *)
AgentTakes ==
  /\ chAgent.at = "idle" /\ chLine # <<>>
  /\ RingAdd(Head(chLine))
  /\ chAgent' = [NoWork EXCEPT !.at = "added", !.trigger = Head(chLine).msg]
  /\ chLine' = Tail(chLine)
  /\ UNCHANGED <<chRows, marks, chReply, chCame, chFaults, chStarts, chSent>>

(* not to be answered, or aged out of the ring in between: an alert is written *)
AgentLeaves ==
  /\ chAgent.at = "added" /\ chAgent' = NoWork
  /\ UNCHANGED <<chRows, ring, marks, chLine, chReply, chCame, chFaults, chStarts, chSent>>

Snapshot == LET all == GetAll IN SubSeq(all, 1, FindMsgIndex(all, chAgent.trigger))

(* selectChatWindow: an anchor older than cache_ttl counts as none *)
SelectWindow(expired) ==
  /\ chAgent.at = "added" /\ Snapshot # <<>>
  /\ LET d == Decide(Snapshot, IF expired THEN NoAnchor ELSE chAnchor) IN
       chAgent' = [chAgent EXCEPT !.at = "asked", !.window = d.window, !.mode = d.mode]
  /\ UNCHANGED <<chRows, ring, marks, chLine, chReply, chCame, chFaults, chStarts, chSent>>

(* the model or the platform fails: the anchor stays *)
ReplyFails ==
  /\ chAgent.at = "asked" /\ chAgent' = NoWork
  /\ UNCHANGED <<chRows, ring, marks, chLine, chReply, chCame, chFaults, chStarts, chSent>>

FreshReplies == {r \in Replies : RowOf(chRows, r) = {} /\ r \notin chSeen
                          /\ r \notin {chReply.msg, chAgent.reply.msg}}

(* recordSelfReply: the row first, then the ring *)
SaySelf(r) ==
  /\ chAgent.at = "asked"
  /\ \E n \in RowNumbers : /\ SaveMessage(r, n)
                         /\ chAgent' = [chAgent EXCEPT !.at = "said", !.reply = [msg |-> r, row |-> n]]
  /\ UNCHANGED <<ring, marks, chLine, chReply, chCame, chStarts, chSent>>

Remember ==
  /\ chAgent.at = "said"
  /\ RingAdd(chAgent.reply)
  /\ chAgent' = [chAgent EXCEPT !.at = "kept"]
  /\ UNCHANGED <<chRows, marks, chLine, chReply, chCame, chFaults, chStarts, chSent>>

(* deliverChat: all is sent, the anchor moves *)
SetAnchor ==
  /\ chAgent.at = "kept" /\ chAgent' = NoWork
  /\ chAnchor' = [start |-> Head(chAgent.window).msg, last |-> Last(chAgent.window).msg]
  /\ \/ chStored' = chAnchor' /\ UNCHANGED chFaults
     \/ chFaults < ChatFaults /\ chFaults' = chFaults + 1 /\ UNCHANGED chStored
  /\ chSent' = chAgent.window
  /\ UNCHANGED <<chRows, ring, chLine, chReply, chCame, chStarts>>

CommandReply(r) ==
  /\ chReply = NoEntry
  /\ \E n \in RowNumbers : SaveMessage(r, n) /\ chReply' = [msg |-> r, row |-> n]
  /\ UNCHANGED <<ring, marks, chLine, chAgent, chCame, chStarts, chSent>>

CommandKeeps ==
  /\ chReply # NoEntry /\ RingAdd(chReply) /\ chReply' = NoEntry
  /\ UNCHANGED <<chRows, marks, chLine, chAgent, chCame, chFaults, chStarts, chSent>>

(* restore: the ring and the anchor from the database, the rest is gone *)
RestoreChat(s) ==
  /\ chStarts < ChatFaults /\ chStarts' = chStarts + 1
  /\ chBuf' = [i \in 0..ChatCap - 1 |-> IF i + 1 \in DOMAIN s
                 THEN [msg |-> chRows[s[i + 1]], row |-> s[i + 1]]
                 ELSE NoEntry]
  /\ chSeen' = {chRows[s[i]] : i \in DOMAIN s}
  /\ chAt' = Len(s) % ChatCap /\ chFilled' = (Len(s) = ChatCap)
  /\ chAnchor' = chStored /\ chSent' = <<>>
  /\ chLine' = <<>> /\ chAgent' = NoWork /\ chReply' = NoEntry
  /\ UNCHANGED <<chRows, chStored, chCame, chFaults>>

ChatNext ==
  \/ \E m \in ChatMsgs : PrepareBatch(m)
  \/ AgentTakes \/ AgentLeaves \/ ReplyFails \/ Remember \/ SetAnchor \/ CommandKeeps
  \/ \E expired \in BOOLEAN : SelectWindow(expired)
  \/ \E r \in FreshReplies : SaySelf(r) \/ CommandReply(r)
  \/ \E s \in Recent(chRows) : RestoreChat(s)

ChatSpec == ChatInit /\ [][ChatNext]_chVars
-----------------------------------------------------------------------------
StoredEntry == [msg : Ids, row : Nat]

ChatTypeOK ==
  /\ Range(chRows) \subseteq Ids
  /\ chBuf \in [0..ChatCap - 1 -> StoredEntry \cup {NoEntry}] /\ chAt \in 0..ChatCap - 1
  /\ chFilled \in BOOLEAN /\ chSeen \subseteq Ids
  /\ {chAnchor, chStored} \subseteq [start : Ids, last : Ids] \cup {NoAnchor}
  /\ Range(chLine) \cup Range(chAgent.window) \cup Range(chSent) \subseteq StoredEntry
  /\ {chReply, chAgent.reply} \subseteq StoredEntry \cup {NoEntry}
  /\ chAgent.at \in {"idle", "added", "asked", "said", "kept"}
  /\ chFaults \in 0..ChatFaults

(* The ring is the last max_cache_msg messages in the order they were added,
   each once: the wrap, the eviction and the set of seen ids (RingAdd, GetAll,
   HasSeen) implement ChatWindow. *)
CachePromise == INSTANCE ChatWindow WITH Entry <- [msg : Ids, row : 0..Cardinality(Ids)],
                                    Cap <- ChatCap, window <- GetAll,
                                    starts <- chStarts
WindowIsTail == CachePromise!Spec

(* What the model is asked is what the chat says.  A number it is shown stands for one message:
   across a second push, a write that failed, a restart, and for what a line quotes (SaveMessage,
   BuildChatLog).  A request ends with the message it answers, fits the model unless a single
   message does not, and what it counts as already paid for is word for word the last request that
   was answered, whatever the command node wrote meanwhile (decideChatWindow, deliverChat) - unless
   the message that request answered is itself pushed again after the ring forgot it: then both
   ends of the old window can stand in the ring with something else between them. *)
RequestIsTrue ==
  /\ \A m \in Ids : Cardinality(RowOf(chRows, m)) <= 1
  /\ \A e \in Range(GetAll) \cup Range(chLine) \cup Range(chAgent.window) :
       e.row > 0 => chRows[e.row] = e.msg
  /\ \A i \in DOMAIN chAgent.window :
       LET n == ChatLog(chAgent.window)[i].reply IN
       n > 0 => chRows[n] = Quotes[chAgent.window[i].msg]
  /\ chAgent.at = "asked" =>
       LET w == chAgent.window
           k == FindMsgIndex(w, chAnchor.last) IN
       /\ w # <<>> /\ Last(w).msg = chAgent.trigger
       /\ MaxTokens > 0 /\ Len(w) > 1 => System + Tokens(w) <= MaxTokens
       /\ chAgent.mode = "reset" => Len(w) <= SendCount
       /\ chAgent.mode = "extend" /\ chSent # <<>> /\ k > 0 /\ chCame[Last(chSent).msg] = 1
            => SubSeq(w, 1, k) = chSent
=============================================================================

------------------------------ MODULE Mentions ------------------------------
(***************************************************************************)
(* Names in the texts of one group.  A text stored while the name of a      *)
(* person it mentions is not known holds a placeholder; when the name is    *)
(* learned, from a sender or by asking the platform, one worker per group   *)
(* rewrites the rows that wait (workspace/mention.go).  A text is the set   *)
(* of its placeholders.                                                     *)
(***************************************************************************)
EXTENDS Integers, FiniteSets

CONSTANTS
  Texts,          (* the messages, in the order of their rows: 1..N           *)
  People,
  Mentioned,      (* whom a message mentions                                  *)
  Author, Signed, (* who sent it; the ones whose event bears that name        *)
  Torn,           (* messages cut in the middle of a placeholder              *)
  MentionBatch, MentionRounds,
  MentionFaults   (* bound: database calls that fail; restarts                *)

ASSUME MentionAssumption ==
  /\ Texts \subseteq Nat /\ IsFiniteSet(Texts)
  /\ Signed \subseteq Texts /\ Torn \subseteq Texts
  /\ Mentioned \in [Texts -> SUBSET People] /\ Author \in [Texts -> People]
  /\ {MentionBatch, MentionRounds} \subseteq Nat \ {0} /\ MentionFaults \in Nat

VARIABLES
  mnRows,             (* text -> its row, or Unwritten                        *)
  mnKnown, mnStored,  (* people named in memory, in the members table         *)
  mnQueued, mnAgain,  (* mentionQueued, mentionAgain                          *)
  mnWork,             (* the worker: where it is, its round, rows and names   *)
  mnSync,             (* the sync node: where it is, its message, the text    *)
  mnAsked,            (* people the platform is being asked about             *)
  mnFaults, mnStarts  (* calls that failed, restarts                          *)

mnNames  == <<mnKnown, mnStored>>
mnSignal == <<mnQueued, mnAgain>>
mnVars   == <<mnRows, mnNames, mnSignal, mnWork, mnSync, mnAsked, mnFaults, mnStarts>>

Unwritten == [open |-> {}, torn |-> FALSE, todo |-> FALSE, there |-> FALSE]
NoBatch   == [at |-> "none", round |-> 0, rows |-> {}, names |-> {}]
NoSync    == [at |-> "idle", text |-> 0, open |-> {}]

MentionInit ==
  /\ mnRows = [m \in Texts |-> Unwritten] /\ mnKnown = {} /\ mnStored = {}
  /\ mnQueued = FALSE /\ mnAgain = FALSE /\ mnWork = NoBatch
  /\ mnSync = NoSync /\ mnAsked = {} /\ mnFaults = 0 /\ mnStarts = 0

DatabaseFails == mnFaults < MentionFaults /\ mnFaults' = mnFaults + 1

-----------------------------------------------------------------------------
(* scheduleMentionBackfill: one worker; a call that finds one leaves a note *)
Schedule ==
  IF mnQueued THEN mnAgain' = TRUE /\ UNCHANGED <<mnQueued, mnWork>>
  ELSE mnQueued' = TRUE /\ mnWork' = [NoBatch EXCEPT !.at = "start"] /\ UNCHANGED mnAgain

(* learn, fetchAsync: memory, the table, then the call *)
Learned(p) ==
  /\ mnKnown' = mnKnown \cup {p}
  /\ \/ mnStored' = mnStored \cup {p} /\ UNCHANGED mnFaults
     \/ DatabaseFails /\ UNCHANGED mnStored
  /\ Schedule

(* ResolveNames: memory first, the table for what is missing *)
ResolveNames == mnKnown \cup mnStored

-----------------------------------------------------------------------------
(* The sync node: PrepareBatch of one message *)

Look(m) ==
  /\ mnSync.at = "idle" /\ ~ mnRows[m].there
  /\ mnSync' = [at |-> "render", text |-> m, open |-> {}]
  /\ IF m \in Signed /\ Author[m] \notin mnKnown THEN Learned(Author[m])
     ELSE UNCHANGED <<mnNames, mnSignal, mnWork, mnFaults>>
  /\ UNCHANGED <<mnRows, mnAsked>>

(* who has no name is asked for, once *)
Render ==
  /\ mnSync.at = "render"
  /\ LET m == mnSync.text
         open == Mentioned[m] \ ResolveNames
     IN /\ mnSync' = [mnSync EXCEPT !.at = "save", !.open = open]
        /\ mnKnown' = mnKnown \cup (Mentioned[m] \cap mnStored)
        /\ mnAsked' = mnAsked \cup open
  /\ UNCHANGED <<mnRows, mnStored, mnSignal, mnWork, mnFaults>>

(* SaveMessage: a text that holds a placeholder waits *)
Save ==
  /\ mnSync.at = "save" /\ mnSync' = [mnSync EXCEPT !.at = "call"]
  /\ \/ /\ mnRows' = [mnRows EXCEPT ![mnSync.text] =
             [open |-> mnSync.open, torn |-> mnSync.text \in Torn /\ mnSync.open # {},
              todo |-> mnSync.open # {}, there |-> TRUE]]
        /\ UNCHANGED mnFaults
     \/ DatabaseFails /\ UNCHANGED mnRows
  /\ UNCHANGED <<mnNames, mnSignal, mnWork, mnAsked>>

(* mutant: the batch ends without the call *)
EndBatchSilent ==
  /\ mnSync.at = "call" /\ mnSync' = NoSync
  /\ UNCHANGED <<mnSignal, mnWork>>
  /\ UNCHANGED <<mnRows, mnNames, mnAsked, mnFaults>>

EndBatch ==
  /\ mnSync.at = "call" /\ mnSync' = NoSync
  /\ Schedule
  /\ UNCHANGED <<mnRows, mnNames, mnAsked, mnFaults>>

(* the platform answers, with a name or without *)
Answer(p) ==
  /\ p \in mnAsked /\ mnAsked' = mnAsked \ {p}
  /\ IF p \in mnKnown THEN UNCHANGED <<mnNames, mnSignal, mnWork, mnFaults>>
     ELSE Learned(p) \/ UNCHANGED <<mnNames, mnSignal, mnWork, mnFaults>>
  /\ UNCHANGED <<mnRows, mnSync>>

-----------------------------------------------------------------------------
(* The worker *)

Pending == {m \in Texts : mnRows[m].todo}
Oldest(S) == {m \in S : Cardinality({o \in S : o < m}) < MentionBatch}

Begin ==
  /\ mnWork.at = "start" /\ mnAgain' = FALSE
  /\ mnWork' = [mnWork EXCEPT !.at = "read", !.round = 0]
  /\ UNCHANGED <<mnRows, mnNames, mnQueued, mnSync, mnAsked, mnFaults>>

(* PendingMentionRows, then the names the batch needs *)
ReadBatch ==
  /\ mnWork.at = "read"
  /\ LET rows == Oldest(Pending) IN
     \/ /\ rows # {} /\ UNCHANGED mnFaults
        /\ mnWork' = [mnWork EXCEPT !.at = "rewrite", !.rows = rows, !.names = ResolveNames]
     \/ /\ (rows = {} /\ UNCHANGED mnFaults) \/ DatabaseFails
        /\ mnWork' = [mnWork EXCEPT !.at = "leave"]
  /\ UNCHANGED <<mnRows, mnNames, mnSignal, mnSync, mnAsked>>

(* ResolveMentions and RewriteMention of a row; a torn placeholder cannot be replaced *)
Rewritten(r, names) ==
  LET open == r.open \ names IN
  [r EXCEPT !.open = open,
            !.todo = IF r.torn THEN r.open # {} ELSE open # {}]

RewriteBatch ==
  /\ mnWork.at = "rewrite"
  /\ \E failed \in SUBSET mnWork.rows :
       /\ IF failed = {} THEN UNCHANGED mnFaults ELSE DatabaseFails
       /\ LET done == {m \in mnWork.rows \ failed : Rewritten(mnRows[m], mnWork.names) # mnRows[m]}
              onward == /\ done # {} /\ Cardinality(mnWork.rows) = MentionBatch
                        /\ mnWork.round + 1 < MentionRounds
          IN /\ mnRows' = [m \in Texts |-> IF m \in done THEN Rewritten(mnRows[m], mnWork.names)
                                           ELSE mnRows[m]]
             /\ mnWork' = [NoBatch EXCEPT !.at = IF onward THEN "read" ELSE "leave",
                                          !.round = mnWork.round + 1]
  /\ UNCHANGED <<mnNames, mnSignal, mnSync, mnAsked>>

(* mutant: the flag stays behind *)
LeaveFlagged ==
  /\ mnWork.at = "leave"
  /\ mnWork' = IF mnAgain THEN [NoBatch EXCEPT !.at = "start"] ELSE NoBatch
  /\ UNCHANGED <<mnRows, mnNames, mnSignal, mnSync, mnAsked, mnFaults>>

(* under the lock: once more if a call came, otherwise it is gone *)
Leave ==
  /\ mnWork.at = "leave"
  /\ IF mnAgain THEN mnWork' = [NoBatch EXCEPT !.at = "start"] /\ UNCHANGED mnQueued
     ELSE mnWork' = NoBatch /\ mnQueued' = FALSE
  /\ UNCHANGED <<mnRows, mnNames, mnAgain, mnSync, mnAsked, mnFaults>>

(* a restart: the table is what is left, and backfillAllMentions *)
RestartNames ==
  /\ mnStarts < MentionFaults /\ mnStarts' = mnStarts + 1
  /\ mnKnown' = mnStored /\ mnSync' = NoSync /\ mnAsked' = {}
  /\ mnQueued' = (Pending # {}) /\ mnAgain' = FALSE
  /\ mnWork' = IF Pending # {} THEN [NoBatch EXCEPT !.at = "start"] ELSE NoBatch
  /\ UNCHANGED <<mnRows, mnStored, mnFaults>>

-----------------------------------------------------------------------------
MentionWorker == Begin \/ ReadBatch \/ RewriteBatch \/ Leave
MentionSync   == (\E m \in Texts : Look(m)) \/ Render \/ Save \/ EndBatch
MentionStays  == MentionWorker \/ MentionSync \/ \E p \in People : Answer(p)
MentionNext   == (MentionStays /\ UNCHANGED mnStarts) \/ RestartNames

MentionFair ==
  /\ WF_mnVars(MentionWorker /\ UNCHANGED mnStarts)
  /\ WF_mnVars((Render \/ Save \/ EndBatch) /\ UNCHANGED mnStarts)
MentionSpec == MentionInit /\ [][MentionNext]_mnVars /\ MentionFair

-----------------------------------------------------------------------------
(* The variables stay in their sets, and a worker is there exactly when one is noted. *)
MentionTypeOK ==
  /\ mnKnown \subseteq People /\ mnStored \subseteq People /\ mnAsked \subseteq People
  /\ mnAgain \in BOOLEAN /\ mnQueued = (mnWork.at # "none")
  /\ \A m \in Texts : mnRows[m].open \subseteq Mentioned[m]
  /\ mnFaults \in 0..MentionFaults /\ mnStarts \in 0..MentionFaults

(* rows a batch can do nothing about *)
Stuck == {m \in Pending : mnRows[m].open # {} /\ mnRows[m].open \cap ResolveNames = {}}

(* A placeholder whose name is known is replaced in the end, whatever order the name, the
   row and the worker's last look come in.  Not when a whole batch of rows is stuck (see the
   README), and not when the database failed: then only the next call or start takes it up. *)
KnownAreNamed ==
  \/ Cardinality(Stuck) >= MentionBatch \/ mnFaults > 0
  \/ \A m \in Texts : mnRows[m].open \cap ResolveNames = {}
=============================================================================

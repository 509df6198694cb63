-------------------------------- MODULE Panel --------------------------------
(***************************************************************************)
(* The archive of the chats and the panel that shows it.  The rows of        *)
(* messages and members are written "update, else insert" by any number of  *)
(* goroutines; two triggers (state/schema.go) count the inserts in the       *)
(* chat's row of groups, whose name SaveGroupInfo (state/directory.go) and   *)
(* workspace.EnsureGroupFrom bring; ResetData (state/overview.go) empties    *)
(* the tables one by one.  The panel's answers (web/server/handlers.go,      *)
(* accounts.go) are put together from several reads.                        *)
(***************************************************************************)
EXTENDS Integers, FiniteSets

CONSTANTS
  PanelChats, Owner,    (* chats; the account each belongs to                *)
  PanelMessages, PanelPeople, Home,   (* rows of the two tables; their chat  *)
  PanelWriters,
  PageLimit,            (* panelMessageLimit                                 *)
  PanelResets           (* bound                                             *)

Rows     == PanelMessages \cup PanelPeople
Accounts == {Owner[c] : c \in PanelChats}
ASSUME PanelAssumption ==
  /\ PanelMessages \cap PanelPeople = {} /\ IsFiniteSet(Rows) /\ IsFiniteSet(PanelChats)
  /\ Home \in [Rows -> PanelChats] /\ DOMAIN Owner = PanelChats
  /\ PageLimit \in Nat \ {0} /\ PanelResets \in Nat

VARIABLES
  pnRows,                  (* messages and members: the rows                 *)
  pnGroups,                (* groups: chat -> its row                        *)
  pnNames,                 (* the name cache: chat -> name, "" if none       *)
  pnKnown,                 (* w.groups: chats seen by this process           *)
  pnJob,                   (* writer -> what it is about to do               *)
  pnReset, pnResets, pnTorn,   (* the reset under way; chats written meanwhile *)
  pnAnswer                 (* the request the panel is answering             *)

archive == <<pnRows, pnGroups, pnNames>>
resets  == <<pnReset, pnResets>>
pnVars  == <<archive, pnKnown, pnJob, resets, pnTorn, pnAnswer>>

NoRow   == [there |-> FALSE, name |-> "", messages |-> 0, people |-> 0]
Idle    == [at |-> "idle"]
RowsOf(c, table) == {r \in table : Home[r] = c}

PanelInit ==
  /\ pnRows = {} /\ pnGroups = [c \in PanelChats |-> NoRow] /\ pnNames = [c \in PanelChats |-> ""]
  /\ pnKnown = {} /\ pnJob = [w \in PanelWriters |-> Idle]
  /\ pnReset = Idle /\ pnResets = 0 /\ pnTorn = {} /\ pnAnswer = Idle

(* the next step of a writer; what it does while its account is emptied is not kept apart *)
PanelGoes(w, c, job) ==
  /\ pnJob' = [pnJob EXCEPT ![w] = job]
  /\ pnTorn' = IF pnReset.at # "idle" /\ pnReset.account = Owner[c] THEN pnTorn \cup {c} ELSE pnTorn
  /\ UNCHANGED <<resets, pnAnswer>>
At(w, at) == pnJob[w].at = at

-----------------------------------------------------------------------------
(* SaveMessage and SaveMemberInfo: the row was not there to be updated; INSERT, on conflict
   update, and only a true insert fires the trigger *)

RowMissing(w, r) ==
  /\ At(w, "idle") /\ r \notin pnRows /\ PanelGoes(w, Home[r], [at |-> "insert", row |-> r, chat |-> Home[r]])
  /\ UNCHANGED <<archive, pnKnown>>

Counted(row, r) ==
  [row EXCEPT !.there = TRUE, !.messages = @ + (IF r \in PanelMessages THEN 1 ELSE 0),
              !.people = @ + (IF r \in PanelPeople THEN 1 ELSE 0)]

(* mutant: the conflict replaces the row, and the trigger counts it again *)
InsertReplacing(w) ==
  /\ At(w, "insert") /\ pnRows' = pnRows \cup {pnJob[w].row}
  /\ pnGroups' = [pnGroups EXCEPT ![pnJob[w].chat] = Counted(@, pnJob[w].row)]
  /\ PanelGoes(w, pnJob[w].chat, Idle) /\ UNCHANGED <<pnNames, pnKnown>>

Insert(w) ==
  /\ At(w, "insert") /\ pnRows' = pnRows \cup {pnJob[w].row}
  /\ pnGroups' = IF pnJob[w].row \in pnRows THEN pnGroups
                 ELSE [pnGroups EXCEPT ![pnJob[w].chat] = Counted(@, pnJob[w].row)]
  /\ PanelGoes(w, pnJob[w].chat, Idle) /\ UNCHANGED <<pnNames, pnKnown>>

(* SaveGroupPersona: the chat's row was not there to be updated *)
PersonaMissing(w, c) ==
  /\ At(w, "idle") /\ ~ pnGroups[c].there /\ PanelGoes(w, c, [at |-> "persona", chat |-> c])
  /\ UNCHANGED <<archive, pnKnown>>

InsertPersona(w) ==
  /\ At(w, "persona") /\ pnGroups' = [pnGroups EXCEPT ![pnJob[w].chat].there = TRUE]
  /\ PanelGoes(w, pnJob[w].chat, Idle) /\ UNCHANGED <<pnRows, pnNames, pnKnown>>

-----------------------------------------------------------------------------
(* SaveGroupInfo: read the row, write what is new, keep the name in the cache *)

(* a row that is there and would stay as it is is not written *)
SaveChatName(w, c, name, next) ==
  LET row == pnGroups[c]
      now == IF name = "" THEN row.name ELSE name
  IN PanelGoes(w, c, IF row.there /\ now = row.name THEN [at |-> next, chat |-> c]
                ELSE [at |-> "group", chat |-> c, found |-> row.there, name |-> now, next |-> next])

WriteGroup(w) ==
  LET job == pnJob[w]
      row == pnGroups[job.chat]
      put == IF job.found THEN (IF row.there THEN [row EXCEPT !.name = job.name] ELSE row)
             ELSE [row EXCEPT !.there = TRUE, !.name = IF job.name = "" THEN @ ELSE job.name]
  IN /\ At(w, "group") /\ pnGroups' = [pnGroups EXCEPT ![job.chat] = put]
     /\ PanelGoes(w, job.chat, IF job.name = "" THEN [at |-> job.next, chat |-> job.chat]
                          ELSE [job EXCEPT !.at = "cache"])
     /\ UNCHANGED <<pnRows, pnNames, pnKnown>>

CacheName(w) ==
  LET job == pnJob[w] IN
  /\ At(w, "cache") /\ pnNames' = [pnNames EXCEPT ![job.chat] = job.name]
  /\ PanelGoes(w, job.chat, [at |-> job.next, chat |-> job.chat])
  /\ UNCHANGED <<pnRows, pnGroups, pnKnown>>

(* EnsureGroupFrom, once for a chat: a row without a name, and then lookupGroupName *)
EnsureGroup(w, c) ==
  /\ At(w, "idle") /\ c \notin pnKnown /\ pnKnown' = pnKnown \cup {c} /\ SaveChatName(w, c, "", "look")
  /\ UNCHANGED archive

(* GroupName: the cache, else the row, whose name is put into the cache; without one the
   platform is asked *)
LookGroupName(w) ==
  LET c == pnJob[w].chat
      name == pnGroups[c].name IN
  /\ At(w, "look")
  /\ PanelGoes(w, c, IF pnNames[c] # "" THEN [at |-> "idle"]
                ELSE IF name = "" THEN [at |-> "ask", chat |-> c]
                ELSE [at |-> "cache", chat |-> c, name |-> name, next |-> "idle"])
  /\ UNCHANGED <<archive, pnKnown>>

(* the page of a chat shows its name and leaves it in the cache just so; a panel request is one
   of the writers here *)
NameForPage(w, c) ==
  /\ At(w, "idle") /\ pnNames[c] = "" /\ pnGroups[c].name # ""
  /\ PanelGoes(w, c, [at |-> "cache", chat |-> c, name |-> pnGroups[c].name, next |-> "idle"])
  /\ UNCHANGED <<archive, pnKnown>>

(* an error, or the chat's number instead of a name, ends it *)
NameAnswered(w, name) ==
  /\ At(w, "ask")
  /\ IF name = "" THEN PanelGoes(w, pnJob[w].chat, Idle) ELSE SaveChatName(w, pnJob[w].chat, name, "idle")
  /\ UNCHANGED <<archive, pnKnown>>

(* handleDebugInject gives the chat the name it is told *)
InjectName(w, c) ==
  /\ At(w, "idle") /\ SaveChatName(w, c, "B", "idle") /\ UNCHANGED <<archive, pnKnown>>

-----------------------------------------------------------------------------
(* ResetData of an account: the names it will forget, messages, members, groups, the cache *)

PanelWriting(c) == \E w \in PanelWriters : pnJob[w].at # "idle" /\ pnJob[w].chat = c
Mine == {c \in PanelChats : Owner[c] = pnReset.account}
ResetGoes(at) == pnReset' = (IF at = "idle" THEN Idle ELSE [pnReset EXCEPT !.at = at])
                 /\ UNCHANGED <<pnKnown, pnJob, pnResets, pnTorn, pnAnswer>>

BeginReset(a) ==
  /\ pnReset.at = "idle" /\ pnResets < PanelResets /\ pnResets' = pnResets + 1
  /\ pnReset' = [at |-> "messages", account |-> a, names |-> {c \in PanelChats : Owner[c] = a /\ pnGroups[c].there}]
  /\ pnTorn' = {c \in PanelChats : PanelWriting(c) \/ (c \in pnTorn /\ ~ (Owner[c] = a /\ pnGroups[c].there))}
  /\ pnAnswer' = Idle /\ UNCHANGED <<archive, pnKnown, pnJob>>

ResetStep ==
  \/ /\ pnReset.at = "messages" /\ pnRows' = {r \in pnRows : ~ (r \in PanelMessages /\ Home[r] \in Mine)}
     /\ UNCHANGED <<pnGroups, pnNames>> /\ ResetGoes("members")
  \/ /\ pnReset.at = "members" /\ pnRows' = {r \in pnRows : ~ (r \in PanelPeople /\ Home[r] \in Mine)}
     /\ UNCHANGED <<pnGroups, pnNames>> /\ ResetGoes("groups")
  \/ /\ pnReset.at = "groups" /\ pnGroups' = [c \in PanelChats |-> IF c \in Mine THEN NoRow ELSE pnGroups[c]]
     /\ UNCHANGED <<pnRows, pnNames>> /\ ResetGoes("cache")
  \/ /\ pnReset.at = "cache"
     /\ pnNames' = [c \in PanelChats |-> IF c \in pnReset.names THEN "" ELSE pnNames[c]]
     /\ UNCHANGED <<pnRows, pnGroups>> /\ ResetGoes("idle")

-----------------------------------------------------------------------------
(* what collectAllWorkspaceDetails reads in one query: chat -> messages *)
Overviews == {c \in PanelChats : pnGroups[c].there}
Details   == [c \in Overviews |-> pnGroups[c].messages]
PanelAnswers(answer) == pnAnswer' = answer /\ UNCHANGED <<archive, pnKnown, pnJob, resets, pnTorn>>
Calm == pnReset.at = "idle"

(* handleAPIWorkspaces, handleAPIWorkspaceGroups: everything from one read *)
AskWorkspaces ==
  /\ Calm /\ PanelAnswers([at |-> "done", list |-> Details, total |-> Cardinality(DOMAIN Details)])

(* handleAPISessions, handleAPIGroups: the list first, the numbers of the status bar by a
   second read *)
AskSessions == Calm /\ PanelAnswers([at |-> "status", list |-> Details, total |-> 0])
ReadStatus ==
  /\ pnAnswer.at = "status" /\ PanelAnswers([pnAnswer EXCEPT !.at = "done", !.total = Cardinality(DOMAIN Details)])

(* writeMessages: how many there are, then the latest of them *)
AskMessages(c) ==
  LET n == Cardinality(RowsOf(c, pnRows \cap PanelMessages)) IN
  /\ Calm /\ PanelAnswers([at |-> IF n = 0 THEN "page" ELSE "rows", chat |-> c, total |-> n, shown |-> {}])
ReadMessages ==
  LET mine == RowsOf(pnAnswer.chat, pnRows \cap PanelMessages) IN
  /\ pnAnswer.at = "rows"
  /\ \E page \in SUBSET mine :
       /\ Cardinality(page) = (IF Cardinality(mine) < PageLimit THEN Cardinality(mine) ELSE PageLimit)
       /\ PanelAnswers([pnAnswer EXCEPT !.at = "page", !.shown = page])

-----------------------------------------------------------------------------
Write(w) ==
  \/ \E r \in Rows : RowMissing(w, r)
  \/ Insert(w) \/ InsertPersona(w) \/ WriteGroup(w) \/ CacheName(w) \/ LookGroupName(w)
  \/ \E c \in PanelChats : PersonaMissing(w, c) \/ EnsureGroup(w, c) \/ InjectName(w, c) \/ NameForPage(w, c)
  \/ \E name \in {"", "A"} : NameAnswered(w, name)

PanelNext ==
  \/ \E w \in PanelWriters : Write(w)
  \/ \E a \in Accounts : BeginReset(a)
  \/ ResetStep
  \/ AskWorkspaces \/ AskSessions \/ ReadStatus \/ ReadMessages
  \/ \E c \in PanelChats : AskMessages(c)

PanelSpec == PanelInit /\ [][PanelNext]_pnVars

-----------------------------------------------------------------------------
(* The variables stay in their sets. *)
PanelTypeOK ==
  /\ pnRows \subseteq Rows /\ pnKnown \subseteq PanelChats /\ pnTorn \subseteq PanelChats
  /\ \A c \in PanelChats : pnGroups[c].there \in BOOLEAN /\ pnNames[c] \in {"", "A", "B"}

(* The archive agrees with itself, whoever writes at the same time: the numbers kept in a chat's
   row are the rows there are, and a name in the cache is a chat with a name (only a chat written
   while its account is emptied may be left wrong, and stays so past the next emptying when a name
   in the cache has lost its row).  And an answer put together from several reads
   does not contradict itself: the status bar counts no fewer chats than are listed, and a page
   shows every message it counted, up to its limit. *)
PanelExact ==
  /\ \A c \in PanelChats \ pnTorn : pnReset.at = "idle" =>
       /\ pnGroups[c].messages = Cardinality(RowsOf(c, pnRows \cap PanelMessages))
       /\ pnGroups[c].people = Cardinality(RowsOf(c, pnRows \cap PanelPeople))
       /\ pnNames[c] # "" => pnGroups[c].name # ""
  /\ pnAnswer.at = "done" => Cardinality(DOMAIN pnAnswer.list) <= pnAnswer.total
  /\ pnAnswer.at = "page" =>
       Cardinality(pnAnswer.shown) >= (IF pnAnswer.total < PageLimit THEN pnAnswer.total ELSE PageLimit)
=============================================================================

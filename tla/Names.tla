------------------------------- MODULE Names -------------------------------
(***************************************************************************)
(* What the people of an account are called: the directory in memory, the   *)
(* members table behind it, and the bot's own name, which follows what a    *)
(* group calls it and is carried to the other groups (workspace.go).  The   *)
(* sync node learns from senders; two goroutines ask the platform, one for  *)
(* a member, one for the bot.  Memory is written under a lock, the table    *)
(* after it is released.                                                    *)
(***************************************************************************)
EXTENDS Integers, FiniteSets

CONSTANTS
  NameGroups, Members, Self,  (* Self \in Members: the bot's openid           *)
  NameOf, NoName,
  MemberInfos,     (* what the platform says of a member: [name, shown]           *)
  NameCalls,   (* bound: names learned or asked for between two starts        *)
  NameFaults   (* bound: writes that fail, and restarts                       *)

ASSUME NamesAssumption ==
  /\ Self \in Members /\ NoName \notin NameOf /\ {NameCalls, NameFaults} \subseteq Nat
  /\ "own" \notin NameGroups
  /\ MemberInfos \subseteq [name: NameOf \cup {NoName}, shown: NameOf \cup {NoName}]

VARIABLES
  nmMem,      (* directory.names: group -> member -> name                     *)
  nmRow,      (* members: group -> member -> [name, shown], shown the card    *)
  nmOwn, nmProfile,   (* Workspace.name; workspace_profile.name               *)
  nmId, nmIdRow,      (* is the bot's openid known: in memory, in the profile *)
  nmTask,     (* "sync", "ask", "check": where the task is and what it holds  *)
  nmCalls, nmFaults,
  nmRaced     (* ghost: rows two tasks wrote at once, a write failed for, or   *)
              (* that were named by an answer without a card                  *)

nmVars == <<nmMem, nmRow, nmOwn, nmProfile, nmId, nmIdRow, nmTask, nmCalls, nmFaults, nmRaced>>

Tasks == {"sync", "ask", "check"}
Own   == <<"own", Self>>
NoTask == [at |-> "idle", g |-> "own", p |-> Self, name |-> NoName, shown |-> NoName,
           old |-> NoName, left |-> {}]

Shown(r) == IF r.shown = NoName THEN r.name ELSE r.shown

NamesInit ==
  /\ nmMem = [g \in NameGroups |-> [p \in Members |-> NoName]]
  /\ nmRow = [g \in NameGroups |-> [p \in Members |-> [name |-> NoName, shown |-> NoName]]]
  /\ nmOwn = NoName /\ nmProfile = NoName /\ nmId = FALSE /\ nmIdRow = FALSE
  /\ nmTask = [t \in Tasks |-> NoTask] /\ nmCalls = 0 /\ nmFaults = 0 /\ nmRaced = {}

-----------------------------------------------------------------------------
(* Writes *)

Writing(t, g, p) == nmTask[t].at \in {"table", "row"} /\ nmTask[t].g = g /\ nmTask[t].p = p

(* between its memory and its table a write meets another of the same member; or the answer bore
   no card: memory takes the nickname, for which the table and a later rename have other rules *)
Overlap(t, g, p, shown) ==
  nmRaced' = IF shown = NoName \/ \E u \in Tasks \ {t} : Writing(u, g, p)
             THEN nmRaced \cup {<<g, p>>} ELSE nmRaced

Goes(t, r) == nmTask' = [nmTask EXCEPT ![t] = r]

(* SaveMemberInfo: what is empty keeps its value *)
Kept(new, old) == IF new = NoName THEN old ELSE new
SaveMemberInfo(r, name, shown) == [name |-> Kept(name, r.name), shown |-> Kept(shown, r.shown)]

(* mutant: the card goes with the account *)
RenamedCard(r, old, new) == SaveMemberInfo(r, new, new)

(* RenameSelfMember: a card that is not the old name stays *)
Renamed(r, old, new) ==
  SaveMemberInfo(r, new, IF r.shown \in {NoName, old} THEN new ELSE r.shown)

WriteRow(t, r) ==
  LET g == nmTask[t].g  p == nmTask[t].p IN
  \/ nmRow' = [nmRow EXCEPT ![g][p] = r] /\ UNCHANGED <<nmFaults, nmRaced>>
  \/ /\ nmFaults < NameFaults /\ nmFaults' = nmFaults + 1
     /\ nmRaced' = nmRaced \cup {<<g, p>>} /\ UNCHANGED nmRow

-----------------------------------------------------------------------------
(* learn and fetchAsync: the same rules for both *)

Count == nmCalls < NameCalls /\ nmCalls' = nmCalls + 1

(* memory: nothing to do when the name is the same *)
Enter(t, g, p, name, shown) ==
  LET n == IF shown = NoName THEN name ELSE shown IN
  IF n = NoName \/ nmMem[g][p] = n THEN Goes(t, NoTask) /\ UNCHANGED <<nmMem, nmRaced>>
  ELSE /\ nmMem' = [nmMem EXCEPT ![g][p] = n]
       /\ Overlap(t, g, p, shown)
       /\ Goes(t, [NoTask EXCEPT !.at = "table", !.g = g, !.p = p, !.name = name, !.shown = shown])

Learn(g, p, n) ==
  /\ nmTask["sync"].at = "idle" /\ nmMem[g][p] # n /\ Count
  /\ Enter("sync", g, p, n, n)
  /\ UNCHANGED <<nmRow, nmOwn, nmProfile, nmId, nmIdRow, nmFaults>>

(* name, fetchAsync: asked when memory has no name *)
Ask(g, p) ==
  /\ nmTask["ask"].at = "idle" /\ nmMem[g][p] = NoName /\ Count
  /\ Goes("ask", [NoTask EXCEPT !.at = "asked", !.g = g, !.p = p])
  /\ UNCHANGED <<nmMem, nmRow, nmOwn, nmProfile, nmId, nmIdRow, nmFaults, nmRaced>>

Answered ==
  /\ nmTask["ask"].at = "asked"
  /\ \E a \in MemberInfos \cup {[name |-> NoName, shown |-> NoName]} :
       Enter("ask", nmTask["ask"].g, nmTask["ask"].p, a.name, a.shown)
  /\ UNCHANGED <<nmRow, nmOwn, nmProfile, nmId, nmIdRow, nmCalls, nmFaults>>

Table(t) ==
  LET k == nmTask[t] IN
  /\ k.at = "table" /\ WriteRow(t, SaveMemberInfo(nmRow[k.g][k.p], k.name, k.shown))
  /\ Goes(t, [k EXCEPT !.at = "mirror"])
  /\ UNCHANGED <<nmMem, nmOwn, nmProfile, nmId, nmIdRow, nmCalls>>

(* mirrorSelfName *)
Mirror(t) ==
  LET k == nmTask[t]
      n == IF k.shown = NoName THEN k.name ELSE k.shown IN
  /\ k.at = "mirror"
  /\ IF nmId /\ k.p = Self /\ nmOwn # n
     THEN nmOwn' = n /\ Goes(t, [k EXCEPT !.at = "save", !.name = n, !.old = nmOwn])
     ELSE Goes(t, NoTask) /\ UNCHANGED nmOwn
  /\ UNCHANGED <<nmMem, nmRow, nmProfile, nmId, nmIdRow, nmCalls, nmFaults, nmRaced>>

-----------------------------------------------------------------------------
(* The bot's own name *)

(* groups of the directory: the ones with a name, and those a restart read *)
Listed == {g \in NameGroups : \E p \in Members : nmMem[g][p] # NoName}
RenameIn(S) == IF nmId THEN S ELSE {}

(* SyncSelfName: the members first, then the name *)
Check(n) ==
  /\ nmTask["check"].at = "idle" /\ Count
  /\ \E more \in SUBSET NameGroups :
       Goes("check", [NoTask EXCEPT !.at = "rename", !.name = n, !.old = nmOwn,
                                    !.left = RenameIn(Listed \cup more)])
  /\ UNCHANGED <<nmMem, nmRow, nmOwn, nmProfile, nmId, nmIdRow, nmFaults, nmRaced>>

(* rename of one group; "row" when the table has to follow *)
Rename(t, g) ==
  LET k == nmTask[t]  now == nmMem[g][Self] IN
  /\ k.at = "rename" /\ g \in k.left
  /\ IF now = k.name THEN Goes(t, [k EXCEPT !.left = @ \ {g}]) /\ UNCHANGED <<nmMem, nmRaced>>
     ELSE /\ nmMem' = [nmMem EXCEPT ![g][Self] = IF now \in {NoName, k.old} THEN k.name ELSE @]
          /\ Overlap(t, g, Self, k.name)
          /\ Goes(t, [k EXCEPT !.at = "row", !.g = g, !.p = Self])
  /\ UNCHANGED <<nmRow, nmOwn, nmProfile, nmId, nmIdRow, nmCalls, nmFaults>>

RenameRow(t) ==
  LET k == nmTask[t] IN
  /\ k.at = "row" /\ WriteRow(t, Renamed(nmRow[k.g][Self], k.old, k.name))
  /\ Goes(t, [k EXCEPT !.at = "rename", !.left = @ \ {k.g}])
  /\ UNCHANGED <<nmMem, nmOwn, nmProfile, nmId, nmIdRow, nmCalls>>

(* the check sets the name last; the others have set it first *)
RenamedAll(t) ==
  LET k == nmTask[t] IN
  /\ k.at = "rename" /\ k.left = {}
  /\ IF t = "check" /\ k.old # k.name
     THEN nmOwn' = k.name /\ Goes(t, [k EXCEPT !.at = "save"])
     ELSE Goes(t, NoTask) /\ UNCHANGED nmOwn
  /\ UNCHANGED <<nmMem, nmRow, nmProfile, nmId, nmIdRow, nmCalls, nmFaults, nmRaced>>

(* saveName; two at once may end with the older name in the profile *)
SaveName(t) ==
  LET k == nmTask[t] IN
  /\ k.at = "save"
  /\ \/ /\ nmProfile' = k.name /\ UNCHANGED nmFaults
        /\ nmRaced' = IF nmOwn = k.name THEN nmRaced \ {Own} ELSE nmRaced \cup {Own}
     \/ /\ nmFaults < NameFaults /\ nmFaults' = nmFaults + 1 /\ UNCHANGED nmProfile
        /\ nmRaced' = nmRaced \cup {Own}
  /\ \E more \in SUBSET NameGroups :
       Goes(t, IF t = "check" THEN NoTask
               ELSE [k EXCEPT !.at = "rename", !.left = RenameIn(Listed \cup more)])
  /\ UNCHANGED <<nmMem, nmRow, nmOwn, nmId, nmIdRow, nmCalls>>

LearnIdentity ==
  /\ ~ nmId /\ nmId' = TRUE /\ nmIdRow' = TRUE
  /\ UNCHANGED <<nmMem, nmRow, nmOwn, nmProfile, nmTask, nmCalls, nmFaults, nmRaced>>

(* a restart reads the tables: seed, setName, the openid *)
Reread ==
  /\ nmFaults < NameFaults /\ nmFaults' = nmFaults + 1
  /\ nmMem' = [g \in NameGroups |-> [p \in Members |-> Shown(nmRow[g][p])]]
  /\ nmOwn' = nmProfile /\ nmId' = nmIdRow
  /\ nmTask' = [t \in Tasks |-> NoTask] /\ nmCalls' = 0
  /\ nmRaced' = {q \in nmRaced \ {Own} : nmRow[q[1]][q[2]] \in [name: NameOf, shown: {NoName}]}
  /\ UNCHANGED <<nmRow, nmProfile, nmIdRow>>

-----------------------------------------------------------------------------
NamesNext ==
  \/ \E g \in NameGroups, p \in Members : Ask(g, p) \/ \E n \in NameOf : Learn(g, p, n)
  \/ \E n \in NameOf : Check(n)
  \/ \E t \in Tasks : Table(t) \/ Mirror(t) \/ RenameRow(t) \/ RenamedAll(t) \/ SaveName(t)
                      \/ \E g \in NameGroups : Rename(t, g)
  \/ Answered \/ LearnIdentity \/ Reread

NamesSpec == NamesInit /\ [][NamesNext]_nmVars

-----------------------------------------------------------------------------
(* The variables stay in their sets, and only the bot's own row is renamed. *)
NamesTypeOK ==
  /\ nmMem \in [NameGroups -> [Members -> NameOf \cup {NoName}]]
  /\ {nmOwn, nmProfile} \subseteq NameOf \cup {NoName}
  /\ \A t \in Tasks : nmTask[t].at \in {"save", "rename", "row"} => nmTask[t].p = Self
  /\ nmCalls \in 0..NameCalls /\ nmFaults \in 0..NameFaults

(* What the directory shows now is what it would show after a restart, for every member no two
   tasks wrote at once: the rule for a card in memory and the rule in the table are the same
   rule, through learning, asking, mirroring and renaming.  Not so after an answer of fetchAsync
   without a card: SaveMember keeps a card the row has where memory takes the nickname, and a
   rename takes the nickname in memory for a card. *)
NamesAgree ==
  /\ \A g \in NameGroups, p \in Members :
       <<g, p>> \in nmRaced \/ (\E t \in Tasks : Writing(t, g, p)) \/ nmMem[g][p] = Shown(nmRow[g][p])
  /\ Own \in nmRaced \/ (\E t \in Tasks : nmTask[t].at = "save") \/ nmOwn = nmProfile
=============================================================================

----------------------------- MODULE Workspaces -----------------------------
(***************************************************************************)
(* The accounts of the program and the prompts they share.  One prompt      *)
(* configuration is read from two files (config/prompt.go); each workspace  *)
(* derives a command table from it (speech/command.go) and opens when its   *)
(* first event comes (workspace.go).  The files change under an editor and  *)
(* under the management commands; a poller tells an observer, which reads   *)
(* them and rebuilds every table (config/store).                            *)
(***************************************************************************)
EXTENDS Integers, FiniteSets

CONSTANTS
  Accounts, Keywords, NoAccount,
  WsEdits,    (* bound: edits of the files, and commands                      *)
  WsStarts    (* bound: restarts; profiles that are not saved                 *)

ASSUME WorkspacesAssumption == NoAccount \notin Accounts /\ {WsEdits, WsStarts} \subseteq Nat

VARIABLES
  wsSystem, wsCustom,   (* the files: system keywords; custom ones, a rule    *)
  wsStamp,              (* their time of change: writes so far                *)
  wsData,               (* PromptConfig: what was read last                   *)
  wsPrint, wsSignal,    (* the poller: its last fingerprint; the channel      *)
  wsWatch,              (* the observer: where it is, tables left, its data   *)
  wsAllow,              (* allow_workspace_accounts, now                      *)
  wsList, wsRows,       (* workspaces in memory, profiles saved               *)
  wsOpening,            (* the account ResolveOrCreate holds the lock for     *)
  wsTable,              (* account -> the data its table was built from       *)
  wsCmd,                (* account -> the command it runs                     *)
  wsPersona, wsStored,  (* account -> the persona of its chat: memory, row    *)
  wsEdits, wsStarts,
  wsLate, wsMissed      (* ghosts: a table stored late; an edit before the poller *)

files   == <<wsSystem, wsCustom, wsStamp>>
watch   == <<wsPrint, wsSignal, wsWatch>>
manager == <<wsAllow, wsList, wsRows, wsOpening>>
persona == <<wsPersona, wsStored>>
bounds  == <<wsEdits, wsStarts>>
ghosts  == <<wsLate, wsMissed>>
wsVars  == <<files, wsData, watch, manager, wsTable, wsCmd, persona, bounds, ghosts>>

(* a file that does not parse counts as empty; Go's handlers refuse to write it *)
Custom == [keys: SUBSET Keywords, rule: BOOLEAN, bad: BOOLEAN]
Built(sys, cust) ==
  [sys |-> sys, keys |-> IF cust.bad THEN {} ELSE cust.keys, rule |-> cust.rule /\ ~ cust.bad]
InFiles == Built(wsSystem, wsCustom)

NoData  == [sys |-> {}, keys |-> {}, rule |-> FALSE]
NoWatch == [at |-> "off", left |-> {}, now |-> NoAccount, data |-> NoData]
NoCmd   == [at |-> "none", kind |-> "none", key |-> "none", data |-> NoData]

WorkspacesInit ==
  /\ wsSystem = {} /\ wsCustom = [keys |-> {}, rule |-> FALSE, bad |-> FALSE]
  /\ wsStamp = 0 /\ wsData = NoData /\ wsPrint = 0 /\ wsSignal = FALSE /\ wsWatch = NoWatch
  /\ wsAllow = Accounts /\ wsList = {} /\ wsRows = {} /\ wsOpening = NoAccount
  /\ wsTable = [a \in Accounts |-> NoData] /\ wsCmd = [a \in Accounts |-> NoCmd]
  /\ wsPersona = [a \in Accounts |-> "none"] /\ wsStored = [a \in Accounts |-> "none"]
  /\ wsEdits = 0 /\ wsStarts = 0
  /\ wsLate = [a \in Accounts |-> FALSE] /\ wsMissed = FALSE

Edit == wsEdits < WsEdits /\ wsEdits' = wsEdits + 1 /\ UNCHANGED wsStarts

-----------------------------------------------------------------------------
(* Files, poller, observer *)

(* an editor saves a file; before the first fingerprint nobody notices *)
EditFiles ==
  /\ Edit /\ wsStamp' = wsStamp + 1
  /\ \/ /\ \E k \in Keywords : wsSystem' \in {wsSystem \cup {k}, wsSystem \ {k}} \ {wsSystem}
        /\ UNCHANGED wsCustom
     \/ wsCustom' = [wsCustom EXCEPT !.bad = ~ @] /\ UNCHANGED wsSystem
  /\ wsMissed' = (wsMissed \/ wsWatch.at = "off")
  /\ UNCHANGED <<wsData, watch, manager, wsTable, wsCmd, persona, wsStarts, wsLate>>

StartPoller ==
  /\ wsWatch.at = "off" /\ wsPrint' = wsStamp /\ wsWatch' = [wsWatch EXCEPT !.at = "idle"]
  /\ UNCHANGED <<files, wsData, wsSignal, manager, wsTable, wsCmd, persona, bounds, ghosts>>

(* the channel holds one signal: one pending is as good as two *)
Poll ==
  /\ wsWatch.at # "off" /\ wsPrint # wsStamp /\ wsPrint' = wsStamp /\ wsSignal' = TRUE
  /\ UNCHANGED <<files, wsData, wsWatch, manager, wsTable, wsCmd, persona, bounds, ghosts>>

(* ReloadPrompts: read, list the workspaces, rebuild them one after the other *)
Notice ==
  /\ wsWatch.at = "idle" /\ wsSignal /\ wsSignal' = FALSE
  /\ wsWatch' = [wsWatch EXCEPT !.at = "list"] /\ wsData' = InFiles
  /\ UNCHANGED <<files, wsPrint, manager, wsTable, wsCmd, persona, bounds, ghosts>>

List ==
  /\ wsWatch.at = "list" /\ wsOpening = NoAccount
  /\ wsWatch' = [wsWatch EXCEPT !.at = "build", !.left = wsList]
  /\ UNCHANGED <<files, wsData, wsPrint, wsSignal, manager, wsTable, wsCmd, persona, bounds, ghosts>>

(* Rebuild takes the data and stores the table later, without a lock *)
Stored(a, data) ==
  /\ wsTable' = [wsTable EXCEPT ![a] = data]
  /\ wsLate' = [wsLate EXCEPT ![a] = (data # wsData)]

Take ==
  /\ wsWatch.at = "build"
  /\ \/ wsWatch.left = {} /\ wsWatch' = [NoWatch EXCEPT !.at = "idle"]
     \/ \E a \in wsWatch.left :
          wsWatch' = [at |-> "store", left |-> wsWatch.left \ {a}, now |-> a, data |-> wsData]
  /\ UNCHANGED <<files, wsData, wsPrint, wsSignal, manager, wsTable, wsCmd, persona, bounds, ghosts>>

Store(a) ==
  /\ wsWatch.at = "store" /\ wsWatch.now = a
  /\ Stored(a, wsWatch.data)
  /\ wsWatch' = [wsWatch EXCEPT !.at = "build"]
  /\ UNCHANGED <<files, wsData, wsPrint, wsSignal, manager, wsCmd, persona, bounds, wsMissed>>

-----------------------------------------------------------------------------
(* The manager *)

(* ResolveOrCreate: a workspace that is there is used whatever the list says, a new one is made
   if the list allows it; load, with NewRouter, runs under the lock *)
ResolveOrCreate(a) ==
  /\ wsOpening = NoAccount /\ a \in wsAllow \ wsList
  /\ wsOpening' = a /\ Stored(a, wsData)
  /\ UNCHANGED <<files, wsData, watch, wsAllow, wsList, wsRows, wsCmd, persona, bounds, wsMissed>>

(* a profile that cannot be saved is a warning *)
Opened ==
  /\ wsOpening # NoAccount /\ wsOpening' = NoAccount /\ wsList' = wsList \cup {wsOpening}
  /\ \/ wsRows' = wsRows \cup {wsOpening} /\ UNCHANGED wsStarts
     \/ wsStarts < WsStarts /\ wsStarts' = wsStarts + 1 /\ UNCHANGED wsRows
  /\ UNCHANGED <<files, wsData, watch, wsAllow, wsTable, wsCmd, persona, wsEdits, ghosts>>

AllowOther ==
  /\ Edit /\ \E a \in Accounts : wsAllow' = wsAllow \ {a}
  /\ UNCHANGED <<files, wsData, watch, wsList, wsRows, wsOpening, wsTable, wsCmd, persona, ghosts>>

(* restoreExisting: by the profiles, whatever the list; personas whose keyword is gone are deleted *)
Start ==
  /\ wsStarts < WsStarts /\ wsStarts' = wsStarts + 1
  /\ LET there(a) == wsStored[a] \in InFiles.keys \cup InFiles.sys IN
     /\ wsStored' = [a \in Accounts |-> IF a \in wsRows /\ there(a) THEN wsStored[a]
                                        ELSE IF a \in wsRows THEN "none" ELSE wsStored[a]]
     /\ wsPersona' = [a \in Accounts |-> IF a \in wsRows /\ there(a) THEN wsStored[a] ELSE "none"]
  /\ wsData' = InFiles /\ wsList' = wsRows /\ wsOpening' = NoAccount
  /\ wsTable' = [a \in Accounts |-> IF a \in wsRows THEN InFiles ELSE NoData]
  /\ wsWatch' = NoWatch /\ wsSignal' = FALSE /\ wsCmd' = [a \in Accounts |-> NoCmd]
  /\ wsLate' = [a \in Accounts |-> FALSE] /\ wsMissed' = FALSE
  /\ UNCHANGED <<files, wsPrint, wsAllow, wsRows, wsEdits>>

-----------------------------------------------------------------------------
(* Management commands *)

Moves(a, c) == wsCmd' = [wsCmd EXCEPT ![a] = c]
Goes2(a, at) == Moves(a, [wsCmd[a] EXCEPT !.at = at])

(* handleAddCommand, handleDeleteCommand, handleAddRule, handleDeleteRule up to the model's
   answer: system keywords are refused, by what was read last *)
Command(a, kind, k) ==
  /\ a \in wsList /\ wsCmd[a].at = "none" /\ Edit
  /\ kind \in {"add", "delete"} => k \notin wsData.sys
  /\ Moves(a, [NoCmd EXCEPT !.at = "write", !.kind = kind, !.key = k])
  /\ UNCHANGED <<files, wsData, watch, manager, wsTable, persona, wsStarts, ghosts>>

(* the text could not be generated *)
GiveUp(a) ==
  /\ wsCmd[a].at = "write" /\ wsCmd[a].kind \in {"add", "rule"} /\ Moves(a, NoCmd)
  /\ UNCHANGED <<files, wsData, watch, manager, wsTable, persona, bounds, ghosts>>

(* AddCommand, DeleteCommand, AddRule, DeleteRule: read, change and write the file under one lock *)
WriteCustom(a) ==
  LET c == wsCmd[a]
      refused == wsCustom.bad \/ (c.kind = "delete" /\ c.key \notin wsCustom.keys)
                              \/ (c.kind = "unrule" /\ ~ wsCustom.rule) IN
  /\ c.at = "write"
  /\ IF refused THEN Moves(a, NoCmd) /\ UNCHANGED <<wsCustom, wsStamp, wsMissed>>
     ELSE /\ wsStamp' = wsStamp + 1
          /\ wsCustom' = CASE c.kind = "add"    -> [wsCustom EXCEPT !.keys = @ \cup {c.key}]
                           [] c.kind = "delete" -> [wsCustom EXCEPT !.keys = @ \ {c.key}]
                           [] OTHER             -> [wsCustom EXCEPT !.rule = (c.kind = "rule")]
          /\ wsMissed' = (wsMissed \/ wsWatch.at = "off") /\ Goes2(a, "reload")
  /\ UNCHANGED <<wsSystem, wsData, watch, manager, wsTable, persona, bounds, wsLate>>

(* Reload; a rule is left to the observer *)
ReloadNow(a) ==
  /\ wsCmd[a].at = "reload" /\ wsData' = InFiles
  /\ IF wsCmd[a].kind \in {"rule", "unrule"} THEN Moves(a, NoCmd) ELSE Goes2(a, "take")
  /\ UNCHANGED <<files, watch, manager, wsTable, persona, bounds, ghosts>>

TakeNow(a) ==
  /\ wsCmd[a].at = "take" /\ Moves(a, [wsCmd[a] EXCEPT !.at = "store", !.data = wsData])
  /\ UNCHANGED <<files, wsData, watch, manager, wsTable, persona, bounds, ghosts>>

StoreNow(a) ==
  /\ wsCmd[a].at = "store" /\ Stored(a, wsCmd[a].data) /\ Moves(a, NoCmd)
  /\ UNCHANGED <<files, wsData, watch, manager, persona, bounds, wsMissed>>

(* handleSwitchPersona, handleCancelPersona, #start with a name: by the table *)
SwitchPersona(a, k) ==
  /\ a \in wsList /\ wsCmd[a].at = "none" /\ Edit
  /\ k \in wsTable[a].keys \cup wsTable[a].sys \cup {"none"} /\ k # wsPersona[a]
  /\ wsPersona' = [wsPersona EXCEPT ![a] = k] /\ wsStored' = [wsStored EXCEPT ![a] = k]
  /\ UNCHANGED <<files, wsData, watch, manager, wsTable, wsCmd, wsStarts, ghosts>>

-----------------------------------------------------------------------------
WsWatch == StartPoller \/ Poll \/ Notice \/ List \/ Take \/ \E a \in Accounts : Store(a)
WsFlow(a) == WriteCustom(a) \/ ReloadNow(a) \/ TakeNow(a) \/ StoreNow(a)

WorkspacesNext ==
  \/ WsWatch \/ EditFiles \/ AllowOther \/ Start \/ Opened
  \/ \E a \in Accounts :
       \/ WsFlow(a) \/ GiveUp(a) \/ ResolveOrCreate(a)
       \/ \E k \in Keywords \cup {"none"} : SwitchPersona(a, k)
       \/ \E k \in Keywords, kind \in {"add", "delete", "rule", "unrule"} : Command(a, kind, k)

WorkspacesFair ==
  /\ WF_wsVars(StartPoller) /\ WF_wsVars(Poll) /\ WF_wsVars(Notice) /\ WF_wsVars(List)
  /\ WF_wsVars(Take) /\ WF_wsVars(\E a \in Accounts : Store(a)) /\ WF_wsVars(Opened)
  /\ \A a \in Accounts : WF_wsVars(WsFlow(a))
WorkspacesSpec == WorkspacesInit /\ [][WorkspacesNext]_wsVars /\ WorkspacesFair

-----------------------------------------------------------------------------
(* The variables stay in their sets, and a workspace that runs a command is open. *)
WorkspacesTypeOK ==
  /\ wsCustom \in Custom /\ wsList \cup wsRows \subseteq Accounts
  /\ \A a \in Accounts : wsCmd[a].at # "none" => a \in wsList
  /\ wsEdits \in 0..WsEdits /\ wsStarts \in 0..WsStarts

(* Once the files rest every table is built from them, the tables of workspaces other than the
   one the command came from and of those that were just opening included; except when a
   rebuild stored older data last, or the file changed before the first fingerprint. *)
TablesCurrent ==
  \A a \in wsList : wsMissed \/ wsLate[a] \/ wsTable[a] = InFiles

(* What the comment of Rebuild says of two calls at once: their input is the same. *)
RebuildsAgree ==
  \A a \in Accounts :
    wsWatch.at = "store" /\ wsWatch.now = a /\ wsCmd[a].at = "store" => wsWatch.data = wsCmd[a].data
=============================================================================

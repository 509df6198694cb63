------------------------------ MODULE Commands ------------------------------
(***************************************************************************)
(* The management commands of one chat on their way through two domains:    *)
(* the command domain matches a message, matches it again and runs it       *)
(* (bot/domains.go, speech/command_run.go); the agent domain answers what   *)
(* is passed on, and may come upon a command itself (speech/dispatch.go).   *)
(* Between two steps the table of keywords and the nicknames can change.    *)
(* The switch of the chat (#start, #stop) is kept in memory and in the      *)
(* settings table (speech/agent_gate.go, state/gate.go).                    *)
(***************************************************************************)
EXTENDS Integers, FiniteSets

CONSTANTS
  Arrivals,     (* messages of the chat, in order: a sequence of records
                  [kind, name, admin, nick]: the command, the persona it asks
                  for, whether the sender may use commands, and whether only
                  the nickname says that it is meant for the bot             *)
  Personas, NoPersona,
  TableChanges, (* bound: changes of the table, the nicknames, the default   *)
  CommandFaults (* bound: saves that fail, restarts                          *)

CommandKinds == {"start", "stop", "switch", "cancel", "help"}
Nums == DOMAIN Arrivals

ASSUME CommandsAssumption ==
  /\ {TableChanges, CommandFaults} \subseteq Nat /\ NoPersona \notin Personas
  /\ \A m \in Nums : Arrivals[m] \in
       [kind: CommandKinds \cup {"plain"}, name: Personas \cup {NoPersona}, admin: BOOLEAN, nick: BOOLEAN]

VARIABLES
  cmNames, cmLonger,   (* the table: personas; messages a longer keyword takes *)
  cmUnique,            (* the nickname belongs to this account alone          *)
  cmDefault,           (* bot.agent_default_enabled, now                      *)
  cmAt,                (* message -> where it is                              *)
  cmOn,                (* message -> the first match says it goes on          *)
  cmRan,               (* Synced.CommandRan                                   *)
  cmGate, cmRow,       (* the switch: in memory, in the settings              *)
  cmPersona,           (* the persona of the chat                             *)
  cmRuns, cmReplies,   (* message -> handlers run; what it was answered with  *)
  cmChanges, cmFaults,
  cmCut,               (* ghost: the last switch overlapped another one, or its
                          save failed                                         *)
  cmSwapped            (* ghost: messages whose persona came or went between the
                          two matches of the command domain                   *)

cmTable == <<cmNames, cmLonger, cmUnique, cmDefault>>
cmState == <<cmGate, cmRow, cmPersona>>
cmDone  == <<cmRuns, cmReplies>>
cmSeen  == <<cmCut, cmSwapped>>
cmVars  == <<cmTable, cmAt, cmOn, cmRan, cmState, cmDone, cmChanges, cmFaults, cmSeen>>

CommandsInit ==
  /\ cmNames \in SUBSET Personas /\ cmLonger = {} /\ cmUnique = TRUE /\ cmDefault \in BOOLEAN
  /\ cmAt = [m \in Nums |-> "queue"] /\ cmOn = [m \in Nums |-> FALSE]
  /\ cmRan = [m \in Nums |-> FALSE]
  /\ cmGate = "unset" /\ cmRow = "unset" /\ cmPersona = NoPersona
  /\ cmRuns = [m \in Nums |-> 0] /\ cmReplies = [m \in Nums |-> {}]
  /\ cmChanges = 0 /\ cmFaults = 0 /\ cmCut = FALSE /\ cmSwapped = {}

Moved(m, at)    == cmAt' = [cmAt EXCEPT ![m] = at]
CommandFault    == cmFaults < CommandFaults /\ cmFaults' = cmFaults + 1
AnswersWith(m, what) == cmReplies' = [cmReplies EXCEPT ![m] = @ \cup {what}]

-----------------------------------------------------------------------------
(* Matching *)

Addressed(m) == ~ Arrivals[m].nick \/ cmUnique

(* matchInternal: the longest keyword wins, and a user's keyword is no command *)
Matches(m)   == Arrivals[m].kind \in CommandKinds /\ m \notin cmLonger

(* MatchInternalCommand: #start goes on; #switch only if there is such a persona *)
Continues(m) ==
  \/ Arrivals[m].kind = "start"
  \/ Arrivals[m].kind = "switch" /\ Arrivals[m].name \in cmNames

(* canUseInternalCommand *)
Allowed(m) == Arrivals[m].kind = "help" \/ Arrivals[m].admin

(* AgentEnabled: the default counts while nothing was said *)
AgentEnabled == IF cmGate = "unset" THEN cmDefault ELSE cmGate = "on"

(* handleAgentStart, handleAgentStop: memory now, the row later *)
Switched(m) ==
  CASE Arrivals[m].kind = "start" -> cmGate' = "on"
    [] Arrivals[m].kind = "stop"  -> cmGate' = "off"
    [] OTHER                  -> UNCHANGED cmGate

(* handleAgentStart, handleSwitchPersona, handleCancelPersona: a name nobody has changes nothing *)
PersonaSet(m) ==
  CASE Arrivals[m].kind \in {"start", "switch"} /\ Arrivals[m].name \in cmNames -> cmPersona' = Arrivals[m].name
    [] Arrivals[m].kind = "cancel" -> cmPersona' = NoPersona
    [] OTHER                       -> UNCHANGED cmPersona

(* and is answered so; #start asks for no name, #switch without one lists them *)
NotFound(m) ==
  /\ Arrivals[m].name \notin cmNames
  /\ Arrivals[m].kind = "switch" \/ (Arrivals[m].kind = "start" /\ Arrivals[m].name # NoPersona)

Saving == {m \in Nums : cmAt[m] \in {"saving", "agentsaving"}}

(* RunInternalCommand for a message that still matches: refused or run *)
RunInternalCommand(m, saving, after) ==
  IF Allowed(m)
  THEN /\ Switched(m) /\ PersonaSet(m) /\ AnswersWith(m, IF NotFound(m) THEN "notfound" ELSE "done")
       /\ cmRuns' = [cmRuns EXCEPT ![m] = @ + 1]
       /\ IF Arrivals[m].kind \in {"start", "stop"}
          THEN Moved(m, saving) /\ cmCut' = (Saving # {})
          ELSE Moved(m, after) /\ UNCHANGED cmCut
  ELSE Moved(m, after) /\ AnswersWith(m, "refused") /\ UNCHANGED <<cmGate, cmPersona, cmRuns, cmCut>>

-----------------------------------------------------------------------------
(* The command domain: one message of the chat at a time, in order *)

InCommand == {"matched", "saving"}
Heads(m)  == \A n \in Nums : n < m => cmAt[n] \notin {"queue"} \cup InCommand

(* handleCommand, first match; what is no command is passed on *)
CommandMatch(m) ==
  /\ cmAt[m] = "queue" /\ Heads(m)
  /\ IF Addressed(m) /\ Matches(m)
     THEN Moved(m, "matched") /\ cmOn' = [cmOn EXCEPT ![m] = Continues(m)]
     ELSE Moved(m, "agent") /\ UNCHANGED cmOn
  /\ UNCHANGED <<cmTable, cmRan, cmState, cmDone, cmChanges, cmFaults, cmSeen>>

(* mutant: nothing is noted for the agent domain *)
PassUnmarked(m) == UNCHANGED cmRan

(* a command that goes on is marked, so that it is not run again *)
Pass(m) == cmRan' = [cmRan EXCEPT ![m] = cmOn[m]]

(* second match, and run; one that no longer matches is passed on unmarked *)
CommandRun(m) ==
  /\ cmAt[m] = "matched"
  /\ IF Addressed(m) /\ Matches(m)
     THEN RunInternalCommand(m, "saving", IF cmOn[m] THEN "agent" ELSE "done") /\ Pass(m)
     ELSE Moved(m, "agent") /\ UNCHANGED <<cmGate, cmPersona, cmDone, cmRan, cmCut>>
  /\ UNCHANGED <<cmTable, cmOn, cmRow, cmChanges, cmFaults, cmSwapped>>

(* SaveGroupGate: a failure is a warning *)
SaveGate(m) ==
  /\ cmAt[m] \in {"saving", "agentsaving"}
  /\ \/ cmRow' = (IF Arrivals[m].kind = "start" THEN "on" ELSE "off") /\ UNCHANGED <<cmFaults, cmSeen>>
     \/ CommandFault /\ cmCut' = TRUE /\ UNCHANGED cmRow
  /\ Moved(m, IF cmAt[m] = "saving" /\ cmOn[m] THEN "agent" ELSE "done")
  /\ UNCHANGED <<cmTable, cmOn, cmRan, cmGate, cmPersona, cmDone, cmChanges, cmSwapped>>

-----------------------------------------------------------------------------
(* The agent domain *)

InAgent  == {"routing", "answering", "agentsaving"}
Turn(m)  == \A n \in Nums : n < m => cmAt[n] = "done"

(* handleAgent: a closed chat is silent; what ran is answered without a match *)
AgentTurn(m) ==
  /\ cmAt[m] = "agent" /\ Turn(m)
  /\ Moved(m, IF ~ AgentEnabled THEN "done"
              ELSE IF cmRan[m] THEN "answering"
              ELSE IF Addressed(m) THEN "routing" ELSE "done")
  /\ UNCHANGED <<cmTable, cmOn, cmRan, cmState, cmDone, cmChanges, cmFaults, cmSeen>>

(* RouteMessageNow: a command that matches now is run here; RunInternalCommand trusts the
   nickname.  A message without an answer of its own is left to the model *)
RouteMessage(m) ==
  /\ cmAt[m] = "routing"
  /\ IF Matches(m)
     THEN RunInternalCommand(m, "agentsaving", "done")
     ELSE Moved(m, "answering") /\ UNCHANGED <<cmGate, cmPersona, cmDone, cmCut>>
  /\ UNCHANGED <<cmTable, cmOn, cmRan, cmRow, cmChanges, cmFaults, cmSwapped>>

(* Generate and deliverChat, or a model that fails *)
AgentAnswer(m) ==
  /\ cmAt[m] = "answering" /\ Moved(m, "done")
  /\ AnswersWith(m, "answer") \/ UNCHANGED cmReplies
  /\ UNCHANGED <<cmTable, cmOn, cmRan, cmState, cmRuns, cmChanges, cmFaults, cmSeen>>

-----------------------------------------------------------------------------
(* What changes meanwhile *)

TableChange == cmChanges < TableChanges /\ cmChanges' = cmChanges + 1

Retable ==
  /\ TableChange
  /\ \/ \E p \in Personas :
          /\ cmNames' \in {cmNames \cup {p}, cmNames \ {p}} \ {cmNames}
          /\ cmSwapped' = cmSwapped \cup {m \in Nums : cmAt[m] = "matched" /\ Arrivals[m].name = p}
        /\ UNCHANGED <<cmLonger, cmUnique, cmDefault>>
     \/ \E m \in Nums : Arrivals[m].kind # "plain" /\ cmLonger' \in {cmLonger \cup {m}, cmLonger \ {m}} \ {cmLonger}
        /\ UNCHANGED <<cmNames, cmUnique, cmDefault, cmSwapped>>
     \/ cmUnique' = ~ cmUnique /\ UNCHANGED <<cmNames, cmLonger, cmDefault, cmSwapped>>
     \/ cmDefault' = ~ cmDefault /\ UNCHANGED <<cmNames, cmLonger, cmUnique, cmSwapped>>
  /\ UNCHANGED <<cmAt, cmOn, cmRan, cmState, cmDone, cmFaults, cmCut>>

(* the queues are lost; RestoreAgentGates reads the rows and writes nothing *)
CommandsRestart ==
  /\ CommandFault /\ cmGate' = cmRow /\ cmCut' = FALSE
  /\ cmAt' = [m \in Nums |-> IF cmAt[m] = "queue" THEN "queue" ELSE "done"]
  /\ UNCHANGED <<cmTable, cmOn, cmRan, cmRow, cmPersona, cmDone, cmChanges, cmSwapped>>

-----------------------------------------------------------------------------
CommandsNext ==
  \/ Retable \/ CommandsRestart
  \/ \E m \in Nums : \/ CommandMatch(m) \/ CommandRun(m) \/ SaveGate(m)
                     \/ AgentTurn(m) \/ RouteMessage(m) \/ AgentAnswer(m)
CommandsSpec == CommandsInit /\ [][CommandsNext]_cmVars

-----------------------------------------------------------------------------
(* The variables stay in their sets. *)
CommandsTypeOK ==
  /\ \A m \in Nums : cmAt[m] \in {"queue", "agent", "done"} \cup InCommand \cup InAgent
  /\ cmGate \in {"unset", "on", "off"} /\ cmRow \in {"unset", "on", "off"}
  /\ cmPersona \in Personas \cup {NoPersona}
  /\ \A m \in Nums : cmReplies[m] \subseteq {"done", "notfound", "refused", "answer"}
  /\ cmChanges \in 0..TableChanges /\ cmFaults \in 0..CommandFaults /\ cmSwapped \subseteq Nums

(* However the table and the nicknames change between the two matches of the command domain and
   the one of the agent domain, a command runs once, and what a command has answered the model
   does not answer too: except #start, which goes on whatever came of it, and a #switch that was
   carried out, refused, or whose persona came or went between the two matches.  And when a switch
   of the chat that overlapped no other is through and saved, the row says what the memory says. *)
CommandsTakeEffectOnce ==
  /\ \A m \in Nums :
       /\ cmRuns[m] <= 1
       /\ "answer" \in cmReplies[m] /\ cmReplies[m] # {"answer"} =>
            \/ Arrivals[m].kind = "start"
            \/ Arrivals[m].kind = "switch" /\ ("notfound" \notin cmReplies[m] \/ m \in cmSwapped)
  /\ Saving = {} /\ ~ cmCut => cmRow = cmGate

(* What internal_cmd.go 55 says of #switch: only one that has switched goes on to be answered. *)
AnsweredIfSwitched ==
  \A m \in Nums : Arrivals[m].kind = "switch" /\ "answer" \in cmReplies[m] =>
    cmReplies[m] \cap {"notfound", "refused"} = {}
=============================================================================

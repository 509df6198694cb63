----------------------------- MODULE MCRequests -----------------------------
(***************************************************************************)
(* What a chat's messages and the panel's requests go through: history and  *)
(* window, names, the rows the panel reads, commands, tool rounds, the      *)
(* guard of the model, and the flow of its items through the four nodes.    *)
(* Small instances: each behaviour is one of one component, the others rest *)
(* where they start.                                                        *)
(***************************************************************************)
EXTENDS ChatStore, Names, Panel, LlmGuard, ToolLoop, Commands, Orchestrator, TLC

CONSTANTS m1, m2, m3, c1, c2, i1, i2, i3

MCWeight == [x \in Ids |-> IF x = m2 THEN 3 ELSE 1]
MCQuotes == [x \in Ids |-> IF x = m3 THEN m1 ELSE NoMsg]
MCSentAt == [x \in Ids |-> IF x = m3 THEN 2 ELSE 1]

MCMemberInfos == [name: {"A"}, shown: {"A", "B", NoName}]

MCOwner == [c \in PanelChats |-> "a1"]
MCHome  == [r \in PanelMessages \cup PanelPeople |-> "c1"]

MCGiven == <<"pic1", "pic1", "pic2">>

Said(k, n, a, ni) == [kind |-> k, name |-> n, admin |-> a, nick |-> ni]
MCArrivals == <<Said("start", "p", TRUE, FALSE), Said("switch", "p", TRUE, TRUE),
                Said("stop", NoPersona, TRUE, FALSE), Said("switch", "p", FALSE, FALSE)>>

(* two chats that share the one goroutine of every pool *)
MCChats       == {c1, c2}
MCItems       == {i1, i2, i3}
MCChatOf      == [i \in MCItems |-> IF i = i3 THEN c2 ELSE c1]
MCConcurrency == [n \in Nodes |-> 1]

(* the two items of one chat are alike *)
Alike == Permutations({i1, i2})

VARIABLE part

requestsVars == <<part, chVars, nmVars, pnVars, lgVars, tlVars, cmVars, flowVars>>

RequestsInit ==
  /\ part \in {"chat", "names", "panel", "llm", "tools", "commands", "flow"}
  /\ ChatInit /\ NamesInit /\ PanelInit /\ LlmInit /\ ToolInit /\ CommandsInit
  /\ FlowInit
  /\ part # "commands" => cmNames = {} /\ cmDefault

RequestsNext ==
  /\ UNCHANGED part
  /\ \/ part = "chat"     /\ ChatNext     /\ UNCHANGED <<nmVars, pnVars, lgVars, tlVars, cmVars, flowVars>>
     \/ part = "names"    /\ NamesNext    /\ UNCHANGED <<chVars, pnVars, lgVars, tlVars, cmVars, flowVars>>
     \/ part = "panel"    /\ PanelNext    /\ UNCHANGED <<chVars, nmVars, lgVars, tlVars, cmVars, flowVars>>
     \/ part = "llm"      /\ LlmNext      /\ UNCHANGED <<chVars, nmVars, pnVars, tlVars, cmVars, flowVars>>
     \/ part = "tools"    /\ ToolNext     /\ UNCHANGED <<chVars, nmVars, pnVars, lgVars, cmVars, flowVars>>
     \/ part = "commands" /\ CommandsNext /\ UNCHANGED <<chVars, nmVars, pnVars, lgVars, tlVars, flowVars>>
     \/ part = "flow"     /\ FlowNext     /\ UNCHANGED <<chVars, nmVars, pnVars, lgVars, tlVars, cmVars>>

RequestsSpec == RequestsInit /\ [][RequestsNext]_requestsVars

(* Every variable of the six components of a request stays in its set. *)
RequestsTypeOK ==
  ChatTypeOK /\ NamesTypeOK /\ PanelTypeOK /\ LlmTypeOK /\ ToolTypeOK /\ CommandsTypeOK
=============================================================================

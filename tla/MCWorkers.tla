------------------------------ MODULE MCWorkers ------------------------------
(***************************************************************************)
(* The components that work in the background, on small instances: each     *)
(* behaviour is one of one component, the others rest where they start.     *)
(***************************************************************************)
EXTENDS TagJobs, Mentions, Workspaces, McpSessions, ConfigFiles

CONSTANTS p1, p2

MCPicOf == <<p1, p2>>

MCMentioned == [m \in Texts |-> CASE m = 1 -> {1} [] m = 2 -> {1, 2} [] OTHER -> {2}]
MCAuthor    == [m \in Texts |-> IF m = 3 THEN 1 ELSE 2]

(* two raw names that are the same name to a model *)
MCClean  == [i \in {1, 2} |-> "t"]
MCOffers == <<{1, 2}, {2}>>

MCPlain == [parses |-> TRUE,
  im |-> [base |-> TRUE, accounts |-> <<>>],
  bot |-> [allow |-> <<"a">>, record |-> <<>>, agent |-> Unset, cooldown |-> Unset],
  runtime |-> [send |-> 0, cache |-> 0, timeout |-> 60, delay |-> 0, interval |-> Unset, web |-> 0, user |-> ""],
  llm |-> [known |-> TRUE, tokens |-> 0, rate |-> 0, breaker |-> 0, sentences |-> Unset],
  mcp |-> [on |-> TRUE, servers |-> <<>>, rounds |-> 0, retry |-> 0, breaker |-> 0],
  pipeline |-> [batch |-> Unset, linger |-> Unset],
  assets |-> [batch |-> Unset, lease |-> Unset, keep |-> Unset]]
Server(n, ok) == [name |-> n, complete |-> ok]
TwoIds == [base |-> FALSE, accounts |-> <<[id |-> "a", base |-> TRUE], [id |-> "a", base |-> TRUE]>>]

MCDocs == {MCPlain,
  [MCPlain EXCEPT !.parses = FALSE],
  [MCPlain EXCEPT !.runtime.web = 80, !.runtime.user = "u"],
  [MCPlain EXCEPT !.runtime.send = -1, !.runtime.cache = 3, !.pipeline.linger = 0, !.assets.lease = 1],
  [MCPlain EXCEPT !.pipeline.batch = 0],
  [MCPlain EXCEPT !.assets.lease = 0],
  [MCPlain EXCEPT !.runtime.timeout = 0],
  [MCPlain EXCEPT !.mcp.servers = <<Server("s", FALSE), Server("s", TRUE), Server("s", TRUE), Server("", TRUE)>>,
                  !.llm.breaker = -1],
  [MCPlain EXCEPT !.bot.record = <<"*">>],
  [MCPlain EXCEPT !.im = TwoIds]}
MCSecrets == {[parses |-> TRUE, password |-> ""], [parses |-> TRUE, password |-> "p"], [parses |-> FALSE]}
MCSettings ==
  {[NoSetting EXCEPT !.pipeline = [batch |-> 0, linger |-> 0], !.assets = [batch |-> 5, lease |-> 0, keep |-> 0]],
   [NoSetting EXCEPT !.parses = FALSE]}

VARIABLE part

workersVars == <<part, tjVars, mnVars, wsVars, mcVars, cfVars>>

WorkersInit ==
  /\ part \in {"tags", "mentions", "workspaces", "mcp", "config"}
  /\ TagInit /\ MentionInit /\ WorkspacesInit /\ McpInit /\ ConfigInit
  /\ part # "config" => cfConfig = MCPlain /\ cfSecret.parses /\ cfSecret.password = ""

WorkersNext ==
  /\ UNCHANGED part
  /\ \/ part = "tags"       /\ TagNext        /\ UNCHANGED <<mnVars, wsVars, mcVars, cfVars>>
     \/ part = "mentions"   /\ MentionNext    /\ UNCHANGED <<tjVars, wsVars, mcVars, cfVars>>
     \/ part = "workspaces" /\ WorkspacesNext /\ UNCHANGED <<tjVars, mnVars, mcVars, cfVars>>
     \/ part = "mcp"        /\ McpNext        /\ UNCHANGED <<tjVars, mnVars, wsVars, cfVars>>
     \/ part = "config"     /\ ConfigNext     /\ UNCHANGED <<tjVars, mnVars, wsVars, mcVars>>

(* the fairness of each component (TagFair, MentionFair, ...), for the one that moves *)
WorkersFair ==
  /\ WF_tjVars(part = "tags" /\ TaggerNext) /\ WF_tjVars(part = "tags" /\ TagTick)
  /\ \A w \in Workers : WF_tjVars(part = "tags" /\ WorkerNext(w))
  /\ WF_mnVars(part = "mentions" /\ MentionWorker /\ UNCHANGED mnStarts)
  /\ WF_mnVars(part = "mentions" /\ (Render \/ Save \/ EndBatch) /\ UNCHANGED mnStarts)
  /\ WF_wsVars(part = "workspaces" /\ StartPoller) /\ WF_wsVars(part = "workspaces" /\ Poll)
  /\ WF_wsVars(part = "workspaces" /\ Notice) /\ WF_wsVars(part = "workspaces" /\ List)
  /\ WF_wsVars(part = "workspaces" /\ Take) /\ WF_wsVars(part = "workspaces" /\ Opened)
  /\ WF_wsVars(part = "workspaces" /\ \E a \in Accounts : Store(a))
  /\ \A a \in Accounts : WF_wsVars(part = "workspaces" /\ WsFlow(a))
  /\ WF_mcVars(part = "mcp" /\ Reconnect) /\ WF_mcVars(part = "mcp" /\ CloseServer)
  /\ WF_mcVars(part = "mcp" /\ (ReadServer \/ Publish))
  /\ WF_mcVars(part = "mcp" /\ \E p \in McpProcs : McpStep(p))
  /\ WF_cfVars(part = "config" /\ ConfigRuns) /\ WF_cfVars(part = "config" /\ FirstPrint)
  /\ WF_cfVars(part = "config" /\ PollFiles) /\ WF_cfVars(part = "config" /\ RefreshSettings)

WorkersSpec == WorkersInit /\ [][WorkersNext]_workersVars /\ WorkersFair

(* Every variable of the five components stays in its set. *)
WorkersTypeOK == TagTypeOK /\ MentionTypeOK /\ WorkspacesTypeOK /\ McpTypeOK /\ ConfigTypeOK

(* What runs in the background gets there in the end, whatever failed or changed on the way: the
   jobs rest, known names are in the texts, the command tables and the configuration are those
   of the files, and the tool services are connected. *)
BackgroundSettles ==
  <>[]( /\ part = "tags"       => JobsRest
        /\ part = "mentions"   => KnownAreNamed
        /\ part = "workspaces" => TablesCurrent
        /\ part = "mcp"        => AllConnected
        /\ part = "config"     => SnapshotCurrent )
=============================================================================

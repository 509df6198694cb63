---------------------------- MODULE AppShutdown ----------------------------
(***************************************************************************)
(* app/app.go around the bot: the signal ends the application's context,   *)
(* which Bot.Run (started with `go` in Start, nobody waits for it) and     *)
(* Shutdown both wait for; Shutdown then takes the parts down in order and *)
(* the process ends when it returns, wherever Bot.Run is by then.          *)
(* The routers' groups, which Shutdown does wait for, hold only what the   *)
(* panel's test endpoint starts: the bot's handlers answer in place        *)
(* (RouteMessageNow, TryProactiveNow).  They are left out.                 *)
(***************************************************************************)
EXTENDS Bot

VARIABLES
  app,    (* up, then how far Shutdown is; gone: main has returned        *)
  stored  (* events whose text handleSync has put into state.db           *)

appVars == <<vars, app, stored>>

AppInit == Init /\ app = "up" /\ stored = {}

Alive        == app # "gone"
ListenerOpen == app \in {"up", "web"}
DatabaseOpen == app \notin {"closed", "gone"}

-----------------------------------------------------------------------------
(* The bot, while there is a process for it.  Bot.Run sees the context ended only
   after the signal; the listener lets nobody in once IM.Shutdown has begun. *)
BotStep ==
  \/ ListenerOpen /\ \E i \in Items : Enter(i)
  \/ \E i \in Items : Disown(i) \/ Claim(i) \/ Accept(i) \/ Fail(i) \/ Forget(i)
  \/ \E m \in Messages : Expire(m)
  \/ \E n \in Nodes, k \in Chats : Chain(n, k)
  \/ app # "up" /\ ContextDone
  \/ Deadline \/ Shutdown

(* SaveMessage on a closed store returns 0 and says nothing: the handler goes on *)
BotRuns ==
  /\ Alive /\ BotStep
  /\ stored' = IF DatabaseOpen THEN stored \cup {i \in Items : <<"sync", i>> \in handled'} ELSE stored
  /\ UNCHANGED app

-----------------------------------------------------------------------------
(* Run and Shutdown *)

GoOn(from, to) == app = from /\ app' = to /\ UNCHANGED <<vars, stored>>

Answered == \A i \in Items : call[i] \notin {"entered", "claimed", "failing"}

(* the ten seconds of Run's context may be over before the calls are answered *)
Signal        == GoOn("up", "web")
WebDown       == GoOn("web", "im")
CallsAnswered == Answered /\ GoOn("im", "routers")
BudgetOver    == ~ Answered /\ GoOn("im", "routers")
CloseDatabase == GoOn("routers", "closed")
MainReturns   == GoOn("closed", "gone")

AppNext ==
  \/ BotRuns
  \/ Signal \/ WebDown \/ CallsAnswered \/ BudgetOver \/ CloseDatabase \/ MainReturns

AppSpec == AppInit /\ [][AppNext]_appVars

-----------------------------------------------------------------------------
(* Properties *)

(* bot/ingest.go 27: the text of a message is in the database whatever the drain does, for
   handleSync stores it; and app/app.go 164: the database is closed after everything under way has
   ended, or the last messages would be lost.  So what was answered with 204 is stored when the
   process has gone. *)
AcceptedTextIsStored ==
  app = "gone" => \A i \in Items : call[i] = "accepted" => i \in stored
=============================================================================

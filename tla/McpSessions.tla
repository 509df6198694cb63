----------------------------- MODULE McpSessions -----------------------------
(***************************************************************************)
(* The tool services (mcpclient/manager.go).  Every service has at most one *)
(* session, made by a dialler: all of them at the start, the ones that are  *)
(* gone from then on by one loop.  A service that says its tools have       *)
(* changed is asked again by a goroutine of its own, a call that finds its  *)
(* connection closed takes the session away, and each of them rebuilds the  *)
(* one snapshot of tools that conversations read without a lock.            *)
(***************************************************************************)
EXTENDS Integers, FiniteSets, FiniteSetsExt, SequencesExt

CONSTANTS
  McpServers,    (* the number of services, in the order of their names      *)
  McpOffers,     (* the lists of raw tool names (numbers, in their order) a service
                    offers one after the other                               *)
  Clean,         (* sanitizeToolName: raw name -> name a model may be given  *)
  Injected,      (* the services whose tools are injected                    *)
  McpCallers, McpChanges, McpCalls, McpFaults   (* callers; bounds           *)

Servers == 1..McpServers
ASSUME McpAssumption ==
  /\ McpServers \in Nat \ {0} /\ McpOffers \in Seq(SUBSET DOMAIN Clean) /\ Len(McpOffers) > McpChanges
  /\ DOMAIN Clean \subseteq Nat /\ IsFiniteSet(DOMAIN Clean)
  /\ Injected \subseteq Servers /\ {McpChanges, McpCalls, McpFaults} \subseteq Nat

VARIABLES
  mcReal,              (* service -> the list it offers                      *)
  mcSession, mcTools,  (* serverConn: number of the session or 0; its list   *)
  mcMade,              (* service -> sessions made so far                    *)
  mcOpen, mcBroken,    (* sessions that exist; whose connection is gone      *)
  mcProc,              (* goroutines                                         *)
  mcLock, mcLeft, mcGot,  (* m.mu: its holder; services it has yet to read; tools read *)
  mcSnap,              (* the snapshot: <<service, raw name>>, named by Exposed *)
  mcLoop,              (* reconnectLoop: 0 not begun, or the service it is at *)
  mcClose,             (* Close: 0 not begun, or the service it is at        *)
  mcChanges, mcCalls, mcFaults

sessions == <<mcSession, mcTools, mcMade, mcOpen, mcBroken>>
snapping == <<mcLock, mcLeft, mcGot, mcSnap>>
mcBounds == <<mcChanges, mcCalls, mcFaults>>
mcVars   == <<mcReal, sessions, mcProc, snapping, mcLoop, mcClose, mcBounds>>

Dialler(s)  == <<"dial", s>>
Refresher(k) == <<"refresh", k>>
McpProcs == {Dialler(s) : s \in Servers} \cup {Refresher(k) : k \in 1..McpChanges}
            \cup {<<"call", c>> : c \in McpCallers}
Resting(s) == [at |-> "idle", srv |-> s, id |-> 0, tools |-> {}]
AllDone == McpServers + 1
Closing == mcClose > 0
Offer(s) == McpOffers[mcReal[s]]
Alive(s, id) == <<s, id>> \in mcOpen \ mcBroken
Goto(p, at) == mcProc' = [mcProc EXCEPT ![p].at = at]
DialledAll == \A s \in Servers : mcProc[Dialler(s)].at = "idle"

(* New and Start *)
McpInit ==
  /\ mcReal = [s \in Servers |-> 1] /\ mcSession = [s \in Servers |-> 0]
  /\ mcTools = [s \in Servers |-> {}] /\ mcMade = [s \in Servers |-> 0]
  /\ mcOpen = {} /\ mcBroken = {}
  /\ mcProc = [p \in McpProcs |-> IF p[1] = "dial" THEN [Resting(p[2]) EXCEPT !.at = "gate"]
                                  ELSE Resting(1)]
  /\ mcLock = <<>> /\ mcLeft = {} /\ mcGot = {} /\ mcSnap = {}
  /\ mcLoop = 0 /\ mcClose = 0 /\ mcChanges = 0 /\ mcCalls = 0 /\ mcFaults = 0

McpFault == mcFaults < McpFaults /\ mcFaults' = mcFaults + 1 /\ UNCHANGED <<mcChanges, mcCalls>>
FailsIf(cond) == (cond /\ UNCHANGED mcBounds) \/ McpFault

-----------------------------------------------------------------------------
(* dial *)

Gate(p) ==
  /\ mcProc[p].at = "gate" /\ Goto(p, IF Closing THEN "idle" ELSE "connect")
  /\ UNCHANGED <<mcReal, sessions, snapping, mcLoop, mcClose, mcBounds>>

(* the handshake: fails now and then, and always once Close has cancelled the lifetime *)
Handshake(p) ==
  LET s == mcProc[p].srv IN
  /\ mcProc[p].at = "connect"
  /\ \/ /\ mcClose < AllDone /\ UNCHANGED mcBounds
        /\ mcMade' = [mcMade EXCEPT ![s] = @ + 1] /\ mcOpen' = mcOpen \cup {<<s, mcMade[s] + 1>>}
        /\ mcProc' = [mcProc EXCEPT ![p].at = "listing", ![p].id = mcMade[s] + 1]
     \/ /\ FailsIf(mcClose = AllDone)
        /\ mcProc' = [mcProc EXCEPT ![p].at = "mount", ![p].id = 0] /\ UNCHANGED <<mcMade, mcOpen>>
  /\ UNCHANGED <<mcReal, mcSession, mcTools, mcBroken, snapping, mcLoop, mcClose>>

(* connect's first listing; without it the session is closed at once *)
FirstList(p) ==
  LET me == mcProc[p] IN
  /\ me.at = "listing"
  /\ \/ /\ Alive(me.srv, me.id) /\ UNCHANGED <<mcOpen, mcBounds>>
        /\ mcProc' = [mcProc EXCEPT ![p].at = "mount", ![p].tools = Offer(me.srv)]
     \/ /\ FailsIf(~ Alive(me.srv, me.id))
        /\ mcOpen' = mcOpen \ {<<me.srv, me.id>>}
        /\ mcProc' = [mcProc EXCEPT ![p].at = "mount", ![p].id = 0]
  /\ UNCHANGED <<mcReal, mcSession, mcTools, mcMade, mcBroken, snapping, mcLoop, mcClose>>

(* mutant: the gate is looked at before connecting only *)
MountBlindly(p) ==
  LET me == mcProc[p] IN
  /\ me.at = "mount" /\ mcSession' = [mcSession EXCEPT ![me.srv] = me.id]
  /\ mcTools' = IF me.id = 0 THEN mcTools ELSE [mcTools EXCEPT ![me.srv] = me.tools]
  /\ Goto(p, IF me.id = 0 THEN "idle" ELSE "rebuild")
  /\ UNCHANGED <<mcReal, mcMade, mcOpen, mcBroken, snapping, mcLoop, mcClose, mcBounds>>

(* the gate again, under the lock: Close may have passed this service meanwhile *)
Mount(p) ==
  LET me == mcProc[p] IN
  /\ me.at = "mount"
  /\ IF Closing
     THEN mcOpen' = mcOpen \ {<<me.srv, me.id>>} /\ Goto(p, "idle") /\ UNCHANGED <<mcSession, mcTools>>
     ELSE /\ mcSession' = [mcSession EXCEPT ![me.srv] = me.id] /\ UNCHANGED mcOpen
          /\ mcTools' = IF me.id = 0 THEN mcTools ELSE [mcTools EXCEPT ![me.srv] = me.tools]
          /\ Goto(p, IF me.id = 0 THEN "idle" ELSE "rebuild")
  /\ UNCHANGED <<mcReal, mcMade, mcBroken, snapping, mcLoop, mcClose, mcBounds>>

-----------------------------------------------------------------------------
(* rebuildSnapshot *)

(* a name as the service gives it; two alike get the name of their service in front, and if that
   is taken too the next number behind: those before it in the order have taken the lower ones *)
ToolName(entries, e) ==
  LET alike(f) == Cardinality({g \in entries : Clean[g[2]] = Clean[f[2]]}) > 1
      plain(f) == <<IF alike(f) THEN f[1] ELSE 0, Clean[f[2]]>>
      before   == {f \in entries : f[1] < e[1] \/ (f[1] = e[1] /\ f[2] < e[2])}
  IN <<plain(e), 1 + Cardinality({f \in before : plain(f) = plain(e)})>>

Exposed(entries) ==
  [name \in {ToolName(entries, e) : e \in entries} |->
     CHOOSE e \in entries : ToolName(entries, e) = name]

LockRebuild(p) ==
  /\ mcProc[p].at = "rebuild" /\ mcLock = <<>> /\ mcLock' = p /\ mcLeft' = Servers /\ mcGot' = {}
  /\ UNCHANGED <<mcReal, sessions, mcProc, mcSnap, mcLoop, mcClose, mcBounds>>

ReadServer ==
  /\ mcLock # <<>> /\ mcLeft # {}
  /\ LET s == Min(mcLeft) IN
     /\ mcLeft' = mcLeft \ {s}
     /\ mcGot' = IF mcSession[s] # 0 /\ s \in Injected THEN mcGot \cup ({s} \X mcTools[s]) ELSE mcGot
  /\ UNCHANGED <<mcReal, sessions, mcProc, mcLock, mcSnap, mcLoop, mcClose, mcBounds>>

Publish ==
  /\ mcLock # <<>> /\ mcLeft = {} /\ mcSnap' = mcGot /\ mcLock' = <<>>
  /\ mcProc' = [mcProc EXCEPT ![mcLock] = Resting(@.srv)] /\ mcGot' = {}
  /\ UNCHANGED <<mcReal, sessions, mcLeft, mcLoop, mcClose, mcBounds>>

-----------------------------------------------------------------------------
(* refreshTools *)

(* a service changes its list and tells every session that is still connected, mounted or not *)
ChangeTools(s) ==
  /\ mcChanges < McpChanges /\ mcChanges' = mcChanges + 1
  /\ mcReal' = [mcReal EXCEPT ![s] = @ + 1]
  /\ mcProc' = IF \E e \in mcOpen \ mcBroken : e[1] = s
               THEN [mcProc EXCEPT ![Refresher(mcChanges + 1)] = [Resting(s) EXCEPT !.at = "capture"]]
               ELSE mcProc
  /\ UNCHANGED <<sessions, snapping, mcLoop, mcClose, mcCalls, mcFaults>>

Capture(p) ==
  LET id == mcSession[mcProc[p].srv] IN
  /\ mcProc[p].at = "capture"
  /\ mcProc' = [mcProc EXCEPT ![p].id = id, ![p].at = IF id = 0 THEN "idle" ELSE "list"]
  /\ UNCHANGED <<mcReal, sessions, snapping, mcLoop, mcClose, mcBounds>>

ListAgain(p) ==
  LET me == mcProc[p] IN
  /\ me.at = "list"
  /\ \/ /\ Alive(me.srv, me.id) /\ UNCHANGED mcBounds
        /\ mcProc' = [mcProc EXCEPT ![p].at = "save", ![p].tools = Offer(me.srv)]
     \/ FailsIf(~ Alive(me.srv, me.id)) /\ Goto(p, "idle")
  /\ UNCHANGED <<mcReal, sessions, snapping, mcLoop, mcClose>>

(* the list is written whatever has become of the session it was asked of *)
SaveTools(p) ==
  /\ mcProc[p].at = "save" /\ mcTools' = [mcTools EXCEPT ![mcProc[p].srv] = mcProc[p].tools]
  /\ Goto(p, "rebuild")
  /\ UNCHANGED <<mcReal, mcSession, mcMade, mcOpen, mcBroken, snapping, mcLoop, mcClose, mcBounds>>

-----------------------------------------------------------------------------
(* CallTool, CallToolImage, markDead *)

BreakConnection(s) ==
  /\ mcSession[s] # 0 /\ Alive(s, mcSession[s]) /\ McpFault
  /\ mcBroken' = mcBroken \cup {<<s, mcSession[s]>>}
  /\ UNCHANGED <<mcReal, mcSession, mcTools, mcMade, mcOpen, mcProc, snapping, mcLoop, mcClose>>

Call(p, s) ==
  /\ mcProc[p].at = "idle" /\ mcCalls < McpCalls /\ mcCalls' = mcCalls + 1
  /\ \E e \in mcSnap : e[1] = s
  /\ mcSession[s] # 0
  /\ mcProc' = [mcProc EXCEPT ![p] = [Resting(s) EXCEPT !.at = "calling", !.id = mcSession[s]]]
  /\ UNCHANGED <<mcReal, sessions, snapping, mcLoop, mcClose, mcChanges, mcFaults>>

(* an answer, an error of the tool, a time-out, a refusal of the breaker; or a closed connection *)
Return(p) ==
  LET me == mcProc[p] IN
  /\ me.at = "calling"
  /\ \/ Goto(p, "idle")
     \/ ~ Alive(me.srv, me.id) /\ Goto(p, "dead")
  /\ UNCHANGED <<mcReal, sessions, snapping, mcLoop, mcClose, mcBounds>>

(* mutant: the snapshot is left as it is *)
MarkDeadQuietly(p) ==
  LET s == mcProc[p].srv IN
  /\ mcProc[p].at = "dead" /\ mcSession' = [mcSession EXCEPT ![s] = 0]
  /\ mcOpen' = mcOpen \ {<<s, mcSession[s]>>} /\ Goto(p, "idle")
  /\ UNCHANGED <<mcReal, mcTools, mcMade, mcBroken, snapping, mcLoop, mcClose, mcBounds>>

(* takes away the session there is now, which may be a newer one than the call used *)
MarkDead(p) ==
  LET s == mcProc[p].srv IN
  /\ mcProc[p].at = "dead" /\ mcSession' = [mcSession EXCEPT ![s] = 0]
  /\ mcOpen' = mcOpen \ {<<s, mcSession[s]>>} /\ Goto(p, "rebuild")
  /\ UNCHANGED <<mcReal, mcTools, mcMade, mcBroken, snapping, mcLoop, mcClose, mcBounds>>

-----------------------------------------------------------------------------
(* reconnectLoop and Close *)

(* one goroutine, one service at a time; over again at every tick until Close has ended *)
Reconnect ==
  /\ DialledAll /\ ~ (mcLoop = AllDone /\ mcClose = AllDone)
  /\ mcLoop' = IF mcLoop = AllDone THEN 1 ELSE mcLoop + 1
  /\ mcProc' = IF mcLoop \in Servers /\ mcSession[mcLoop] = 0
               THEN [mcProc EXCEPT ![Dialler(mcLoop)].at = "gate"] ELSE mcProc
  /\ UNCHANGED <<mcReal, sessions, snapping, mcClose, mcBounds>>

CloseManager ==
  /\ mcClose = 0 /\ mcClose' = 1
  /\ UNCHANGED <<mcReal, sessions, mcProc, snapping, mcLoop, mcBounds>>

CloseServer ==
  /\ mcClose \in Servers /\ mcClose' = mcClose + 1
  /\ mcSession' = [mcSession EXCEPT ![mcClose] = 0]
  /\ mcOpen' = mcOpen \ {<<mcClose, mcSession[mcClose]>>}
  /\ UNCHANGED <<mcReal, mcTools, mcMade, mcBroken, mcProc, snapping, mcLoop, mcBounds>>

-----------------------------------------------------------------------------
McpStep(p) ==
  \/ Gate(p) \/ Handshake(p) \/ FirstList(p) \/ Mount(p) \/ LockRebuild(p)
  \/ Capture(p) \/ ListAgain(p) \/ SaveTools(p) \/ Return(p) \/ MarkDead(p)

McpNext ==
  \/ Reconnect \/ CloseManager \/ CloseServer \/ ReadServer \/ Publish
  \/ \E p \in McpProcs : McpStep(p)
  \/ \E s \in Servers :
       \/ ChangeTools(s) \/ BreakConnection(s)
       \/ \E c \in McpCallers : Call(<<"call", c>>, s)

McpFair ==
  /\ WF_mcVars(Reconnect) /\ WF_mcVars(CloseServer) /\ WF_mcVars(ReadServer \/ Publish)
  /\ WF_mcVars(\E p \in McpProcs : McpStep(p))
McpSpec == McpInit /\ [][McpNext]_mcVars /\ McpFair

-----------------------------------------------------------------------------
(* The variables stay in their sets; a mounted session is the last one made. *)
McpTypeOK ==
  /\ \A s \in Servers : mcSession[s] \in {0, mcMade[s]} /\ mcTools[s] \in {{}} \cup Range(McpOffers)
  /\ mcLock # <<>> => mcProc[mcLock].at = "rebuild"
  /\ mcLoop \in 0..AllDone /\ mcClose \in 0..AllDone

(* Whenever nobody is about to rebuild it, the snapshot names every tool of the injected
   services that are connected, as last listed, once, and nothing else. *)
SnapshotOfLive ==
  (~ Closing /\ \A p \in McpProcs : mcProc[p].at # "rebuild") =>
    LET live == UNION {{s} \X mcTools[s] : s \in {t \in Injected : mcSession[t] # 0}}
        names == Exposed(mcSnap)
    IN mcSnap = live /\ Range(names) = live /\ IsInjective(names)

(* After Close no session is left open, the ones that were being made meanwhile included. *)
NoLeakedSession == mcClose = AllDone /\ DialledAll => mcOpen = {}

(* Once connections hold, every service is connected, or the program is closed. *)
AllConnected == Closing \/ \A s \in Servers : mcSession[s] # 0

(* What the head of the file says of a change: the list is fetched again, no restart needed. *)
ListsFollow == \A s \in Servers :
  <>[](mcSession[s] = 0 \/ Closing \/ mcTools[s] = Offer(s) \/ mcFaults > 0)
=============================================================================

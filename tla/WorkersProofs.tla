--------------------------- MODULE WorkersProofs ---------------------------
(***************************************************************************)
(* Proofs about the components that work in the background.  McpSessions,   *)
(* for every number of services, every sequence of tool lists and every     *)
(* bound: no session is left open once the manager has closed, and the      *)
(* snapshot the conversations read is that of the services which are        *)
(* connected whenever nobody is about to rebuild it.  ConfigFiles, for any  *)
(* contents of the files: what a running program works by keeps it working. *)
(* TagJobs, for every number of pictures, backfillers and faults: no        *)
(* picture is lost between the tagger and the table, and in rounds of one   *)
(* job a lease longer than a job keeps its job to one backfiller.  Mentions *)
(* and Workspaces: their types, and with them those of all five together.   *)
(***************************************************************************)
EXTENDS MCWorkers, Stepwise, FiniteSetTheorems, SequenceTheorems, TLAPS

(* McpSessions: the variables, the goroutines by the part they play, and who owns a session. *)
McpLists == {{}} \cup Range(McpOffers)
McpRecs == [at : {"idle", "gate", "connect", "listing", "mount", "rebuild", "capture", "list", "save",
                  "calling", "dead"},
            srv : Servers, id : Nat, tools : McpLists]
McpTyping ==
  /\ mcReal \in [Servers -> Nat \ {0}] /\ \A s \in Servers : mcReal[s] <= mcChanges + 1
  /\ mcSession \in [Servers -> Nat] /\ mcMade \in [Servers -> Nat] /\ mcTools \in [Servers -> McpLists]
  /\ mcOpen \subseteq Servers \X (Nat \ {0})
  /\ mcLock \in McpProcs \cup {<<>>} /\ mcLeft \subseteq Servers
  /\ mcLoop \in 0..AllDone /\ mcClose \in 0..AllDone
  /\ mcChanges \in 0..McpChanges
ProcTyping == mcProc \in [McpProcs -> McpRecs]

(* A session is made by the dialler of its service alone; a lock is held while rebuilding. *)
Making == {"gate", "connect", "listing", "mount"}
McpRoles ==
  /\ \A s \in Servers : mcProc[Dialler(s)].srv = s
  /\ \A p \in McpProcs : mcProc[p].at \in Making => p = Dialler(mcProc[p].srv)
  /\ \A k \in 1..McpChanges : k > mcChanges => mcProc[Refresher(k)].at = "idle"
  /\ mcLock # <<>> => mcProc[mcLock].at = "rebuild"

(* A service has no session while one is made for it, and has the last one that was made. *)
OneMaker == \A s \in Servers :
  /\ mcProc[Dialler(s)].at \in Making => mcSession[s] = 0
  /\ mcProc[Dialler(s)].at = "listing" => mcProc[Dialler(s)].id = mcMade[s]
  /\ mcProc[Dialler(s)].at = "mount" => mcProc[Dialler(s)].id \in {0, mcMade[s]}
  /\ mcSession[s] \in {0, mcMade[s]}

(* A session that is open is the one of its service, or in the hands of its dialler. *)
OpenOwned == \A e \in mcOpen :
  \/ mcSession[e[1]] = e[2]
  \/ mcProc[Dialler(e[1])].at \in {"listing", "mount"} /\ mcProc[Dialler(e[1])].id = e[2]

(* Services that Close has passed have no session any more. *)
ClosedStay == \A s \in Servers : s < mcClose => mcSession[s] = 0

(* While nobody else is about to rebuild, the snapshot is that of the services, and what was
   read so far that of the services already read. *)
LiveOf(s) == IF s \in Injected /\ mcSession[s] # 0 THEN {s} \X mcTools[s] ELSE {}
LiveIn(S) == UNION {LiveOf(s) : s \in S}
NobodyElse == \A p \in McpProcs : p # mcLock => mcProc[p].at # "rebuild"
SnapInv == ~ Closing /\ NobodyElse =>
  IF mcLock = <<>> THEN mcSnap = LiveIn(Servers) ELSE mcGot = LiveIn(Servers \ mcLeft)

McpInv == McpTyping /\ ProcTyping /\ McpRoles /\ OneMaker /\ OpenOwned /\ ClosedStay /\ SnapInv


-----------------------------------------------------------------------------
LEMMA MinIsIn ==
  ASSUME NEW T \in SUBSET Nat, T # {}
  PROVE  Min(T) \in T
<1>1. \E n \in T : \A m \in T : n <= m
  BY LeastNumber
<1>2. QED
  BY <1>1 DEF Min

(* The goroutines are told apart by their names. *)
LEMMA McpNames ==
  /\ \A s \in Servers : Dialler(s) \in McpProcs /\ s \in Nat \ {0} /\ s < AllDone
  /\ \A k \in 1..McpChanges : Refresher(k) \in McpProcs
  /\ \A c \in McpCallers : <<"call", c>> \in McpProcs
  /\ \A s \in Servers, k \in 1..McpChanges : Dialler(s) # Refresher(k)
  /\ \A s \in Servers, c \in McpCallers : Dialler(s) # <<"call", c>>
  /\ \A k \in 1..McpChanges, c \in McpCallers : Refresher(k) # <<"call", c>>
  /\ \A s, t \in Servers : Dialler(s) = Dialler(t) => s = t
  /\ \A k, l \in 1..McpChanges : Refresher(k) = Refresher(l) => k = l
  /\ \A p \in McpProcs : p # <<>>
  /\ \A p \in McpProcs : p[1] = "dial" => p[2] \in Servers /\ p = Dialler(p[2])
  /\ 1 \in Servers /\ AllDone \in Nat /\ McpChanges \in Nat
<1>1. /\ \A s \in Servers : Dialler(s) \in McpProcs /\ s \in Nat \ {0} /\ s < AllDone
      /\ 1 \in Servers /\ AllDone \in Nat /\ McpChanges \in Nat
  <2>1. McpServers \in Nat \ {0} /\ McpChanges \in Nat
    BY McpAssumption
  <2>2. \A s \in Servers : Dialler(s) \in McpProcs
    BY DEF McpProcs
  <2>3. \A s \in Servers : s \in Nat \ {0} /\ s < AllDone
    BY <2>1 DEF Servers, AllDone
  <2>4. 1 \in Servers /\ AllDone \in Nat
    BY <2>1 DEF Servers, AllDone
  <2>5. QED
    BY <2>1, <2>2, <2>3, <2>4
<1>2. /\ \A k \in 1..McpChanges : Refresher(k) \in McpProcs
      /\ \A c \in McpCallers : <<"call", c>> \in McpProcs
  BY DEF McpProcs
<1>3. /\ \A s \in Servers, k \in 1..McpChanges : Dialler(s) # Refresher(k)
      /\ \A s \in Servers, c \in McpCallers : Dialler(s) # <<"call", c>>
      /\ \A k \in 1..McpChanges, c \in McpCallers : Refresher(k) # <<"call", c>>
      /\ \A s, t \in Servers : Dialler(s) = Dialler(t) => s = t
      /\ \A k, l \in 1..McpChanges : Refresher(k) = Refresher(l) => k = l
  BY DEF Dialler, Refresher
<1>4. \A p \in McpProcs : p # <<>>
  BY DEF McpProcs, Dialler, Refresher
<1>5. \A p \in McpProcs : p[1] = "dial" => p[2] \in Servers /\ p = Dialler(p[2])
  BY DEF McpProcs, Dialler, Refresher
<1>6. QED
  BY <1>1, <1>2, <1>3, <1>4, <1>5

(* What a service offers is one of the lists. *)
LEMMA OfferIsList ==
  ASSUME McpTyping, NEW s \in Servers
  PROVE  Offer(s) \in McpLists
<1>1. mcReal[s] \in DOMAIN McpOffers
  BY McpAssumption DEF McpTyping
<1>2. QED
  BY <1>1 DEF Offer, McpLists, Range

LEMMA McpInitInv == McpInit => McpInv
<1>. SUFFICES ASSUME McpInit PROVE McpInv
  OBVIOUS
<1>1. McpTyping
  BY McpAssumption, McpNames DEF McpInit, McpTyping, McpLists
<1>2. ProcTyping
  <2>1. \A s \in Servers : Resting(s) \in McpRecs /\ [Resting(s) EXCEPT !.at = "gate"] \in McpRecs
    BY DEF Resting, McpRecs, McpLists
  <2>2. QED
    BY <2>1, McpNames DEF McpInit, ProcTyping
<1>3. /\ \A p \in McpProcs : p[1] # "dial" => mcProc[p].at = "idle"
      /\ \A s \in Servers : mcProc[Dialler(s)].at = "gate" /\ mcProc[Dialler(s)].srv = s
  <2>1. \A s \in Servers : mcProc[Dialler(s)] = [Resting(s) EXCEPT !.at = "gate"]
    <3>1. \A s \in Servers : Dialler(s) \in McpProcs /\ Dialler(s)[1] = "dial" /\ Dialler(s)[2] = s
      BY McpNames DEF Dialler
    <3>2. QED
      BY <3>1, Zenon DEF McpInit
  <2>2. \A p \in McpProcs : p[1] # "dial" => mcProc[p] = Resting(1)
    BY DEF McpInit
  <2>3. \A s \in Servers :
          [Resting(s) EXCEPT !.at = "gate"] = [at |-> "gate", srv |-> s, id |-> 0, tools |-> {}]
    BY DEF Resting
  <2>4. Resting(1).at = "idle"
    BY DEF Resting
  <2>5. \A s \in Servers : mcProc[Dialler(s)].at = "gate" /\ mcProc[Dialler(s)].srv = s
    <3>1. \A s \in Servers : mcProc[Dialler(s)] = [at |-> "gate", srv |-> s, id |-> 0, tools |-> {}]
      BY <2>1, <2>3, Zenon
    <3>2. ASSUME NEW s \in Servers PROVE mcProc[Dialler(s)].at = "gate" /\ mcProc[Dialler(s)].srv = s
      <4>1. mcProc[Dialler(s)] = [at |-> "gate", srv |-> s, id |-> 0, tools |-> {}]
        BY <3>1
      <4>2. QED
        BY <4>1
    <3>3. QED
      BY <3>2
  <2>6. \A p \in McpProcs : p[1] # "dial" => mcProc[p].at = "idle"
    BY <2>2, <2>4, Zenon
  <2>7. QED
    BY <2>5, <2>6
<1>4. McpRoles
  <2>1. \A k \in 1..McpChanges : Refresher(k)[1] # "dial"
    BY DEF Refresher
  <2>2. ASSUME NEW p \in McpProcs, mcProc[p].at \in Making PROVE p = Dialler(mcProc[p].srv)
    <3>1. p[1] = "dial"
      BY <1>3, <2>2 DEF Making
    <3>2. QED
      BY <1>3, <3>1, McpNames
  <2>3. QED
    BY <1>3, <2>1, <2>2, McpNames, Zenon DEF McpInit, McpRoles
<1>5. OneMaker /\ ClosedStay
  BY <1>3, McpNames DEF McpInit, OneMaker, ClosedStay
<1>6. OpenOwned
  BY DEF McpInit, OpenOwned
<1>7. SnapInv
  BY DEF McpInit, SnapInv, LiveIn, LiveOf
<1>8. QED
  BY <1>1, <1>2, <1>4, <1>5, <1>6, <1>7 DEF McpInv

LEMMA GateKeeps ==
  ASSUME McpInv, NEW p \in McpProcs, Gate(p)
  PROVE  McpInv'
<1>1. /\ ProcTyping'
      /\ \A q \in McpProcs : q # p => mcProc'[q] = mcProc[q]
      /\ mcProc'[p].at \in {"idle", "connect"} /\ mcProc'[p].srv = mcProc[p].srv
      /\ mcProc[p].at = "gate"
  <2>1. CASE Closing
    BY <2>1 DEF McpInv, ProcTyping, Gate, Goto, McpRecs
  <2>2. CASE ~ Closing
    BY <2>2 DEF McpInv, ProcTyping, Gate, Goto, McpRecs
  <2>3. QED
    BY <2>1, <2>2
<1>2. UNCHANGED <<mcReal, sessions, snapping, mcLoop, mcClose, mcBounds>>
  BY DEF Gate
<1>3. McpTyping'
  BY <1>2 DEF McpInv, McpTyping, sessions, snapping, mcBounds
<1>4. McpRoles'
  <2>1. \A q \in McpProcs : mcProc'[q].srv = mcProc[q].srv
    BY <1>1
  <2>2. \A q \in McpProcs : mcProc'[q].at \in Making => mcProc[q].at \in Making
    BY <1>1 DEF Making
  <2>3. \A q \in McpProcs : mcProc[q].at \in {"idle", "rebuild"} => mcProc'[q].at = mcProc[q].at
    BY <1>1
  <2>4. mcLock' = mcLock /\ mcChanges' = mcChanges
    BY <1>2 DEF snapping, mcBounds
  <2>5. QED
    BY <2>1, <2>2, <2>3, <2>4, McpNames DEF McpInv, McpTyping, McpRoles
<1>5. OneMaker'
  BY <1>1, <1>2, McpNames DEF McpInv, McpRoles, OneMaker, sessions, Making
<1>6. OpenOwned'
  BY <1>1, <1>2, McpNames DEF McpInv, McpTyping, OpenOwned, sessions
<1>7. ClosedStay'
  BY <1>2 DEF McpInv, ClosedStay, sessions
<1>8. SnapInv'
  BY <1>1, <1>2 DEF McpInv, SnapInv, NobodyElse, LiveIn, LiveOf, Closing, sessions, snapping
<1>9. QED
  BY <1>1, <1>3, <1>4, <1>5, <1>6, <1>7, <1>8 DEF McpInv

-----------------------------------------------------------------------------
(* A goroutine that moves on its own: what the others are keeps what it is. *)
OnlyMoves(p) ==
  /\ ProcTyping' /\ \A q \in McpProcs : q # p => mcProc'[q] = mcProc[q]
  /\ mcProc'[p].srv = mcProc[p].srv \/ \E c \in McpCallers : p = <<"call", c>>
  /\ mcProc[p].at \notin {"idle", "rebuild"} \/ \E c \in McpCallers : p = <<"call", c>> /\ mcProc[p].at = "idle"
  /\ mcProc'[p].at \in Making => mcProc[p].at \in Making
  /\ mcLock' = mcLock /\ mcChanges' = mcChanges

LEMMA MoveRoles ==
  ASSUME McpInv, NEW p \in McpProcs, OnlyMoves(p)
  PROVE  McpRoles'
<1>1. \A s \in Servers : mcProc'[Dialler(s)].srv = s
  BY McpNames DEF OnlyMoves, McpInv, McpRoles
<1>2. ASSUME NEW q \in McpProcs, mcProc'[q].at \in Making PROVE q = Dialler(mcProc'[q].srv)
  <2>1. mcProc[q].at \in Making
    BY <1>2 DEF OnlyMoves
  <2>2. q = Dialler(mcProc[q].srv) /\ mcProc[q].srv \in Servers
    BY <2>1 DEF McpInv, McpRoles, ProcTyping, McpRecs
  <2>3. mcProc'[q].srv = mcProc[q].srv
    BY <1>1, <2>2 DEF McpInv, McpRoles
  <2>4. QED
    BY <2>2, <2>3
<1>3. ASSUME NEW k \in 1..McpChanges, k > mcChanges' PROVE mcProc'[Refresher(k)].at = "idle"
  <2>1. mcProc[Refresher(k)].at = "idle"
    BY <1>3 DEF OnlyMoves, McpInv, McpRoles
  <2>2. Refresher(k) # p
    BY <2>1, McpNames DEF OnlyMoves
  <2>3. QED
    BY <2>1, <2>2, McpNames DEF OnlyMoves
<1>4. mcLock' # <<>> => mcProc'[mcLock'].at = "rebuild"
  <2>1. ASSUME mcLock # <<>> PROVE mcLock \in McpProcs /\ mcLock # p /\ mcProc[mcLock].at = "rebuild"
    BY <2>1 DEF OnlyMoves, McpInv, McpTyping, McpRoles
  <2>2. QED
    BY <2>1 DEF OnlyMoves
<1>5. QED
  BY <1>1, <1>2, <1>3, <1>4 DEF McpRoles

(* Who goes to rebuild the snapshot is not the one who is at it. *)
LEMMA MoveToRebuild ==
  ASSUME McpInv, NEW p \in McpProcs, OnlyMoves(p), mcProc'[p].at = "rebuild"
  PROVE  SnapInv'
<1>1. mcProc[p].at # "rebuild"
  BY DEF OnlyMoves
<1>2. p # mcLock
  BY <1>1, McpNames DEF McpInv, McpRoles
<1>3. QED
  BY <1>2 DEF OnlyMoves, SnapInv, NobodyElse

(* Who goes elsewhere, and leaves the services alone, leaves the snapshot as good as it was. *)
LEMMA MoveAside ==
  ASSUME McpInv, NEW p \in McpProcs, OnlyMoves(p), mcProc'[p].at # "rebuild",
         UNCHANGED <<mcSession, mcTools, snapping, mcClose>>
  PROVE  SnapInv'
<1>1. NobodyElse' => NobodyElse
  <2>1. mcProc[p].at # "rebuild"
    BY DEF OnlyMoves
  <2>2. QED
    BY <2>1 DEF OnlyMoves, NobodyElse
<1>2. QED
  BY <1>1 DEF McpInv, SnapInv, LiveIn, LiveOf, Closing, snapping

(* Who neither makes a session nor starts to leaves the sessions as they were. *)
LEMMA MoveOutside ==
  ASSUME McpInv, NEW p \in McpProcs, OnlyMoves(p), mcProc[p].at \notin Making,
         UNCHANGED <<mcSession, mcMade, mcOpen, mcClose>>
  PROVE  OneMaker' /\ OpenOwned' /\ ClosedStay'
<1>1. mcProc'[p].at \notin Making
  BY DEF OnlyMoves
<1>2. \A s \in Servers : mcProc'[Dialler(s)].at \in Making =>
                            mcProc'[Dialler(s)] = mcProc[Dialler(s)]
  BY <1>1, McpNames DEF OnlyMoves
<1>3. OneMaker'
  BY <1>2 DEF McpInv, OneMaker, Making
<1>4. OpenOwned'
  <2>1. ASSUME NEW e \in mcOpen PROVE
          \/ mcSession[e[1]] = e[2]
          \/ mcProc'[Dialler(e[1])].at \in {"listing", "mount"} /\ mcProc'[Dialler(e[1])].id = e[2]
    <3>1. e[1] \in Servers /\ Dialler(e[1]) \in McpProcs
      BY McpNames DEF McpInv, McpTyping
    <3>2. CASE mcSession[e[1]] = e[2]
      BY <3>2
    <3>3. CASE mcProc[Dialler(e[1])].at \in {"listing", "mount"} /\ mcProc[Dialler(e[1])].id = e[2]
      <4>1. Dialler(e[1]) # p
        BY <3>3 DEF Making
      <4>2. QED
        BY <3>1, <3>3, <4>1 DEF OnlyMoves
    <3>4. QED
      BY <3>2, <3>3 DEF McpInv, OpenOwned
  <2>2. QED
    BY <2>1 DEF OpenOwned
<1>5. ClosedStay'
  BY DEF McpInv, ClosedStay
<1>6. QED
  BY <1>3, <1>4, <1>5

-----------------------------------------------------------------------------
(* refreshTools, CallTool: goroutines that make no session *)

LEMMA CaptureKeeps ==
  ASSUME McpInv, NEW p \in McpProcs, Capture(p)
  PROVE  McpInv'
<1>1. mcProc[p].at = "capture" /\ mcProc'[p].at \in {"idle", "list"} /\ OnlyMoves(p)
  <2>1. mcSession[mcProc[p].srv] \in Nat
    BY DEF McpInv, McpTyping, ProcTyping, McpRecs
  <2>2. CASE mcSession[mcProc[p].srv] = 0
    BY <2>1, <2>2 DEF McpInv, ProcTyping, Capture, McpRecs, OnlyMoves, snapping, mcBounds, Making
  <2>3. CASE mcSession[mcProc[p].srv] # 0
    BY <2>1, <2>3 DEF McpInv, ProcTyping, Capture, McpRecs, OnlyMoves, snapping, mcBounds, Making
  <2>4. QED
    BY <2>2, <2>3
<1>2. UNCHANGED <<mcReal, sessions, snapping, mcLoop, mcClose, mcBounds>>
  BY DEF Capture
<1>3. McpTyping'
  BY <1>2 DEF McpInv, McpTyping, sessions, snapping, mcBounds
<1>4. OneMaker' /\ OpenOwned' /\ ClosedStay'
  BY <1>1, <1>2, MoveOutside DEF sessions, Making
<1>5. SnapInv'
  BY <1>1, <1>2, MoveAside DEF sessions
<1>6. QED
  BY <1>1, <1>3, <1>4, <1>5, MoveRoles DEF McpInv, OnlyMoves

LEMMA ListAgainKeeps ==
  ASSUME McpInv, NEW p \in McpProcs, ListAgain(p)
  PROVE  McpInv'
<1>1. /\ mcProc[p].at = "list" /\ mcProc'[p].at \in {"idle", "save"} /\ OnlyMoves(p)
  <2>1. mcProc[p].srv \in Servers /\ Offer(mcProc[p].srv) \in McpLists
    BY OfferIsList DEF McpInv, ProcTyping, McpRecs
  <2>2. CASE mcProc' = [mcProc EXCEPT ![p].at = "save", ![p].tools = Offer(mcProc[p].srv)] /\ UNCHANGED mcBounds
    BY <2>1, <2>2 DEF McpInv, ProcTyping, ListAgain, McpRecs, OnlyMoves, snapping, mcBounds, Making
  <2>3. CASE FailsIf(~ Alive(mcProc[p].srv, mcProc[p].id)) /\ Goto(p, "idle")
    BY <2>1, <2>3 DEF McpInv, ProcTyping, ListAgain, McpRecs, OnlyMoves, snapping, mcBounds, Making,
                      Goto, FailsIf, McpFault
  <2>4. QED
    BY <2>2, <2>3 DEF ListAgain
<1>2. UNCHANGED <<mcReal, sessions, snapping, mcLoop, mcClose>>
  BY DEF ListAgain
<1>3. McpTyping'
  BY <1>1, <1>2 DEF McpInv, McpTyping, sessions, snapping, OnlyMoves
<1>4. OneMaker' /\ OpenOwned' /\ ClosedStay'
  BY <1>1, <1>2, MoveOutside DEF sessions, Making
<1>5. SnapInv'
  BY <1>1, <1>2, MoveAside DEF sessions
<1>6. QED
  BY <1>1, <1>3, <1>4, <1>5, MoveRoles DEF McpInv, OnlyMoves

LEMMA SaveToolsKeeps ==
  ASSUME McpInv, NEW p \in McpProcs, SaveTools(p)
  PROVE  McpInv'
<1>1. mcProc[p].at = "save" /\ mcProc'[p].at = "rebuild" /\ OnlyMoves(p)
  BY DEF McpInv, ProcTyping, SaveTools, Goto, McpRecs, OnlyMoves, snapping, mcBounds, Making
<1>2. UNCHANGED <<mcReal, mcSession, mcMade, mcOpen, mcBroken, snapping, mcLoop, mcClose, mcBounds>>
  BY DEF SaveTools
<1>3. McpTyping'
  <2>1. mcProc[p].srv \in Servers /\ mcProc[p].tools \in McpLists
    BY DEF McpInv, ProcTyping, McpRecs
  <2>2. mcTools' \in [Servers -> McpLists]
    BY <2>1 DEF McpInv, McpTyping, SaveTools
  <2>3. QED
    BY <1>2, <2>2 DEF McpInv, McpTyping, snapping, mcBounds
<1>4. OneMaker' /\ OpenOwned' /\ ClosedStay'
  BY <1>1, <1>2, MoveOutside DEF Making
<1>5. SnapInv'
  BY <1>1, MoveToRebuild
<1>6. QED
  BY <1>1, <1>3, <1>4, <1>5, MoveRoles DEF McpInv, OnlyMoves

LEMMA ReturnKeeps ==
  ASSUME McpInv, NEW p \in McpProcs, Return(p)
  PROVE  McpInv'
<1>1. mcProc[p].at = "calling" /\ mcProc'[p].at \in {"idle", "dead"} /\ OnlyMoves(p)
  <2>1. CASE Goto(p, "idle")
    BY <2>1 DEF McpInv, ProcTyping, Return, Goto, McpRecs, OnlyMoves, snapping, mcBounds, Making
  <2>2. CASE Goto(p, "dead")
    BY <2>2 DEF McpInv, ProcTyping, Return, Goto, McpRecs, OnlyMoves, snapping, mcBounds, Making
  <2>3. QED
    BY <2>1, <2>2 DEF Return
<1>2. UNCHANGED <<mcReal, sessions, snapping, mcLoop, mcClose, mcBounds>>
  BY DEF Return
<1>3. McpTyping'
  BY <1>2 DEF McpInv, McpTyping, sessions, snapping, mcBounds
<1>4. OneMaker' /\ OpenOwned' /\ ClosedStay'
  BY <1>1, <1>2, MoveOutside DEF sessions, Making
<1>5. SnapInv'
  BY <1>1, <1>2, MoveAside DEF sessions
<1>6. QED
  BY <1>1, <1>3, <1>4, <1>5, MoveRoles DEF McpInv, OnlyMoves

LEMMA CallKeeps ==
  ASSUME McpInv, NEW c \in McpCallers, NEW s \in Servers, Call(<<"call", c>>, s)
  PROVE  McpInv'
<1>. DEFINE p == <<"call", c>>
<1>1. p \in McpProcs
  BY McpNames
<1>2. mcProc[p].at = "idle" /\ mcProc'[p].at = "calling" /\ OnlyMoves(p)
  <2>1. mcSession[s] \in Nat /\ {} \in McpLists
    BY DEF McpInv, McpTyping, McpLists
  <2>2. [Resting(s) EXCEPT !.at = "calling", !.id = mcSession[s]] \in McpRecs
    BY <2>1 DEF Resting, McpRecs
  <2>3. [Resting(s) EXCEPT !.at = "calling", !.id = mcSession[s]].at = "calling"
    BY DEF Resting
  <2>4. mcProc' = [mcProc EXCEPT ![p] = [Resting(s) EXCEPT !.at = "calling", !.id = mcSession[s]]]
    BY DEF Call
  <2>5. ProcTyping' /\ mcProc'[p].at = "calling" /\ \A q \in McpProcs : q # p => mcProc'[q] = mcProc[q]
    BY <1>1, <2>2, <2>3, <2>4, Zenon DEF McpInv, ProcTyping
  <2>6. mcProc[p].at = "idle" /\ mcLock' = mcLock /\ mcChanges' = mcChanges
    BY DEF Call, snapping
  <2>7. QED
    BY <2>5, <2>6 DEF OnlyMoves, Making
<1>3. UNCHANGED <<mcReal, sessions, snapping, mcLoop, mcClose, mcChanges>>
  BY DEF Call
<1>. HIDE DEF p
<1>4. McpTyping'
  BY <1>3 DEF McpInv, McpTyping, sessions, snapping
<1>5. OneMaker' /\ OpenOwned' /\ ClosedStay'
  BY <1>1, <1>2, <1>3, MoveOutside DEF sessions, Making
<1>6. SnapInv'
  BY <1>1, <1>2, <1>3, MoveAside DEF sessions
<1>7. QED
  BY <1>1, <1>2, <1>4, <1>5, <1>6, MoveRoles DEF McpInv, OnlyMoves

LEMMA MarkDeadKeeps ==
  ASSUME McpInv, NEW p \in McpProcs, MarkDead(p)
  PROVE  McpInv'
<1>. DEFINE s == mcProc[p].srv
<1>1. mcProc[p].at = "dead" /\ mcProc'[p].at = "rebuild" /\ OnlyMoves(p) /\ s \in Servers
  BY DEF McpInv, ProcTyping, MarkDead, Goto, McpRecs, OnlyMoves, snapping, mcBounds, Making
<1>2. /\ mcSession' = [mcSession EXCEPT ![s] = 0] /\ mcOpen' = mcOpen \ {<<s, mcSession[s]>>}
      /\ UNCHANGED <<mcReal, mcTools, mcMade, mcBroken, snapping, mcLoop, mcClose, mcBounds>>
  BY DEF MarkDead
<1>. HIDE DEF s
<1>3. McpTyping'
  BY <1>1, <1>2 DEF McpInv, McpTyping, snapping, mcBounds
<1>4. \A t \in Servers : mcProc'[Dialler(t)].at \in Making => mcProc'[Dialler(t)] = mcProc[Dialler(t)]
  BY <1>1, McpNames DEF OnlyMoves, Making
<1>5. \A t \in Servers : mcSession'[t] = IF t = s THEN 0 ELSE mcSession[t]
  BY <1>2 DEF McpInv, McpTyping
<1>6. OneMaker'
  BY <1>2, <1>4, <1>5 DEF McpInv, OneMaker, Making
<1>7. OpenOwned'
  <2>1. ASSUME NEW e \in mcOpen' PROVE
          \/ mcSession'[e[1]] = e[2]
          \/ mcProc'[Dialler(e[1])].at \in {"listing", "mount"} /\ mcProc'[Dialler(e[1])].id = e[2]
    <3>1. e \in mcOpen /\ e # <<s, mcSession[s]>>
      BY <1>2
    <3>2. e[1] \in Servers /\ e = <<e[1], e[2]>> /\ Dialler(e[1]) \in McpProcs
      BY <3>1, McpNames DEF McpInv, McpTyping
    <3>3. CASE mcSession[e[1]] = e[2]
      BY <1>5, <3>1, <3>2, <3>3
    <3>4. CASE mcProc[Dialler(e[1])].at \in {"listing", "mount"} /\ mcProc[Dialler(e[1])].id = e[2]
      <4>1. Dialler(e[1]) # p
        BY <1>1, <3>4
      <4>2. QED
        BY <3>2, <3>4, <4>1, <1>1 DEF OnlyMoves
    <3>5. QED
      BY <3>1, <3>3, <3>4 DEF McpInv, OpenOwned
  <2>2. QED
    BY <2>1 DEF OpenOwned
<1>8. ClosedStay'
  BY <1>2, <1>5 DEF McpInv, ClosedStay
<1>9. SnapInv'
  BY <1>1, MoveToRebuild
<1>10. QED
  BY <1>1, <1>3, <1>6, <1>7, <1>8, <1>9, MoveRoles DEF McpInv, OnlyMoves

-----------------------------------------------------------------------------
(* dial: the goroutines that make the sessions *)

LEMMA MakerIsDialler ==
  ASSUME McpInv, NEW p \in McpProcs, mcProc[p].at \in Making
  PROVE  /\ mcProc[p].srv \in Servers /\ p = Dialler(mcProc[p].srv) /\ mcSession[mcProc[p].srv] = 0
         /\ mcProc[p].id \in Nat /\ mcProc[p].tools \in McpLists
         /\ \A t \in Servers : t # mcProc[p].srv => Dialler(t) # p /\ Dialler(t) \in McpProcs
<1>1. mcProc[p].srv \in Servers /\ mcProc[p].id \in Nat /\ mcProc[p].tools \in McpLists
  BY DEF McpInv, ProcTyping, McpRecs
<1>2. p = Dialler(mcProc[p].srv)
  BY DEF McpInv, McpRoles
<1>3. QED
  BY <1>1, <1>2, McpNames DEF McpInv, OneMaker

LEMMA HandshakeKeeps ==
  ASSUME McpInv, NEW p \in McpProcs, Handshake(p)
  PROVE  McpInv'
<1>. DEFINE s == mcProc[p].srv
<1>1. mcProc[p].at = "connect" /\ mcProc[p].at \in Making
  BY DEF Handshake, Making
<1>2. /\ s \in Servers /\ p = Dialler(s) /\ mcSession[s] = 0
      /\ \A t \in Servers : t # s => Dialler(t) # p /\ Dialler(t) \in McpProcs
  BY <1>1, MakerIsDialler
<1>3. mcMade[s] \in Nat /\ mcMade[s] + 1 \in Nat \ {0}
  BY <1>2 DEF McpInv, McpTyping
<1>4. UNCHANGED <<mcReal, mcSession, mcTools, mcBroken, snapping, mcLoop, mcClose>> /\ mcChanges' = mcChanges
  BY DEF Handshake, FailsIf, McpFault, mcBounds
<1>5. CASE /\ mcMade' = [mcMade EXCEPT ![s] = @ + 1] /\ mcOpen' = mcOpen \cup {<<s, mcMade[s] + 1>>}
           /\ mcProc' = [mcProc EXCEPT ![p].at = "listing", ![p].id = mcMade[s] + 1]
  <2>1. OnlyMoves(p) /\ mcProc'[p].at = "listing" /\ mcProc'[p].id = mcMade[s] + 1
    BY <1>1, <1>3, <1>4, <1>5 DEF McpInv, ProcTyping, McpRecs, OnlyMoves, snapping, Making
  <2>2. /\ mcMade'[s] = mcMade[s] + 1 /\ mcMade' \in [Servers -> Nat]
        /\ \A t \in Servers : t # s => mcMade'[t] = mcMade[t]
    BY <1>2, <1>3, <1>5 DEF McpInv, McpTyping
  <2>3. \A t \in Servers : t # s => mcProc'[Dialler(t)] = mcProc[Dialler(t)]
    BY <1>2, <2>1 DEF OnlyMoves
  <2>. HIDE DEF s
  <2>4. McpTyping'
    BY <1>2, <1>3, <1>4, <1>5, <2>2 DEF McpInv, McpTyping, snapping
  <2>5. OneMaker'
    BY <1>2, <1>4, <2>1, <2>2, <2>3 DEF McpInv, OneMaker, Making
  <2>6. OpenOwned'
    <3>1. ASSUME NEW e \in mcOpen' PROVE
            \/ mcSession'[e[1]] = e[2]
            \/ mcProc'[Dialler(e[1])].at \in {"listing", "mount"} /\ mcProc'[Dialler(e[1])].id = e[2]
      <4>1. CASE e = <<s, mcMade[s] + 1>>
        BY <1>2, <2>1, <4>1
      <4>2. CASE e \in mcOpen
        <5>1. e[1] \in Servers
          BY <4>2 DEF McpInv, McpTyping
        <5>2. CASE e[1] = s
          BY <1>1, <1>2, <1>4, <4>2, <5>2 DEF McpInv, OpenOwned
        <5>3. CASE e[1] # s
          BY <1>4, <2>3, <4>2, <5>1, <5>3 DEF McpInv, OpenOwned
        <5>4. QED
          BY <5>2, <5>3
      <4>3. QED
        BY <1>5, <4>1, <4>2
    <3>2. QED
      BY <3>1 DEF OpenOwned
  <2>7. ClosedStay'
    BY <1>4 DEF McpInv, ClosedStay
  <2>8. SnapInv'
    BY <1>4, <2>1, MoveAside
  <2>9. QED
    BY <2>1, <2>4, <2>5, <2>6, <2>7, <2>8, MoveRoles DEF McpInv, OnlyMoves
<1>6. CASE mcProc' = [mcProc EXCEPT ![p].at = "mount", ![p].id = 0] /\ UNCHANGED <<mcMade, mcOpen>>
  <2>1. OnlyMoves(p) /\ mcProc'[p].at = "mount" /\ mcProc'[p].id = 0
    BY <1>1, <1>4, <1>6 DEF McpInv, ProcTyping, McpRecs, OnlyMoves, snapping, Making
  <2>2. \A t \in Servers : t # s => mcProc'[Dialler(t)] = mcProc[Dialler(t)]
    BY <1>2, <2>1 DEF OnlyMoves
  <2>. HIDE DEF s
  <2>3. McpTyping'
    BY <1>4, <1>6 DEF McpInv, McpTyping, snapping
  <2>4. OneMaker'
    BY <1>2, <1>4, <1>6, <2>1, <2>2 DEF McpInv, OneMaker, Making
  <2>5. OpenOwned'
    <3>1. ASSUME NEW e \in mcOpen PROVE
            \/ mcSession[e[1]] = e[2]
            \/ mcProc'[Dialler(e[1])].at \in {"listing", "mount"} /\ mcProc'[Dialler(e[1])].id = e[2]
      <4>1. e[1] \in Servers
        BY DEF McpInv, McpTyping
      <4>2. CASE e[1] = s
        BY <1>1, <1>2, <4>2 DEF McpInv, OpenOwned
      <4>3. CASE e[1] # s
        BY <2>2, <4>1, <4>3 DEF McpInv, OpenOwned
      <4>4. QED
        BY <4>2, <4>3
    <3>2. QED
      BY <1>4, <1>6, <3>1 DEF OpenOwned
  <2>6. ClosedStay'
    BY <1>4 DEF McpInv, ClosedStay
  <2>7. SnapInv'
    BY <1>4, <2>1, MoveAside
  <2>8. QED
    BY <2>1, <2>3, <2>4, <2>5, <2>6, <2>7, MoveRoles DEF McpInv, OnlyMoves
<1>7. QED
  BY <1>5, <1>6 DEF Handshake

LEMMA FirstListKeeps ==
  ASSUME McpInv, NEW p \in McpProcs, FirstList(p)
  PROVE  McpInv'
<1>. DEFINE s == mcProc[p].srv
            id == mcProc[p].id
<1>1. mcProc[p].at = "listing" /\ mcProc[p].at \in Making
  BY DEF FirstList, Making
<1>2. /\ s \in Servers /\ p = Dialler(s) /\ mcSession[s] = 0
      /\ \A t \in Servers : t # s => Dialler(t) # p /\ Dialler(t) \in McpProcs
  BY <1>1, MakerIsDialler
<1>3. id = mcMade[s] /\ Offer(s) \in McpLists
  BY <1>1, <1>2, OfferIsList DEF McpInv, OneMaker
<1>4. UNCHANGED <<mcReal, mcSession, mcTools, mcMade, mcBroken, snapping, mcLoop, mcClose>> /\ mcChanges' = mcChanges
  BY DEF FirstList, FailsIf, McpFault, mcBounds
<1>5. /\ OnlyMoves(p) /\ mcProc'[p].at = "mount"
      /\ \/ mcProc'[p].id = id /\ mcOpen' = mcOpen
         \/ mcProc'[p].id = 0 /\ mcOpen' = mcOpen \ {<<s, id>>}
  <2>1. CASE mcProc' = [mcProc EXCEPT ![p].at = "mount", ![p].tools = Offer(s)] /\ UNCHANGED mcOpen
    BY <1>1, <1>3, <1>4, <2>1 DEF McpInv, ProcTyping, McpRecs, OnlyMoves, snapping, Making
  <2>2. CASE mcProc' = [mcProc EXCEPT ![p].at = "mount", ![p].id = 0] /\ mcOpen' = mcOpen \ {<<s, id>>}
    BY <1>1, <1>4, <2>2 DEF McpInv, ProcTyping, McpRecs, OnlyMoves, snapping, Making
  <2>3. QED
    BY <2>1, <2>2 DEF FirstList
<1>6. \A t \in Servers : t # s => mcProc'[Dialler(t)] = mcProc[Dialler(t)]
  BY <1>2, <1>5 DEF OnlyMoves
<1>. HIDE DEF s, id
<1>7. McpTyping'
  BY <1>4, <1>5 DEF McpInv, McpTyping, snapping
<1>8. OneMaker'
  BY <1>2, <1>3, <1>4, <1>5, <1>6 DEF McpInv, OneMaker, Making
<1>9. OpenOwned'
  <2>1. ASSUME NEW e \in mcOpen' PROVE
          \/ mcSession'[e[1]] = e[2]
          \/ mcProc'[Dialler(e[1])].at \in {"listing", "mount"} /\ mcProc'[Dialler(e[1])].id = e[2]
    <3>1. e \in mcOpen /\ e[1] \in Servers /\ e[2] \in Nat \ {0} /\ e = <<e[1], e[2]>>
      BY <1>5 DEF McpInv, McpTyping
    <3>2. CASE e[1] = s
      <4>1. e[2] = id
        BY <1>2, <3>1, <3>2 DEF McpInv, OpenOwned, id
      <4>2. mcOpen' = mcOpen /\ mcProc'[p].id = id
        BY <1>5, <3>1, <3>2, <4>1
      <4>3. QED
        BY <1>2, <1>5, <3>2, <4>1, <4>2
    <3>3. CASE e[1] # s
      BY <1>4, <1>6, <3>1, <3>3 DEF McpInv, OpenOwned
    <3>4. QED
      BY <3>2, <3>3
  <2>2. QED
    BY <2>1 DEF OpenOwned
<1>10. ClosedStay'
  BY <1>4 DEF McpInv, ClosedStay
<1>11. SnapInv'
  BY <1>4, <1>5, MoveAside
<1>12. QED
  BY <1>5, <1>7, <1>8, <1>9, <1>10, <1>11, MoveRoles DEF McpInv, OnlyMoves

LEMMA MountKeeps ==
  ASSUME McpInv, NEW p \in McpProcs, Mount(p)
  PROVE  McpInv'
<1>. DEFINE s == mcProc[p].srv
            id == mcProc[p].id
<1>1. mcProc[p].at = "mount" /\ mcProc[p].at \in Making
  BY DEF Mount, Making
<1>2. /\ s \in Servers /\ p = Dialler(s) /\ mcSession[s] = 0 /\ id \in Nat /\ mcProc[p].tools \in McpLists
      /\ \A t \in Servers : t # s => Dialler(t) # p /\ Dialler(t) \in McpProcs
  BY <1>1, MakerIsDialler
<1>3. id \in {0, mcMade[s]}
  BY <1>1, <1>2 DEF McpInv, OneMaker
<1>4. UNCHANGED <<mcReal, mcMade, mcBroken, snapping, mcLoop, mcClose>> /\ mcChanges' = mcChanges
  BY DEF Mount, mcBounds
<1>5. CASE Closing
  <2>1. /\ mcOpen' = mcOpen \ {<<s, id>>} /\ UNCHANGED <<mcSession, mcTools>>
        /\ OnlyMoves(p) /\ mcProc'[p].at = "idle"
    BY <1>1, <1>4, <1>5 DEF Mount, Goto, McpInv, ProcTyping, McpRecs, OnlyMoves, snapping, Making
  <2>2. \A t \in Servers : t # s => mcProc'[Dialler(t)] = mcProc[Dialler(t)]
    BY <1>2, <2>1 DEF OnlyMoves
  <2>. HIDE DEF s, id
  <2>3. McpTyping'
    BY <1>4, <2>1 DEF McpInv, McpTyping, snapping
  <2>4. OneMaker'
    BY <1>2, <1>4, <2>1, <2>2 DEF McpInv, OneMaker, Making
  <2>5. OpenOwned'
    <3>1. ASSUME NEW e \in mcOpen' PROVE
            \/ mcSession'[e[1]] = e[2]
            \/ mcProc'[Dialler(e[1])].at \in {"listing", "mount"} /\ mcProc'[Dialler(e[1])].id = e[2]
      <4>1. e \in mcOpen /\ e[1] \in Servers /\ e[2] \in Nat \ {0} /\ e = <<e[1], e[2]>> /\ e # <<s, id>>
        BY <2>1 DEF McpInv, McpTyping
      <4>2. CASE e[1] = s
        BY <1>2, <4>1, <4>2 DEF McpInv, OpenOwned, id
      <4>3. CASE e[1] # s
        BY <2>1, <2>2, <4>1, <4>3 DEF McpInv, OpenOwned
      <4>4. QED
        BY <4>2, <4>3
    <3>2. QED
      BY <3>1 DEF OpenOwned
  <2>6. ClosedStay'
    BY <1>4, <2>1 DEF McpInv, ClosedStay
  <2>7. SnapInv'
    BY <1>4, <2>1, MoveAside
  <2>8. QED
    BY <2>1, <2>3, <2>4, <2>5, <2>6, <2>7, MoveRoles DEF McpInv, OnlyMoves
<1>6. CASE ~ Closing
  <2>1. /\ mcOpen' = mcOpen /\ mcSession' = [mcSession EXCEPT ![s] = id]
        /\ mcTools' = IF id = 0 THEN mcTools ELSE [mcTools EXCEPT ![s] = mcProc[p].tools]
        /\ Goto(p, IF id = 0 THEN "idle" ELSE "rebuild")
    BY <1>6 DEF Mount
  <2>2. OnlyMoves(p) /\ mcProc'[p].at = (IF id = 0 THEN "idle" ELSE "rebuild")
    <3>1. CASE id = 0
      BY <1>1, <1>4, <2>1, <3>1 DEF Goto, McpInv, ProcTyping, McpRecs, OnlyMoves, snapping, Making
    <3>2. CASE id # 0
      BY <1>1, <1>4, <2>1, <3>2 DEF Goto, McpInv, ProcTyping, McpRecs, OnlyMoves, snapping, Making
    <3>3. QED
      BY <3>1, <3>2
  <2>3. \A t \in Servers : t # s => mcProc'[Dialler(t)] = mcProc[Dialler(t)]
    BY <1>2, <2>2 DEF OnlyMoves
  <2>4. mcProc'[p].at \notin Making
    BY <2>2 DEF Making
  <2>. HIDE DEF s
  <2>5. \A t \in Servers : mcSession'[t] = IF t = s THEN id ELSE mcSession[t]
    BY <1>2, <2>1 DEF McpInv, McpTyping
  <2>6. McpTyping'
    <3>1. mcSession' \in [Servers -> Nat] /\ mcTools' \in [Servers -> McpLists]
      BY <1>2, <2>1 DEF McpInv, McpTyping
    <3>2. QED
      BY <1>4, <2>1, <3>1 DEF McpInv, McpTyping, snapping
  <2>7. OneMaker'
    BY <1>2, <1>3, <1>4, <2>3, <2>4, <2>5 DEF McpInv, OneMaker, Making
  <2>8. OpenOwned'
    <3>1. ASSUME NEW e \in mcOpen PROVE
            \/ mcSession'[e[1]] = e[2]
            \/ mcProc'[Dialler(e[1])].at \in {"listing", "mount"} /\ mcProc'[Dialler(e[1])].id = e[2]
      <4>1. e[1] \in Servers /\ e[2] \in Nat \ {0}
        BY DEF McpInv, McpTyping
      <4>2. CASE e[1] = s
        BY <1>2, <2>5, <4>1, <4>2 DEF McpInv, OpenOwned
      <4>3. CASE e[1] # s
        BY <2>3, <2>5, <4>1, <4>3 DEF McpInv, OpenOwned
      <4>4. QED
        BY <4>2, <4>3
    <3>2. QED
      BY <2>1, <3>1 DEF OpenOwned
  <2>9. ClosedStay'
    BY <1>4, <1>6, McpNames DEF McpInv, McpTyping, ClosedStay, Closing
  <2>10. SnapInv'
    <3>1. CASE id = 0
      <4>1. mcSession' = mcSession /\ mcTools' = mcTools
        BY <1>2, <2>1, <3>1 DEF McpInv, McpTyping
      <4>2. QED
        BY <1>4, <2>2, <3>1, <4>1, MoveAside
    <3>2. CASE id # 0
      BY <2>2, <3>2, MoveToRebuild
    <3>3. QED
      BY <3>1, <3>2
  <2>11. QED
    BY <2>2, <2>6, <2>7, <2>8, <2>9, <2>10, MoveRoles DEF McpInv, OnlyMoves
<1>7. QED
  BY <1>5, <1>6

-----------------------------------------------------------------------------
(* rebuildSnapshot *)

LEMMA LockRebuildKeeps ==
  ASSUME McpInv, NEW p \in McpProcs, LockRebuild(p)
  PROVE  McpInv'
<1>1. /\ mcProc[p].at = "rebuild" /\ mcLock = <<>> /\ mcLock' = p /\ mcLeft' = Servers /\ mcGot' = {}
      /\ UNCHANGED <<mcReal, mcSession, mcTools, mcMade, mcOpen, mcProc, mcSnap, mcLoop, mcClose, mcChanges>>
  BY DEF LockRebuild, sessions, mcBounds
<1>2. McpTyping' /\ ProcTyping'
  BY <1>1 DEF McpInv, McpTyping, ProcTyping
<1>3. McpRoles'
  BY <1>1 DEF McpInv, McpRoles
<1>4. OneMaker' /\ OpenOwned' /\ ClosedStay'
  BY <1>1 DEF McpInv, OneMaker, OpenOwned, ClosedStay
<1>5. SnapInv'
  <2>1. LiveIn(Servers \ Servers)' = {}
    BY DEF LiveIn
  <2>2. QED
    BY <1>1, <2>1, McpNames DEF SnapInv
<1>6. QED
  BY <1>2, <1>3, <1>4, <1>5 DEF McpInv

LEMMA ReadServerKeeps ==
  ASSUME McpInv, ReadServer
  PROVE  McpInv'
<1>. DEFINE s == Min(mcLeft)
<1>1. /\ mcLock # <<>> /\ mcLeft # {} /\ mcLeft' = mcLeft \ {s}
      /\ mcGot' = IF mcSession[s] # 0 /\ s \in Injected THEN mcGot \cup ({s} \X mcTools[s]) ELSE mcGot
      /\ UNCHANGED <<mcReal, mcSession, mcTools, mcMade, mcOpen, mcProc, mcLock, mcSnap, mcLoop, mcClose, mcChanges>>
  BY DEF ReadServer, sessions, mcBounds
<1>2. s \in mcLeft /\ mcLeft \subseteq Servers
  <2>1. mcLeft \in SUBSET Nat /\ mcLeft \subseteq Servers
    BY McpNames DEF McpInv, McpTyping
  <2>2. QED
    BY <1>1, <2>1, MinIsIn
<1>. HIDE DEF s
<1>3. McpTyping' /\ ProcTyping'
  BY <1>1 DEF McpInv, McpTyping, ProcTyping
<1>4. McpRoles'
  BY <1>1 DEF McpInv, McpRoles
<1>5. OneMaker' /\ OpenOwned' /\ ClosedStay'
  BY <1>1 DEF McpInv, OneMaker, OpenOwned, ClosedStay
<1>6. SnapInv'
  <2>1. mcGot' = mcGot \cup LiveOf(s)
    BY <1>1 DEF LiveOf
  <2>2. Servers \ mcLeft' = (Servers \ mcLeft) \cup {s}
    BY <1>1, <1>2
  <2>3. LiveIn((Servers \ mcLeft) \cup {s}) = LiveIn(Servers \ mcLeft) \cup LiveOf(s)
    BY DEF LiveIn
  <2>4. LiveIn(Servers \ mcLeft)' = LiveIn(Servers \ mcLeft')
    BY <1>1 DEF LiveIn, LiveOf
  <2>5. (~ Closing)' = ~ Closing /\ NobodyElse' = NobodyElse
    BY <1>1 DEF Closing, NobodyElse
  <2>6. QED
    BY <1>1, <2>1, <2>2, <2>3, <2>4, <2>5 DEF McpInv, SnapInv
<1>7. QED
  BY <1>3, <1>4, <1>5, <1>6 DEF McpInv

LEMMA PublishKeeps ==
  ASSUME McpInv, Publish
  PROVE  McpInv'
<1>. DEFINE p == mcLock
<1>1. /\ p # <<>> /\ mcLeft = {} /\ mcSnap' = mcGot /\ mcLock' = <<>>
      /\ mcProc' = [mcProc EXCEPT ![p] = Resting(mcProc[p].srv)]
      /\ UNCHANGED <<mcReal, mcSession, mcTools, mcMade, mcOpen, mcLeft, mcLoop, mcClose, mcChanges>>
  BY DEF Publish, sessions, mcBounds
<1>2. p \in McpProcs /\ mcProc[p].at = "rebuild" /\ mcProc[p].srv \in Servers
  BY <1>1 DEF McpInv, McpTyping, McpRoles, ProcTyping, McpRecs
<1>3. Resting(mcProc[p].srv) \in McpRecs /\ Resting(mcProc[p].srv).at = "idle"
      /\ Resting(mcProc[p].srv).srv = mcProc[p].srv
  BY <1>2 DEF Resting, McpRecs, McpLists
<1>4. /\ ProcTyping' /\ \A q \in McpProcs : q # p => mcProc'[q] = mcProc[q]
      /\ mcProc'[p] = Resting(mcProc[p].srv)
  BY <1>1, <1>2, <1>3, Zenon DEF McpInv, ProcTyping
<1>5. mcProc'[p].at = "idle" /\ mcProc'[p].srv = mcProc[p].srv
  BY <1>3, <1>4
<1>6. McpTyping'
  BY <1>1 DEF McpInv, McpTyping
<1>. HIDE DEF p
<1>7. \A s \in Servers : mcProc'[Dialler(s)].at \in Making => mcProc'[Dialler(s)] = mcProc[Dialler(s)]
  BY <1>4, <1>5, McpNames DEF Making
<1>8. McpRoles'
  <2>1. \A s \in Servers : mcProc'[Dialler(s)].srv = s
    BY <1>4, <1>5, McpNames DEF McpInv, McpRoles
  <2>2. \A q \in McpProcs : mcProc'[q].at \in Making => mcProc'[q] = mcProc[q]
    BY <1>4, <1>5 DEF Making
  <2>3. \A k \in 1..McpChanges : k > mcChanges => mcProc'[Refresher(k)].at = "idle"
    BY <1>4, <1>5, McpNames DEF McpInv, McpRoles
  <2>4. QED
    BY <1>1, <2>1, <2>2, <2>3 DEF McpInv, McpRoles
<1>9. OneMaker'
  BY <1>1, <1>7 DEF McpInv, OneMaker, Making
<1>10. OpenOwned'
  <2>1. ASSUME NEW e \in mcOpen PROVE
          \/ mcSession[e[1]] = e[2]
          \/ mcProc'[Dialler(e[1])].at \in {"listing", "mount"} /\ mcProc'[Dialler(e[1])].id = e[2]
    <3>1. e[1] \in Servers /\ Dialler(e[1]) \in McpProcs
      BY McpNames DEF McpInv, McpTyping
    <3>2. CASE Dialler(e[1]) = p
      BY <1>2, <3>2 DEF McpInv, OpenOwned
    <3>3. CASE Dialler(e[1]) # p
      BY <1>4, <3>1, <3>3 DEF McpInv, OpenOwned
    <3>4. QED
      BY <3>2, <3>3
  <2>2. QED
    BY <1>1, <2>1 DEF OpenOwned
<1>11. ClosedStay'
  BY <1>1 DEF McpInv, ClosedStay
<1>12. SnapInv'
  <2>1. NobodyElse' => NobodyElse
    BY <1>1, <1>4, McpNames DEF NobodyElse, p
  <2>2. Servers \ mcLeft = Servers
    BY <1>1
  <2>3. LiveIn(Servers)' = LiveIn(Servers)
    BY <1>1 DEF LiveIn, LiveOf
  <2>4. QED
    BY <1>1, <2>1, <2>2, <2>3 DEF McpInv, SnapInv, Closing, p
<1>13. QED
  BY <1>4, <1>6, <1>8, <1>9, <1>10, <1>11, <1>12 DEF McpInv

-----------------------------------------------------------------------------
(* The services, reconnectLoop and Close *)

LEMMA ReconnectKeeps ==
  ASSUME McpInv, Reconnect
  PROVE  McpInv'
<1>1. UNCHANGED <<mcReal, sessions, snapping, mcClose, mcBounds>>
  BY DEF Reconnect
<1>2. McpTyping'
  <2>1. mcLoop' \in 0..AllDone
    BY McpNames DEF McpInv, McpTyping, Reconnect
  <2>2. QED
    BY <1>1, <2>1 DEF McpInv, McpTyping, sessions, snapping, mcBounds
<1>3. CASE ~ (mcLoop \in Servers /\ mcSession[mcLoop] = 0)
  <2>1. mcProc' = mcProc
    BY <1>3 DEF Reconnect
  <2>2. QED
    BY <1>1, <1>2, <2>1 DEF McpInv, ProcTyping, McpRoles, OneMaker, OpenOwned, ClosedStay, SnapInv, NobodyElse,
                            LiveIn, LiveOf, Closing, sessions, snapping, mcBounds
<1>4. CASE mcLoop \in Servers /\ mcSession[mcLoop] = 0
  <2>. DEFINE p == Dialler(mcLoop)
  <2>1. mcProc' = [mcProc EXCEPT ![p].at = "gate"] /\ p \in McpProcs /\ mcProc[p].at = "idle"
    BY <1>4, McpNames DEF Reconnect, DialledAll
  <2>2. /\ ProcTyping' /\ \A q \in McpProcs : q # p => mcProc'[q] = mcProc[q]
        /\ mcProc'[p].at = "gate" /\ mcProc'[p].srv = mcProc[p].srv
    BY <2>1 DEF McpInv, ProcTyping, McpRecs
  <2>3. mcProc[p].srv = mcLoop
    BY <1>4 DEF McpInv, McpRoles
  <2>4. \A t \in Servers : t # mcLoop => mcProc'[Dialler(t)] = mcProc[Dialler(t)]
    BY <1>4, <2>2, McpNames
  <2>5. McpRoles'
    <3>1. \A s \in Servers : mcProc'[Dialler(s)].srv = s
      BY <2>2, <2>3, <2>4 DEF McpInv, McpRoles
    <3>2. \A q \in McpProcs : mcProc'[q].at \in Making => q = Dialler(mcProc'[q].srv)
      BY <2>2, <2>3 DEF McpInv, McpRoles
    <3>3. \A k \in 1..McpChanges : mcProc'[Refresher(k)] = mcProc[Refresher(k)]
      BY <1>4, <2>2, McpNames
    <3>4. mcLock # <<>> => mcProc'[mcLock].at = "rebuild"
      BY <2>1, <2>2 DEF McpInv, McpRoles, McpTyping
    <3>5. QED
      BY <1>1, <3>1, <3>2, <3>3, <3>4 DEF McpInv, McpRoles, snapping, mcBounds
  <2>. HIDE DEF p
  <2>6. OneMaker'
    BY <1>1, <1>4, <2>2, <2>4 DEF McpInv, OneMaker, sessions, p
  <2>7. OpenOwned'
    <3>1. ASSUME NEW e \in mcOpen PROVE
            \/ mcSession[e[1]] = e[2]
            \/ mcProc'[Dialler(e[1])].at \in {"listing", "mount"} /\ mcProc'[Dialler(e[1])].id = e[2]
      <4>1. e[1] \in Servers
        BY DEF McpInv, McpTyping
      <4>2. CASE e[1] = mcLoop
        BY <2>1, <4>2 DEF McpInv, OpenOwned, p
      <4>3. CASE e[1] # mcLoop
        BY <2>4, <4>1, <4>3 DEF McpInv, OpenOwned
      <4>4. QED
        BY <4>2, <4>3
    <3>2. QED
      BY <1>1, <3>1 DEF OpenOwned, sessions
  <2>8. ClosedStay'
    BY <1>1 DEF McpInv, ClosedStay, sessions
  <2>9. SnapInv'
    <3>1. NobodyElse' => NobodyElse
      BY <1>1, <2>1, <2>2 DEF NobodyElse, snapping
    <3>2. QED
      BY <1>1, <3>1 DEF McpInv, SnapInv, LiveIn, LiveOf, Closing, sessions, snapping
  <2>10. QED
    BY <1>2, <2>2, <2>5, <2>6, <2>7, <2>8, <2>9 DEF McpInv
<1>5. QED
  BY <1>3, <1>4

LEMMA CloseManagerKeeps ==
  ASSUME McpInv, CloseManager
  PROVE  McpInv'
<1>1. UNCHANGED <<mcReal, sessions, mcProc, snapping, mcLoop, mcBounds>> /\ mcClose' = 1
  BY DEF CloseManager
<1>2. McpTyping'
  <2>1. 1 \in 0..AllDone
    BY McpNames
  <2>2. QED
    BY <1>1, <2>1 DEF McpInv, McpTyping, sessions, snapping, mcBounds
<1>3. ProcTyping' /\ McpRoles' /\ OneMaker' /\ OpenOwned'
  BY <1>1 DEF McpInv, ProcTyping, McpRoles, OneMaker, OpenOwned, sessions, snapping, mcBounds
<1>4. ClosedStay'
  BY <1>1, McpNames DEF ClosedStay
<1>5. SnapInv'
  BY <1>1 DEF SnapInv, Closing
<1>6. QED
  BY <1>2, <1>3, <1>4, <1>5 DEF McpInv

LEMMA CloseServerKeeps ==
  ASSUME McpInv, CloseServer
  PROVE  McpInv'
<1>. DEFINE s == mcClose
<1>1. /\ s \in Servers /\ mcClose' = s + 1 /\ mcSession' = [mcSession EXCEPT ![s] = 0]
      /\ mcOpen' = mcOpen \ {<<s, mcSession[s]>>}
      /\ UNCHANGED <<mcReal, mcTools, mcMade, mcProc, snapping, mcLoop, mcBounds>>
  BY DEF CloseServer
<1>2. \A t \in Servers : mcSession'[t] = IF t = s THEN 0 ELSE mcSession[t]
  BY <1>1 DEF McpInv, McpTyping
<1>3. McpTyping'
  <2>1. mcClose' \in 0..AllDone
    BY <1>1, McpNames
  <2>2. mcSession' \in [Servers -> Nat]
    BY <1>1 DEF McpInv, McpTyping
  <2>3. QED
    BY <1>1, <2>1, <2>2 DEF McpInv, McpTyping, snapping, mcBounds
<1>. HIDE DEF s
<1>4. ProcTyping' /\ McpRoles' /\ OneMaker'
  BY <1>1, <1>2 DEF McpInv, ProcTyping, McpRoles, OneMaker, snapping, mcBounds
<1>5. OpenOwned'
  <2>1. ASSUME NEW e \in mcOpen' PROVE
          \/ mcSession'[e[1]] = e[2]
          \/ mcProc'[Dialler(e[1])].at \in {"listing", "mount"} /\ mcProc'[Dialler(e[1])].id = e[2]
    <3>1. e \in mcOpen /\ e[1] \in Servers /\ e = <<e[1], e[2]>> /\ e # <<s, mcSession[s]>>
      BY <1>1 DEF McpInv, McpTyping
    <3>2. QED
      BY <1>1, <1>2, <3>1 DEF McpInv, OpenOwned
  <2>2. QED
    BY <2>1 DEF OpenOwned
<1>6. ClosedStay'
  BY <1>1, <1>2, McpNames DEF McpInv, ClosedStay, s
<1>7. SnapInv'
  BY <1>1, McpNames DEF SnapInv, Closing
<1>8. QED
  BY <1>3, <1>4, <1>5, <1>6, <1>7 DEF McpInv

LEMMA ChangeToolsKeeps ==
  ASSUME McpInv, NEW s \in Servers, ChangeTools(s)
  PROVE  McpInv'
<1>. DEFINE p == Refresher(mcChanges + 1)
<1>1. /\ mcChanges < McpChanges /\ mcChanges' = mcChanges + 1 /\ mcReal' = [mcReal EXCEPT ![s] = @ + 1]
      /\ UNCHANGED <<sessions, snapping, mcLoop, mcClose>>
  BY DEF ChangeTools
<1>2. /\ mcChanges + 1 \in 1..McpChanges /\ mcChanges' \in 0..McpChanges /\ p \in McpProcs
      /\ \A t \in Servers : Dialler(t) # p
      /\ \A k \in 1..McpChanges : k > mcChanges' => Refresher(k) # p /\ k > mcChanges
  <2>1. mcChanges + 1 \in 1..McpChanges /\ mcChanges' \in 0..McpChanges
    BY <1>1, McpNames DEF McpInv, McpTyping
  <2>2. \A k \in 1..McpChanges : k > mcChanges' => k # mcChanges + 1 /\ k > mcChanges
    BY <1>1 DEF McpInv, McpTyping
  <2>3. QED
    BY <2>1, <2>2, McpNames
<1>3. McpTyping'
  <2>1. mcReal' \in [Servers -> Nat \ {0}] /\ \A t \in Servers : mcReal'[t] <= mcChanges' + 1
    BY <1>1 DEF McpInv, McpTyping
  <2>2. QED
    BY <1>1, <1>2, <2>1 DEF McpInv, McpTyping, sessions, snapping
<1>4. mcProc[p].at = "idle"
  BY <1>1, <1>2 DEF McpInv, McpRoles, McpTyping
<1>5. /\ ProcTyping' /\ \A q \in McpProcs : q # p => mcProc'[q] = mcProc[q]
      /\ mcProc'[p].at \in {"idle", "capture"}
  <2>1. CASE mcProc' = mcProc
    BY <1>4, <2>1 DEF McpInv, ProcTyping
  <2>2. CASE mcProc' = [mcProc EXCEPT ![p] = [Resting(s) EXCEPT !.at = "capture"]]
    <3>1. [Resting(s) EXCEPT !.at = "capture"] \in McpRecs /\ [Resting(s) EXCEPT !.at = "capture"].at = "capture"
      BY DEF Resting, McpRecs, McpLists
    <3>2. QED
      BY <1>2, <2>2, <3>1, Zenon DEF McpInv, ProcTyping
  <2>3. QED
    BY <2>1, <2>2 DEF ChangeTools
<1>. HIDE DEF p
<1>6. McpRoles'
  <2>1. \A q \in McpProcs : mcProc'[q].at \in Making => mcProc'[q] = mcProc[q]
    BY <1>5 DEF Making
  <2>2. \A t \in Servers : mcProc'[Dialler(t)] = mcProc[Dialler(t)]
    BY <1>2, <1>5, McpNames
  <2>3. \A k \in 1..McpChanges : k > mcChanges' => mcProc'[Refresher(k)].at = "idle"
    BY <1>2, <1>5, McpNames DEF McpInv, McpRoles
  <2>4. mcLock # <<>> => mcProc'[mcLock].at = "rebuild"
    BY <1>4, <1>5 DEF McpInv, McpTyping, McpRoles
  <2>5. QED
    BY <1>1, <2>1, <2>2, <2>3, <2>4 DEF McpInv, McpRoles, snapping
<1>7. OneMaker' /\ ClosedStay'
  BY <1>1, <1>2, <1>5, McpNames DEF McpInv, OneMaker, ClosedStay, sessions
<1>8. OpenOwned'
  <2>1. \A e \in mcOpen : mcProc'[Dialler(e[1])] = mcProc[Dialler(e[1])]
    BY <1>2, <1>5, McpNames DEF McpInv, McpTyping
  <2>2. QED
    BY <1>1, <2>1 DEF McpInv, OpenOwned, sessions
<1>9. SnapInv'
  <2>1. NobodyElse' => NobodyElse
    BY <1>1, <1>4, <1>5 DEF NobodyElse, snapping
  <2>2. QED
    BY <1>1, <2>1 DEF McpInv, SnapInv, LiveIn, LiveOf, Closing, sessions, snapping
<1>10. QED
  BY <1>3, <1>5, <1>6, <1>7, <1>8, <1>9 DEF McpInv

LEMMA BreakConnectionKeeps ==
  ASSUME McpInv, NEW s \in Servers, BreakConnection(s)
  PROVE  McpInv'
<1>1. UNCHANGED <<mcReal, mcSession, mcTools, mcMade, mcOpen, mcProc, snapping, mcLoop, mcClose, mcChanges>>
  BY DEF BreakConnection, McpFault
<1>2. QED
  BY <1>1 DEF McpInv, McpTyping, ProcTyping, McpRoles, OneMaker, OpenOwned, ClosedStay, SnapInv, NobodyElse,
              LiveIn, LiveOf, Closing, snapping

-----------------------------------------------------------------------------
LEMMA McpInvKept == McpInv /\ [McpNext]_mcVars => McpInv'
<1>. SUFFICES ASSUME McpInv, [McpNext]_mcVars PROVE McpInv'
  OBVIOUS
<1>1. ASSUME NEW p \in McpProcs, McpStep(p) PROVE McpInv'
  BY <1>1, GateKeeps, HandshakeKeeps, FirstListKeeps, MountKeeps, LockRebuildKeeps, CaptureKeeps,
     ListAgainKeeps, SaveToolsKeeps, ReturnKeeps, MarkDeadKeeps, Zenon DEF McpStep
<1>2. ASSUME NEW s \in Servers,
             ChangeTools(s) \/ BreakConnection(s) \/ \E c \in McpCallers : Call(<<"call", c>>, s)
      PROVE McpInv'
  BY <1>2, ChangeToolsKeeps, BreakConnectionKeeps, CallKeeps, Zenon
<1>3. CASE Reconnect \/ CloseManager \/ CloseServer \/ ReadServer \/ Publish
  BY <1>3, ReconnectKeeps, CloseManagerKeeps, CloseServerKeeps, ReadServerKeeps, PublishKeeps, Zenon
<1>4. CASE UNCHANGED mcVars
  BY <1>4 DEF McpInv, McpTyping, ProcTyping, McpRoles, OneMaker, OpenOwned, ClosedStay, SnapInv, NobodyElse,
              LiveIn, LiveOf, Closing, mcVars, sessions, snapping, mcBounds
<1>5. QED
  BY <1>1, <1>2, <1>3, <1>4, Zenon DEF McpNext

LEMMA McpInvariant == McpSpec => []McpInv
<1>1. QED
  BY McpInitInv, McpInvKept, PTL DEF McpSpec

(* Type correctness of sessions, lock and loops, for every number of services, callers and faults. *)
THEOREM McpTypeCorrect == McpSpec => []McpTypeOK
<1>1. McpInv => McpTypeOK
  BY DEF McpInv, McpTyping, McpRoles, OneMaker, McpLists, McpTypeOK
<1>2. QED
  BY <1>1, McpInvariant, PTL

(* After Close no session is left open, however many services were being connected meanwhile:
   whoever makes a session looks at the gate again before it hands it over. *)
THEOREM McpNoLeak == McpSpec => []NoLeakedSession
<1>1. McpInv => NoLeakedSession
  <2>1. SUFFICES ASSUME McpInv, mcClose = AllDone, DialledAll, NEW e \in mcOpen PROVE FALSE
    BY DEF NoLeakedSession
  <2>2. e[1] \in Servers /\ e[2] # 0
    BY <2>1 DEF McpInv, McpTyping
  <2>3. mcSession[e[1]] = 0
    BY <2>1, <2>2, McpNames DEF McpInv, ClosedStay
  <2>4. mcProc[Dialler(e[1])].at = "idle"
    BY <2>1, <2>2 DEF DialledAll
  <2>5. QED
    BY <2>1, <2>2, <2>3, <2>4 DEF McpInv, OpenOwned
<1>2. QED
  BY <1>1, McpInvariant, PTL

-----------------------------------------------------------------------------
(* Two tools that are given one name are one tool: of two with the same name of a service the
   number counts those before it, and the later one has more. *)
LEMMA ToolNamesDiffer ==
  ASSUME NEW E \in SUBSET (Nat \X Nat), IsFiniteSet(E), NEW e \in E, NEW f \in E, ToolName(E, e) = ToolName(E, f)
  PROVE  e = f
<1>. DEFINE alike(g) == Cardinality({h \in E : Clean[h[2]] = Clean[g[2]]}) > 1
            plain(g) == <<IF alike(g) THEN g[1] ELSE 0, Clean[g[2]]>>
            Less(g, h) == g[1] < h[1] \/ (g[1] = h[1] /\ g[2] < h[2])
            Earlier(g) == {h \in {i \in E : Less(i, g)} : plain(h) = plain(g)}
<1>1. plain(e) = plain(f) /\ 1 + Cardinality(Earlier(e)) = 1 + Cardinality(Earlier(f))
  BY DEF ToolName
<1>. HIDE DEF plain
<1>2. \A g \in E : IsFiniteSet(Earlier(g)) /\ Cardinality(Earlier(g)) \in Nat
  BY FS_Subset, FS_CardinalityType
<1>3. ASSUME NEW g \in E, NEW h \in E, Less(g, h), plain(g) = plain(h)
      PROVE  Cardinality(Earlier(g)) < Cardinality(Earlier(h))
  <2>1. Earlier(g) \cup {g} \subseteq Earlier(h)
    BY <1>3
  <2>2. g \notin Earlier(g)
    OBVIOUS
  <2>. HIDE DEF Earlier
  <2>3. Cardinality(Earlier(g) \cup {g}) = Cardinality(Earlier(g)) + 1
    BY <1>2, <2>2, FS_AddElement
  <2>4. Cardinality(Earlier(g) \cup {g}) <= Cardinality(Earlier(h))
    BY <1>2, <2>1, FS_Subset
  <2>5. QED
    BY <1>2, <2>3, <2>4
<1>4. Less(e, f) \/ Less(f, e) \/ e = f
  OBVIOUS
<1>5. Cardinality(Earlier(e)) = Cardinality(Earlier(f))
  BY <1>1, <1>2
<1>. HIDE DEF Earlier, Less
<1>6. QED
  BY <1>1, <1>2, <1>3, <1>4, <1>5

(* Every tool gets a name, and no two the same. *)
LEMMA ExposedNamesAll ==
  ASSUME NEW E \in SUBSET (Nat \X Nat), IsFiniteSet(E)
  PROVE  Range(Exposed(E)) = E /\ IsInjective(Exposed(E))
<1>1. \A e \in E : (CHOOSE f \in E : ToolName(E, f) = ToolName(E, e)) = e
  BY ToolNamesDiffer
<1>2. /\ DOMAIN Exposed(E) = {ToolName(E, e) : e \in E}
      /\ \A e \in E : Exposed(E)[ToolName(E, e)] = e
  BY <1>1 DEF Exposed
<1>3. QED
  BY <1>2 DEF Range, IsInjective

(* The snapshot the conversations read, whenever nobody is about to rebuild it: every tool of the
   services that are connected, under a name of its own, and nothing else. *)
THEOREM McpSnapshot == McpSpec => []SnapshotOfLive
<1>1. McpInv => SnapshotOfLive
  <2>1. SUFFICES ASSUME McpInv, ~ Closing, \A p \in McpProcs : mcProc[p].at # "rebuild"
        PROVE  LET live == UNION {{s} \X mcTools[s] : s \in {t \in Injected : mcSession[t] # 0}}
               IN mcSnap = live /\ Range(Exposed(mcSnap)) = live /\ IsInjective(Exposed(mcSnap))
    BY DEF SnapshotOfLive
  <2>2. mcLock = <<>> /\ NobodyElse
    BY <2>1 DEF McpInv, McpTyping, McpRoles, NobodyElse
  <2>3. mcSnap = LiveIn(Servers)
    BY <2>1, <2>2 DEF McpInv, SnapInv
  <2>4. LiveIn(Servers) = UNION {{s} \X mcTools[s] : s \in {t \in Injected : mcSession[t] # 0}}
    BY McpAssumption DEF LiveIn, LiveOf
  <2>5. \A s \in Servers : mcTools[s] \subseteq DOMAIN Clean
    <3>1. \A L \in McpLists : L \subseteq DOMAIN Clean
      BY McpAssumption DEF McpLists, Range
    <3>2. QED
      BY <2>1, <3>1 DEF McpInv, McpTyping
  <2>6. mcSnap \subseteq Servers \X DOMAIN Clean
    BY <2>3, <2>5 DEF LiveIn, LiveOf
  <2>7. IsFiniteSet(Servers \X DOMAIN Clean)
    <3>1. McpServers \in Int /\ 1 \in Int /\ IsFiniteSet(DOMAIN Clean)
      BY McpAssumption
    <3>2. IsFiniteSet(Servers)
      BY <3>1, FS_Interval DEF Servers
    <3>3. QED
      BY <3>1, <3>2, FS_Product
  <2>8. IsFiniteSet(mcSnap) /\ mcSnap \in SUBSET (Nat \X Nat)
    BY <2>6, <2>7, FS_Subset, McpAssumption, McpNames
  <2>9. Range(Exposed(mcSnap)) = mcSnap /\ IsInjective(Exposed(mcSnap))
    BY <2>8, ExposedNamesAll
  <2>10. QED
    BY <2>3, <2>4, <2>9
<1>2. QED
  BY <1>1, McpInvariant, PTL

-----------------------------------------------------------------------------
(* Of the tool services of a file no two that are kept have the same name. *)
LEMMA AcceptedDistinct ==
  ASSUME NEW R, NEW servers \in Seq(R)
  PROVE  LET kept == Accepted(servers) IN
         kept \in Seq(R) /\ \A i, j \in DOMAIN kept : kept[i].name = kept[j].name => i = j
<1>. DEFINE LeftOut(s, kept) == s.name = "" \/ ~ s.complete \/ \E i \in DOMAIN kept : kept[i].name = s.name
            N == Len(servers)
            S == Seq(R)
            Next(n, kept) == IF LeftOut(servers[n], kept) THEN kept ELSE Append(kept, servers[n])
            Is(f) == f = [n \in 0..N |-> IF n = 0 THEN <<>> ELSE Next(n, f[n - 1])]
            K == CHOOSE f : Is(f)
<1>1. Accepted(servers) = K[N]
  BY DEF Accepted
<1>2. \A n \in 1..N, kept \in S : Next(n, kept) \in S
  <2>1. SUFFICES ASSUME NEW n \in 1..N, NEW kept \in S PROVE Next(n, kept) \in S
    OBVIOUS
  <2>2. servers[n] \in R /\ Append(kept, servers[n]) \in S
    OBVIOUS
  <2>. HIDE DEF LeftOut, S
  <2>3. QED
    BY <2>2
<1>3. \E f : Is(f)
  <2>. DEFINE step == [n \in 1..N |-> [kept \in S |-> Next(n, kept)]]
  <2>1. N \in Nat /\ <<>> \in S
    OBVIOUS
  <2>2. step \in [1..N -> [S -> S]]
    <3>. HIDE DEF Next, N, S
    <3>1. QED
      BY <1>2
  <2>3. PICK f \in [0..N -> S] : f[0] = <<>> /\ \A n \in 1..N : f[n] = step[n][f[n - 1]]
    <3>. DEFINE none == <<>>
    <3>1. none \in S
      BY <2>1
    <3>. HIDE DEF step, S, N, none
    <3>2. PICK f : GoesBy(f, S, N, none, step)
      BY <2>1, <2>2, <3>1, StepByStep
    <3>3. QED
      BY <3>2 DEF none, GoesBy
  <2>4. ASSUME NEW n \in 1..N PROVE f[n] = Next(n, f[n - 1])
    <3>. HIDE DEF Next, S, N
    <3>1. n - 1 \in 0..N
      BY <2>1
    <3>2. f[n - 1] \in S
      BY <3>1
    <3>3. QED
      BY <2>3, <3>2
  <2>. HIDE DEF Next, S, N
  <2>5. f = [n \in 0..N |-> IF n = 0 THEN <<>> ELSE Next(n, f[n - 1])]
    BY <2>1, <2>3, <2>4
  <2>6. QED
    BY <2>5
<1>4. Is(K)
  <2>. HIDE DEF Is
  <2>1. QED
    BY <1>3
<1>. DEFINE Fine(kept) == kept \in S /\ \A i, j \in DOMAIN kept : kept[i].name = kept[j].name => i = j
<1>5. K[0] = <<>> /\ \A n \in 1..N : K[n] = Next(n, K[n - 1])
  <2>. HIDE DEF K, Next
  <2>1. QED
    BY <1>4
<1>6. \A n \in 1..N : \A kept : Fine(kept) => Fine(Next(n, kept))
  <2>1. SUFFICES ASSUME NEW n \in 1..N, NEW kept, Fine(kept) PROVE Fine(Next(n, kept))
    OBVIOUS
  <2>2. CASE LeftOut(servers[n], kept)
    BY <2>1, <2>2
  <2>3. CASE ~ LeftOut(servers[n], kept)
    <3>. DEFINE new == Append(kept, servers[n])
    <3>1. /\ new \in Seq(R) /\ Len(new) = Len(kept) + 1 /\ Len(kept) \in Nat
          /\ \A i \in 1..Len(kept) : new[i] = kept[i]
          /\ new[Len(kept) + 1] = servers[n] /\ DOMAIN kept = 1..Len(kept)
      BY <2>1
    <3>2. \A i \in 1..Len(kept) : kept[i].name # servers[n].name
      BY <2>3, <3>1
    <3>3. Next(n, kept) = new
      BY <2>3
    <3>4. \A i, j \in 1..Len(kept) : kept[i].name = kept[j].name => i = j
      BY <2>1, <3>1
    <3>. HIDE DEF new, Next, LeftOut
    <3>5. ASSUME NEW i \in 1..(Len(kept) + 1), NEW j \in 1..(Len(kept) + 1), new[i].name = new[j].name
          PROVE  i = j
      <4>1. CASE i \in 1..Len(kept) /\ j \in 1..Len(kept)
        BY <3>1, <3>4, <3>5, <4>1
      <4>2. CASE i = Len(kept) + 1 /\ j \in 1..Len(kept)
        BY <3>1, <3>2, <3>5, <4>2
      <4>3. CASE j = Len(kept) + 1 /\ i \in 1..Len(kept)
        BY <3>1, <3>2, <3>5, <4>3
      <4>4. CASE i = Len(kept) + 1 /\ j = Len(kept) + 1
        BY <4>4
      <4>5. QED
        BY <3>1, <4>1, <4>2, <4>3, <4>4
    <3>6. QED
      BY <3>1, <3>3, <3>5
  <2>4. QED
    BY <2>2, <2>3
<1>7. Fine(K[0])
  <2>1. Fine(<<>>)
    OBVIOUS
  <2>. HIDE DEF Fine, K
  <2>2. QED
    BY <1>5, <2>1
<1>8. \A n \in 0..N : Fine(K[n])
  <2>. DEFINE P == [n \in 0..N |-> Fine(K[n])]
  <2>1. N \in Nat /\ P \in [0..N -> BOOLEAN]
    <3>. HIDE DEF K
    <3>1. QED
      OBVIOUS
  <2>. HIDE DEF Fine, K, N, Next
  <2>2. P[0]
    BY <1>7, <2>1
  <2>3. \A n \in 1..N : P[n - 1] => P[n]
    <3>1. \A n \in 1..N : n - 1 \in 0..N /\ n \in 0..N
      BY <2>1
    <3>2. QED
      BY <1>5, <1>6, <3>1
  <2>. HIDE DEF P
  <2>4. \A n \in 0..N : P[n]
    BY <2>1, <2>2, <2>3, CountUp
  <2>5. QED
    BY <2>4 DEF P
<1>9. Fine(K[N])
  <2>1. N \in 0..N
    OBVIOUS
  <2>. HIDE DEF Fine, K, N
  <2>2. QED
    BY <1>8, <2>1
<1>10. QED
  BY <1>1, <1>9

-----------------------------------------------------------------------------
(* What runs was assembled from two files that load, and the settings are some that were saved. *)
FromFiles ==
  cfAt \in {"up", "reading"} =>
    \E doc \in ConfigDocs, secret \in SecretDocs :
      Loads(doc, secret) /\ cfSnapshot = Assembled(doc, secret)

ConfigInv == ConfigTypeOK /\ cfStamp \in Nat /\ cfRaw \in Settings \cup {NoSetting} /\ FromFiles

LEMMA ConfigInitInv == ConfigInit => ConfigInv
<1>1. {ConfigEdits, ConfigFaults} \subseteq Nat
  BY ConfigAssumption
<1>2. QED
  BY <1>1 DEF ConfigInit, ConfigInv, ConfigTypeOK, FromFiles

LEMMA ConfigInvKept == ConfigInv /\ [ConfigNext]_cfVars => ConfigInv'
<1>. SUFFICES ASSUME ConfigInv, [ConfigNext]_cfVars PROVE ConfigInv'
  OBVIOUS
<1>1. ConfigEdits \in Nat /\ ConfigFaults \in Nat
  BY ConfigAssumption
<1>. USE <1>1 DEF ConfigInv, ConfigTypeOK, cfFiles, cfMem, cfWatch
<1>2. ASSUME UNCHANGED <<cfAt, cfSnapshot>> PROVE FromFiles'
  BY <1>2 DEF FromFiles
<1>3. CASE EditConfigFile
  BY <1>2, <1>3 DEF EditConfigFile, ConfigEdit
<1>4. CASE EditSecretFile
  BY <1>2, <1>4 DEF EditSecretFile, ConfigEdit
<1>5. CASE SaveSetting
  BY <1>2, <1>5 DEF SaveSetting, ConfigEdit
<1>6. CASE StartLoad
  BY <1>6 DEF StartLoad, FromFiles
<1>7. CASE Started
  <2>1. CASE Loads(cfHalf, cfSecret)
    <3>1. cfHalf \in ConfigDocs
      BY <2>1 DEF Loads, NoFile
    <3>2. cfAt' = "up" /\ cfSnapshot' = Assembled(cfHalf, cfSecret) /\ cfRaw' = cfSettings
      BY <1>7, <2>1 DEF Started
    <3>3. FromFiles'
      BY <2>1, <3>1, <3>2 DEF FromFiles
    <3>4. QED
      BY <1>7, <3>2, <3>3 DEF Started
  <2>2. CASE ~ Loads(cfHalf, cfSecret)
    BY <1>7, <2>2 DEF Started, FromFiles
  <2>3. QED
    BY <2>1, <2>2
<1>8. CASE Stop
  BY <1>8 DEF Stop, ConfigFault, FromFiles
<1>9. CASE FirstPrint
  BY <1>2, <1>9 DEF FirstPrint
<1>10. CASE PollFiles
  BY <1>2, <1>10 DEF PollFiles
<1>11. CASE Reload
  BY <1>11 DEF Reload, ConfigFault, FromFiles
<1>12. CASE Replace
  <2>1. CASE Loads(cfHalf, cfSecret)
    <3>1. cfHalf \in ConfigDocs
      BY <2>1 DEF Loads, NoFile
    <3>2. FromFiles'
      BY <1>12, <2>1, <3>1 DEF Replace, FromFiles
    <3>3. QED
      BY <1>12, <3>2 DEF Replace
  <2>2. CASE ~ Loads(cfHalf, cfSecret)
    BY <1>12, <2>2 DEF Replace, FromFiles
  <2>3. QED
    BY <2>1, <2>2
<1>13. CASE RefreshSettings
  BY <1>2, <1>13 DEF RefreshSettings
<1>14. CASE UNCHANGED cfVars
  BY <1>2, <1>14 DEF cfVars
<1>15. QED
  BY <1>3, <1>4, <1>5, <1>6, <1>7, <1>8, <1>9, <1>10, <1>11, <1>12, <1>13, <1>14 DEF ConfigNext, ConfigRuns

LEMMA ConfigInvariant == ConfigSpec => []ConfigInv
<1>1. QED
  BY ConfigInitInv, ConfigInvKept, PTL DEF ConfigSpec

(* Type correctness of files, snapshot and poller. *)
THEOREM ConfigTyping == ConfigSpec => []ConfigTypeOK
<1>1. ConfigInv => ConfigTypeOK
  BY DEF ConfigInv
<1>2. QED
  BY <1>1, ConfigInvariant, PTL

(* What AtLeast lets through is in its range. *)
LEMMA AtLeastBound ==
  ASSUME NEW v \in Number, NEW least \in Nat, NEW old, old \in Int, old >= least
  PROVE  AtLeast(v, least, old) \in Int /\ AtLeast(v, least, old) >= least
BY DEF AtLeast, Number

(* The two sections the settings of the database are laid over, when the files load: they are
   numbers in their range. *)
LEMMA SectionsOfFiles ==
  ASSUME NEW doc \in ConfigDocs, NEW secret, Loads(doc, secret)
  PROVE  LET c == Assembled(doc, secret) IN
         /\ c.pipeline \in [batch : Int, linger : Int] /\ c.pipeline.batch > 0 /\ c.pipeline.linger >= 0
         /\ c.assets \in [batch : Int, lease : Int, keep : Int]
         /\ c.assets.batch > 0 /\ c.assets.lease > 0 /\ c.assets.keep >= 0
<1>. DEFINE c == Assembled(doc, secret)
<1>1. SectionsValid(c)
  BY DEF Loads
<1>2. /\ doc.pipeline \in [batch : Number, linger : Number]
      /\ doc.assets \in [batch : Number, lease : Number, keep : Number]
  BY ConfigAssumption
<1>3. \A v \in Number, d \in Int : Or(v, d) \in Int
  BY DEF Or, Number
<1>4. PipelineFilled(doc.pipeline) \in [batch : Int, linger : Int]
  <2>1. doc.pipeline.batch \in Number /\ doc.pipeline.linger \in Number
    BY <1>2
  <2>2. Or(doc.pipeline.batch, 20) \in Int /\ Or(doc.pipeline.linger, 20) \in Int
    BY <1>3, <2>1
  <2>3. QED
    BY <1>2, <2>2 DEF PipelineFilled
<1>5. AssetsFilled(doc.assets) \in [batch : Int, lease : Int, keep : Int]
  <2>1. doc.assets.batch \in Number /\ doc.assets.lease \in Number /\ doc.assets.keep \in Number
    BY <1>2
  <2>2. /\ Or(doc.assets.batch, 20) \in Int /\ Or(doc.assets.lease, 600) \in Int
        /\ Or(doc.assets.keep, 30) \in Int
    BY <1>3, <2>1
  <2>3. QED
    BY <1>2, <2>2 DEF AssetsFilled
<1>6. c.pipeline = PipelineFilled(doc.pipeline) /\ c.assets = AssetsFilled(doc.assets)
  BY DEF Assembled
<1>. HIDE DEF c
<1>7. PipelineValid(c.pipeline) /\ AssetsValid(c.assets)
  BY <1>1 DEF SectionsValid
<1>8. QED
  BY <1>4, <1>5, <1>6, <1>7 DEF PipelineValid, AssetsValid, c

(* Whatever is written into files and settings, and in whatever order they are read, what a
   running program works by keeps it working. *)
THEOREM ConfigWorks == ConfigSpec => []SnapshotWorks
<1>1. ConfigInv => SnapshotWorks
  <2>1. SUFFICES ASSUME ConfigInv, cfAt \in {"up", "reading"} PROVE SnapshotWorks
    BY DEF SnapshotWorks
  <2>2. PICK doc \in ConfigDocs, secret \in SecretDocs :
          Loads(doc, secret) /\ cfSnapshot = Assembled(doc, secret)
    BY <2>1 DEF ConfigInv, FromFiles
  <2>. DEFINE b == Assembled(doc, secret)
              c == Snapshot
  <2>3. /\ SectionsValid(b) /\ LoginThere(b)
        /\ b.runtime.timeout > 0 /\ b.runtime.send > 0 /\ b.runtime.cache > 0 /\ b.llm.tokens > 0
        /\ b.runtime.web > 0 => b.password # ""
    BY <2>2 DEF Loads, LoginThere, SectionsValid, RuntimeValid, LlmValid
  <2>4. /\ b.pipeline \in [batch : Int, linger : Int] /\ b.pipeline.batch > 0 /\ b.pipeline.linger >= 0
        /\ b.assets \in [batch : Int, lease : Int, keep : Int]
        /\ b.assets.batch > 0 /\ b.assets.lease > 0 /\ b.assets.keep >= 0
    BY <2>2, SectionsOfFiles
  <2>5. /\ c.runtime = b.runtime /\ c.llm = b.llm /\ c.password = b.password /\ c.mcp = b.mcp
        /\ \/ c.pipeline = b.pipeline /\ c.assets = b.assets
           \/ c.pipeline = PipelineOver(b.pipeline, cfRaw.pipeline)
              /\ c.assets = AssetsOver(b.assets, cfRaw.assets)
    <3>1. CASE cfRaw.parses
      BY <2>2, <3>1 DEF Snapshot, ApplyRuntimeSettings, Assembled
    <3>2. CASE ~ cfRaw.parses
      BY <2>2, <3>2 DEF Snapshot
    <3>3. QED
      BY <3>1, <3>2
  <2>6. b.mcp = McpFilled(doc.mcp)
    BY DEF Assembled
  <2>. HIDE DEF b, c
  <2>7. /\ c.pipeline.batch > 0 /\ c.pipeline.linger >= 0
        /\ c.assets.batch > 0 /\ c.assets.lease > 0 /\ c.assets.keep >= 0
    <3>1. CASE c.pipeline = b.pipeline /\ c.assets = b.assets
      BY <2>4, <3>1
    <3>2. CASE /\ c.pipeline = PipelineOver(b.pipeline, cfRaw.pipeline)
               /\ c.assets = AssetsOver(b.assets, cfRaw.assets)
      <4>1. {cfRaw.pipeline.batch, cfRaw.pipeline.linger, cfRaw.assets.batch, cfRaw.assets.lease,
             cfRaw.assets.keep} \subseteq Number
        BY <2>1, ConfigAssumption DEF ConfigInv, NoSetting, Number
      <4>2. /\ c.pipeline.batch = AtLeast(cfRaw.pipeline.batch, 1, b.pipeline.batch)
            /\ c.pipeline.linger = AtLeast(cfRaw.pipeline.linger, 0, b.pipeline.linger)
        BY <2>4, <3>2 DEF PipelineOver
      <4>3. /\ c.assets.batch = AtLeast(cfRaw.assets.batch, 1, b.assets.batch)
            /\ c.assets.lease = AtLeast(cfRaw.assets.lease, 1, b.assets.lease)
            /\ c.assets.keep = AtLeast(cfRaw.assets.keep, 0, b.assets.keep)
        BY <2>4, <3>2 DEF AssetsOver
      <4>4. /\ b.pipeline.batch \in Int /\ b.pipeline.batch >= 1 /\ b.pipeline.linger \in Int
            /\ b.assets.batch \in Int /\ b.assets.batch >= 1 /\ b.assets.lease \in Int
            /\ b.assets.lease >= 1 /\ b.assets.keep \in Int
        BY <2>4
      <4>5. \A v \in Number, old \in Int : old >= 1 => AtLeast(v, 1, old) > 0
        BY AtLeastBound
      <4>6. \A v \in Number, old \in Int : old >= 0 => AtLeast(v, 0, old) >= 0
        BY AtLeastBound
      <4>7. QED
        BY <2>4, <4>1, <4>2, <4>3, <4>4, <4>5, <4>6
    <3>3. QED
      BY <2>5, <3>1, <3>2
  <2>8. Distinct([i \in DOMAIN c.mcp.servers |-> c.mcp.servers[i].name])
    <3>. DEFINE R == [name : STRING, complete : BOOLEAN]
    <3>1. /\ doc.mcp.servers \in Seq(R)
          /\ c.mcp.servers = IF doc.mcp.on THEN Accepted(doc.mcp.servers) ELSE <<>>
      BY <2>5, <2>6, ConfigAssumption DEF McpFilled
    <3>. HIDE DEF R
    <3>2. CASE c.mcp.servers = <<>>
      BY <3>2 DEF Distinct
    <3>3. CASE c.mcp.servers = Accepted(doc.mcp.servers)
      <4>. DEFINE kept == c.mcp.servers
      <4>1. \A i, j \in DOMAIN kept : kept[i].name = kept[j].name => i = j
        BY <3>1, <3>3, AcceptedDistinct
      <4>. HIDE DEF kept
      <4>2. Distinct([i \in DOMAIN kept |-> kept[i].name])
        BY <4>1 DEF Distinct
      <4>3. QED
        BY <4>2 DEF kept
    <3>4. QED
      BY <3>1, <3>2, <3>3
  <2>9. QED
    BY <2>3, <2>5, <2>7, <2>8 DEF SnapshotWorks, c
<1>2. QED
  BY <1>1, ConfigInvariant, PTL

-----------------------------------------------------------------------------
(* TagJobs *)

NoteSet == [status: {"none", "ok", "failed"}, tries: 0..NoteRetries]
JobSet  == [status: {"none", "pending", "failed", "running", "done", "missing", "purged"},
            tries: Nat, age: 0..MaxAge]
BackfillerSet ==
  [at: {"idle", "list", "fetch", "describe", "write"}, list: Seq(Assets), job: Assets \cup {NoAsset},
   since: 0..MaxAge, spent: Nat, res: {"none", "done", "missing", "failed"}]

OnJob(me) == me.at \in {"fetch", "describe", "write"}

(* what a backfiller has in its hands, by where it is *)
BackfillerRule(me) ==
  /\ OnJob(me) <=> me.job # NoAsset
  /\ me.at = "write" => me.res # "none"
  /\ me.at = "list" => me.list # <<>>

TagShape ==
  /\ tjStep \in {"fetch", "look", "describe", "save", "done"} /\ tjNext \in Assets
  /\ tjPic \in [Assets -> {"todo", "have", "busy", "ok", "deferred", "failed", "worn"}]
  /\ tjNote \in [Pics -> NoteSet] /\ tjJob \in [Assets -> JobSet]
  /\ tjWorker \in [Workers -> BackfillerSet] /\ \A w \in Workers : BackfillerRule(tjWorker[w])

(* how far the tagger has come with every picture, and the row it left for it *)
PicturesFollow ==
  /\ tjStep \in {"look", "describe"} => tjNext = 1
  /\ \A p \in Pics : tjNote[p].status # "none" => tjNote[p].tries > 0
  /\ \A a \in Assets :
       /\ tjPic[a] = "ok" => tjNote[PicOf[a]].tries > 0
       /\ tjPic[a] = "todo" => tjStep = "fetch" /\ a >= tjNext
       /\ tjPic[a] \in {"have", "busy"} => tjStep \in {"fetch", "look", "describe"}
       /\ (tjStep = "save" /\ a < tjNext) \/ tjStep = "done" => (a \in Owed => tjJob[a].status # "none")

(* a job nobody has written yet is nobody's *)
JobsFollow ==
  /\ \A a \in Assets : (tjStep = "save" /\ a >= tjNext) \/ tjStep \notin {"save", "done"} => tjJob[a].status = "none"
  /\ \A w \in Workers : tjWorker[w].job # NoAsset => tjJob[tjWorker[w].job].status # "none"

(* what n jobs take at most; the lease outlasts a round of them *)
Units(n) == n * Work
RoundFits == Units(TagBatch) <= ClaimTimeout

(* a backfiller with only its list left ends within its round *)
Fits(me) == me.since + Units(Len(me.list)) <= Units(TagBatch)

(* one at work does too, and the lease of its job is as old as its round at most *)
LeaseRule(me, jobs) ==
  /\ me.at = "list" => Fits(me)
  /\ OnJob(me) => /\ me.spent <= Work
                  /\ me.since + Units(Len(me.list)) + (Work - me.spent) <= Units(TagBatch)
  /\ me.job # NoAsset => jobs[me.job].status = "running" /\ jobs[me.job].age <= me.since

LeaseHeld == OneWorkerPerJob /\ \A w \in Workers : LeaseRule(tjWorker[w], tjJob)

TagInv == TagShape /\ PicturesFollow /\ JobsFollow /\ (RoundFits => LeaseHeld)

-----------------------------------------------------------------------------
LEMMA Lesser ==
  ASSUME NEW a \in Int, NEW b \in Int
  PROVE  Min({a, b}) \in {a, b} /\ Min({a, b}) <= a /\ Min({a, b}) <= b
<1>1. \E x \in {a, b} : \A y \in {a, b} : x =< y
  <2>1. CASE a <= b BY <2>1
  <2>2. CASE b <= a BY <2>2
  <2> QED BY <2>1, <2>2
<1>2. Min({a, b}) \in {a, b} /\ \A y \in {a, b} : Min({a, b}) =< y BY <1>1 DEF Min
<1> QED BY <1>2

LEMMA Sizes ==
  /\ Cardinality(Assets) \in Nat /\ Cardinality(Assets) >= 1 /\ Assets \subseteq Nat
  /\ \A a \in Assets : a >= 1 /\ a <= Cardinality(Assets) /\ (a < Cardinality(Assets) => a + 1 \in Assets)
  /\ 1 \in Assets /\ MaxAge \in Nat /\ NoteRetries \in Nat /\ NoteRetries > 0 /\ Work \in Nat
  /\ ClaimTimeout \in Nat /\ ClaimTimeout > Work
<1>1. Cardinality(Assets) \in Nat BY TagAssumption, FS_CardinalityType
<1>2. Assets = 1..Cardinality(Assets) /\ Assets # {} BY TagAssumption
<1>3. TagBatch \in Nat /\ Work \in Nat /\ ClaimTimeout \in Nat /\ NoteRetries \in Nat \ {0} /\ ClaimTimeout > Work
  BY TagAssumption
<1>4. TagBatch * Work \in Nat BY <1>3
<1>5. MaxAge \in Nat BY <1>3, <1>4 DEF MaxAge
<1> HIDE DEF MaxAge
<1>6. Cardinality(Assets) >= 1 BY <1>1, <1>2
<1> QED BY <1>1, <1>2, <1>3, <1>5, <1>6

LEMMA UnitsGrow ==
  /\ \A n \in Nat : Units(n) \in Nat
  /\ \A n \in Nat : Units(n + 1) = Units(n) + Work
  /\ \A m, n \in Nat : m <= n => Units(m) <= Units(n)
<1>0. Work \in Nat BY Sizes
<1>1. \A n \in Nat : Units(n) \in Nat BY <1>0 DEF Units
<1>2. \A n \in Nat : Units(n + 1) = Units(n) + Work BY <1>0 DEF Units
<1>3. ASSUME NEW m \in Nat, NEW n \in Nat, m <= n PROVE Units(m) <= Units(n)
  <2>1. PICK d \in Nat : n = m + d BY <1>3
  <2>2. d * Work \in Nat BY <1>0
  <2>3. (m + d) * Work = m * Work + d * Work BY <1>0
  <2> QED BY <1>1, <2>1, <2>2, <2>3 DEF Units
<1> QED BY <1>1, <1>2, <1>3

LEMMA AsleepOK ==
  /\ Asleep \in BackfillerSet /\ BackfillerRule(Asleep) /\ Asleep.job = NoAsset
  /\ \A jobs : LeaseRule(Asleep, jobs)
  BY Sizes DEF Asleep, BackfillerSet, BackfillerRule, OnJob, LeaseRule

LEMMA TagStarts == TagInit => TagInv
<1> SUFFICES ASSUME TagInit PROVE TagInv OBVIOUS
<1> USE DEF TagInit
<1>1. tjNote \in [Pics -> NoteSet] /\ \A p \in Pics : tjNote[p].status # "none" => tjNote[p].tries > 0
  BY Sizes DEF NoteSet
<1>2. tjJob \in [Assets -> JobSet] /\ \A a \in Assets : tjJob[a].status = "none" BY Sizes DEF JobSet
<1>3. tjWorker \in [Workers -> BackfillerSet] BY AsleepOK
<1>4. \A w \in Workers : tjWorker[w] = Asleep OBVIOUS
<1>5. TagShape BY <1>1, <1>2, <1>3, <1>4, AsleepOK, Sizes DEF TagShape
<1>6. \A a \in Assets : tjPic[a] = "todo" /\ a >= 1 BY Sizes
<1>7. PicturesFollow BY <1>1, <1>6 DEF PicturesFollow
<1>8. JobsFollow BY <1>2, <1>4, AsleepOK DEF JobsFollow
<1>9. LeaseHeld BY <1>4, AsleepOK DEF LeaseHeld, OneWorkerPerJob
<1> QED BY <1>5, <1>7, <1>8, <1>9 DEF TagInv

-----------------------------------------------------------------------------
(* The tagger leaves the backfillers alone, and all the jobs but for SaveOwed. *)

LEMMA Attempts ==
  ASSUME TagShape, NEW p \in Pics, NEW status \in {"ok", "failed"}, PicturesFollow,
         tjNote' = Attempt(p, status)
  PROVE  /\ tjNote' \in [Pics -> NoteSet]
         /\ \A q \in Pics : tjNote'[q].status # "none" => tjNote'[q].tries > 0
         /\ \A q \in Pics : tjNote[q].tries > 0 => tjNote'[q].tries > 0
         /\ tjNote'[p].tries > 0
<1>0. tjNote \in [Pics -> NoteSet] /\ \A q \in Pics : tjNote[q].status # "none" => tjNote[q].tries > 0
  BY DEF TagShape, PicturesFollow
<1>1. tjNote[p].tries \in Int /\ NoteRetries \in Int /\ tjNote[p].tries >= 0 /\ NoteRetries > 0
  BY <1>0, Sizes DEF NoteSet
<1> DEFINE n == Min({tjNote[p].tries + 1, NoteRetries})
<1>2. tjNote[p].tries + 1 \in Int BY <1>1
<1>3. n \in {tjNote[p].tries + 1, NoteRetries} /\ n <= NoteRetries BY <1>1, <1>2, Lesser, Zenon
<1>4. n \in 0..NoteRetries /\ n > 0
  <2> HIDE DEF n
  <2> QED BY <1>1, <1>3
<1> DEFINE r == [status |-> status, tries |-> n]
<1>5. tjNote' = [tjNote EXCEPT ![p] = r] BY DEF Attempt
<1>6. r \in NoteSet /\ r.tries > 0
  <2> HIDE DEF n
  <2> QED BY <1>4 DEF NoteSet
<1> HIDE DEF r
<1> QED BY <1>0, <1>5, <1>6

(* a step of the tagger that writes no job *)
LEMMA TaggerQuiet ==
  ASSUME TagInv, UNCHANGED <<tjJob, tjWorker>>, tjStep' \in {"fetch", "look", "describe", "save"},
         tjStep \in {"fetch", "look", "describe"}, tjStep' # "fetch" => tjNext' = 1,
         tjNext' \in Assets, tjNote' \in [Pics -> NoteSet],
         tjPic' \in [Assets -> {"todo", "have", "busy", "ok", "deferred", "failed", "worn"}],
         \A p \in Pics : tjNote'[p].status # "none" => tjNote'[p].tries > 0,
         \A a \in Assets :
           /\ tjPic'[a] = "ok" => tjNote'[PicOf[a]].tries > 0
           /\ tjPic'[a] = "todo" => tjStep' = "fetch" /\ a >= tjNext'
           /\ tjPic'[a] \in {"have", "busy"} => tjStep' # "save"
  PROVE  TagInv'
<1>1. TagShape' BY DEF TagInv, TagShape
<1>2. \A a \in Assets : tjJob[a].status = "none" BY DEF TagInv, JobsFollow
<1>3. JobsFollow' BY <1>2 DEF TagInv, JobsFollow
<1>4. PicturesFollow'
  <2>1. \A a \in Assets : ~ (a < 1) BY Sizes
  <2> QED BY <2>1 DEF PicturesFollow
<1>5. LeaseHeld => LeaseHeld'
  <2> SUFFICES ASSUME LeaseHeld PROVE LeaseHeld' OBVIOUS
  <2>1. OneWorkerPerJob' BY DEF LeaseHeld, OneWorkerPerJob
  <2> QED BY <2>1 DEF LeaseHeld
<1> QED BY <1>1, <1>3, <1>4, <1>5 DEF TagInv

LEMMA BudgetOverKeeps == ASSUME TagInv, BudgetOver PROVE TagInv'
<1>1. UNCHANGED <<tjStep, tjNext, tjPic, tjNote, tjJob, tjWorker>> /\ tjStep \in {"fetch", "look", "describe"}
  BY DEF BudgetOver
<1>2. /\ \A a \in Assets : tjPic[a] \in {"have", "busy"} => tjStep \in {"fetch", "look", "describe"}
      /\ tjStep' # "fetch" => tjNext' = 1
  BY <1>1 DEF TagInv, PicturesFollow
<1> QED BY <1>1, <1>2, TaggerQuiet DEF TagInv, TagShape, PicturesFollow

LEMMA FetchKeeps == ASSUME TagInv, NEW ok \in BOOLEAN, Fetch(ok) PROVE TagInv'
<1> DEFINE what == IF ok THEN "have" ELSE IF tjOver THEN "deferred" ELSE "failed"
<1>1. /\ UNCHANGED <<tjNote, tjJob, tjWorker>> /\ tjStep = "fetch" /\ tjStep' \in {"fetch", "look"}
      /\ tjPic' = [tjPic EXCEPT ![tjNext] = what]
      /\ what \in {"have", "deferred", "failed"}
  BY DEF Fetch
<1>2. /\ tjPic \in [Assets -> {"todo", "have", "busy", "ok", "deferred", "failed", "worn"}]
      /\ tjNote \in [Pics -> NoteSet] /\ tjNext \in Assets
      /\ \A p \in Pics : tjNote[p].status # "none" => tjNote[p].tries > 0
      /\ \A a \in Assets : /\ tjPic[a] = "ok" => tjNote[PicOf[a]].tries > 0
                           /\ tjPic[a] = "todo" => a >= tjNext
  BY DEF TagInv, TagShape, PicturesFollow
<1> HIDE DEF what
<1>3. tjPic' \in [Assets -> {"todo", "have", "busy", "ok", "deferred", "failed", "worn"}] BY <1>1, <1>2
<1>4. \A a \in Assets : tjPic'[a] = "ok" => tjNote'[PicOf[a]].tries > 0 BY <1>1, <1>2
<1>5. \/ tjNext' = tjNext + 1 /\ tjStep' = "fetch" /\ tjNext < Cardinality(Assets)
      \/ tjNext' = 1 /\ tjStep' = "look" /\ tjNext >= Cardinality(Assets)
  BY <1>2, Sizes DEF Fetch
<1>6. tjNext' \in Assets BY <1>2, <1>5, Sizes
<1>7. \A a \in Assets : tjPic'[a] = "todo" => tjStep' = "fetch" /\ a >= tjNext'
  <2> SUFFICES ASSUME NEW a \in Assets, tjPic'[a] = "todo" PROVE tjStep' = "fetch" /\ a >= tjNext' OBVIOUS
  <2>1. a # tjNext /\ tjPic[a] = "todo" BY <1>1, <1>2
  <2>2. a > tjNext BY <2>1, <1>2, Sizes
  <2> QED BY <2>2, <1>2, <1>5, Sizes
<1>8. tjStep' # "fetch" => tjNext' = 1 BY <1>5
<1> QED BY <1>1, <1>2, <1>3, <1>4, <1>6, <1>7, <1>8, TaggerQuiet

(* the steps that turn a picture into something else between the look and the save *)
LEMMA PictureTurns ==
  ASSUME TagInv, UNCHANGED <<tjJob, tjWorker, tjNext>>, tjStep \in {"look", "describe"}, tjStep' = "describe",
         tjNote' \in [Pics -> NoteSet],
         \A p \in Pics : tjNote'[p].status # "none" => tjNote'[p].tries > 0,
         \A p \in Pics : tjNote[p].tries > 0 => tjNote'[p].tries > 0,
         NEW F \in [Assets -> {"have", "busy", "ok", "deferred", "failed", "worn"}], tjPic' = F,
         \A a \in Assets : F[a] = "ok" => tjPic[a] = "ok" \/ tjNote'[PicOf[a]].tries > 0
  PROVE  TagInv'
<1>1. \A a \in Assets : PicOf[a] \in Pics BY DEF Pics
<1>2. /\ tjNext \in Assets /\ tjNext = 1
      /\ \A a \in Assets : tjPic[a] = "ok" => tjNote[PicOf[a]].tries > 0
  BY DEF TagInv, TagShape, PicturesFollow
<1>3. \A a \in Assets : F[a] = "ok" => tjNote'[PicOf[a]].tries > 0 BY <1>1, <1>2
<1>4. tjPic' \in [Assets -> {"todo", "have", "busy", "ok", "deferred", "failed", "worn"}] OBVIOUS
<1> QED BY <1>2, <1>3, <1>4, TaggerQuiet

LEMMA LookUpKeeps == ASSUME TagInv, LookUp PROVE TagInv'
<1> DEFINE look(a) == LET note == tjNote[PicOf[a]] IN
             IF tjPic[a] # "have" THEN tjPic[a]
             ELSE IF note.status = "ok" THEN "ok"
             ELSE IF note.status = "none" \/ note.tries < NoteRetries THEN "have" ELSE "worn"
           F == [a \in Assets |-> look(a)]
<1>1. /\ tjPic' = F /\ tjStep = "look" /\ tjStep' = "describe" /\ UNCHANGED <<tjNote, tjJob, tjWorker, tjNext>>
  BY DEF LookUp
<1>2. /\ tjNote \in [Pics -> NoteSet] /\ \A p \in Pics : tjNote[p].status # "none" => tjNote[p].tries > 0
      /\ tjPic \in [Assets -> {"todo", "have", "busy", "ok", "deferred", "failed", "worn"}]
      /\ \A a \in Assets : tjPic[a] # "todo" /\ PicOf[a] \in Pics
  BY <1>1 DEF TagInv, TagShape, PicturesFollow, Pics
<1>3. \A a \in Assets : look(a) \in {"have", "busy", "ok", "deferred", "failed", "worn"} BY <1>2
<1>4. F \in [Assets -> {"have", "busy", "ok", "deferred", "failed", "worn"}]
  <2> HIDE DEF look
  <2> QED BY <1>3
<1>5. \A a \in Assets : F[a] = "ok" => tjPic[a] = "ok" \/ tjNote[PicOf[a]].tries > 0 BY <1>2
<1> HIDE DEF F
<1> QED BY <1>1, <1>2, <1>4, <1>5, PictureTurns

LEMMA DescribedShape ==
  ASSUME TagInv, tjStep = "describe"
  PROVE  /\ tjNote \in [Pics -> NoteSet] /\ \A p \in Pics : tjNote[p].status # "none" => tjNote[p].tries > 0
         /\ tjPic \in [Assets -> {"have", "busy", "ok", "deferred", "failed", "worn"}]
         /\ \A a \in Assets : PicOf[a] \in Pics
<1>1. /\ tjNote \in [Pics -> NoteSet] /\ \A p \in Pics : tjNote[p].status # "none" => tjNote[p].tries > 0
      /\ tjPic \in [Assets -> {"todo", "have", "busy", "ok", "deferred", "failed", "worn"}]
      /\ \A a \in Assets : tjPic[a] # "todo"
  BY DEF TagInv, TagShape, PicturesFollow
<1> QED BY <1>1 DEF Pics

LEMMA TurnKeeps ==
  ASSUME TagInv, tjStep = "describe", NEW a \in Assets, NEW what \in {"busy", "deferred"},
         tjPic' = Become(SameAs(a), what), UNCHANGED <<tjStep, tjNext, tjNote, tjJob, tjWorker>>
  PROVE  TagInv'
<1> DEFINE F == [b \in Assets |-> IF b \in SameAs(a) THEN what ELSE tjPic[b]]
<1>1. tjPic' = F BY DEF Become
<1>2. F \in [Assets -> {"have", "busy", "ok", "deferred", "failed", "worn"}] BY DescribedShape
<1>3. \A b \in Assets : F[b] = "ok" => tjPic[b] = "ok" OBVIOUS
<1> HIDE DEF F
<1> QED BY <1>1, <1>2, <1>3, DescribedShape, PictureTurns

LEMMA FinishKeeps == ASSUME TagInv, NEW a \in Assets, NEW ok \in BOOLEAN, Finish(a, ok) PROVE TagInv'
<1> DEFINE what == IF ok THEN "ok" ELSE IF tjOver THEN "deferred" ELSE "failed"
           F == [b \in Assets |-> IF b \in SameAs(a) THEN what ELSE tjPic[b]]
           p == PicOf[a]
<1>1. /\ tjStep = "describe" /\ UNCHANGED <<tjStep, tjNext, tjJob, tjWorker>> /\ tjPic' = F
  BY DEF Finish, Become
<1>2. p \in Pics BY DEF Pics
<1>3. TagShape /\ PicturesFollow BY DEF TagInv
<1>4. /\ tjNote' \in [Pics -> NoteSet]
      /\ \A q \in Pics : tjNote'[q].status # "none" => tjNote'[q].tries > 0
      /\ \A q \in Pics : tjNote[q].tries > 0 => tjNote'[q].tries > 0
      /\ ok => tjNote'[p].tries > 0
  <2>1. CASE UNCHANGED tjNote /\ ~ ok BY <2>1, <1>1, DescribedShape
  <2>2. CASE Describe(p, ok)
    <3> DEFINE status == IF ok THEN "ok" ELSE "failed"
    <3>1. tjNote' = Attempt(p, status) /\ status \in {"ok", "failed"} BY <2>2 DEF Describe
    <3> HIDE DEF status, p
    <3> QED BY <3>1, <1>2, <1>3, Attempts
  <2> QED BY <2>1, <2>2 DEF Finish
<1>5. F \in [Assets -> {"have", "busy", "ok", "deferred", "failed", "worn"}] BY <1>1, DescribedShape
<1>6. \A b \in Assets : F[b] = "ok" => tjPic[b] = "ok" \/ tjNote'[PicOf[b]].tries > 0
  <2> TAKE b \in Assets
  <2>1. CASE b \in SameAs(a) /\ ok BY <2>1, <1>4 DEF SameAs
  <2>2. CASE ~ (b \in SameAs(a) /\ ok) BY <2>2
  <2> QED BY <2>1, <2>2
<1> HIDE DEF F, p
<1> QED BY <1>1, <1>4, <1>5, <1>6, PictureTurns

LEMMA AllTaggedKeeps == ASSUME TagInv, AllTagged PROVE TagInv'
<1>1. /\ tjStep = "describe" /\ tjStep' = "save" /\ UNCHANGED <<tjNext, tjPic, tjNote, tjJob, tjWorker>>
      /\ \A a \in Assets : tjPic[a] \notin {"have", "busy"}
  BY DEF AllTagged
<1>2. /\ tjNext = 1 /\ tjNext \in Assets
      /\ \A a \in Assets : tjPic[a] = "ok" => tjNote[PicOf[a]].tries > 0
      /\ \A p \in Pics : tjNote[p].status # "none" => tjNote[p].tries > 0
      /\ \A a \in Assets : tjPic[a] # "todo"
  BY <1>1 DEF TagInv, TagShape, PicturesFollow
<1>3. tjNote' \in [Pics -> NoteSet] BY <1>1, DescribedShape
<1>4. tjPic' \in [Assets -> {"todo", "have", "busy", "ok", "deferred", "failed", "worn"}]
  BY <1>1 DEF TagInv, TagShape
<1> QED BY <1>1, <1>2, <1>3, <1>4, TaggerQuiet

(* a row written where there was none is not one a backfiller has *)
LEMMA SaveOwedKeeps == ASSUME TagInv, SaveOwed PROVE TagInv'
<1> DEFINE tries == IF tjPic[tjNext] = "worn" THEN tjNote[PicOf[tjNext]].tries ELSE 0
           row == [status |-> IF tjPic[tjNext] = "deferred" THEN "pending" ELSE "failed",
                   tries |-> tries, age |-> 0]
<1>0. /\ TagShape /\ PicturesFollow /\ JobsFollow /\ tjStep = "save" /\ tjNext \in Assets
      /\ UNCHANGED <<tjPic, tjNote, tjWorker>>
  BY DEF TagInv, TagShape, SaveOwed
<1>1. tries \in Nat
  <2>1. PicOf[tjNext] \in Pics BY <1>0 DEF Pics
  <2>2. tjNote[PicOf[tjNext]].tries \in 0..NoteRetries BY <1>0, <2>1 DEF TagShape, NoteSet
  <2>3. tjNote[PicOf[tjNext]].tries \in Nat BY <2>2, Sizes
  <2> QED BY <2>3
<1>2. row \in JobSet /\ row.status # "none"
  <2> HIDE DEF tries
  <2> QED BY <1>1, Sizes DEF JobSet
<1>3. tjJob' = IF tjNext \notin Owed THEN tjJob ELSE [tjJob EXCEPT ![tjNext] = row] BY DEF SaveOwed
<1> HIDE DEF row
<1>4. /\ tjJob' \in [Assets -> JobSet]
      /\ \A a \in Assets : a # tjNext => tjJob'[a] = tjJob[a]
      /\ tjNext \in Owed => tjJob'[tjNext].status # "none"
      /\ \A a \in Assets : tjJob[a].status # "none" => tjJob'[a].status # "none"
  BY <1>0, <1>2, <1>3 DEF TagShape
<1>5. \/ tjNext' = tjNext + 1 /\ tjStep' = "save" /\ tjNext < Cardinality(Assets)
      \/ tjNext' = tjNext /\ tjStep' = "done" /\ tjNext >= Cardinality(Assets)
  BY <1>0, Sizes DEF SaveOwed
<1>6. tjNext' \in Assets BY <1>0, <1>5, Sizes
<1>7. TagShape' BY <1>0, <1>4, <1>5, <1>6 DEF TagShape
<1>8. \A a \in Assets : a \in Nat /\ a <= Cardinality(Assets) BY Sizes
<1>9. tjJob[tjNext].status = "none"
  <2>1. tjNext \in Nat BY <1>0, <1>8
  <2> QED BY <2>1, <1>0 DEF JobsFollow
<1>10. PicturesFollow'
  <2>1. Owed' = Owed BY <1>0 DEF Owed
  <2>2. ASSUME NEW a \in Assets, (tjStep' = "save" /\ a < tjNext') \/ tjStep' = "done", a \in Owed
        PROVE  tjJob'[a].status # "none"
    <3>1. CASE a = tjNext BY <3>1, <2>2, <1>4
    <3>2. CASE a # tjNext
      <4>1. a < tjNext BY <3>2, <2>2, <1>0, <1>5, <1>8, Sizes
      <4>2. tjJob[a].status # "none" BY <4>1, <2>2, <1>0 DEF PicturesFollow
      <4> QED BY <3>2, <4>2, <1>4
    <3> QED BY <3>1, <3>2
  <2>3. \A a \in Assets : tjPic[a] \notin {"todo", "have", "busy"} BY <1>0 DEF PicturesFollow
  <2> QED BY <1>0, <1>5, <2>1, <2>2, <2>3 DEF PicturesFollow
<1>11. \A w \in Workers : tjWorker[w].job # NoAsset => tjJob[tjWorker[w].job].status # "none" /\ tjWorker[w].job \in Assets
  BY <1>0 DEF JobsFollow, TagShape, BackfillerSet
<1>12. JobsFollow'
  <2>1. ASSUME NEW a \in Assets, (tjStep' = "save" /\ a >= tjNext') \/ tjStep' \notin {"save", "done"}
        PROVE  tjJob'[a].status = "none"
    <3>1. a > tjNext BY <2>1, <1>0, <1>5, <1>8
    <3>2. tjJob[a].status = "none" BY <3>1, <1>0, <1>8 DEF JobsFollow
    <3> QED BY <3>1, <3>2, <1>0, <1>4, <1>8
  <2> QED BY <2>1, <1>0, <1>4, <1>11 DEF JobsFollow
<1>13. LeaseHeld => LeaseHeld'
  <2> SUFFICES ASSUME LeaseHeld PROVE LeaseHeld' OBVIOUS
  <2>1. OneWorkerPerJob' BY <1>0 DEF LeaseHeld, OneWorkerPerJob
  <2>2. \A w \in Workers : tjWorker[w].job # NoAsset => tjJob'[tjWorker[w].job] = tjJob[tjWorker[w].job]
    BY <1>4, <1>9, <1>11
  <2>3. \A w \in Workers : LeaseRule(tjWorker[w], tjJob') BY <2>2 DEF LeaseHeld, LeaseRule
  <2> QED BY <2>1, <2>3, <1>0 DEF LeaseHeld
<1> QED BY <1>7, <1>10, <1>12, <1>13 DEF TagInv

LEMMA TaggerKeeps == ASSUME TagInv, TaggerNext PROVE TagInv'
<1>1. ASSUME NEW a \in Assets, BeginNote(a) PROVE TagInv' BY <1>1, TurnKeeps DEF BeginNote
<1>2. ASSUME NEW a \in Assets, OutOfTime(a) PROVE TagInv' BY <1>2, TurnKeeps DEF OutOfTime
<1> QED BY <1>1, <1>2, BudgetOverKeeps, LookUpKeeps, AllTaggedKeeps, SaveOwedKeeps, FetchKeeps, FinishKeeps
        DEF TaggerNext

-----------------------------------------------------------------------------
(* The backfillers *)

LEMMA GoOnGives ==
  ASSUME tjWorker \in [Workers -> BackfillerSet], NEW w \in Workers, NEW me \in BackfillerSet,
         NEW jobs \in [Assets -> JobSet], GoOn(w, me, jobs)
  PROVE  /\ \E rec \in BackfillerSet :
              /\ Put(w, rec) /\ BackfillerRule(rec) /\ rec.job = NoAsset
              /\ Fits(me) => \A f : LeaseRule(rec, f)
         /\ tjJob' \in [Assets -> JobSet]
         /\ \A a \in Assets : \/ tjJob'[a] = jobs[a]
                              \/ jobs[a].status \in {"done", "missing"} /\ tjJob'[a].status = "purged"
<1>1. CASE me.list = <<>>
  <2>1. Put(w, Asleep) /\ tjJob' \in Cleaned(jobs) BY <1>1 DEF GoOn
  <2>2. PICK old \in SUBSET {j \in Assets : jobs[j].status \in {"done", "missing"}} :
          tjJob' = [j \in Assets |-> IF j \in old THEN [jobs[j] EXCEPT !.status = "purged"] ELSE jobs[j]]
    BY <2>1 DEF Cleaned
  <2>3. \A j \in Assets : jobs[j] \in JobSet /\ [jobs[j] EXCEPT !.status = "purged"] \in JobSet
                          /\ [jobs[j] EXCEPT !.status = "purged"].status = "purged"
    BY DEF JobSet
  <2>4. tjJob' \in [Assets -> JobSet] BY <2>2, <2>3
  <2>5. \A a \in Assets : \/ tjJob'[a] = jobs[a]
                          \/ jobs[a].status \in {"done", "missing"} /\ tjJob'[a].status = "purged"
    BY <2>2, <2>3
  <2> QED BY <2>1, <2>4, <2>5, AsleepOK
<1>2. CASE me.list # <<>>
  <2> DEFINE rec == [me EXCEPT !.at = "list", !.job = NoAsset, !.spent = 0, !.res = "none"]
  <2>1. Put(w, rec) /\ tjJob' = jobs BY <1>2 DEF GoOn
  <2>2. rec \in BackfillerSet /\ rec.job = NoAsset /\ rec.at = "list" /\ rec.list = me.list /\ rec.since = me.since
    BY DEF BackfillerSet
  <2>3. BackfillerRule(rec) BY <2>2, <1>2 DEF BackfillerRule, OnJob
  <2>4. me.list \in Seq(Assets) BY DEF BackfillerSet
  <2>5. Fits(me) => \A f : LeaseRule(rec, f)
    <3> HIDE DEF rec
    <3> QED BY <2>2 DEF LeaseRule, OnJob, Fits
  <2> HIDE DEF rec
  <2> QED BY <2>1, <2>2, <2>3, <2>5
<1> QED BY <1>1, <1>2

(* one backfiller takes a step *)
LEMMA OneMoves ==
  ASSUME TagInv, NEW w \in Workers, NEW rec \in BackfillerSet, BackfillerRule(rec), Put(w, rec),
         UNCHANGED tagger, tjNote' \in [Pics -> NoteSet], tjJob' \in [Assets -> JobSet],
         \A p \in Pics : tjNote'[p].status # "none" => tjNote'[p].tries > 0,
         \A p \in Pics : tjNote[p].tries > 0 => tjNote'[p].tries > 0,
         \A a \in Assets : tjJob[a].status = "none" <=> tjJob'[a].status = "none",
         rec.job # NoAsset => tjJob[rec.job].status # "none",
         RoundFits =>
           /\ LeaseRule(rec, tjJob') /\ \A v \in Workers \ {w} : LeaseRule(tjWorker[v], tjJob')
           /\ rec.job # NoAsset => \A v \in Workers \ {w} : tjWorker[v].job # rec.job
  PROVE  TagInv'
<1>0. /\ tjWorker' = [tjWorker EXCEPT ![w] = rec] /\ UNCHANGED <<tjStep, tjNext, tjPic, tjOver>>
      /\ TagShape /\ PicturesFollow /\ JobsFollow /\ tjWorker \in [Workers -> BackfillerSet]
  BY DEF Put, tagger, TagInv, TagShape
<1>1. /\ tjWorker' \in [Workers -> BackfillerSet] /\ tjWorker'[w] = rec
      /\ \A v \in Workers \ {w} : tjWorker'[v] = tjWorker[v]
  BY <1>0
<1>2. TagShape' BY <1>0, <1>1 DEF TagShape
<1>3. \A a \in Assets : PicOf[a] \in Pics BY DEF Pics
<1>4. PicturesFollow'
  <2>1. Owed' = Owed BY <1>0 DEF Owed
  <2> QED BY <1>0, <1>3, <2>1 DEF PicturesFollow
<1>5. \A v \in Workers : tjWorker'[v].job # NoAsset => tjWorker'[v].job \in Assets BY <1>1 DEF BackfillerSet
<1>6. JobsFollow'
  <2>1. ASSUME NEW v \in Workers, tjWorker'[v].job # NoAsset PROVE tjJob'[tjWorker'[v].job].status # "none"
    <3>1. CASE v = w BY <3>1, <2>1, <1>1, <1>5
    <3>2. CASE v # w BY <3>2, <2>1, <1>0, <1>1, <1>5 DEF JobsFollow
    <3> QED BY <3>1, <3>2
  <2> QED BY <2>1, <1>0 DEF JobsFollow
<1>7. RoundFits => LeaseHeld'
  <2> SUFFICES ASSUME RoundFits PROVE LeaseHeld' OBVIOUS
  <2>1. \A v \in Workers : LeaseRule(tjWorker'[v], tjJob') BY <1>1
  <2>2. OneWorkerPerJob BY DEF TagInv, LeaseHeld
  <2>3. OneWorkerPerJob'
    <3> SUFFICES ASSUME NEW u \in Workers, NEW v \in Workers, u # v, tjWorker'[u].job = tjWorker'[v].job,
                        tjWorker'[u].job # NoAsset
                 PROVE  FALSE
      BY DEF OneWorkerPerJob
    <3>1. CASE u = w BY <3>1, <1>1
    <3>2. CASE v = w BY <3>2, <1>1
    <3>3. CASE u # w /\ v # w BY <3>3, <1>1, <2>2 DEF OneWorkerPerJob
    <3> QED BY <3>1, <3>2, <3>3
  <2> QED BY <2>1, <2>3 DEF LeaseHeld
<1> QED BY <1>2, <1>4, <1>6, <1>7 DEF TagInv

(* what a backfiller and the rest are before a step *)
LEMMA BackfillerHolds ==
  ASSUME TagInv, NEW w \in Workers
  PROVE  /\ tjWorker \in [Workers -> BackfillerSet] /\ tjWorker[w] \in BackfillerSet
         /\ BackfillerRule(tjWorker[w]) /\ tjJob \in [Assets -> JobSet] /\ tjNote \in [Pics -> NoteSet]
         /\ \A p \in Pics : tjNote[p].status # "none" => tjNote[p].tries > 0
         /\ tjWorker[w].job # NoAsset => tjWorker[w].job \in Assets /\ tjJob[tjWorker[w].job].status # "none"
         /\ RoundFits =>
              /\ \A v \in Workers : LeaseRule(tjWorker[v], tjJob)
              /\ tjWorker[w].job # NoAsset => \A v \in Workers \ {w} : tjWorker[v].job # tjWorker[w].job
<1>1. /\ tjWorker \in [Workers -> BackfillerSet] /\ BackfillerRule(tjWorker[w]) /\ tjJob \in [Assets -> JobSet]
      /\ tjNote \in [Pics -> NoteSet] /\ \A p \in Pics : tjNote[p].status # "none" => tjNote[p].tries > 0
      /\ tjWorker[w].job # NoAsset => tjJob[tjWorker[w].job].status # "none"
  BY DEF TagInv, TagShape, PicturesFollow, JobsFollow
<1>2. tjWorker[w] \in BackfillerSet /\ (tjWorker[w].job # NoAsset => tjWorker[w].job \in Assets)
  BY <1>1 DEF BackfillerSet
<1>3. RoundFits => OneWorkerPerJob /\ \A v \in Workers : LeaseRule(tjWorker[v], tjJob)
  BY DEF TagInv, LeaseHeld
<1> QED BY <1>1, <1>2, <1>3 DEF OneWorkerPerJob

(* a step that leaves the jobs alone and takes no new one *)
LEMMA QuietMove ==
  ASSUME TagInv, NEW w \in Workers, NEW rec \in BackfillerSet, BackfillerRule(rec), Put(w, rec),
         UNCHANGED <<tagger, tjNote, tjJob>>, rec.job \in {NoAsset, tjWorker[w].job},
         RoundFits => LeaseRule(rec, tjJob)
  PROVE  TagInv'
<1>1. rec.job # NoAsset => rec.job = tjWorker[w].job OBVIOUS
<1> QED BY <1>1, BackfillerHolds, OneMoves

(* a step that touches nothing these rules speak of *)
LEMMA NothingMoves ==
  ASSUME TagInv, UNCHANGED <<tjStep, tjNext, tjPic, tjNote, tjJob, tjWorker>> PROVE TagInv'
<1>1. TagShape' /\ JobsFollow' BY DEF TagInv, TagShape, JobsFollow
<1>2. PicturesFollow' BY DEF TagInv, PicturesFollow, Owed
<1>3. LeaseHeld => LeaseHeld'
  <2> SUFFICES ASSUME LeaseHeld PROVE LeaseHeld' OBVIOUS
  <2>1. OneWorkerPerJob' BY DEF LeaseHeld, OneWorkerPerJob
  <2> QED BY <2>1 DEF LeaseHeld
<1> QED BY <1>1, <1>2, <1>3 DEF TagInv

(* the next job of the round, with the jobs as they are *)
LEMMA GoOnKeeps ==
  ASSUME TagInv, NEW w \in Workers, NEW me \in BackfillerSet, GoOn(w, me, tjJob),
         UNCHANGED <<tagger, tjNote>>, RoundFits => Fits(me)
  PROVE  TagInv'
<1>1. PICK rec \in BackfillerSet :
        /\ Put(w, rec) /\ BackfillerRule(rec) /\ rec.job = NoAsset
        /\ RoundFits => \A f : LeaseRule(rec, f)
  BY BackfillerHolds, GoOnGives
<1>2. /\ tjJob' \in [Assets -> JobSet]
      /\ \A a \in Assets : \/ tjJob'[a] = tjJob[a]
                           \/ tjJob[a].status \in {"done", "missing"} /\ tjJob'[a].status = "purged"
  BY BackfillerHolds, GoOnGives
<1>3. RoundFits => \A v \in Workers : LeaseRule(tjWorker[v], tjJob')
  <2> SUFFICES ASSUME RoundFits, NEW v \in Workers PROVE LeaseRule(tjWorker[v], tjJob') OBVIOUS
  <2>1. LeaseRule(tjWorker[v], tjJob) /\ (tjWorker[v].job # NoAsset => tjWorker[v].job \in Assets) BY BackfillerHolds
  <2> QED BY <2>1, <1>2 DEF LeaseRule
<1> QED BY <1>1, <1>2, <1>3, BackfillerHolds, OneMoves

LEMMA RoundKeeps == ASSUME TagInv, NEW w \in Workers, Round(w) PROVE TagInv'
<1> DEFINE can == {j \in Assets : Claimable(j, 0)}
           n == Min({TagBatch, Cardinality(can)})
<1>1. PICK s \in [1..n -> can] : GoOn(w, [Asleep EXCEPT !.list = s], tjJob) BY DEF Round
<1>2. n \in Nat /\ TagBatch \in Nat /\ n <= TagBatch
  <2>1. can \subseteq Assets OBVIOUS
  <2> HIDE DEF can
  <2>2. Cardinality(can) \in Nat BY <2>1, TagAssumption, FS_Subset, FS_CardinalityType
  <2>3. TagBatch \in Nat BY TagAssumption
  <2>4. TagBatch \in Int /\ Cardinality(can) \in Int BY <2>2, <2>3
  <2>5. n \in {TagBatch, Cardinality(can)} /\ n <= TagBatch BY <2>4, Lesser, Zenon
  <2> QED BY <2>2, <2>3, <2>5
<1>3. s \in Seq(Assets) /\ Len(s) = n
  <2>1. s \in [1..n -> Assets] OBVIOUS
  <2> HIDE DEF n, can
  <2> QED BY <1>2, <2>1
<1> HIDE DEF n, can
<1> DEFINE me == [Asleep EXCEPT !.list = s]
<1>4. me \in BackfillerSet /\ me.since = 0 /\ me.list = s BY <1>3, AsleepOK DEF BackfillerSet, Asleep
<1>5. GoOn(w, me, tjJob) BY <1>1
<1> HIDE DEF me
<1>6. Fits(me)
  <2>1. Units(n) \in Nat /\ Units(TagBatch) \in Nat /\ Units(n) <= Units(TagBatch) BY <1>2, UnitsGrow
  <2> QED BY <1>3, <1>4, <2>1 DEF Fits
<1>7. UNCHANGED <<tagger, tjNote>> BY DEF Round
<1> QED BY <1>4, <1>5, <1>6, <1>7, GoOnKeeps

(* a lease that is no older than a round is not up, so nobody else can claim the job *)
LEMMA NotClaimable ==
  ASSUME TagInv, RoundFits, NEW v \in Workers, tjWorker[v].job # NoAsset, NEW since \in Nat
  PROVE  ~ Claimable(tjWorker[v].job, since)
<1> DEFINE j == tjWorker[v].job
<1>0. /\ LeaseRule(tjWorker[v], tjJob) /\ j \in Assets /\ tjJob \in [Assets -> JobSet]
      /\ tjWorker[v] \in BackfillerSet /\ BackfillerRule(tjWorker[v])
  BY BackfillerHolds
<1> DEFINE me == tjWorker[v]
           n == Len(me.list)
           age == tjJob[j].age
<1>1. OnJob(me) BY <1>0 DEF BackfillerRule
<1>2. /\ tjJob[j].status = "running" /\ age <= me.since /\ me.spent <= Work
      /\ me.since + Units(n) + (Work - me.spent) <= Units(TagBatch)
  BY <1>0, <1>1 DEF LeaseRule
<1>3. /\ age \in Int /\ me.since \in Int /\ me.spent \in Int /\ n \in Nat /\ Work \in Int
      /\ ClaimTimeout \in Int /\ TagBatch \in Nat
  <2>1. TagBatch \in Nat BY TagAssumption
  <2>2. age \in 0..MaxAge /\ me.since \in 0..MaxAge /\ me.spent \in Nat /\ me.list \in Seq(Assets)
    BY <1>0 DEF JobSet, BackfillerSet
  <2>3. n \in Nat BY <2>2, LenProperties, Zenon
  <2> HIDE DEF n, age, me
  <2> QED BY <2>1, <2>2, <2>3, Sizes
<1>4. Units(n) \in Nat /\ Units(TagBatch) \in Nat BY <1>3, UnitsGrow
<1>5. Units(TagBatch) <= ClaimTimeout BY DEF RoundFits
<1>6. ~ (age - since > ClaimTimeout)
  <2> HIDE DEF me, n, age, j
  <2> QED BY <1>2, <1>3, <1>4, <1>5
<1> QED BY <1>2, <1>6 DEF Claimable

LEMMA ClaimKeeps == ASSUME TagInv, NEW w \in Workers, Claim(w) PROVE TagInv'
<1> DEFINE me == tjWorker[w]
           j == Head(me.list)
           row == [status |-> "running", tries |-> tjJob[j].tries + 1, age |-> me.since]
           rec == [me EXCEPT !.at = "fetch", !.job = j, !.list = Tail(@), !.spent = 0]
<1>0. /\ me \in BackfillerSet /\ me.at = "list" /\ me.list # <<>> /\ UNCHANGED <<tagger, tjNote>>
      /\ tjJob \in [Assets -> JobSet] /\ (RoundFits => LeaseRule(me, tjJob))
  BY BackfillerHolds DEF Claim, BackfillerRule
<1>1. /\ me.list \in Seq(Assets) /\ Tail(me.list) \in Seq(Assets) /\ j \in Assets
      /\ Len(Tail(me.list)) = Len(me.list) - 1
  BY <1>0 DEF BackfillerSet
<1>2. /\ RoundFits => me.since + Units(Len(Tail(me.list))) + Work <= Units(TagBatch)
      /\ me.since \in Nat /\ Units(Len(Tail(me.list))) \in Nat /\ Work \in Nat /\ Units(TagBatch) \in Nat
  <2> DEFINE n == Len(Tail(me.list))
  <2>1. n \in Nat /\ Len(me.list) = n + 1
    <3>1. n \in Nat BY <1>1, LenProperties, Zenon
    <3>2. Len(me.list) \in Nat BY <1>1, LenProperties, Zenon
    <3> HIDE DEF me
    <3> QED BY <3>1, <3>2, <1>1
  <2>2. RoundFits => me.since + Units(n + 1) <= Units(TagBatch) BY <1>0, <2>1 DEF LeaseRule, Fits
  <2>3. me.since \in Nat BY <1>0, Sizes DEF BackfillerSet
  <2>4. TagBatch \in Nat BY TagAssumption
  <2> HIDE DEF n, me
  <2>5. Units(n + 1) = Units(n) + Work /\ Units(n) \in Nat /\ Work \in Nat /\ Units(TagBatch) \in Nat
    BY <2>1, <2>4, UnitsGrow, Sizes
  <2>6. RoundFits => me.since + Units(n) + Work <= Units(TagBatch) BY <2>2, <2>3, <2>5
  <2> QED BY <2>3, <2>5, <2>6 DEF n
<1>3. CASE Claimable(j, me.since)
  <2>1. Put(w, rec) /\ tjJob' = [tjJob EXCEPT ![j] = row]
    BY <1>3 DEF Claim
  <2>2. tjJob[j].status # "none" BY <1>3 DEF Claimable
  <2>3. j # NoAsset BY <1>1, TagAssumption
  <2>4. /\ rec \in BackfillerSet /\ rec.at = "fetch" /\ rec.job = j /\ rec.list = Tail(me.list)
        /\ rec.since = me.since /\ rec.spent = 0
    BY <1>0, <1>1 DEF BackfillerSet
  <2>5. BackfillerRule(rec)
    <3> HIDE DEF rec
    <3> QED BY <2>3, <2>4 DEF BackfillerRule, OnJob
  <2>6. tjJob[j].tries + 1 \in Nat BY <1>0, <1>1 DEF JobSet
  <2>7. me.since \in 0..MaxAge BY <1>0 DEF BackfillerSet
  <2>8. row \in JobSet /\ row.status = "running" /\ row.age = me.since BY <2>6, <2>7 DEF JobSet
  <2> HIDE DEF row, rec
  <2>9. tjJob' \in [Assets -> JobSet] /\ tjJob'[j] = row /\ \A a \in Assets \ {j} : tjJob'[a] = tjJob[a]
    BY <2>1, <2>8, <1>0, <1>1
  <2>10. ASSUME RoundFits PROVE \A v \in Workers \ {w} : tjWorker[v].job # j
    BY <1>2, <1>3, <2>3, <2>10, NotClaimable
  <2>11. ASSUME RoundFits PROVE \A v \in Workers \ {w} : LeaseRule(tjWorker[v], tjJob')
    <3> TAKE v \in Workers \ {w}
    <3>1. LeaseRule(tjWorker[v], tjJob) /\ (tjWorker[v].job # NoAsset => tjWorker[v].job \in Assets)
      BY <2>11, BackfillerHolds
    <3>2. tjWorker[v].job # j BY <2>10, <2>11
    <3> QED BY <3>1, <3>2, <2>9 DEF LeaseRule
  <2>12. ASSUME RoundFits PROVE LeaseRule(rec, tjJob')
    <3>1. RoundFits /\ me.since + Units(Len(Tail(me.list))) + Work <= Units(TagBatch) BY <2>12, <1>2
    <3>2. OnJob(rec) /\ rec.at # "list" BY <2>4 DEF OnJob
    <3>3. tjJob'[j].status = "running" /\ tjJob'[j].age = rec.since BY <2>4, <2>8, <2>9
    <3> DEFINE units == Units(Len(Tail(me.list)))
               all == Units(TagBatch)
    <3>4. units \in Nat /\ all \in Nat /\ rec.since \in Nat /\ rec.spent = 0 /\ Work \in Nat
          /\ rec.since + units + Work <= all
      BY <3>1, <1>2, <2>4
    <3> HIDE DEF units, all
    <3>5. rec.spent <= Work /\ rec.since + units + (Work - rec.spent) <= all BY <3>4
    <3>6. rec.since <= rec.since BY <3>4
    <3>7. rec.since + Units(Len(rec.list)) + (Work - rec.spent) <= Units(TagBatch) BY <3>5, <2>4 DEF units, all
    <3> QED BY <3>2, <3>3, <3>5, <3>6, <3>7, <2>4 DEF LeaseRule
  <2>13. \A a \in Assets : tjJob[a].status = "none" <=> tjJob'[a].status = "none" BY <2>2, <2>8, <2>9
  <2>14. /\ UNCHANGED <<tagger, tjNote>> /\ rec \in BackfillerSet /\ rec.job = j /\ tjJob' \in [Assets -> JobSet]
         /\ rec.job # NoAsset => tjJob[rec.job].status # "none"
    BY <1>0, <2>2, <2>4, <2>9
  <2>15. RoundFits =>
           /\ LeaseRule(rec, tjJob') /\ \A v \in Workers \ {w} : LeaseRule(tjWorker[v], tjJob')
           /\ rec.job # NoAsset => \A v \in Workers \ {w} : tjWorker[v].job # rec.job
    BY <2>4, <2>10, <2>11, <2>12
  <2> HIDE DEF j, me
  <2> QED BY <2>1, <2>5, <2>13, <2>14, <2>15, BackfillerHolds, OneMoves
<1>4. CASE ~ Claimable(j, me.since)
  <2> DEFINE on == [me EXCEPT !.list = Tail(@)]
  <2>1. GoOn(w, on, tjJob) BY <1>4 DEF Claim
  <2>2. on \in BackfillerSet /\ on.since = me.since /\ on.list = Tail(me.list) BY <1>0, <1>1 DEF BackfillerSet
  <2> HIDE DEF on, me
  <2>3. RoundFits => Fits(on)
    <3> DEFINE units == Units(Len(Tail(me.list)))
               all == Units(TagBatch)
    <3>1. /\ RoundFits => me.since + units + Work <= all
          /\ me.since \in Nat /\ units \in Nat /\ Work \in Nat /\ all \in Nat
      BY <1>2
    <3> HIDE DEF units, all
    <3>2. RoundFits => me.since + units <= all BY <3>1
    <3> QED BY <3>2, <2>2 DEF Fits, units, all
  <2> QED BY <1>0, <2>1, <2>2, <2>3, GoOnKeeps
<1> QED BY <1>3, <1>4

LEMMA LeaveKeeps == ASSUME TagInv, NEW w \in Workers, LeaveRunning(w) PROVE TagInv'
  BY AsleepOK, QuietMove DEF LeaveRunning

LEMMA RefetchKeeps == ASSUME TagInv, NEW w \in Workers, NEW ok \in BOOLEAN, Refetch(w, ok) PROVE TagInv'
<1> DEFINE me == tjWorker[w]
           rec == IF ~ ok THEN [me EXCEPT !.at = "write", !.res = "missing"]
                  ELSE IF tjNote[PicOf[me.job]].status = "ok" THEN [me EXCEPT !.at = "write", !.res = "done"]
                  ELSE [me EXCEPT !.at = "describe"]
<1>1. Put(w, rec) /\ me.at = "fetch" /\ UNCHANGED <<tagger, tjNote, tjJob>> BY DEF Refetch
<1>2. me \in BackfillerSet /\ BackfillerRule(me) /\ (RoundFits => LeaseRule(me, tjJob)) BY BackfillerHolds
<1>3. /\ rec \in BackfillerSet /\ rec.at \in {"write", "describe"} /\ rec.job = me.job /\ rec.list = me.list
      /\ rec.since = me.since /\ rec.spent = me.spent /\ (rec.at = "write" => rec.res # "none")
  BY <1>2 DEF BackfillerSet
<1> HIDE DEF rec
<1>4. BackfillerRule(rec) BY <1>1, <1>2, <1>3 DEF BackfillerRule, OnJob
<1>5. RoundFits => LeaseRule(rec, tjJob) BY <1>1, <1>2, <1>3 DEF LeaseRule, OnJob
<1> QED BY <1>1, <1>3, <1>4, <1>5, QuietMove

LEMMA RedescribeKeeps == ASSUME TagInv, NEW w \in Workers, NEW ok \in BOOLEAN, Redescribe(w, ok) PROVE TagInv'
<1> DEFINE me == tjWorker[w]
           rec == [me EXCEPT !.at = "write", !.res = IF ok THEN "done" ELSE "failed"]
           status == IF ok THEN "ok" ELSE "failed"
<1>1. /\ Put(w, rec) /\ me.at = "describe" /\ UNCHANGED <<tagger, tjJob>>
      /\ tjNote' = Attempt(PicOf[me.job], status) /\ status \in {"ok", "failed"}
  BY DEF Redescribe, Describe
<1>2. /\ me \in BackfillerSet /\ BackfillerRule(me) /\ (RoundFits => LeaseRule(me, tjJob))
      /\ TagShape /\ PicturesFollow
  BY BackfillerHolds DEF TagInv
<1>3. me.job # NoAsset /\ me.job \in Assets BY <1>1, <1>2, BackfillerHolds DEF BackfillerRule, OnJob
<1>4. PicOf[me.job] \in Pics BY <1>3 DEF Pics
<1>5. /\ rec \in BackfillerSet /\ rec.at = "write" /\ rec.job = me.job /\ rec.list = me.list
      /\ rec.since = me.since /\ rec.spent = me.spent /\ rec.res # "none"
  BY <1>2 DEF BackfillerSet
<1> HIDE DEF rec, status
<1>6. BackfillerRule(rec) BY <1>3, <1>5 DEF BackfillerRule, OnJob
<1>7. RoundFits => LeaseRule(rec, tjJob) BY <1>1, <1>2, <1>5 DEF LeaseRule, OnJob
<1>8. /\ tjNote' \in [Pics -> NoteSet]
      /\ \A p \in Pics : tjNote'[p].status # "none" => tjNote'[p].tries > 0
      /\ \A p \in Pics : tjNote[p].tries > 0 => tjNote'[p].tries > 0
  BY <1>1, <1>2, <1>4, Attempts
<1> QED BY <1>1, <1>5, <1>6, <1>7, <1>8, BackfillerHolds, OneMoves

(* the job it writes is nobody else's, so nobody else's lease is touched *)
LEMMA WriteBackKeeps == ASSUME TagInv, NEW w \in Workers, WriteBack(w) PROVE TagInv'
<1> DEFINE me == tjWorker[w]
           jobs == [tjJob EXCEPT ![me.job].status = me.res, ![me.job].age = 0]
<1>1. me.at = "write" /\ GoOn(w, me, jobs) /\ UNCHANGED <<tagger, tjNote>> BY DEF WriteBack
<1>2. /\ me \in BackfillerSet /\ tjJob \in [Assets -> JobSet] /\ me.job \in Assets /\ me.res # "none"
      /\ tjJob[me.job].status # "none" /\ me.job # NoAsset /\ tjWorker \in [Workers -> BackfillerSet]
  BY <1>1, BackfillerHolds DEF BackfillerRule, OnJob
<1>3. me.res \in {"done", "missing", "failed"} /\ 0 \in 0..MaxAge BY <1>2, Sizes DEF BackfillerSet
<1>4. /\ jobs \in [Assets -> JobSet] /\ jobs[me.job].status = me.res
      /\ \A a \in Assets : a # me.job => jobs[a] = tjJob[a]
  <2> HIDE DEF me
  <2>1. [[tjJob[me.job] EXCEPT !.status = me.res] EXCEPT !.age = 0] \in JobSet BY <1>2, <1>3 DEF JobSet
  <2>2. tjJob[me.job] \in JobSet BY <1>2
  <2> QED BY <1>2, <1>3, <2>2 DEF JobSet
<1> HIDE DEF jobs
<1>5. RoundFits => Fits(me)
  <2> SUFFICES ASSUME RoundFits PROVE Fits(me) OBVIOUS
  <2> DEFINE units == Units(Len(me.list))
             all == Units(TagBatch)
  <2>1. me.spent <= Work /\ me.since + units + (Work - me.spent) <= all
    BY <1>1, BackfillerHolds DEF LeaseRule, OnJob
  <2>2. me.since \in 0..MaxAge /\ me.spent \in Nat /\ Len(me.list) \in Nat /\ TagBatch \in Nat
    BY <1>2, TagAssumption DEF BackfillerSet
  <2>3. units \in Nat /\ all \in Nat BY <2>2, UnitsGrow
  <2> HIDE DEF units, all, me
  <2>4. me.since + units <= all BY <2>1, <2>2, <2>3, Sizes
  <2> QED BY <2>4 DEF Fits, units, all
<1>6. PICK rec \in BackfillerSet :
        /\ Put(w, rec) /\ BackfillerRule(rec) /\ rec.job = NoAsset
        /\ RoundFits => \A f : LeaseRule(rec, f)
  <2> HIDE DEF me
  <2> QED BY <1>1, <1>2, <1>4, <1>5, GoOnGives
<1>7. /\ tjJob' \in [Assets -> JobSet]
      /\ \A a \in Assets : \/ tjJob'[a] = jobs[a]
                           \/ jobs[a].status \in {"done", "missing"} /\ tjJob'[a].status = "purged"
  BY <1>1, <1>2, <1>4, GoOnGives
<1>8. \A a \in Assets : tjJob[a].status = "none" <=> tjJob'[a].status = "none"
  <2> HIDE DEF me
  <2> QED BY <1>2, <1>4, <1>7
<1>9. RoundFits => \A v \in Workers \ {w} : LeaseRule(tjWorker[v], tjJob')
  <2> SUFFICES ASSUME RoundFits, NEW v \in Workers \ {w} PROVE LeaseRule(tjWorker[v], tjJob') OBVIOUS
  <2>1. LeaseRule(tjWorker[v], tjJob) /\ (tjWorker[v].job # NoAsset => tjWorker[v].job \in Assets) BY BackfillerHolds
  <2>2. tjWorker[v].job # me.job BY <1>2, BackfillerHolds
  <2> HIDE DEF me
  <2> QED BY <2>1, <2>2, <1>4, <1>7 DEF LeaseRule
<1> HIDE DEF me
<1> QED BY <1>1, <1>6, <1>7, <1>8, <1>9, BackfillerHolds, OneMoves

LEMMA DiesKeeps == ASSUME TagInv, NEW w \in Workers, Dies(w) PROVE TagInv'
<1>1. CASE Put(w, Asleep)
  BY <1>1, AsleepOK, QuietMove DEF Dies
<1>2. CASE UNCHANGED tjWorker
  <2>1. UNCHANGED <<tjStep, tjNext, tjPic, tjNote, tjJob, tjWorker>> BY <1>2 DEF Dies, tagger
  <2> QED BY <2>1, NothingMoves
<1> QED BY <1>1, <1>2 DEF Dies

LEMMA StartsAgainKeeps == ASSUME TagInv, NEW w \in Workers, StartsAgain(w) PROVE TagInv'
<1>1. UNCHANGED <<tjStep, tjNext, tjPic, tjNote, tjJob, tjWorker>> BY DEF StartsAgain, tagger
<1> QED BY <1>1, NothingMoves

(* a tick makes a round, the lease of its job and the work on it older by the same *)
LEMMA TickKeeps == ASSUME TagInv, TagTick PROVE TagInv'
<1> DEFINE aged(j) == IF tjJob[j].status # "running" THEN tjJob[j] ELSE [tjJob[j] EXCEPT !.age = Older(@)]
           later(w) == IF tjWorker[w].at = "idle" THEN tjWorker[w]
                       ELSE [tjWorker[w] EXCEPT !.since = Older(@), !.spent = Min({@ + 1, Work})]
<1>1. /\ tjJob' = [j \in Assets |-> aged(j)] /\ tjWorker' = [w \in Workers |-> later(w)]
      /\ UNCHANGED <<tjStep, tjNext, tjPic, tjOver, tjNote>>
      /\ \A w \in Workers : tjWorker[w].at \notin {"idle", "list"} => tjWorker[w].spent < Work
      /\ \A w \in Workers : tjWorker[w].at # "list"
  BY DEF TagTick, tagger
<1>2. TagShape /\ PicturesFollow /\ JobsFollow /\ tjJob \in [Assets -> JobSet] /\ tjWorker \in [Workers -> BackfillerSet]
  BY DEF TagInv, TagShape
<1>3. ASSUME NEW age \in 0..MaxAge PROVE Older(age) \in 0..MaxAge /\ Older(age) <= age + 1
  <2>1. age + 1 \in Int /\ MaxAge \in Int BY Sizes
  <2>2. Older(age) \in {age + 1, MaxAge} /\ Older(age) <= age + 1 /\ Older(age) <= MaxAge
    BY <2>1, Lesser, Zenon DEF Older
  <2> QED BY <2>2, Sizes
<1>a. ASSUME NEW younger \in 0..MaxAge, NEW older \in 0..MaxAge, younger <= older
      PROVE  Older(younger) <= Older(older)
  <2>1. younger + 1 \in Int /\ older + 1 \in Int /\ MaxAge \in Int BY Sizes
  <2>2. /\ Older(younger) <= younger + 1 /\ Older(younger) <= MaxAge /\ Older(younger) \in {younger + 1, MaxAge}
        /\ Older(older) \in {older + 1, MaxAge}
    BY <2>1, Lesser, Zenon DEF Older
  <2> QED BY <2>1, <2>2, <1>a
<1>4. ASSUME NEW n \in Nat PROVE Min({n + 1, Work}) \in Nat /\ (n < Work => Min({n + 1, Work}) = n + 1)
  <2>1. n + 1 \in Int /\ Work \in Int BY Sizes
  <2> DEFINE x == Min({n + 1, Work})
  <2>2. x \in {n + 1, Work} /\ x <= n + 1 /\ x <= Work BY <2>1, Lesser, Zenon
  <2> HIDE DEF x
  <2>3. x \in Nat /\ (n < Work => x = n + 1) BY <2>2, Sizes
  <2> QED BY <2>3 DEF x
<1> HIDE DEF Older, Min
<1>5. ASSUME NEW j \in Assets
      PROVE  /\ aged(j) \in JobSet /\ aged(j).status = tjJob[j].status
             /\ tjJob[j].status = "running" => aged(j).age = Older(tjJob[j].age)
  <2>1. tjJob[j] \in JobSet /\ tjJob[j].age \in 0..MaxAge BY <1>2 DEF JobSet
  <2>2. Older(tjJob[j].age) \in 0..MaxAge /\ Older(tjJob[j].age) <= tjJob[j].age + 1 BY <1>3, <2>1
  <2> QED BY <2>1, <2>2, Sizes DEF JobSet
<1>6. ASSUME NEW w \in Workers
      PROVE  /\ later(w) \in BackfillerSet /\ later(w).at = tjWorker[w].at /\ later(w).job = tjWorker[w].job
             /\ later(w).list = tjWorker[w].list /\ later(w).res = tjWorker[w].res
             /\ (OnJob(tjWorker[w]) => later(w).spent = tjWorker[w].spent + 1 /\ later(w).spent <= Work)
             /\ (OnJob(tjWorker[w]) => later(w).since = Older(tjWorker[w].since))
             /\ OnJob(tjWorker[w]) \/ tjWorker[w].at = "idle"
  <2> DEFINE me == tjWorker[w]
  <2>1. me \in BackfillerSet /\ me.since \in 0..MaxAge /\ me.spent \in Nat /\ me.at # "list" BY <1>1, <1>2 DEF BackfillerSet
  <2>2. CASE me.at = "idle" BY <2>1, <2>2 DEF OnJob
  <2>3. CASE me.at # "idle"
    <3> DEFINE since == Older(me.since)
               spent == Min({me.spent + 1, Work})
    <3>1. spent \in Nat /\ (me.spent < Work => spent = me.spent + 1) BY <1>4, <2>1
    <3>2. since \in 0..MaxAge BY <1>3, <2>1
    <3>3. me.at \in {"fetch", "describe", "write"} /\ me.spent < Work BY <1>1, <2>1, <2>3 DEF BackfillerSet
    <3>4. since = Older(me.since) OBVIOUS
    <3>5. later(w) = [me EXCEPT !.since = since, !.spent = spent] BY <2>3
    <3> HIDE DEF since, spent
    <3>6. spent = me.spent + 1 /\ spent <= Work BY <3>1, <3>3, <2>1, Sizes
    <3> HIDE DEF me, later
    <3>7. /\ [me EXCEPT !.since = since, !.spent = spent] \in BackfillerSet
          /\ later(w).at = me.at /\ later(w).job = me.job /\ later(w).list = me.list /\ later(w).res = me.res
          /\ later(w).spent = spent /\ later(w).since = since
      BY <2>1, <3>1, <3>2, <3>5 DEF BackfillerSet
    <3>8. OnJob(me) BY <3>3 DEF OnJob
    <3> QED BY <3>4, <3>5, <3>6, <3>7, <3>8 DEF me
  <2> QED BY <2>2, <2>3
<1> HIDE DEF aged, later
<1>7. tjJob' \in [Assets -> JobSet] /\ tjWorker' \in [Workers -> BackfillerSet] BY <1>1, <1>5, <1>6
<1>8. \A w \in Workers : BackfillerRule(tjWorker'[w])
  <2> TAKE w \in Workers
  <2>1. tjWorker'[w] = later(w) /\ BackfillerRule(tjWorker[w]) BY <1>1, <1>2 DEF TagShape
  <2> QED BY <2>1, <1>6 DEF BackfillerRule, OnJob
<1>9. TagShape' BY <1>1, <1>2, <1>7, <1>8 DEF TagShape
<1>10. \A j \in Assets : tjJob'[j].status = tjJob[j].status BY <1>1, <1>5
<1>11. PicturesFollow'
  <2>1. Owed' = Owed BY <1>1 DEF Owed
  <2> QED BY <1>1, <1>2, <1>10, <2>1 DEF PicturesFollow
<1>12. \A w \in Workers : /\ tjWorker'[w].job = tjWorker[w].job
                          /\ tjWorker[w].job # NoAsset => tjWorker[w].job \in Assets
  <2> TAKE w \in Workers
  <2>1. tjWorker[w].job \in Assets \cup {NoAsset} BY <1>2 DEF BackfillerSet
  <2> QED BY <2>1, <1>1, <1>6
<1>13. JobsFollow' BY <1>1, <1>2, <1>10, <1>12 DEF JobsFollow
<1>14. ASSUME LeaseHeld PROVE LeaseHeld'
  <2>1. OneWorkerPerJob' BY <1>12, <1>14 DEF LeaseHeld, OneWorkerPerJob
  <2>2. ASSUME NEW w \in Workers PROVE LeaseRule(tjWorker'[w], tjJob')
    <3>1. LeaseRule(tjWorker[w], tjJob) /\ tjWorker'[w] = later(w) /\ BackfillerRule(tjWorker[w])
      BY <1>1, <1>2, <1>14 DEF LeaseHeld, TagShape
    <3>2. CASE tjWorker[w].at = "idle"
      <4>1. later(w).at = "idle" /\ later(w).job = NoAsset BY <3>1, <3>2, <1>6 DEF BackfillerRule, OnJob
      <4> QED BY <4>1, <3>1 DEF LeaseRule, OnJob
    <3>3. CASE OnJob(tjWorker[w])
      <4> DEFINE me == tjWorker[w]
                 j == me.job
                 units == Units(Len(me.list))
                 all == Units(TagBatch)
      <4>1. later(w).job = j /\ j \in Assets /\ OnJob(later(w)) /\ later(w).at # "list" /\ j # NoAsset
        BY <3>1, <3>3, <1>6, <1>12 DEF BackfillerRule, OnJob
      <4>2. /\ tjJob[j].status = "running" /\ tjJob[j].age <= me.since
            /\ me.spent <= Work /\ me.since + units + (Work - me.spent) <= all
        BY <3>1, <3>3, <4>1 DEF LeaseRule
      <4>3. tjJob'[j] = aged(j) /\ aged(j).status = "running" /\ aged(j).age = Older(tjJob[j].age)
        BY <4>1, <4>2, <1>1, <1>5
      <4>4. tjJob[j].age \in 0..MaxAge /\ me.since \in 0..MaxAge /\ me.spent \in Nat /\ me.list \in Seq(Assets)
        BY <4>1, <1>2 DEF JobSet, BackfillerSet
      <4>5. /\ later(w).spent = me.spent + 1 /\ later(w).spent <= Work /\ later(w).since = Older(me.since)
            /\ later(w).list = me.list
        BY <3>3, <1>6
      <4>6. aged(j).age <= later(w).since BY <4>2, <4>3, <4>4, <4>5, <1>a
      <4>7. Older(me.since) \in 0..MaxAge /\ Older(me.since) <= me.since + 1 BY <4>4, <1>3
      <4>8. units \in Nat /\ all \in Nat
        <5>1. Len(me.list) \in Nat BY <4>4, LenProperties, Zenon
        <5>2. TagBatch \in Nat BY TagAssumption
        <5> QED BY <5>1, <5>2, UnitsGrow
      <4>9. later(w).since + Units(Len(later(w).list)) + (Work - later(w).spent) <= Units(TagBatch)
        <5>1. Units(Len(later(w).list)) = units /\ Units(TagBatch) = all BY <4>5
        <5>a. me.since \in Nat /\ Work \in Nat /\ Older(me.since) \in Nat BY <4>4, <4>7, Sizes
        <5>b. PICK since \in Nat : since = me.since BY <5>a
        <5>c. PICK spent \in Nat : spent = me.spent BY <4>4
        <5>d. PICK older \in Nat : older = later(w).since BY <5>a, <4>5
        <5> HIDE DEF units, all, me
        <5>2. later(w).since + units + (Work - later(w).spent) <= all
          <6>1. since + units + (Work - spent) <= all /\ older <= since + 1 /\ later(w).spent = spent + 1
            BY <4>2, <4>5, <4>7, <5>b, <5>c, <5>d
          <6>2. older + units + (Work - (spent + 1)) <= all BY <6>1, <5>a, <4>8
          <6> QED BY <6>1, <6>2, <5>d
        <5> QED BY <5>1, <5>2
      <4> QED BY <3>1, <4>1, <4>3, <4>5, <4>6, <4>9 DEF LeaseRule
    <3> QED BY <3>2, <3>3, <1>6
  <2> QED BY <2>1, <2>2 DEF LeaseHeld
<1> QED BY <1>9, <1>11, <1>13, <1>14 DEF TagInv

-----------------------------------------------------------------------------
LEMMA TagInvKept == TagInv /\ [TagNext]_tjVars => TagInv'
<1> SUFFICES ASSUME TagInv, [TagNext]_tjVars PROVE TagInv' OBVIOUS
<1>1. CASE UNCHANGED tjVars
  <2>1. UNCHANGED <<tjStep, tjNext, tjPic, tjNote, tjJob, tjWorker>> BY <1>1 DEF tjVars
  <2> QED BY <2>1, NothingMoves
<1>2. ASSUME NEW w \in Workers, WorkerNext(w) PROVE TagInv'
  BY <1>2, RoundKeeps, ClaimKeeps, WriteBackKeeps, LeaveKeeps, StartsAgainKeeps, RefetchKeeps, RedescribeKeeps
     DEF WorkerNext
<1> QED BY <1>1, <1>2, TaggerKeeps, TickKeeps, DiesKeeps DEF TagNext

(* Tagger, table and backfillers, one invariant: the rows follow the pictures, a running row
   follows its worker, and its lease is as old as its round at most (tagger.go, assets/jobs.go,
   state/jobs.go). *)
THEOREM TagInvariant == TagSpec => []TagInv
BY TagStarts, TagInvKept, PTL DEF TagSpec

(* what the rules above leave out: a job is tried so often at most, and faults are counted *)
MostTries == Max({MaxAttempts, NoteRetries})
TriesBounded == \A a \in Assets : tjJob[a].tries <= MostTries
TagCounts == TriesBounded /\ tjOver \in BOOLEAN /\ tjEnding \subseteq Workers /\ tjFaults \in 0..TagFaults

LEMMA Tries == MostTries \in Nat /\ MaxAttempts \in Nat /\ MaxAttempts <= MostTries /\ NoteRetries <= MostTries
<1>1. MaxAttempts \in Nat /\ NoteRetries \in Nat BY TagAssumption
<1>2. \E x \in {MaxAttempts, NoteRetries} : \A y \in {MaxAttempts, NoteRetries} : x >= y
  <2>1. CASE MaxAttempts <= NoteRetries BY <1>1, <2>1
  <2>2. CASE NoteRetries <= MaxAttempts BY <1>1, <2>2
  <2> QED BY <1>1, <2>1, <2>2
<1>3. MostTries \in {MaxAttempts, NoteRetries} /\ \A y \in {MaxAttempts, NoteRetries} : MostTries >= y
  BY <1>2 DEF MostTries, Max
<1> QED BY <1>1, <1>3

LEMMA GoOnTries ==
  ASSUME NEW w \in Workers, NEW me, NEW jobs \in [Assets -> JobSet], GoOn(w, me, jobs)
  PROVE  \A a \in Assets : tjJob'[a].tries = jobs[a].tries
<1>1. CASE me.list = <<>>
  <2>1. PICK old : tjJob' = [j \in Assets |-> IF j \in old THEN [jobs[j] EXCEPT !.status = "purged"] ELSE jobs[j]]
    BY <1>1 DEF GoOn, Cleaned
  <2>2. \A j \in Assets : [jobs[j] EXCEPT !.status = "purged"].tries = jobs[j].tries BY DEF JobSet
  <2> QED BY <2>1, <2>2
<1>2. CASE me.list # <<>> BY <1>2 DEF GoOn
<1> QED BY <1>1, <1>2

LEMMA TriesKept == TagInv /\ TagCounts /\ [TagNext]_tjVars => TriesBounded'
<1> SUFFICES ASSUME TagInv, TagCounts, [TagNext]_tjVars PROVE TriesBounded' OBVIOUS
<1>1. tjJob \in [Assets -> JobSet] /\ tjNote \in [Pics -> NoteSet] /\ TriesBounded /\ tjNext \in Assets
  BY DEF TagInv, TagShape, TagCounts
<1>2. CASE tjJob' = tjJob BY <1>1, <1>2 DEF TriesBounded
<1>3. ASSUME \A a \in Assets : tjJob'[a].tries = tjJob[a].tries PROVE TriesBounded' BY <1>1, <1>3 DEF TriesBounded
<1>4. CASE SaveOwed
  <2> DEFINE tries == IF tjPic[tjNext] = "worn" THEN tjNote[PicOf[tjNext]].tries ELSE 0
             row == [status |-> IF tjPic[tjNext] = "deferred" THEN "pending" ELSE "failed", tries |-> tries, age |-> 0]
  <2>1. tjNote[PicOf[tjNext]].tries \in 0..NoteRetries BY <1>1 DEF Pics, NoteSet
  <2>2. tries <= MostTries BY <2>1, Tries, Sizes
  <2>3. tjJob' = tjJob \/ tjJob' = [tjJob EXCEPT ![tjNext] = row] BY <1>4 DEF SaveOwed
  <2>4. row.tries = tries OBVIOUS
  <2> HIDE DEF tries, row
  <2> QED BY <1>1, <2>2, <2>3, <2>4 DEF TriesBounded
<1>5. ASSUME NEW w \in Workers, Claim(w) PROVE TriesBounded'
  <2> DEFINE me == tjWorker[w]
             j == Head(me.list)
             row == [status |-> "running", tries |-> tjJob[j].tries + 1, age |-> me.since]
  <2>1. CASE Claimable(j, me.since)
    <3>1. tjJob' = [tjJob EXCEPT ![j] = row] BY <1>5, <2>1 DEF Claim
    <3>2. tjJob[j].tries < MaxAttempts BY <2>1 DEF Claimable
    <3>3. row.tries = tjJob[j].tries + 1 OBVIOUS
    <3> HIDE DEF row, j
    <3>4. ASSUME NEW a \in Assets PROVE tjJob'[a].tries <= MostTries
      <4>1. CASE a = j
        <5>1. tjJob[j].tries \in Nat BY <1>1, <4>1 DEF JobSet
        <5> QED BY <1>1, <3>1, <3>2, <3>3, <4>1, <5>1, Tries
      <4>2. CASE a # j BY <1>1, <3>1, <4>2 DEF TriesBounded
      <4> QED BY <4>1, <4>2
    <3> QED BY <3>4 DEF TriesBounded
  <2>2. CASE ~ Claimable(j, me.since)
    <3>1. GoOn(w, [me EXCEPT !.list = Tail(@)], tjJob) BY <1>5, <2>2 DEF Claim
    <3> QED BY <1>1, <1>3, <3>1, GoOnTries
  <2> QED BY <2>1, <2>2
<1>6. ASSUME NEW w \in Workers, Round(w) PROVE TriesBounded'
  <2>1. PICK me : GoOn(w, me, tjJob) BY <1>6 DEF Round
  <2> QED BY <1>1, <1>3, <2>1, GoOnTries
<1>7. ASSUME NEW w \in Workers, WriteBack(w) PROVE TriesBounded'
  <2> DEFINE me == tjWorker[w]
             jobs == [tjJob EXCEPT ![me.job].status = me.res, ![me.job].age = 0]
  <2>1. GoOn(w, me, jobs) /\ me.at = "write" BY <1>7 DEF WriteBack
  <2>2. me \in BackfillerSet /\ me.job \in Assets /\ me.res # "none"
    BY <2>1, BackfillerHolds DEF BackfillerRule, OnJob
  <2>3. me.res \in {"done", "missing", "failed"} /\ 0 \in 0..MaxAge BY <2>2, Sizes DEF BackfillerSet
  <2>4. jobs \in [Assets -> JobSet] /\ \A a \in Assets : jobs[a].tries = tjJob[a].tries
    <3> HIDE DEF me
    <3>1. tjJob[me.job] \in JobSet BY <1>1, <2>2
    <3> QED BY <1>1, <2>2, <2>3, <3>1 DEF JobSet
  <2> HIDE DEF jobs, me
  <2> QED BY <1>3, <2>1, <2>4, GoOnTries
<1>8. CASE TagTick
  <2>1. tjJob' = [j \in Assets |-> IF tjJob[j].status # "running" THEN tjJob[j] ELSE [tjJob[j] EXCEPT !.age = Older(@)]]
    BY <1>8 DEF TagTick
  <2>2. \A j \in Assets : [tjJob[j] EXCEPT !.age = Older(@)].tries = tjJob[j].tries BY <1>1 DEF JobSet
  <2> QED BY <1>3, <2>1, <2>2
<1>9. CASE UNCHANGED tjVars BY <1>2, <1>9 DEF tjVars
<1>10. CASE TaggerNext /\ ~ SaveOwed
  BY <1>2, <1>10 DEF TaggerNext, BudgetOver, LookUp, AllTagged, Fetch, BeginNote, OutOfTime, Finish
<1>11. ASSUME NEW w \in Workers, LeaveRunning(w) \/ StartsAgain(w) \/ Dies(w)
                                 \/ \E ok \in BOOLEAN : Refetch(w, ok) \/ Redescribe(w, ok)
       PROVE  TriesBounded'
  BY <1>2, <1>11 DEF LeaveRunning, StartsAgain, Dies, Refetch, Redescribe
<1> QED BY <1>4, <1>5, <1>6, <1>7, <1>8, <1>9, <1>10, <1>11 DEF TagNext, WorkerNext

LEMMA TagCountsKept == TagInv /\ TagCounts /\ [TagNext]_tjVars => TagCounts'
<1> SUFFICES ASSUME TagInv, TagCounts, [TagNext]_tjVars PROVE TagCounts' OBVIOUS
<1>1. tjOver' = tjOver \/ tjOver' = TRUE
  BY DEF tjVars, tagger, TagNext, TaggerNext, WorkerNext, TagTick, BudgetOver, LookUp, AllTagged, Fetch, BeginNote,
     OutOfTime, Finish, SaveOwed, Round, Claim, WriteBack, LeaveRunning, StartsAgain, Dies, Refetch, Redescribe
<1>2. \/ tjEnding' = tjEnding
      \/ \E w \in Workers : tjEnding' \in {tjEnding \cup {w}, tjEnding \ {w}}
  BY DEF tjVars, tagger, TagNext, TaggerNext, WorkerNext, TagTick, BudgetOver, LookUp, AllTagged, Fetch, BeginNote,
     OutOfTime, Finish, SaveOwed, Round, Claim, WriteBack, LeaveRunning, StartsAgain, Dies, Refetch, Redescribe
<1>3. tjFaults' = tjFaults \/ (tjFaults < TagFaults /\ tjFaults' = tjFaults + 1)
  BY DEF tjVars, tagger, TagNext, TaggerNext, WorkerNext, TagTick, BudgetOver, LookUp, AllTagged, Fetch, BeginNote,
     OutOfTime, Finish, SaveOwed, Round, Claim, WriteBack, LeaveRunning, StartsAgain, Dies, Refetch, Redescribe
<1>4. tjFaults \in 0..TagFaults /\ TagFaults \in Nat BY TagAssumption DEF TagCounts
<1>5. tjFaults' \in 0..TagFaults BY <1>3, <1>4
<1>6. tjEnding' \subseteq Workers BY <1>2 DEF TagCounts
<1>7. tjOver' \in BOOLEAN BY <1>1 DEF TagCounts
<1> QED BY <1>5, <1>6, <1>7, TriesKept DEF TagCounts

LEMMA TagCountsStart == TagInit => TagCounts
<1> SUFFICES ASSUME TagInit PROVE TagCounts OBVIOUS
<1>1. TriesBounded BY Tries DEF TagInit, TriesBounded
<1>2. TagFaults \in Nat BY TagAssumption
<1>3. tjFaults \in 0..TagFaults BY <1>2 DEF TagInit
<1>4. tjOver = FALSE /\ tjEnding = {} BY DEF TagInit
<1> QED BY <1>1, <1>3, <1>4 DEF TagCounts

LEMMA TagTyped == TagInv /\ TagCounts => TagTypeOK
<1> SUFFICES ASSUME TagInv, TagCounts PROVE TagTypeOK OBVIOUS
<1>1. \A p \in Pics : tjNote[p].status \in {"none", "ok", "failed"} /\ tjNote[p].tries \in 0..NoteRetries
  BY DEF TagInv, TagShape, NoteSet
<1>2. ASSUME NEW a \in Assets
      PROVE  /\ tjJob[a].status \in {"none", "pending", "failed", "running", "done", "missing", "purged"}
             /\ tjJob[a].tries \in 0..Max({MaxAttempts, NoteRetries}) /\ tjJob[a].age \in 0..MaxAge
  <2>1. tjJob[a] \in JobSet /\ tjJob[a].tries <= MostTries BY DEF TagInv, TagShape, TagCounts, TriesBounded
  <2>2. tjJob[a].tries \in 0..MostTries BY <2>1, Tries DEF JobSet
  <2>3. MostTries = Max({MaxAttempts, NoteRetries}) BY DEF MostTries
  <2> QED BY <2>1, <2>2, <2>3 DEF JobSet
<1>3. \A w \in Workers : tjWorker[w].at \in {"idle", "list", "fetch", "describe", "write"}
  BY DEF TagInv, TagShape, BackfillerSet
<1> QED BY <1>1, <1>2, <1>3 DEF TagInv, TagShape, TagCounts, TagTypeOK

(* While the lease is as long as a whole round's work, no two backfillers ever have the same job,
   for every number of them, of pictures and of jobs in a round, every length of the work, whoever
   dies when (assets/jobs.go tick and claim, state/jobs.go ClaimAssetTagJob).  Longer than one
   job, which is all that the comment on ClaimTimeout asks, is not enough: MCWorkersLease. *)
THEOREM TagOneWorker == ASSUME TagBatch * Work <= ClaimTimeout PROVE TagSpec => []OneWorkerPerJob
<1>0. RoundFits BY DEF RoundFits, Units
<1>1. TagInv => OneWorkerPerJob BY <1>0 DEF TagInv, LeaseHeld
<1> QED BY TagInvariant, <1>1, PTL

(* When the tagger is through, a picture is described or has its row, for every number of
   pictures, every budget and whatever the backfillers do meanwhile (tagger.go TagURLs,
   persistDeferred). *)
THEOREM TagEveryPicture == TagSpec => []EveryPictureAccountedFor
<1>1. TagInv => EveryPictureAccountedFor
  <2> SUFFICES ASSUME TagInv, tjStep = "done", NEW a \in Assets
               PROVE  tjJob[a].status # "none" \/ (tjPic[a] = "ok" /\ tjNote[PicOf[a]].tries > 0)
    BY DEF EveryPictureAccountedFor
  <2>1. tjPic[a] \in {"ok", "deferred", "failed", "worn"} BY DEF TagInv, TagShape, PicturesFollow
  <2>2. CASE a \in Owed BY <2>2 DEF TagInv, PicturesFollow
  <2>3. CASE a \notin Owed BY <2>1, <2>3 DEF TagInv, PicturesFollow, Owed
  <2> QED BY <2>2, <2>3
<1> QED BY TagInvariant, <1>1, PTL

-----------------------------------------------------------------------------
(* Mentions: a row holds no placeholder of somebody its text does not mention, and one worker *)

RowSet  == [open : SUBSET People, torn : BOOLEAN, todo : BOOLEAN, there : BOOLEAN]
WorkSet == [at : {"none", "start", "read", "rewrite", "leave"}, round : Nat, rows : SUBSET Texts,
            names : SUBSET People]
SyncSet == [at : {"idle", "render", "save", "call"}, text : Texts \cup {0}, open : SUBSET People]

MentionInv ==
  /\ MentionTypeOK
  /\ mnRows \in [Texts -> RowSet] /\ mnWork \in WorkSet /\ mnSync \in SyncSet
  /\ mnSync.at # "idle" => mnSync.text \in Texts /\ mnSync.open \subseteq Mentioned[mnSync.text]

LEMMA MentionStarts == MentionInit => MentionInv
<1> SUFFICES ASSUME MentionInit PROVE MentionInv OBVIOUS
<1>1. Unwritten \in RowSet /\ Unwritten.open = {} /\ NoBatch \in WorkSet /\ NoBatch.at = "none"
      /\ NoSync \in SyncSet /\ NoSync.at = "idle"
  BY DEF RowSet, WorkSet, SyncSet, Unwritten, NoBatch, NoSync
<1>2. mnRows \in [Texts -> RowSet] /\ \A m \in Texts : mnRows[m].open = {} BY <1>1 DEF MentionInit
<1>3. mnQueued = FALSE /\ (mnWork.at # "none") = FALSE BY <1>1 DEF MentionInit
<1>4. mnFaults \in 0..MentionFaults /\ mnStarts \in 0..MentionFaults BY MentionAssumption DEF MentionInit
<1>5. MentionTypeOK BY <1>2, <1>3, <1>4 DEF MentionInit, MentionTypeOK
<1> QED BY <1>1, <1>2, <1>5 DEF MentionInit, MentionInv

(* a call leaves one worker, or a note for it *)
LEMMA ScheduleKeeps ==
  ASSUME MentionInv, Schedule
  PROVE  mnWork' \in WorkSet /\ mnAgain' \in BOOLEAN /\ mnQueued' = (mnWork'.at # "none")
<1>1. mnWork \in WorkSet /\ mnAgain \in BOOLEAN /\ mnQueued = (mnWork.at # "none") BY DEF MentionInv, MentionTypeOK
<1>2. [NoBatch EXCEPT !.at = "start"] \in WorkSet /\ [NoBatch EXCEPT !.at = "start"].at = "start"
  BY DEF NoBatch, WorkSet
<1>3. CASE mnQueued
  <2>1. mnAgain' = TRUE /\ mnQueued' = mnQueued /\ mnWork' = mnWork BY <1>3 DEF Schedule
  <2> QED BY <1>1, <2>1
<1>4. CASE ~ mnQueued
  <2>1. mnQueued' = TRUE /\ mnWork' = [NoBatch EXCEPT !.at = "start"] /\ mnAgain' = mnAgain BY <1>4 DEF Schedule
  <2>2. (mnWork'.at # "none") = TRUE BY <1>2, <2>1
  <2> QED BY <1>1, <1>2, <2>1, <2>2
<1> QED BY <1>3, <1>4

LEMMA LearnedKeeps ==
  ASSUME MentionInv, NEW p \in People,
         Learned(p) \/ UNCHANGED <<mnNames, mnSignal, mnWork, mnFaults>>
  PROVE  /\ mnWork' \in WorkSet /\ mnAgain' \in BOOLEAN /\ mnQueued' = (mnWork'.at # "none")
         /\ mnKnown' \subseteq People /\ mnStored' \subseteq People /\ mnFaults' \in 0..MentionFaults
<1>1. CASE Learned(p)
  <2>1. Schedule BY <1>1 DEF Learned
  <2>2. mnKnown' \subseteq People /\ mnStored' \subseteq People
    BY <1>1 DEF Learned, MentionInv, MentionTypeOK
  <2>3. mnFaults' \in 0..MentionFaults
    BY <1>1, MentionAssumption DEF Learned, MentionInv, MentionTypeOK, DatabaseFails
  <2> QED BY <2>1, <2>2, <2>3, ScheduleKeeps
<1>2. CASE UNCHANGED <<mnNames, mnSignal, mnWork, mnFaults>>
  BY <1>2 DEF mnNames, mnSignal, MentionInv, MentionTypeOK
<1> QED BY <1>1, <1>2

(* the rows as they are, the sync node on the text it had or on one to write *)
LEMMA RowsStay ==
  ASSUME MentionInv, mnRows' = mnRows
  PROVE  mnRows' \in [Texts -> RowSet] /\ \A m \in Texts : mnRows'[m].open \subseteq Mentioned[m]
BY DEF MentionInv, MentionTypeOK

LEMMA LookKeeps == ASSUME MentionInv, NEW m \in Texts, Look(m), UNCHANGED mnStarts PROVE MentionInv'
<1>1. Learned(Author[m]) \/ UNCHANGED <<mnNames, mnSignal, mnWork, mnFaults>> BY DEF Look
<1>2. Author[m] \in People /\ m \in Texts /\ Mentioned[m] \in SUBSET People BY MentionAssumption
<1>3. mnSync' \in SyncSet /\ mnSync'.text = m /\ mnSync'.open = {} BY <1>2 DEF Look, SyncSet
<1>4. mnRows' = mnRows /\ mnAsked' = mnAsked BY DEF Look
<1>5. mnAsked' \subseteq People /\ mnStarts' \in 0..MentionFaults BY <1>4 DEF MentionInv, MentionTypeOK
<1> QED BY <1>1, <1>2, <1>3, <1>4, <1>5, LearnedKeeps, RowsStay DEF MentionInv, MentionTypeOK

LEMMA RenderKeeps == ASSUME MentionInv, Render, UNCHANGED mnStarts PROVE MentionInv'
<1> DEFINE open == Mentioned[mnSync.text] \ ResolveNames
<1>1. mnSync \in SyncSet /\ mnSync.text \in Texts BY DEF MentionInv, Render
<1>2. open \in SUBSET Mentioned[mnSync.text] /\ Mentioned[mnSync.text] \in SUBSET People BY <1>1, MentionAssumption
<1>3. mnSync' = [mnSync EXCEPT !.at = "save", !.open = open] /\ mnAsked' = mnAsked \cup open
      /\ mnKnown' = mnKnown \cup (Mentioned[mnSync.text] \cap mnStored)
  BY DEF Render
<1> HIDE DEF open
<1>4. mnSync' \in SyncSet /\ mnSync'.text = mnSync.text /\ mnSync'.open = open BY <1>1, <1>2, <1>3 DEF SyncSet
<1>5. mnKnown' \subseteq People /\ mnAsked' \subseteq People BY <1>2, <1>3 DEF MentionInv, MentionTypeOK
<1>6. UNCHANGED <<mnRows, mnStored, mnQueued, mnAgain, mnWork, mnFaults>> BY DEF Render, mnSignal
<1> QED BY <1>1, <1>2, <1>4, <1>5, <1>6, RowsStay DEF MentionInv, MentionTypeOK

LEMMA SaveKeeps == ASSUME MentionInv, Save, UNCHANGED mnStarts PROVE MentionInv'
<1>1. mnSync \in SyncSet /\ mnSync.text \in Texts /\ mnSync.open \subseteq Mentioned[mnSync.text]
  BY DEF MentionInv, Save
<1>2. mnSync' = [mnSync EXCEPT !.at = "call"] BY DEF Save
<1>3. mnSync' \in SyncSet /\ mnSync'.text = mnSync.text /\ mnSync'.open = mnSync.open BY <1>1, <1>2 DEF SyncSet
<1>4. mnRows' \in [Texts -> RowSet] /\ \A m \in Texts : mnRows'[m].open \subseteq Mentioned[m]
  <2>1. CASE mnRows' = mnRows BY <2>1, RowsStay
  <2>2. CASE mnRows' # mnRows
    <3> DEFINE row == [open |-> mnSync.open, torn |-> mnSync.text \in Torn /\ mnSync.open # {},
                       todo |-> mnSync.open # {}, there |-> TRUE]
    <3>1. mnRows' = [mnRows EXCEPT ![mnSync.text] = row] BY <2>2 DEF Save
    <3>2. row \in RowSet /\ row.open = mnSync.open BY <1>1 DEF RowSet, SyncSet
    <3> HIDE DEF row
    <3>3. mnRows \in [Texts -> RowSet] /\ \A m \in Texts : mnRows[m].open \subseteq Mentioned[m]
      BY DEF MentionInv, MentionTypeOK
    <3> QED BY <1>1, <3>1, <3>2, <3>3
  <2> QED BY <2>1, <2>2
<1>5. mnFaults' \in 0..MentionFaults BY MentionAssumption DEF Save, DatabaseFails, MentionInv, MentionTypeOK
<1>6. UNCHANGED <<mnKnown, mnStored, mnQueued, mnAgain, mnWork, mnAsked>> BY DEF Save, mnNames, mnSignal
<1> QED BY <1>1, <1>3, <1>4, <1>5, <1>6 DEF MentionInv, MentionTypeOK

LEMMA EndBatchKeeps == ASSUME MentionInv, EndBatch, UNCHANGED mnStarts PROVE MentionInv'
<1>1. Schedule /\ mnSync' = NoSync /\ UNCHANGED <<mnRows, mnKnown, mnStored, mnAsked, mnFaults>>
  BY DEF EndBatch, mnNames
<1>2. NoSync \in SyncSet /\ NoSync.at = "idle" BY DEF SyncSet, NoSync
<1> QED BY <1>1, <1>2, ScheduleKeeps, RowsStay DEF MentionInv, MentionTypeOK

LEMMA AnswerKeeps == ASSUME MentionInv, NEW p \in People, Answer(p), UNCHANGED mnStarts PROVE MentionInv'
<1>1. Learned(p) \/ UNCHANGED <<mnNames, mnSignal, mnWork, mnFaults>> BY DEF Answer
<1>2. mnAsked' \subseteq People /\ mnRows' = mnRows /\ mnSync' = mnSync BY DEF Answer, MentionInv, MentionTypeOK
<1> QED BY <1>1, <1>2, LearnedKeeps, RowsStay DEF MentionInv, MentionTypeOK

(* the worker *)
LEMMA BeginKeeps == ASSUME MentionInv, Begin, UNCHANGED mnStarts PROVE MentionInv'
<1>1. mnWork \in WorkSet /\ mnWork.at = "start" /\ mnQueued = (mnWork.at # "none") BY DEF Begin, MentionInv, MentionTypeOK
<1>2. mnWork' = [mnWork EXCEPT !.at = "read", !.round = 0] BY DEF Begin
<1>3. mnWork' \in WorkSet /\ mnWork'.at = "read" BY <1>1, <1>2 DEF WorkSet
<1>4. mnQueued' = (mnWork'.at # "none") BY <1>1, <1>3 DEF Begin
<1>5. UNCHANGED <<mnRows, mnKnown, mnStored, mnSync, mnAsked, mnFaults>> /\ mnAgain' = FALSE BY DEF Begin, mnNames
<1> QED BY <1>3, <1>4, <1>5, RowsStay DEF MentionInv, MentionTypeOK

LEMMA ReadBatchKeeps == ASSUME MentionInv, ReadBatch, UNCHANGED mnStarts PROVE MentionInv'
<1> DEFINE rows == Oldest(Pending)
<1>1. mnWork \in WorkSet /\ mnWork.at = "read" /\ mnQueued = (mnWork.at # "none") BY DEF ReadBatch, MentionInv, MentionTypeOK
<1>2. rows \in SUBSET Texts /\ ResolveNames \in SUBSET People
  BY DEF Oldest, Pending, ResolveNames, MentionInv, MentionTypeOK
<1>3. \/ mnWork' = [mnWork EXCEPT !.at = "rewrite", !.rows = rows, !.names = ResolveNames]
      \/ mnWork' = [mnWork EXCEPT !.at = "leave"]
  BY DEF ReadBatch
<1>4. mnFaults' \in 0..MentionFaults BY MentionAssumption DEF ReadBatch, DatabaseFails, MentionInv, MentionTypeOK
<1> HIDE DEF rows
<1>5. mnWork' \in WorkSet /\ mnWork'.at \in {"rewrite", "leave"} BY <1>1, <1>2, <1>3 DEF WorkSet
<1>6. UNCHANGED <<mnRows, mnKnown, mnStored, mnQueued, mnAgain, mnSync, mnAsked>> BY DEF ReadBatch, mnNames, mnSignal
<1>7. mnQueued' = (mnWork'.at # "none") BY <1>1, <1>5, <1>6
<1> QED BY <1>4, <1>5, <1>6, <1>7, RowsStay DEF MentionInv, MentionTypeOK

LEMMA RewrittenLess ==
  ASSUME NEW r \in RowSet, NEW names
  PROVE  Rewritten(r, names) \in RowSet /\ Rewritten(r, names).open \subseteq r.open
BY DEF Rewritten, RowSet

LEMMA RewriteBatchKeeps == ASSUME MentionInv, RewriteBatch, UNCHANGED mnStarts PROVE MentionInv'
<1>1. mnWork \in WorkSet /\ mnWork.at = "rewrite" /\ mnQueued = (mnWork.at # "none")
      /\ mnRows \in [Texts -> RowSet] /\ \A m \in Texts : mnRows[m].open \subseteq Mentioned[m]
  BY DEF RewriteBatch, MentionInv, MentionTypeOK
<1>2. PICK failed \in SUBSET mnWork.rows :
        /\ IF failed = {} THEN UNCHANGED mnFaults ELSE DatabaseFails
        /\ \E done, onward :
             /\ mnRows' = [m \in Texts |-> IF m \in done THEN Rewritten(mnRows[m], mnWork.names) ELSE mnRows[m]]
             /\ mnWork' = [NoBatch EXCEPT !.at = IF onward THEN "read" ELSE "leave", !.round = mnWork.round + 1]
  BY DEF RewriteBatch
<1>3. mnFaults' \in 0..MentionFaults BY <1>2, MentionAssumption DEF DatabaseFails, MentionInv, MentionTypeOK
<1>4. PICK done, onward :
        /\ mnRows' = [m \in Texts |-> IF m \in done THEN Rewritten(mnRows[m], mnWork.names) ELSE mnRows[m]]
        /\ mnWork' = [NoBatch EXCEPT !.at = IF onward THEN "read" ELSE "leave", !.round = mnWork.round + 1]
  BY <1>2
<1>5. mnRows' \in [Texts -> RowSet] /\ \A m \in Texts : mnRows'[m].open \subseteq Mentioned[m]
  <2>1. \A m \in Texts : /\ Rewritten(mnRows[m], mnWork.names) \in RowSet
                          /\ Rewritten(mnRows[m], mnWork.names).open \subseteq Mentioned[m]
    BY <1>1, RewrittenLess
  <2> QED BY <1>1, <1>4, <2>1
<1>6. mnWork' \in WorkSet /\ mnWork'.at \in {"read", "leave"}
  <2>1. mnWork.round + 1 \in Nat BY <1>1 DEF WorkSet
  <2>2. \A at \in {"read", "leave"}, n \in Nat :
          /\ [NoBatch EXCEPT !.at = at, !.round = n] \in WorkSet
          /\ [NoBatch EXCEPT !.at = at, !.round = n].at = at
    BY DEF WorkSet, NoBatch
  <2>3. CASE onward
    <3>1. mnWork' = [NoBatch EXCEPT !.at = "read", !.round = mnWork.round + 1] BY <1>4, <2>3
    <3> QED BY <2>1, <2>2, <3>1
  <2>4. CASE ~ onward
    <3>1. mnWork' = [NoBatch EXCEPT !.at = "leave", !.round = mnWork.round + 1] BY <1>4, <2>4
    <3> QED BY <2>1, <2>2, <3>1
  <2> QED BY <2>3, <2>4
<1>7. UNCHANGED <<mnKnown, mnStored, mnQueued, mnAgain, mnSync, mnAsked>> BY DEF RewriteBatch, mnNames, mnSignal
<1>8. mnQueued' = (mnWork'.at # "none") BY <1>1, <1>6, <1>7
<1> QED BY <1>3, <1>5, <1>6, <1>7, <1>8 DEF MentionInv, MentionTypeOK

LEMMA MentionLeaveKeeps == ASSUME MentionInv, Leave, UNCHANGED mnStarts PROVE MentionInv'
<1>1. mnQueued = (mnWork.at # "none") /\ mnWork.at = "leave" BY DEF Leave, MentionInv, MentionTypeOK
<1>2. /\ [NoBatch EXCEPT !.at = "start"] \in WorkSet /\ [NoBatch EXCEPT !.at = "start"].at = "start"
      /\ NoBatch \in WorkSet /\ NoBatch.at = "none"
  BY DEF NoBatch, WorkSet
<1>3. mnWork' \in WorkSet /\ mnQueued' = (mnWork'.at # "none")
  <2>1. CASE mnAgain
    <3>1. mnWork' = [NoBatch EXCEPT !.at = "start"] /\ mnQueued' = mnQueued BY <2>1 DEF Leave
    <3> QED BY <1>1, <1>2, <3>1
  <2>2. CASE ~ mnAgain
    <3>1. mnWork' = NoBatch /\ mnQueued' = FALSE BY <2>2 DEF Leave
    <3> QED BY <1>2, <3>1
  <2> QED BY <2>1, <2>2
<1>4. UNCHANGED <<mnRows, mnKnown, mnStored, mnAgain, mnSync, mnAsked, mnFaults>> BY DEF Leave, mnNames
<1> QED BY <1>3, <1>4, RowsStay DEF MentionInv, MentionTypeOK

LEMMA RestartNamesKeeps == ASSUME MentionInv, RestartNames PROVE MentionInv'
<1>1. /\ [NoBatch EXCEPT !.at = "start"] \in WorkSet /\ [NoBatch EXCEPT !.at = "start"].at = "start"
      /\ NoBatch \in WorkSet /\ NoBatch.at = "none" /\ NoSync \in SyncSet /\ NoSync.at = "idle"
  BY DEF NoBatch, WorkSet, NoSync, SyncSet
<1>2. mnWork' \in WorkSet /\ mnQueued' = (mnWork'.at # "none")
  <2>1. CASE Pending # {}
    <3>1. mnQueued' = TRUE /\ mnWork' = [NoBatch EXCEPT !.at = "start"] BY <2>1 DEF RestartNames
    <3> QED BY <1>1, <3>1
  <2>2. CASE Pending = {}
    <3>1. mnQueued' = FALSE /\ mnWork' = NoBatch BY <2>2 DEF RestartNames
    <3> QED BY <1>1, <3>1
  <2> QED BY <2>1, <2>2
<1>3. mnStarts' \in 0..MentionFaults BY MentionAssumption DEF RestartNames, MentionInv, MentionTypeOK
<1>4. /\ mnKnown' = mnStored /\ mnSync' = NoSync /\ mnAsked' = {} /\ mnAgain' = FALSE
      /\ UNCHANGED <<mnRows, mnStored, mnFaults>>
  BY DEF RestartNames
<1> QED BY <1>1, <1>2, <1>3, <1>4, RowsStay DEF MentionInv, MentionTypeOK

LEMMA MentionInvKept == MentionInv /\ [MentionNext]_mnVars => MentionInv'
<1> SUFFICES ASSUME MentionInv, [MentionNext]_mnVars PROVE MentionInv' OBVIOUS
<1>1. CASE UNCHANGED mnVars BY <1>1 DEF mnVars, mnNames, mnSignal, MentionInv, MentionTypeOK
<1>2. CASE MentionStays /\ UNCHANGED mnStarts
  BY <1>2, LookKeeps, RenderKeeps, SaveKeeps, EndBatchKeeps, AnswerKeeps, BeginKeeps, ReadBatchKeeps,
     RewriteBatchKeeps, MentionLeaveKeeps DEF MentionStays, MentionWorker, MentionSync
<1> QED BY <1>1, <1>2, RestartNamesKeeps DEF MentionNext

-----------------------------------------------------------------------------
(* Workspaces: a command runs in a workspace that is open, on a keyword *)

DataSet    == [sys : SUBSET Keywords, keys : SUBSET Keywords, rule : BOOLEAN]
CommandSet == [at : {"none", "write", "reload", "take", "store"},
               kind : {"none", "add", "delete", "rule", "unrule"},
               key : Keywords \cup {"none"}, data : DataSet]

FilesTyped == wsSystem \subseteq Keywords /\ wsCustom \in Custom /\ wsData \in DataSet
SpacesTyped == wsList \cup wsRows \subseteq Accounts /\ wsOpening \in Accounts \cup {NoAccount} /\ wsAllow \subseteq Accounts
CommandsHosted ==
  /\ wsCmd \in [Accounts -> CommandSet]
  /\ \A a \in Accounts : wsCmd[a].at # "none" => a \in wsList /\ wsCmd[a].key \in Keywords
SpacesBounded == wsEdits \in 0..WsEdits /\ wsStarts \in 0..WsStarts

SpacesInv == FilesTyped /\ SpacesTyped /\ CommandsHosted /\ SpacesBounded

LEMMA Nothings == NoData \in DataSet /\ NoCmd \in CommandSet /\ NoCmd.at = "none" /\ NoCmd.data \in DataSet
BY DEF NoData, NoCmd, DataSet, CommandSet

LEMMA SpacesStart == WorkspacesInit => SpacesInv
<1> SUFFICES ASSUME WorkspacesInit PROVE SpacesInv OBVIOUS
<1>1. FilesTyped BY Nothings DEF WorkspacesInit, FilesTyped, Custom
<1>2. SpacesTyped BY DEF WorkspacesInit, SpacesTyped
<1>3. CommandsHosted BY Nothings DEF WorkspacesInit, CommandsHosted
<1>4. SpacesBounded BY WorkspacesAssumption DEF WorkspacesInit, SpacesBounded
<1> QED BY <1>1, <1>2, <1>3, <1>4 DEF SpacesInv

LEMMA FilesBuild == ASSUME FilesTyped PROVE InFiles \in DataSet
<1>1. wsCustom.keys \in SUBSET Keywords /\ wsCustom.rule \in BOOLEAN /\ wsCustom.bad \in BOOLEAN
  BY DEF FilesTyped, Custom
<1> QED BY <1>1 DEF InFiles, Built, FilesTyped, DataSet

(* files and what was read of them *)
LEMMA FilesKept == SpacesInv /\ [WorkspacesNext]_wsVars => FilesTyped'
<1> SUFFICES ASSUME SpacesInv, [WorkspacesNext]_wsVars PROVE FilesTyped' OBVIOUS
<1>1. FilesTyped /\ InFiles \in DataSet BY FilesBuild DEF SpacesInv
<1>2. CASE UNCHANGED files /\ (wsData' = InFiles \/ wsData' = wsData) BY <1>1, <1>2 DEF FilesTyped, files
<1>3. CASE EditFiles
  <2>1. wsData' = wsData /\ wsSystem' \subseteq Keywords
    BY <1>1, <1>3 DEF EditFiles, FilesTyped
  <2>2. wsCustom' = wsCustom \/ wsCustom' = [wsCustom EXCEPT !.bad = ~ @] BY <1>3 DEF EditFiles
  <2>3. wsCustom' \in Custom BY <1>1, <2>2 DEF FilesTyped, Custom
  <2> QED BY <1>1, <2>1, <2>3 DEF FilesTyped
<1>4. ASSUME NEW a \in Accounts, WriteCustom(a) PROVE FilesTyped'
  <2>1. wsSystem' = wsSystem /\ wsData' = wsData BY <1>4 DEF WriteCustom
  <2>2. wsCmd[a].at = "write" /\ wsCmd[a].key \in Keywords BY <1>4 DEF WriteCustom, SpacesInv, CommandsHosted
  <2>3. \/ wsCustom' = wsCustom
        \/ wsCustom' = [wsCustom EXCEPT !.keys = @ \cup {wsCmd[a].key}]
        \/ wsCustom' = [wsCustom EXCEPT !.keys = @ \ {wsCmd[a].key}]
        \/ wsCustom' = [wsCustom EXCEPT !.rule = (wsCmd[a].kind = "rule")]
    BY <1>4 DEF WriteCustom
  <2>4. wsCustom' \in Custom BY <1>1, <2>2, <2>3 DEF FilesTyped, Custom
  <2> QED BY <1>1, <2>1, <2>4 DEF FilesTyped
<1>5. CASE WorkspacesNext /\ ~ EditFiles /\ ~ \E a \in Accounts : WriteCustom(a)
  BY <1>2, <1>5 DEF WorkspacesNext, WsWatch, WsFlow, StartPoller, Poll, Notice, List, Take, Store, AllowOther, Start,
     Opened, ReloadNow, TakeNow, StoreNow, GiveUp, ResolveOrCreate, SwitchPersona, Command
<1>6. CASE UNCHANGED wsVars BY <1>2, <1>6 DEF wsVars
<1> QED BY <1>3, <1>4, <1>5, <1>6

(* workspaces in memory and in the table *)
LEMMA SpacesKept == SpacesInv /\ [WorkspacesNext]_wsVars => SpacesTyped'
<1> SUFFICES ASSUME SpacesInv, [WorkspacesNext]_wsVars PROVE SpacesTyped' OBVIOUS
<1>1. SpacesTyped BY DEF SpacesInv
<1>2. CASE UNCHANGED manager BY <1>1, <1>2 DEF SpacesTyped, manager
<1>3. ASSUME NEW a \in Accounts, ResolveOrCreate(a) PROVE SpacesTyped' BY <1>1, <1>3 DEF ResolveOrCreate, SpacesTyped
<1>4. CASE Opened BY <1>1, <1>4 DEF Opened, SpacesTyped
<1>5. CASE AllowOther BY <1>1, <1>5 DEF AllowOther, SpacesTyped
<1>6. CASE Start
  <2>1. wsList' = wsRows /\ wsOpening' = NoAccount /\ wsAllow' = wsAllow /\ wsRows' = wsRows BY <1>6 DEF Start
  <2> QED BY <1>1, <2>1 DEF SpacesTyped
<1>7. CASE UNCHANGED wsVars BY <1>2, <1>7 DEF wsVars
<1> QED
  BY <1>2, <1>3, <1>4, <1>5, <1>6, <1>7
  DEF WorkspacesNext, WsWatch, WsFlow, StartPoller, Poll, Notice, List, Take, Store, EditFiles, WriteCustom,
      ReloadNow, TakeNow, StoreNow, GiveUp, SwitchPersona, Command

(* a command moves, or ends *)
LEMMA MovesKeep ==
  ASSUME SpacesInv, NEW a \in Accounts, NEW c \in CommandSet, Moves(a, c), UNCHANGED wsList,
         c.at # "none" => a \in wsList /\ c.key \in Keywords
  PROVE  CommandsHosted'
BY DEF Moves, SpacesInv, CommandsHosted

LEMMA CommandsKept == SpacesInv /\ [WorkspacesNext]_wsVars => CommandsHosted'
<1> SUFFICES ASSUME SpacesInv, [WorkspacesNext]_wsVars PROVE CommandsHosted' OBVIOUS
<1>1. CommandsHosted /\ wsData \in DataSet BY DEF SpacesInv, FilesTyped
<1>2. CASE wsCmd' = wsCmd /\ wsList \subseteq wsList' BY <1>1, <1>2 DEF CommandsHosted
<1>3. ASSUME NEW a \in Accounts, NEW k \in Keywords, NEW kind \in {"add", "delete", "rule", "unrule"}, Command(a, kind, k)
      PROVE  CommandsHosted'
  <2> DEFINE c == [NoCmd EXCEPT !.at = "write", !.kind = kind, !.key = k]
  <2>1. c \in CommandSet /\ c.key = k BY Nothings DEF CommandSet
  <2>2. Moves(a, c) /\ a \in wsList /\ wsList' = wsList BY <1>3 DEF Command, manager
  <2> HIDE DEF c
  <2> QED BY <2>1, <2>2, MovesKeep
<1>4. ASSUME NEW a \in Accounts, Moves(a, NoCmd), wsList' = wsList PROVE CommandsHosted'
  BY <1>4, Nothings, MovesKeep
<1>5. ASSUME NEW a \in Accounts, NEW at \in {"reload", "take"}, Goes2(a, at), wsList' = wsList, wsCmd[a].at # "none"
      PROVE  CommandsHosted'
  <2> DEFINE c == [wsCmd[a] EXCEPT !.at = at]
  <2>1. c \in CommandSet /\ c.key = wsCmd[a].key BY <1>1 DEF CommandsHosted, CommandSet
  <2>2. Moves(a, c) /\ a \in wsList /\ wsCmd[a].key \in Keywords BY <1>1, <1>5 DEF Goes2, CommandsHosted
  <2> HIDE DEF c
  <2> QED BY <1>5, <2>1, <2>2, MovesKeep
<1>6. ASSUME NEW a \in Accounts, TakeNow(a) PROVE CommandsHosted'
  <2> DEFINE c == [wsCmd[a] EXCEPT !.at = "store", !.data = wsData]
  <2>1. c \in CommandSet /\ c.key = wsCmd[a].key BY <1>1 DEF CommandsHosted, CommandSet
  <2>2. Moves(a, c) /\ a \in wsList /\ wsCmd[a].key \in Keywords /\ wsList' = wsList
    BY <1>1, <1>6 DEF TakeNow, CommandsHosted, manager
  <2> HIDE DEF c
  <2> QED BY <2>1, <2>2, MovesKeep
<1>7. ASSUME NEW a \in Accounts, GiveUp(a) \/ WriteCustom(a) \/ ReloadNow(a) \/ StoreNow(a) PROVE CommandsHosted'
  <2>1. wsList' = wsList BY <1>7 DEF GiveUp, WriteCustom, ReloadNow, StoreNow, manager
  <2>2. \/ Moves(a, NoCmd)
        \/ (Goes2(a, "reload") \/ Goes2(a, "take")) /\ wsCmd[a].at # "none"
    BY <1>7 DEF GiveUp, WriteCustom, ReloadNow, StoreNow
  <2> QED BY <1>4, <1>5, <2>1, <2>2
<1>8. CASE Start BY <1>8, Nothings DEF Start, CommandsHosted
<1>9. CASE UNCHANGED wsVars BY <1>2, <1>9 DEF wsVars, manager
<1>10. CASE WsWatch \/ EditFiles \/ AllowOther \/ Opened \/ \E a \in Accounts : ResolveOrCreate(a)
                    \/ \E k \in Keywords \cup {"none"} : SwitchPersona(a, k)
  BY <1>2, <1>10 DEF WsWatch, StartPoller, Poll, Notice, List, Take, Store, EditFiles, AllowOther, Opened,
     ResolveOrCreate, SwitchPersona, manager
<1> QED BY <1>3, <1>6, <1>7, <1>8, <1>9, <1>10 DEF WorkspacesNext, WsFlow

LEMMA SpacesBoundsKept == SpacesInv /\ [WorkspacesNext]_wsVars => SpacesBounded'
<1> SUFFICES ASSUME SpacesInv, [WorkspacesNext]_wsVars PROVE SpacesBounded' OBVIOUS
<1>1. SpacesBounded /\ WsEdits \in Nat /\ WsStarts \in Nat BY WorkspacesAssumption DEF SpacesInv
<1>2. wsEdits' = wsEdits \/ (wsEdits < WsEdits /\ wsEdits' = wsEdits + 1)
  BY DEF wsVars, bounds, WorkspacesNext, WsWatch, WsFlow, StartPoller, Poll, Notice, List, Take, Store, EditFiles,
     AllowOther, Start, Opened, WriteCustom, ReloadNow, TakeNow, StoreNow, GiveUp, ResolveOrCreate, SwitchPersona,
     Command, Edit
<1>3. wsStarts' = wsStarts \/ (wsStarts < WsStarts /\ wsStarts' = wsStarts + 1)
  BY DEF wsVars, bounds, WorkspacesNext, WsWatch, WsFlow, StartPoller, Poll, Notice, List, Take, Store, EditFiles,
     AllowOther, Start, Opened, WriteCustom, ReloadNow, TakeNow, StoreNow, GiveUp, ResolveOrCreate, SwitchPersona,
     Command, Edit
<1> QED BY <1>1, <1>2, <1>3 DEF SpacesBounded

LEMMA SpacesInvKept == SpacesInv /\ [WorkspacesNext]_wsVars => SpacesInv'
BY FilesKept, SpacesKept, CommandsKept, SpacesBoundsKept DEF SpacesInv

-----------------------------------------------------------------------------
(* The five together *)

(* Every variable of the five components stays in its set, for every value of the constants, and
   with it what the sets say: a mention worker is there exactly when one is noted, a row never
   holds a placeholder of somebody its text does not mention, and a workspace that runs a command
   is open (mention.go, speech/command.go, tagger.go, mcpclient, config). *)
THEOREM WorkersTyped == WorkersSpec => []WorkersTypeOK
<1>1. WorkersInit => TagInv /\ TagCounts /\ MentionInv /\ SpacesInv /\ McpInv /\ ConfigInv
  BY TagStarts, TagCountsStart, MentionStarts, SpacesStart, McpInitInv, ConfigInitInv DEF WorkersInit
<1>2. [WorkersNext]_workersVars =>
        /\ [TagNext]_tjVars /\ [MentionNext]_mnVars /\ [WorkspacesNext]_wsVars
        /\ [McpNext]_mcVars /\ [ConfigNext]_cfVars
  BY DEF WorkersNext, workersVars
<1>3. /\ (TagInv /\ TagCounts => TagTypeOK) /\ (MentionInv => MentionTypeOK) /\ (SpacesInv => WorkspacesTypeOK)
      /\ (McpInv => McpTypeOK) /\ (ConfigInv => ConfigTypeOK)
  <2>1. McpInv => McpTypeOK BY DEF McpInv, McpTyping, McpRoles, OneMaker, McpLists, McpTypeOK
  <2>2. ConfigInv => ConfigTypeOK BY DEF ConfigInv
  <2>3. MentionInv => MentionTypeOK BY DEF MentionInv
  <2>4. SpacesInv => WorkspacesTypeOK
    BY DEF SpacesInv, FilesTyped, SpacesTyped, CommandsHosted, SpacesBounded, WorkspacesTypeOK
  <2> QED BY <2>1, <2>2, <2>3, <2>4, TagTyped
<1> DEFINE AllInv == TagInv /\ TagCounts /\ MentionInv /\ SpacesInv /\ McpInv /\ ConfigInv
<1>4. AllInv /\ [WorkersNext]_workersVars => AllInv'
  BY <1>2, TagInvKept, TagCountsKept, MentionInvKept, SpacesInvKept, McpInvKept, ConfigInvKept
<1>5. AllInv => WorkersTypeOK BY <1>3 DEF WorkersTypeOK
<1> HIDE DEF AllInv
<1> QED BY <1>1, <1>4, <1>5, PTL DEF WorkersSpec, AllInv
=============================================================================

--------------------------- MODULE RequestsProofs ---------------------------
(***************************************************************************)
(* Proofs about what a chat's messages and the panel's requests go through,  *)
(* for every value of the constants: the names of the people (Names), the    *)
(* archive and the panel that shows it (Panel), the guard of the model       *)
(* (LlmGuard), the tool rounds of a reply (ToolLoop) and the commands         *)
(* (Commands).  Each part is an inductive invariant, the lemmas that one     *)
(* step of the code keeps it, and the theorems that follow.  The last one    *)
(* puts them together with the cache of a chat (ChatStoreProofs).            *)
(***************************************************************************)
EXTENDS MCRequests, ChatStoreProofs

-----------------------------------------------------------------------------
(* Names *)

Called == NameOf \cup {NoName}
NameTasks == [at : {"idle", "asked", "table", "mirror", "save", "rename", "row"},
              g : NameGroups \cup {"own"}, p : Members,
              name : Called, shown : Called, old : Called, left : SUBSET NameGroups]

(* the variables stay in their sets *)
NamesTyping ==
  /\ nmMem \in [NameGroups -> [Members -> Called]]
  /\ nmRow \in [NameGroups -> [Members -> [name : Called, shown : Called]]]
  /\ nmOwn \in Called /\ nmProfile \in Called
  /\ nmTask \in [Tasks -> NameTasks]
  /\ nmCalls \in 0..NameCalls /\ nmFaults \in 0..NameFaults

(* a task that has something to write has a group, and a name; only the bot is renamed *)
Errands ==
  \A t \in Tasks :
    /\ nmTask[t].at \in {"asked", "table", "row"} => nmTask[t].g \in NameGroups
    /\ nmTask[t].at \in {"table", "mirror"} => Shown(nmTask[t]) # NoName
    /\ nmTask[t].at \in {"save", "rename", "row"} => nmTask[t].p = Self /\ nmTask[t].name # NoName

(* a member's name in memory is the one its row will have when the one task that writes it, if
   any, has done so; and a row without a card has no name at all *)
Agreed(g, p) ==
  /\ nmRow[g][p].shown = NoName => nmRow[g][p].name = NoName
  /\ \A t, u \in Tasks : Writing(t, g, p) /\ Writing(u, g, p) => t = u
  /\ (\A t \in Tasks : ~ Writing(t, g, p)) => nmMem[g][p] = Shown(nmRow[g][p])
  /\ \A t \in Tasks : Writing(t, g, p) =>
       IF nmTask[t].at = "table"
       THEN nmTask[t].shown # NoName /\ nmMem[g][p] = nmTask[t].shown
       ELSE nmMem[g][p] = IF Shown(nmRow[g][p]) \in {NoName, nmTask[t].old} THEN nmTask[t].name
                          ELSE Shown(nmRow[g][p])
AllAgreed == \A g \in NameGroups, p \in Members : <<g, p>> \in nmRaced \/ Agreed(g, p)

OwnAgreed == Own \in nmRaced \/ (\E t \in Tasks : nmTask[t].at = "save") \/ nmOwn = nmProfile

NamesInv == NamesTyping /\ Errands /\ AllAgreed /\ OwnAgreed

(* the bot's own name is no member's row *)
LEMMA OwnApart == \A g \in NameGroups, p \in Members : <<g, p>> # Own
  BY NamesAssumption DEF Own

(* the rules for a card *)
LEMMA NameKept ==
  ASSUME NEW r \in [name : Called, shown : Called], NEW n \in Called, NEW s \in Called
  PROVE  /\ SaveMemberInfo(r, n, s) \in [name : Called, shown : Called]
         /\ s # NoName => SaveMemberInfo(r, n, s).shown = s /\ Shown(SaveMemberInfo(r, n, s)) = s
  BY DEF SaveMemberInfo, Kept, Shown

LEMMA CardRenamed ==
  ASSUME NEW r \in [name : Called, shown : Called], NEW old \in Called, NEW n \in Called,
         n # NoName, r.shown = NoName => r.name = NoName
  PROVE  /\ Renamed(r, old, n) \in [name : Called, shown : Called]
         /\ Renamed(r, old, n).shown # NoName
         /\ Shown(Renamed(r, old, n)) = IF Shown(r) \in {NoName, old} THEN n ELSE Shown(r)
  BY DEF Renamed, SaveMemberInfo, Kept, Shown

LEMMA RenamedTyped ==
  ASSUME NEW r \in [name : Called, shown : Called], NEW old \in Called, NEW n \in Called
  PROVE  Renamed(r, old, n) \in [name : Called, shown : Called]
  BY DEF Renamed, SaveMemberInfo, Kept

LEMMA ShownTyped ==
  \A r : r.name \in Called /\ r.shown \in Called => Shown(r) \in Called
  BY DEF Shown

(* one task goes on *)
LEMMA TaskGoes ==
  ASSUME NamesTyping, NEW t \in Tasks, NEW r \in NameTasks, Goes(t, r)
  PROVE  /\ nmTask' \in [Tasks -> NameTasks]
         /\ nmTask'[t] = r
         /\ \A u \in Tasks \ {t} : nmTask'[u] = nmTask[u]
  BY DEF NamesTyping, Goes

(* a task that neither wrote nor writes leaves every row as agreed as it was *)
LEMMA AgreedAside ==
  ASSUME NamesTyping, AllAgreed, NEW t \in Tasks, NEW r \in NameTasks, Goes(t, r),
         nmTask[t].at \notin {"table", "row"}, r.at \notin {"table", "row"},
         nmMem' = nmMem, nmRow' = nmRow,
         \A g \in NameGroups, p \in Members : <<g, p>> \in nmRaced => <<g, p>> \in nmRaced'
  PROVE  AllAgreed'
<1> SUFFICES ASSUME NEW g \in NameGroups, NEW p \in Members, <<g, p>> \notin nmRaced'
             PROVE  Agreed(g, p)'
  BY DEF AllAgreed
<1>1. /\ nmTask'[t] = r
      /\ \A u \in Tasks \ {t} : nmTask'[u] = nmTask[u]
  BY TaskGoes
<1>2. Agreed(g, p)
  BY DEF AllAgreed
<1>3. ~ Writing(t, g, p) /\ ~ Writing(t, g, p)'
  BY <1>1 DEF Writing
<1>4. \A u \in Tasks \ {t} : Writing(u, g, p)' <=> Writing(u, g, p)
  BY <1>1 DEF Writing
<1>5. \A u \in Tasks : Writing(u, g, p)' <=> Writing(u, g, p)
  BY <1>3, <1>4
<1>6. \A u \in Tasks : Writing(u, g, p) => nmTask'[u] = nmTask[u]
  BY <1>1, <1>3
<1> QED BY <1>2, <1>5, <1>6 DEF Agreed

(* a task begins to write a row, and has put the name the row will have into memory *)
LEMMA AgreedEnters ==
  ASSUME NamesTyping, AllAgreed, NEW t \in Tasks, NEW r \in NameTasks, Goes(t, r),
         nmTask[t].at \notin {"table", "row"}, r.at \in {"table", "row"},
         NEW g \in NameGroups, r.g = g, NEW p \in Members, r.p = p,
         NEW s \in Called, Overlap(t, g, p, s), NEW n \in Called,
         nmMem' = [nmMem EXCEPT ![g][p] = n], nmRow' = nmRow,
         s # NoName =>
           IF r.at = "table" THEN r.shown # NoName /\ n = r.shown
           ELSE n = IF nmMem[g][p] \in {NoName, r.old} THEN r.name ELSE nmMem[g][p]
  PROVE  AllAgreed'
<1> SUFFICES ASSUME NEW h \in NameGroups, NEW q \in Members, <<h, q>> \notin nmRaced'
             PROVE  Agreed(h, q)'
  BY DEF AllAgreed
<1>1. /\ nmTask'[t] = r
      /\ \A u \in Tasks \ {t} : nmTask'[u] = nmTask[u]
  BY TaskGoes
<1>2. /\ nmMem \in [NameGroups -> [Members -> Called]]
      /\ nmMem'[g][p] = n
      /\ <<h, q>> # <<g, p>> => nmMem'[h][q] = nmMem[h][q]
  BY DEF NamesTyping
<1>3. nmRaced \subseteq nmRaced'
  BY DEF Overlap
<1>4. Agreed(h, q)
  BY <1>3 DEF AllAgreed
<1>5. ~ Writing(t, h, q)
  BY DEF Writing
<1>6. \A u \in Tasks \ {t} : Writing(u, h, q)' <=> Writing(u, h, q)
  BY <1>1 DEF Writing
<1>7. CASE <<h, q>> # <<g, p>>
  <2>1. ~ Writing(t, h, q)'
    BY <1>1, <1>7 DEF Writing
  <2>2. \A u \in Tasks : Writing(u, h, q)' <=> Writing(u, h, q)
    BY <1>5, <1>6, <2>1
  <2>3. \A u \in Tasks : Writing(u, h, q) => nmTask'[u] = nmTask[u]
    BY <1>1, <1>5
  <2>4. nmMem'[h][q] = nmMem[h][q]
    BY <1>2, <1>7
  <2> QED BY <1>4, <2>2, <2>3, <2>4 DEF Agreed
<1>8. CASE h = g /\ q = p
  <2>1. s # NoName /\ \A u \in Tasks \ {t} : ~ Writing(u, g, p)
    BY <1>8 DEF Overlap
  <2>2. \A u \in Tasks : Writing(u, g, p)' => u = t
    BY <1>6, <1>8, <2>1
  <2>3. nmMem[g][p] = Shown(nmRow[g][p])
    BY <1>4, <1>5, <1>8, <2>1 DEF Agreed
  <2>4. Writing(t, g, p)'
    BY <1>1 DEF Writing
  <2>5. IF r.at = "table" THEN r.shown # NoName /\ nmMem'[g][p] = r.shown
        ELSE nmMem'[g][p] = IF Shown(nmRow[g][p]) \in {NoName, r.old} THEN r.name
                            ELSE Shown(nmRow[g][p])
    BY <1>2, <2>1, <2>3
  <2>6. nmRow[g][p].shown = NoName => nmRow[g][p].name = NoName
    BY <1>4, <1>8 DEF Agreed
  <2> QED BY <1>1, <1>8, <2>2, <2>4, <2>5, <2>6 DEF Agreed
<1> QED BY <1>7, <1>8

(* a task writes its row, or fails to *)
LEMMA AgreedWrites ==
  ASSUME NamesTyping, Errands, AllAgreed, NEW t \in Tasks, NEW r \in NameTasks, Goes(t, r),
         nmTask[t].at \in {"table", "row"}, r.at \notin {"table", "row"},
         nmMem' = nmMem, NEW row \in [name : Called, shown : Called], WriteRow(t, row),
         LET k == nmTask[t] IN
           row = IF k.at = "table" THEN SaveMemberInfo(nmRow[k.g][k.p], k.name, k.shown)
                 ELSE Renamed(nmRow[k.g][Self], k.old, k.name)
  PROVE  AllAgreed'
<1> SUFFICES ASSUME NEW h \in NameGroups, NEW q \in Members, <<h, q>> \notin nmRaced'
             PROVE  Agreed(h, q)'
  BY DEF AllAgreed
<1> DEFINE k == nmTask[t]
           g == k.g
           p == k.p
<1>1. /\ nmTask'[t] = r
      /\ \A u \in Tasks \ {t} : nmTask'[u] = nmTask[u]
  BY TaskGoes
<1>2. k \in NameTasks /\ g \in NameGroups /\ p \in Members
  BY DEF NamesTyping, Errands, NameTasks
<1>3. \/ nmRow' = [nmRow EXCEPT ![g][p] = row] /\ nmRaced' = nmRaced
      \/ nmRaced' = nmRaced \cup {<<g, p>>} /\ nmRow' = nmRow
  BY DEF WriteRow
<1>4. Agreed(h, q)
  BY <1>3 DEF AllAgreed
<1>5. \A u \in Tasks \ {t} : Writing(u, h, q)' <=> Writing(u, h, q)
  BY <1>1 DEF Writing
<1>6. ~ Writing(t, h, q)'
  BY <1>1 DEF Writing
<1>7. nmRow \in [NameGroups -> [Members -> [name : Called, shown : Called]]]
  BY DEF NamesTyping
<1>8. CASE <<h, q>> # <<g, p>>
  <2>1. ~ Writing(t, h, q)
    BY <1>8 DEF Writing
  <2>2. \A u \in Tasks : Writing(u, h, q)' <=> Writing(u, h, q)
    BY <1>5, <1>6, <2>1
  <2>3. \A u \in Tasks : Writing(u, h, q) => nmTask'[u] = nmTask[u]
    BY <1>1, <2>1
  <2>4. nmRow'[h][q] = nmRow[h][q]
    BY <1>2, <1>3, <1>7, <1>8
  <2> QED BY <1>4, <2>2, <2>3, <2>4 DEF Agreed
<1>9. CASE h = g /\ q = p
  <2>1. nmRow'[h][q] = row
    BY <1>2, <1>3, <1>7, <1>9
  <2>2. Writing(t, h, q)
    BY <1>9 DEF Writing
  <2>3. \A u \in Tasks : ~ Writing(u, h, q)'
    BY <1>4, <1>5, <1>6, <2>2 DEF Agreed
  <2>4. nmRow[h][q] \in [name : Called, shown : Called] /\ k.name \in Called
        /\ k.shown \in Called /\ k.old \in Called
    BY <1>2, <1>7 DEF NameTasks
  <2>5. CASE k.at = "table"
    <3>1. k.shown # NoName /\ nmMem[h][q] = k.shown
      BY <1>4, <2>2, <2>5 DEF Agreed
    <3>2. row.shown # NoName /\ Shown(row) = k.shown
      BY <1>9, <2>4, <2>5, <3>1, NameKept
    <3> QED BY <2>1, <2>3, <3>1, <3>2 DEF Agreed
  <2>6. CASE k.at = "row"
    <3>1. nmMem[h][q] = IF Shown(nmRow[h][q]) \in {NoName, k.old} THEN k.name ELSE Shown(nmRow[h][q])
      BY <1>4, <2>2, <2>6 DEF Agreed
    <3>2. q = Self /\ k.name # NoName
      BY <1>9, <2>6 DEF Errands
    <3>3. row = Renamed(nmRow[h][q], k.old, k.name)
      BY <1>9, <2>6, <3>2
    <3>4. nmRow[h][q].shown = NoName => nmRow[h][q].name = NoName
      BY <1>4 DEF Agreed
    <3>5. row.shown # NoName
          /\ Shown(row) = IF Shown(nmRow[h][q]) \in {NoName, k.old} THEN k.name ELSE Shown(nmRow[h][q])
      BY <2>4, <3>2, <3>3, <3>4, CardRenamed
    <3> QED BY <2>1, <2>3, <3>1, <3>5 DEF Agreed
  <2> QED BY <2>5, <2>6
<1> QED BY <1>8, <1>9

(* the task that goes on has an errand *)
LEMMA ErrandGoes ==
  ASSUME NamesTyping, Errands, NEW t \in Tasks, NEW r \in NameTasks, Goes(t, r),
         r.at \in {"asked", "table", "row"} => r.g \in NameGroups,
         r.at \in {"table", "mirror"} => Shown(r) # NoName,
         r.at \in {"save", "rename", "row"} => r.p = Self /\ r.name # NoName
  PROVE  Errands'
BY TaskGoes DEF Errands, Shown

(* who does not save the bot's own name leaves it *)
LEMMA OwnAside ==
  ASSUME NamesTyping, OwnAgreed, NEW t \in Tasks, NEW r \in NameTasks, Goes(t, r),
         nmTask[t].at # "save", nmOwn' = nmOwn, nmProfile' = nmProfile,
         Own \in nmRaced => Own \in nmRaced'
  PROVE  OwnAgreed'
BY TaskGoes DEF OwnAgreed

LEMMA IdleTask == NoTask \in NameTasks /\ NoTask.at = "idle"
  BY NamesAssumption DEF NoTask, NameTasks, Called

(* a name is put into memory *)
LEMMA EnterKeeps ==
  ASSUME NamesInv, NEW t \in Tasks, nmTask[t].at \in {"idle", "asked"},
         NEW g \in NameGroups, NEW p \in Members, NEW name \in Called, NEW s \in Called,
         Enter(t, g, p, name, s), UNCHANGED <<nmRow, nmOwn, nmProfile, nmFaults>>,
         nmCalls' \in 0..NameCalls
  PROVE  NamesInv'
<1> USE DEF NamesInv
<1> DEFINE n == IF s = NoName THEN name ELSE s
           r == [NoTask EXCEPT !.at = "table", !.g = g, !.p = p, !.name = name, !.shown = s]
<1>1. /\ r.at = "table" /\ r.g = g /\ r.p = p /\ r.name = name /\ r.shown = s
      /\ r \in NameTasks
  BY IdleTask DEF NameTasks
<1>2. r \in NameTasks
  BY <1>1
<1>3. n \in Called /\ Shown(r) = n
  BY <1>1 DEF Shown
<1>4. CASE n = NoName \/ nmMem[g][p] = n
  <2>1. Goes(t, NoTask) /\ nmMem' = nmMem /\ nmRaced' = nmRaced
    BY <1>4 DEF Enter
  <2>2. NamesTyping'
    BY <2>1, TaskGoes, IdleTask DEF NamesTyping
  <2>3. Errands'
    BY <2>1, ErrandGoes, IdleTask
  <2>4. AllAgreed'
    BY <2>1, AgreedAside, IdleTask
  <2>5. OwnAgreed'
    BY <2>1, OwnAside, IdleTask
  <2> QED BY <2>2, <2>3, <2>4, <2>5
<1>5. CASE ~ (n = NoName \/ nmMem[g][p] = n)
  <2>1. Goes(t, r) /\ nmMem' = [nmMem EXCEPT ![g][p] = n] /\ Overlap(t, g, p, s)
    BY <1>5 DEF Enter
  <2> HIDE DEF r, n
  <2>2. NamesTyping'
    BY <1>2, <1>3, <2>1, TaskGoes DEF NamesTyping
  <2>3. Errands'
    BY <1>1, <1>2, <1>3, <1>5, <2>1, ErrandGoes
  <2>4. s # NoName => n = s
    BY DEF n
  <2>5. AllAgreed'
    <3>1. s # NoName => IF r.at = "table" THEN r.shown # NoName /\ n = r.shown
                        ELSE n = IF nmMem[g][p] \in {NoName, r.old} THEN r.name ELSE nmMem[g][p]
      BY <1>1, <2>4
    <3>2. nmTask[t].at \notin {"table", "row"} /\ r.at \in {"table", "row"} /\ nmRow' = nmRow
      BY <1>1
    <3> QED BY <1>1, <1>2, <1>3, <2>1, <3>1, <3>2, AgreedEnters
  <2>6. Own \in nmRaced => Own \in nmRaced'
    BY <2>1 DEF Overlap
  <2>7. OwnAgreed'
    BY <1>2, <2>1, <2>6, OwnAside
  <2> QED BY <2>2, <2>3, <2>5, <2>7
<1> QED BY <1>4, <1>5

(* a row is written *)
LEMMA WriteKeeps ==
  ASSUME NamesInv, NEW t \in Tasks, Table(t) \/ RenameRow(t)
  PROVE  NamesInv'
<1> USE DEF NamesInv
<1> DEFINE k == nmTask[t]
           row == IF k.at = "table" THEN SaveMemberInfo(nmRow[k.g][k.p], k.name, k.shown)
                  ELSE Renamed(nmRow[k.g][Self], k.old, k.name)
           r == IF k.at = "table" THEN [k EXCEPT !.at = "mirror"]
                ELSE [k EXCEPT !.at = "rename", !.left = @ \ {k.g}]
<1>1. /\ k.at \in {"table", "row"} /\ WriteRow(t, row) /\ Goes(t, r)
      /\ UNCHANGED <<nmMem, nmOwn, nmProfile, nmCalls>>
  BY DEF Table, RenameRow
<1>2. k \in NameTasks /\ k.g \in NameGroups /\ k.p \in Members /\ k.left \in SUBSET NameGroups
  BY <1>1 DEF NamesTyping, Errands, NameTasks
<1>3. r \in NameTasks /\ r.at \in {"mirror", "rename"}
  BY <1>1, <1>2 DEF NameTasks
<1>4. nmRow[k.g][k.p] \in [name : Called, shown : Called]
  BY <1>2 DEF NamesTyping
<1>5. nmRow[k.g][Self] \in [name : Called, shown : Called]
  BY <1>2, NamesAssumption DEF NamesTyping
<1>6. row \in [name : Called, shown : Called]
  BY <1>2, <1>4, <1>5, NameKept, RenamedTyped DEF NameTasks
<1>7. AllAgreed'
  <2> HIDE DEF r
  <2> QED BY <1>1, <1>3, <1>6, AgreedWrites
<1>8. /\ nmRow' \in [NameGroups -> [Members -> [name : Called, shown : Called]]]
      /\ nmFaults' \in 0..NameFaults
      /\ Own \in nmRaced => Own \in nmRaced'
  <2> HIDE DEF row, r
  <2>1. CASE nmRow' = [nmRow EXCEPT ![k.g][k.p] = row] /\ UNCHANGED <<nmFaults, nmRaced>>
    BY <1>2, <1>6, <2>1 DEF NamesTyping
  <2>2. CASE nmFaults < NameFaults /\ nmFaults' = nmFaults + 1
             /\ nmRaced' = nmRaced \cup {<<k.g, k.p>>} /\ UNCHANGED nmRow
    BY <2>2, NamesAssumption DEF NamesTyping
  <2> QED BY <1>1, <2>1, <2>2 DEF WriteRow
<1>9. Errands'
  <2>1. r.at = "mirror" => Shown(r) = Shown(k) /\ k.at = "table"
    BY <1>1, <1>2 DEF Shown, NameTasks
  <2>2. r.at = "rename" => k.at = "row" /\ r.p = k.p /\ r.name = k.name
    BY <1>1, <1>2 DEF NameTasks
  <2> HIDE DEF r
  <2> QED BY <1>1, <1>3, <2>1, <2>2, ErrandGoes DEF Errands
<1> HIDE DEF r, row
<1>10. NamesTyping'
  BY <1>1, <1>3, <1>8, TaskGoes DEF NamesTyping
<1>11. OwnAgreed'
  BY <1>1, <1>3, <1>8, OwnAside
<1> QED BY <1>7, <1>9, <1>10, <1>11

(* mirrorSelfName *)
LEMMA MirrorKeeps ==
  ASSUME NamesInv, NEW t \in Tasks, Mirror(t)
  PROVE  NamesInv'
<1> USE DEF NamesInv
<1> DEFINE k == nmTask[t]
           n == IF k.shown = NoName THEN k.name ELSE k.shown
           r == [k EXCEPT !.at = "save", !.name = n, !.old = nmOwn]
<1>1. k \in NameTasks /\ k.at = "mirror" /\ n \in Called /\ n # NoName
  BY DEF Mirror, NamesTyping, Errands, NameTasks, Shown
<1>2. r \in NameTasks /\ r.at = "save" /\ r.name = n /\ r.p = k.p
  BY <1>1 DEF NameTasks, NamesTyping
<1>3. UNCHANGED <<nmMem, nmRow, nmProfile, nmCalls, nmFaults, nmRaced>>
  BY DEF Mirror
<1> HIDE DEF r, n
<1>4. CASE k.p = Self /\ nmOwn' = n /\ Goes(t, r)
  <2>1. NamesTyping'
    BY <1>1, <1>2, <1>3, <1>4, TaskGoes DEF NamesTyping
  <2>2. Errands'
    BY <1>1, <1>2, <1>4, ErrandGoes
  <2>3. AllAgreed'
    BY <1>1, <1>2, <1>3, <1>4, AgreedAside
  <2>4. OwnAgreed'
    BY <1>2, <1>4, TaskGoes DEF OwnAgreed
  <2> QED BY <2>1, <2>2, <2>3, <2>4
<1>5. CASE Goes(t, NoTask) /\ nmOwn' = nmOwn
  <2>1. NamesTyping'
    BY <1>3, <1>5, TaskGoes, IdleTask DEF NamesTyping
  <2>2. Errands'
    BY <1>5, ErrandGoes, IdleTask
  <2>3. AllAgreed'
    BY <1>1, <1>3, <1>5, AgreedAside, IdleTask
  <2>4. OwnAgreed'
    BY <1>1, <1>3, <1>5, OwnAside, IdleTask
  <2> QED BY <2>1, <2>2, <2>3, <2>4
<1> QED BY <1>4, <1>5 DEF Mirror, n, r

(* the bot's own name in one group *)
LEMMA RenameKeeps ==
  ASSUME NamesInv, NEW t \in Tasks, NEW g \in NameGroups, Rename(t, g)
  PROVE  NamesInv'
<1> USE DEF NamesInv
<1> DEFINE k == nmTask[t]
           n == IF nmMem[g][Self] \in {NoName, k.old} THEN k.name ELSE nmMem[g][Self]
           next == [k EXCEPT !.left = @ \ {g}]
           r == [k EXCEPT !.at = "row", !.g = g, !.p = Self]
<1>1. k \in NameTasks /\ k.at = "rename" /\ k.p = Self /\ k.name # NoName /\ Self \in Members
  BY NamesAssumption DEF Rename, NamesTyping, Errands
<1>2. next \in NameTasks /\ next.at = "rename" /\ next.p = Self /\ next.name # NoName
  BY <1>1 DEF NameTasks
<1>3. r \in NameTasks /\ r.at = "row" /\ r.g = g /\ r.p = Self /\ r.name = k.name /\ r.old = k.old
  BY <1>1 DEF NameTasks
<1>4. nmMem[g][Self] \in Called /\ n \in Called
  BY <1>1 DEF NamesTyping, NameTasks
<1>5. UNCHANGED <<nmRow, nmOwn, nmProfile, nmCalls, nmFaults>>
  BY DEF Rename
<1>6. \/ Goes(t, next) /\ UNCHANGED <<nmMem, nmRaced>>
      \/ nmMem' = [nmMem EXCEPT ![g][Self] = n] /\ Overlap(t, g, Self, k.name) /\ Goes(t, r)
  <2>1. \/ Goes(t, next) /\ UNCHANGED <<nmMem, nmRaced>>
        \/ /\ nmMem' = [nmMem EXCEPT ![g][Self] = IF nmMem[g][Self] \in {NoName, k.old} THEN k.name ELSE @]
           /\ Overlap(t, g, Self, k.name) /\ Goes(t, r)
    BY DEF Rename
  <2>2. [nmMem EXCEPT ![g][Self] = IF nmMem[g][Self] \in {NoName, k.old} THEN k.name ELSE @]
        = [nmMem EXCEPT ![g][Self] = n]
    BY <1>1 DEF NamesTyping
  <2> HIDE DEF n, next, r
  <2> QED BY <2>1, <2>2
<1>7. n = IF nmMem[g][Self] \in {NoName, r.old} THEN r.name ELSE nmMem[g][Self]
  BY <1>3
<1> HIDE DEF n, next, r
<1>8. CASE Goes(t, next) /\ UNCHANGED <<nmMem, nmRaced>>
  <2>1. NamesTyping'
    BY <1>2, <1>5, <1>8, TaskGoes DEF NamesTyping
  <2>2. Errands'
    BY <1>2, <1>8, ErrandGoes
  <2>3. AllAgreed'
    BY <1>1, <1>2, <1>5, <1>8, AgreedAside
  <2>4. OwnAgreed'
    BY <1>1, <1>2, <1>5, <1>8, OwnAside
  <2> QED BY <2>1, <2>2, <2>3, <2>4
<1>9. CASE nmMem' = [nmMem EXCEPT ![g][Self] = n] /\ Overlap(t, g, Self, k.name) /\ Goes(t, r)
  <2>1. NamesTyping'
    BY <1>1, <1>3, <1>4, <1>5, <1>9, TaskGoes DEF NamesTyping
  <2>2. Errands'
    BY <1>1, <1>3, <1>9, ErrandGoes
  <2>3. k.name \in Called
    BY <1>1 DEF NameTasks
  <2>4. AllAgreed'
    BY <1>1, <1>3, <1>4, <1>5, <1>7, <1>9, <2>3, AgreedEnters
  <2>5. Own \in nmRaced => Own \in nmRaced'
    BY <1>9 DEF Overlap
  <2>6. OwnAgreed'
    BY <1>1, <1>3, <1>5, <1>9, <2>5, OwnAside
  <2> QED BY <2>1, <2>2, <2>4, <2>6
<1> QED BY <1>6, <1>8, <1>9

(* what is renamed next, and that all are *)
LEMMA RenamedAllKeeps ==
  ASSUME NamesInv, NEW t \in Tasks, RenamedAll(t)
  PROVE  NamesInv'
<1> USE DEF NamesInv
<1> DEFINE k == nmTask[t]
           r == [k EXCEPT !.at = "save"]
<1>1. k \in NameTasks /\ k.at = "rename" /\ k.p = Self /\ k.name # NoName /\ k.name \in Called
  BY DEF RenamedAll, NamesTyping, Errands, NameTasks
<1>2. r \in NameTasks /\ r.at = "save" /\ r.p = Self /\ r.name # NoName
  BY <1>1 DEF NameTasks
<1>3. UNCHANGED <<nmMem, nmRow, nmProfile, nmCalls, nmFaults, nmRaced>>
  BY DEF RenamedAll
<1>4. \/ nmOwn' = k.name /\ Goes(t, r)
      \/ Goes(t, NoTask) /\ UNCHANGED nmOwn
  BY DEF RenamedAll
<1> HIDE DEF r
<1>5. CASE nmOwn' = k.name /\ Goes(t, r)
  <2>1. NamesTyping'
    BY <1>1, <1>2, <1>3, <1>5, TaskGoes DEF NamesTyping
  <2>2. Errands'
    BY <1>2, <1>5, ErrandGoes
  <2>3. AllAgreed'
    BY <1>1, <1>2, <1>3, <1>5, AgreedAside
  <2>4. OwnAgreed'
    BY <1>2, <1>5, TaskGoes DEF OwnAgreed
  <2> QED BY <2>1, <2>2, <2>3, <2>4
<1>6. CASE Goes(t, NoTask) /\ UNCHANGED nmOwn
  <2>1. NamesTyping'
    BY <1>3, <1>6, TaskGoes, IdleTask DEF NamesTyping
  <2>2. Errands'
    BY <1>6, ErrandGoes, IdleTask
  <2>3. AllAgreed'
    BY <1>1, <1>3, <1>6, AgreedAside, IdleTask
  <2>4. OwnAgreed'
    BY <1>1, <1>3, <1>6, OwnAside, IdleTask
  <2> QED BY <2>1, <2>2, <2>3, <2>4
<1> QED BY <1>4, <1>5, <1>6

(* the groups a task is to visit are groups *)
LEMMA ToRename == \A more \in SUBSET NameGroups : RenameIn(Listed \cup more) \in SUBSET NameGroups
  BY DEF RenameIn, Listed

(* the bot's own name reaches its profile, or does not *)
LEMMA SaveNameKeeps ==
  ASSUME NamesInv, NEW t \in Tasks, SaveName(t)
  PROVE  NamesInv'
<1> USE DEF NamesInv
<1> DEFINE k == nmTask[t]
<1>1. k \in NameTasks /\ k.at = "save" /\ k.p = Self /\ k.name # NoName /\ k.name \in Called
  BY DEF SaveName, NamesTyping, Errands, NameTasks
<1>2. UNCHANGED <<nmMem, nmRow, nmOwn, nmCalls>>
  BY DEF SaveName
<1>3. PICK more \in SUBSET NameGroups :
        Goes(t, IF t = "check" THEN NoTask
                ELSE [k EXCEPT !.at = "rename", !.left = RenameIn(Listed \cup more)])
  BY DEF SaveName
<1> DEFINE r == IF t = "check" THEN NoTask
                ELSE [k EXCEPT !.at = "rename", !.left = RenameIn(Listed \cup more)]
<1>4. [k EXCEPT !.at = "rename", !.left = RenameIn(Listed \cup more)] \in NameTasks
  BY <1>1, ToRename DEF NameTasks
<1>5. r \in NameTasks /\ r.at \in {"idle", "rename"}
      /\ (r.at = "rename" => r.p = Self /\ r.name # NoName)
  BY <1>1, <1>4, IdleTask
<1>6. Goes(t, r)
  BY <1>3
<1> HIDE DEF r
<1>7. /\ nmProfile' \in Called /\ nmFaults' \in 0..NameFaults
      /\ Own \in nmRaced' \/ nmOwn' = nmProfile'
      /\ \A g \in NameGroups, p \in Members : <<g, p>> \in nmRaced => <<g, p>> \in nmRaced'
  <2>1. CASE nmProfile' = k.name /\ nmFaults' = nmFaults
             /\ nmRaced' = IF nmOwn = k.name THEN nmRaced \ {Own} ELSE nmRaced \cup {Own}
    BY <1>1, <1>2, <2>1, OwnApart DEF NamesTyping
  <2>2. CASE nmFaults < NameFaults /\ nmFaults' = nmFaults + 1 /\ nmProfile' = nmProfile
             /\ nmRaced' = nmRaced \cup {Own}
    BY <1>1, <1>2, <2>2, NamesAssumption DEF NamesTyping
  <2> QED BY <2>1, <2>2 DEF SaveName
<1>8. NamesTyping'
  BY <1>2, <1>5, <1>6, <1>7, TaskGoes DEF NamesTyping
<1>9. Errands'
  BY <1>5, <1>6, ErrandGoes
<1>10. AllAgreed'
  BY <1>1, <1>2, <1>5, <1>6, <1>7, AgreedAside
<1>11. OwnAgreed'
  BY <1>7 DEF OwnAgreed
<1> QED BY <1>8, <1>9, <1>10, <1>11

(* a restart *)
LEMMA RereadKeeps ==
  ASSUME NamesInv, Reread
  PROVE  NamesInv'
<1> USE DEF NamesInv
<1>1. /\ nmMem' = [g \in NameGroups |-> [p \in Members |-> Shown(nmRow[g][p])]]
      /\ nmOwn' = nmProfile /\ nmProfile' = nmProfile /\ nmRow' = nmRow
      /\ nmTask' = [t \in Tasks |-> NoTask] /\ nmCalls' = 0
      /\ nmFaults < NameFaults /\ nmFaults' = nmFaults + 1
      /\ nmRaced' = {q \in nmRaced \ {Own} : nmRow[q[1]][q[2]] \in [name: NameOf, shown: {NoName}]}
  BY DEF Reread
<1>2. \A g \in NameGroups, p \in Members :
        nmRow[g][p].name \in Called /\ nmRow[g][p].shown \in Called
  BY DEF NamesTyping
<1>3. NamesTyping'
  <2>1. nmMem' \in [NameGroups -> [Members -> Called]]
    BY <1>1, <1>2, ShownTyped
  <2>2. nmTask' \in [Tasks -> NameTasks]
    BY <1>1, IdleTask
  <2> QED BY <1>1, <2>1, <2>2, NamesAssumption DEF NamesTyping
<1>4. \A t \in Tasks : nmTask'[t].at = "idle"
  BY <1>1, IdleTask
<1>5. Errands'
  BY <1>4 DEF Errands
<1>6. AllAgreed'
  <2> SUFFICES ASSUME NEW g \in NameGroups, NEW p \in Members, <<g, p>> \notin nmRaced'
               PROVE  Agreed(g, p)'
    BY DEF AllAgreed
  <2>1. \A t \in Tasks : ~ Writing(t, g, p)'
    BY <1>4 DEF Writing
  <2>2. nmMem'[g][p] = Shown(nmRow[g][p])
    BY <1>1
  <2>3. nmRow[g][p].shown = NoName => nmRow[g][p].name = NoName
    <3>1. CASE <<g, p>> \notin nmRaced
      BY <3>1 DEF AllAgreed, Agreed
    <3>2. CASE <<g, p>> \in nmRaced
      <4>1. <<g, p>> \in nmRaced \ {Own}
        BY <3>2, OwnApart
      <4>2. ~ (nmRow[g][p] \in [name: NameOf, shown: {NoName}])
        BY <1>1, <4>1
      <4>3. nmRow[g][p] \in [name : Called, shown : Called]
        BY DEF NamesTyping
      <4>4. ~ (nmRow[g][p].name \in NameOf /\ nmRow[g][p].shown = NoName)
        BY <4>2, <4>3
      <4> QED BY <4>3, <4>4 DEF Called
    <3> QED BY <3>1, <3>2
  <2> QED BY <1>1, <2>1, <2>2, <2>3 DEF Agreed
<1>7. OwnAgreed'
  BY <1>1 DEF OwnAgreed
<1> QED BY <1>3, <1>5, <1>6, <1>7

LEMMA NamesInitially == NamesInit => NamesInv
<1> SUFFICES ASSUME NamesInit PROVE NamesInv
  OBVIOUS
<1>1. NamesTyping
  BY IdleTask, NamesAssumption DEF NamesInit, NamesTyping, Called
<1>2. Errands
  BY IdleTask DEF NamesInit, Errands
<1>3. AllAgreed
  BY IdleTask DEF NamesInit, AllAgreed, Agreed, Writing, Shown
<1>4. OwnAgreed
  BY DEF NamesInit, OwnAgreed
<1> QED BY <1>1, <1>2, <1>3, <1>4 DEF NamesInv

LEMMA NamesStep == NamesInv /\ [NamesNext]_nmVars => NamesInv'
<1> SUFFICES ASSUME NamesInv, [NamesNext]_nmVars PROVE NamesInv'
  OBVIOUS
<1>1. CASE UNCHANGED nmVars
  BY <1>1 DEF nmVars, NamesInv, NamesTyping, Errands, AllAgreed, Agreed, Writing, OwnAgreed
<1>2. ASSUME NEW g \in NameGroups, NEW p \in Members, Ask(g, p) PROVE NamesInv'
  <2> DEFINE r == [NoTask EXCEPT !.at = "asked", !.g = g, !.p = p]
  <2>2. r \in NameTasks /\ r.at = "asked" /\ r.g \in NameGroups
    BY IdleTask DEF NameTasks
  <2>3. /\ Goes("ask", r) /\ nmTask["ask"].at = "idle" /\ nmCalls < NameCalls /\ nmCalls' = nmCalls + 1
        /\ UNCHANGED <<nmMem, nmRow, nmOwn, nmProfile, nmFaults, nmRaced>>
    BY <1>2 DEF Ask, Count
  <2> HIDE DEF r
  <2>4. "ask" \in Tasks
    BY DEF Tasks
  <2>5. NamesTyping'
    BY <2>2, <2>3, <2>4, TaskGoes, NamesAssumption DEF NamesInv, NamesTyping
  <2>6. Errands'
    BY <2>2, <2>3, <2>4, ErrandGoes DEF NamesInv
  <2>7. AllAgreed'
    BY <2>2, <2>3, <2>4, AgreedAside DEF NamesInv
  <2>8. OwnAgreed'
    BY <2>2, <2>3, <2>4, OwnAside DEF NamesInv
  <2> QED BY <2>5, <2>6, <2>7, <2>8 DEF NamesInv
<1>3. ASSUME NEW g \in NameGroups, NEW p \in Members, NEW n \in NameOf, Learn(g, p, n) PROVE NamesInv'
  <2>1. /\ Enter("sync", g, p, n, n) /\ nmTask["sync"].at = "idle" /\ nmCalls < NameCalls
        /\ nmCalls' = nmCalls + 1 /\ UNCHANGED <<nmRow, nmOwn, nmProfile, nmFaults>>
    BY <1>3 DEF Learn, Count
  <2>2. "sync" \in Tasks /\ n \in Called
    BY DEF Tasks, Called
  <2>3. nmCalls' \in 0..NameCalls
    BY <2>1, NamesAssumption DEF NamesInv, NamesTyping
  <2> QED BY <2>1, <2>2, <2>3, EnterKeeps
<1>4. ASSUME NEW n \in NameOf, Check(n) PROVE NamesInv'
  <2>1. PICK more \in SUBSET NameGroups :
          Goes("check", [NoTask EXCEPT !.at = "rename", !.name = n, !.old = nmOwn,
                                       !.left = RenameIn(Listed \cup more)])
    BY <1>4 DEF Check
  <2> DEFINE r == [NoTask EXCEPT !.at = "rename", !.name = n, !.old = nmOwn,
                                 !.left = RenameIn(Listed \cup more)]
  <2>2. NoTask.p = Self
    BY DEF NoTask
  <2>3. n # NoName /\ n \in Called /\ nmOwn \in Called /\ Self \in Members
    BY NamesAssumption DEF Called, NamesInv, NamesTyping
  <2>4. r \in NameTasks /\ r.at = "rename" /\ r.p = Self /\ r.name # NoName
    BY <2>2, <2>3, IdleTask, ToRename DEF NameTasks
  <2>5. /\ Goes("check", r) /\ nmTask["check"].at = "idle" /\ nmCalls < NameCalls
        /\ nmCalls' = nmCalls + 1 /\ UNCHANGED <<nmMem, nmRow, nmOwn, nmProfile, nmFaults, nmRaced>>
    BY <1>4, <2>1 DEF Check, Count
  <2> HIDE DEF r
  <2>6. "check" \in Tasks
    BY DEF Tasks
  <2>7. NamesTyping'
    BY <2>4, <2>5, <2>6, TaskGoes, NamesAssumption DEF NamesInv, NamesTyping
  <2>8. Errands'
    BY <2>4, <2>5, <2>6, ErrandGoes DEF NamesInv
  <2>9. AllAgreed'
    BY <2>4, <2>5, <2>6, AgreedAside DEF NamesInv
  <2>10. OwnAgreed'
    BY <2>4, <2>5, <2>6, OwnAside DEF NamesInv
  <2> QED BY <2>7, <2>8, <2>9, <2>10 DEF NamesInv
<1>5. CASE Answered
  <2>1. PICK a \in MemberInfos \cup {[name |-> NoName, shown |-> NoName]} :
          Enter("ask", nmTask["ask"].g, nmTask["ask"].p, a.name, a.shown)
    BY <1>5 DEF Answered
  <2>2. a.name \in Called /\ a.shown \in Called
    BY NamesAssumption DEF Called
  <2>3. "ask" \in Tasks /\ nmTask["ask"].at = "asked"
        /\ UNCHANGED <<nmRow, nmOwn, nmProfile, nmCalls, nmFaults>>
    BY <1>5 DEF Tasks, Answered
  <2>4. nmTask["ask"].g \in NameGroups /\ nmTask["ask"].p \in Members /\ nmCalls' \in 0..NameCalls
    BY <2>3 DEF NamesInv, Errands, NamesTyping, NameTasks
  <2> QED BY <2>1, <2>2, <2>3, <2>4, EnterKeeps
<1>6. CASE LearnIdentity
  BY <1>6 DEF LearnIdentity, NamesInv, NamesTyping, Errands, AllAgreed, Agreed, Writing, OwnAgreed
<1> QED
  BY <1>1, <1>2, <1>3, <1>4, <1>5, <1>6, WriteKeeps, MirrorKeeps, RenameKeeps, RenamedAllKeeps,
     SaveNameKeeps, RereadKeeps DEF NamesNext

LEMMA NamesInvariant == NamesSpec => []NamesInv
BY NamesInitially, NamesStep, PTL DEF NamesSpec

(* Names and errands stay in their sets, and only the bot's own row is renamed. *)
THEOREM NamesTypeCorrect == NamesSpec => []NamesTypeOK
<1>1. NamesInv => NamesTypeOK
  BY DEF NamesInv, NamesTyping, Errands, NamesTypeOK, Called
<1> QED BY <1>1, NamesInvariant, PTL

(* However many groups, members, names and restarts: what the directory shows is what it would
   show after a restart (workspace.go: learn, fetchAsync, mirrorSelfName, SyncSelfName), for every
   member whose row is not being written, was not written by two tasks at once and was not named
   by an answer without a card. *)
THEOREM NamesAlwaysAgree == NamesSpec => []NamesAgree
<1>1. NamesInv => NamesAgree
  BY DEF NamesInv, AllAgreed, Agreed, OwnAgreed, NamesAgree
<1> QED BY <1>1, NamesInvariant, PTL

-----------------------------------------------------------------------------
(* Panel *)

ChatNames == {"", "A", "B"}
GroupRows == [there : BOOLEAN, name : ChatNames, messages : Nat, people : Nat]

(* a writer knows the chat it writes, and what it does next *)
JobOK(job) ==
  \/ job.at = "idle"
  \/ job.at = "insert" /\ job.row \in Rows /\ job.chat = Home[job.row]
  \/ job.at \in {"persona", "look", "ask"} /\ job.chat \in PanelChats
  \/ /\ job.at = "group" /\ job.chat \in PanelChats /\ job.next \in {"idle", "look"}
     /\ job.found \in BOOLEAN /\ job.name \in ChatNames /\ (job.found => job.name # "")
     /\ job = [at |-> "group", chat |-> job.chat, found |-> job.found, name |-> job.name, next |-> job.next]
  \/ job.at = "cache" /\ job.chat \in PanelChats /\ job.next \in {"idle", "look"} /\ job.name \in {"A", "B"}

Resetting(c) == pnReset.at # "idle" /\ pnReset.account = Owner[c]

ResetTyped ==
  \/ pnReset.at = "idle"
  \/ /\ pnReset.at \in {"messages", "members", "groups", "cache"}
     /\ pnReset = [at |-> pnReset.at, account |-> pnReset.account, names |-> pnReset.names]

PanelTyping ==
  /\ pnRows \subseteq Rows /\ pnKnown \subseteq PanelChats /\ pnTorn \subseteq PanelChats
  /\ pnGroups \in [PanelChats -> GroupRows] /\ pnNames \in [PanelChats -> ChatNames]
  /\ \A c \in PanelChats : pnGroups[c].name # "" => pnGroups[c].there
  /\ DOMAIN pnJob = PanelWriters /\ \A w \in PanelWriters : JobOK(pnJob[w])
  /\ ResetTyped

(* what is known of the writers of a chat that is not torn *)
JobsFit(c) ==
  \A w \in PanelWriters : pnJob[w].at # "idle" /\ pnJob[w].chat = c =>
    /\ ~ Resetting(c)
    /\ pnJob[w].at = "group" /\ pnJob[w].found => pnGroups[c].there
    /\ pnJob[w].at = "cache" => pnGroups[c].name # ""

MessagesOf(c) == RowsOf(c, pnRows \cap PanelMessages)
PeopleOf(c)   == RowsOf(c, pnRows \cap PanelPeople)

RowsFit(c) ==
  IF Resetting(c)
  THEN /\ pnReset.at \in {"members", "groups", "cache"} => MessagesOf(c) = {}
       /\ pnReset.at \in {"groups", "cache"} => PeopleOf(c) = {}
       /\ pnReset.at = "cache" => pnGroups[c] = NoRow
       /\ pnNames[c] # "" => c \in pnReset.names
  ELSE /\ pnGroups[c].messages = Cardinality(MessagesOf(c))
       /\ pnGroups[c].people = Cardinality(PeopleOf(c))
       /\ pnNames[c] # "" => pnGroups[c].name # ""

ArchiveFits == \A c \in PanelChats \ pnTorn : JobsFit(c) /\ RowsFit(c)

AnswerFits ==
  /\ pnReset.at # "idle" => pnAnswer.at = "idle"
  /\ \/ pnAnswer.at = "idle"
     \/ /\ pnAnswer.at = "status" /\ DOMAIN pnAnswer.list \subseteq Overviews
        /\ pnAnswer = [at |-> "status", list |-> pnAnswer.list, total |-> pnAnswer.total]
     \/ pnAnswer.at = "done" /\ Cardinality(DOMAIN pnAnswer.list) <= pnAnswer.total
     \/ /\ pnAnswer.at = "rows" /\ pnAnswer.chat \in PanelChats /\ pnAnswer.total \in Nat /\ pnAnswer.total <= Cardinality(MessagesOf(pnAnswer.chat))
        /\ pnAnswer = [at |-> "rows", chat |-> pnAnswer.chat, total |-> pnAnswer.total, shown |-> pnAnswer.shown]
     \/ pnAnswer.at = "page" /\
        Cardinality(pnAnswer.shown) >= (IF pnAnswer.total < PageLimit THEN pnAnswer.total ELSE PageLimit)

PanelInv == PanelTyping /\ ArchiveFits /\ AnswerFits

LEMMA PanelSets ==
  /\ Rows = PanelMessages \cup PanelPeople /\ PanelMessages \cap PanelPeople = {} /\ IsFiniteSet(Rows)
  /\ IsFiniteSet(PanelChats) /\ \A r \in Rows : Home[r] \in PanelChats
  BY PanelAssumption DEF Rows

(* rows are counted one by one *)
LEMMA RowsCounted ==
  \A S \in SUBSET Rows, c \in PanelChats :
    /\ IsFiniteSet(RowsOf(c, S \cap PanelMessages)) /\ IsFiniteSet(RowsOf(c, S \cap PanelPeople))
    /\ Cardinality(RowsOf(c, S \cap PanelMessages)) \in Nat
    /\ Cardinality(RowsOf(c, S \cap PanelPeople)) \in Nat
<1> TAKE S \in SUBSET Rows, c \in PanelChats
<1>1. RowsOf(c, S \cap PanelMessages) \subseteq Rows /\ RowsOf(c, S \cap PanelPeople) \subseteq Rows
  BY DEF RowsOf
<1> QED BY <1>1, PanelSets, FS_Subset, FS_CardinalityType

(* a row that is inserted is one more of its kind *)
LEMMA OneRowMore ==
  ASSUME NEW S \in SUBSET Rows, NEW r \in Rows, r \notin S, NEW c, c = Home[r]
  PROVE  /\ r \in PanelMessages =>
              /\ Cardinality(RowsOf(c, (S \cup {r}) \cap PanelMessages)) = Cardinality(RowsOf(c, S \cap PanelMessages)) + 1
              /\ Cardinality(RowsOf(c, (S \cup {r}) \cap PanelPeople)) = Cardinality(RowsOf(c, S \cap PanelPeople))
         /\ r \in PanelPeople =>
              /\ Cardinality(RowsOf(c, (S \cup {r}) \cap PanelPeople)) = Cardinality(RowsOf(c, S \cap PanelPeople)) + 1
              /\ Cardinality(RowsOf(c, (S \cup {r}) \cap PanelMessages)) = Cardinality(RowsOf(c, S \cap PanelMessages))
<1> DEFINE M == RowsOf(c, S \cap PanelMessages)
           P == RowsOf(c, S \cap PanelPeople)
<1>1. c \in PanelChats /\ IsFiniteSet(M) /\ IsFiniteSet(P)
  BY PanelSets, RowsCounted
<1>2. r \notin M /\ r \notin P
  BY DEF RowsOf
<1>3. Cardinality(M \cup {r}) = Cardinality(M) + 1 /\ Cardinality(P \cup {r}) = Cardinality(P) + 1
  BY <1>1, <1>2, FS_AddElement
<1>4. r \in PanelMessages => /\ RowsOf(c, (S \cup {r}) \cap PanelMessages) = M \cup {r}
                             /\ RowsOf(c, (S \cup {r}) \cap PanelPeople) = P
  BY PanelSets DEF RowsOf
<1>5. r \in PanelPeople => /\ RowsOf(c, (S \cup {r}) \cap PanelPeople) = P \cup {r}
                           /\ RowsOf(c, (S \cup {r}) \cap PanelMessages) = M
  BY PanelSets DEF RowsOf
<1> QED BY <1>3, <1>4, <1>5

(* as long as nothing is emptied, an answer under way stays right *)
LEMMA AnswerStays ==
  ASSUME PanelTyping, AnswerFits, pnReset' = pnReset, pnAnswer' = pnAnswer,
         pnRows \subseteq pnRows', pnRows' \subseteq Rows,
         \A c \in PanelChats : pnGroups[c].there => pnGroups'[c].there
  PROVE  AnswerFits'
<1>1. Overviews \subseteq Overviews' /\ (pnAnswer.at = "rows" => pnAnswer.chat \in PanelChats)
  BY DEF Overviews, AnswerFits
<1>2. \A c \in PanelChats : Cardinality(MessagesOf(c)) <= Cardinality(MessagesOf(c)')
  <2> TAKE c \in PanelChats
  <2>1. MessagesOf(c) \subseteq MessagesOf(c)'
    BY DEF MessagesOf, RowsOf
  <2>2. IsFiniteSet(MessagesOf(c)')
    BY RowsCounted DEF MessagesOf
  <2> QED BY <2>1, <2>2, FS_Subset
<1>3. pnAnswer.at = "rows" => Cardinality(MessagesOf(pnAnswer.chat)) \in Nat
                              /\ Cardinality(MessagesOf(pnAnswer.chat)') \in Nat
  BY <1>1, RowsCounted DEF MessagesOf, PanelTyping
<1>4. pnAnswer.at = "rows" => Cardinality(MessagesOf(pnAnswer.chat)) <= Cardinality(MessagesOf(pnAnswer.chat)')
  BY <1>1, <1>2
<1>5. CASE pnAnswer.at = "rows"
  BY <1>3, <1>4, <1>5 DEF AnswerFits
<1>6. CASE pnAnswer.at # "rows"
  BY <1>1, <1>6 DEF AnswerFits
<1> QED BY <1>5, <1>6

(* a writer goes on: its own chat is the only one whose row, rows and name may be others, what is
   there stays, and what it is about to do fits *)
LEMMA WriterKeeps ==
  ASSUME PanelInv, NEW w \in PanelWriters, NEW c \in PanelChats, NEW job,
         PanelGoes(w, c, job), JobOK(job), job.at # "idle" => job.chat = c,
         pnRows \subseteq pnRows', pnRows' \subseteq Rows, pnKnown' \subseteq PanelChats,
         pnGroups' \in [PanelChats -> GroupRows], pnNames' \in [PanelChats -> ChatNames],
         \A r \in pnRows' \ pnRows : Home[r] = c,
         \A d \in PanelChats \ {c} : pnGroups'[d] = pnGroups[d] /\ pnNames'[d] = pnNames[d],
         pnGroups[c].there => pnGroups'[c].there,
         pnGroups[c].name # "" => pnGroups'[c].name # "",
         pnGroups'[c].name # "" => pnGroups'[c].there,
         job.at = "group" /\ job.found => pnGroups'[c].there,
         c \notin pnTorn /\ JobsFit(c) /\ RowsFit(c) /\ ~ Resetting(c) =>
           RowsFit(c)' /\ (job.at = "cache" => pnGroups'[c].name # "")
  PROVE  PanelInv'
<1> USE DEF PanelInv
<1>1. /\ pnReset' = pnReset /\ pnResets' = pnResets /\ pnAnswer' = pnAnswer
      /\ pnJob' = [pnJob EXCEPT ![w] = job]
      /\ pnTorn' = IF Resetting(c) THEN pnTorn \cup {c} ELSE pnTorn
  BY DEF PanelGoes, resets, Resetting
<1>2. /\ DOMAIN pnJob' = PanelWriters /\ pnJob'[w] = job
      /\ \A v \in PanelWriters \ {w} : pnJob'[v] = pnJob[v]
  BY <1>1 DEF PanelTyping
<1>3. PanelTyping'
  <2>1. \A v \in PanelWriters : JobOK(pnJob'[v])
    BY <1>2 DEF PanelTyping
  <2>2. \A d \in PanelChats : pnGroups'[d].name # "" => pnGroups'[d].there
    BY DEF PanelTyping
  <2>3. pnTorn' \subseteq PanelChats
    BY <1>1 DEF PanelTyping
  <2>4. (\A v \in PanelWriters : JobOK(pnJob[v]))'
    BY <2>1 DEF JobOK
  <2> QED BY <1>1, <1>2, <2>2, <2>3, <2>4 DEF PanelTyping, ResetTyped
<1>4. AnswerFits'
  <2>1. \A d \in PanelChats : pnGroups[d].there => pnGroups'[d].there
    OBVIOUS
  <2> QED BY <1>1, <2>1, AnswerStays
<1>5. ASSUME NEW d \in PanelChats \ pnTorn' PROVE JobsFit(d)' /\ RowsFit(d)'
  <2>1. d \notin pnTorn /\ (d = c => ~ Resetting(c)) /\ JobsFit(d) /\ RowsFit(d)
    BY <1>1 DEF ArchiveFits
  <2>2. Resetting(d)' <=> Resetting(d)
    BY <1>1 DEF Resetting
  <2>3. CASE d = c
    <3>1. RowsFit(c)' /\ (job.at = "cache" => pnGroups'[c].name # "")
      BY <2>1, <2>3
    <3>2. ASSUME NEW v \in PanelWriters, pnJob'[v].at # "idle", pnJob'[v].chat = c
          PROVE  /\ ~ Resetting(c)'
                 /\ pnJob'[v].at = "group" /\ pnJob'[v].found => pnGroups'[c].there
                 /\ pnJob'[v].at = "cache" => pnGroups'[c].name # ""
      <4>1. CASE v = w
        BY <1>2, <2>1, <2>2, <2>3, <3>1, <4>1
      <4>2. CASE v # w
        <5>1. pnJob'[v] = pnJob[v]
          BY <1>2, <4>2
        <5> QED BY <2>1, <2>2, <2>3, <3>2, <5>1 DEF JobsFit
      <4> QED BY <4>1, <4>2
    <3> QED BY <2>3, <3>1, <3>2 DEF JobsFit
  <2>4. CASE d # c
    <3>1. \A v \in PanelWriters : pnJob'[v].at # "idle" /\ pnJob'[v].chat = d => pnJob'[v] = pnJob[v]
      BY <1>2, <2>4
    <3>2. pnGroups'[d] = pnGroups[d] /\ pnNames'[d] = pnNames[d]
      BY <2>4
    <3>3. JobsFit(d)'
      BY <2>1, <2>2, <3>1, <3>2 DEF JobsFit
    <3>4. MessagesOf(d)' = MessagesOf(d) /\ PeopleOf(d)' = PeopleOf(d)
      BY <2>4 DEF MessagesOf, PeopleOf, RowsOf
    <3>5. RowsFit(d)'
      BY <1>1, <2>1, <2>2, <3>2, <3>4 DEF RowsFit
    <3> QED BY <3>3, <3>5
  <2> QED BY <2>3, <2>4
<1>6. ArchiveFits'
  BY <1>5 DEF ArchiveFits
<1> QED BY <1>3, <1>4, <1>6

(* the chat of a writer at work *)
LEMMA WriterAtWork ==
  ASSUME PanelInv, NEW w \in PanelWriters, pnJob[w].at # "idle"
  PROVE  /\ JobOK(pnJob[w]) /\ pnJob[w].chat \in PanelChats
         /\ pnJob[w].chat \notin pnTorn => JobsFit(pnJob[w].chat) /\ RowsFit(pnJob[w].chat)
  BY PanelSets DEF PanelInv, PanelTyping, JobOK, ArchiveFits

(* a writer that only reads, and goes on to what fits *)
LEMMA WriterReads ==
  ASSUME PanelInv, NEW w \in PanelWriters, NEW c \in PanelChats, NEW job,
         PanelGoes(w, c, job), UNCHANGED archive, pnKnown' \subseteq PanelChats,
         JobOK(job), job.at # "idle" => job.chat = c,
         job.at = "group" /\ job.found => pnGroups[c].there,
         job.at = "cache" => pnGroups[c].name # ""
  PROVE  PanelInv'
<1>1. /\ pnRows' = pnRows /\ pnGroups' = pnGroups /\ pnNames' = pnNames /\ pnReset' = pnReset
      /\ pnRows' \subseteq Rows
      /\ pnGroups' \in [PanelChats -> GroupRows] /\ pnNames' \in [PanelChats -> ChatNames]
      /\ pnGroups'[c].name # "" => pnGroups'[c].there
  BY DEF archive, PanelInv, PanelTyping, PanelGoes, resets
<1>2. RowsFit(c) => RowsFit(c)'
  BY <1>1 DEF RowsFit, Resetting, MessagesOf, PeopleOf, RowsOf
<1> QED BY <1>1, <1>2, WriterKeeps

(* SaveGroupInfo begins *)
LEMMA SaveBegins ==
  ASSUME PanelInv, NEW w \in PanelWriters, NEW c \in PanelChats, NEW name \in ChatNames,
         NEW next \in {"idle", "look"}, SaveChatName(w, c, name, next),
         UNCHANGED archive, pnKnown' \subseteq PanelChats
  PROVE  PanelInv'
<1> DEFINE row == pnGroups[c]
           now == IF name = "" THEN row.name ELSE name
           job == IF row.there /\ now = row.name THEN [at |-> next, chat |-> c]
                  ELSE [at |-> "group", chat |-> c, found |-> row.there, name |-> now, next |-> next]
<1>1. row \in GroupRows /\ row.there \in BOOLEAN /\ row.name \in ChatNames /\ now \in ChatNames
  BY DEF PanelInv, PanelTyping, GroupRows
<1>2. PanelGoes(w, c, job)
  BY DEF SaveChatName
<1>3. CASE row.there /\ now = row.name
  <2>1. job = [at |-> next, chat |-> c]
    BY <1>3
  <2>2. JobOK([at |-> next, chat |-> c])
    BY DEF JobOK
  <2> HIDE DEF job
  <2> QED BY <1>2, <2>1, <2>2, WriterReads
<1>4. CASE ~ (row.there /\ now = row.name)
  <2>1. job = [at |-> "group", chat |-> c, found |-> row.there, name |-> now, next |-> next]
    BY <1>4
  <2>2. row.there => now # ""
    BY <1>4
  <2> HIDE DEF job
  <2>3. JobOK(job) /\ job.at = "group" /\ job.chat = c /\ (job.found => row.there)
    BY <1>1, <2>1, <2>2 DEF JobOK
  <2> QED BY <1>2, <2>3, WriterReads
<1> QED BY <1>3, <1>4

LEMMA ReadingKeeps ==
  ASSUME PanelInv, NEW w \in PanelWriters,
         \/ \E r \in Rows : RowMissing(w, r)
         \/ LookGroupName(w)
         \/ \E c \in PanelChats : PersonaMissing(w, c) \/ EnsureGroup(w, c) \/ InjectName(w, c) \/ NameForPage(w, c)
         \/ \E name \in {"", "A"} : NameAnswered(w, name)
  PROVE  PanelInv'
<1>0. pnKnown \subseteq PanelChats
  BY DEF PanelInv, PanelTyping
<1>1. ASSUME NEW r \in Rows, RowMissing(w, r) PROVE PanelInv'
  <2> DEFINE job == [at |-> "insert", row |-> r, chat |-> Home[r]]
  <2>1. JobOK(job) /\ job.chat = Home[r] /\ job.at = "insert" /\ Home[r] \in PanelChats
    BY PanelSets DEF JobOK
  <2>2. PanelGoes(w, Home[r], job) /\ UNCHANGED archive /\ pnKnown' \subseteq PanelChats
    BY <1>0, <1>1 DEF RowMissing
  <2> HIDE DEF job
  <2> QED BY <2>1, <2>2, WriterReads
<1>2. ASSUME NEW c \in PanelChats, PersonaMissing(w, c) PROVE PanelInv'
  <2> DEFINE job == [at |-> "persona", chat |-> c]
  <2>1. JobOK(job) /\ job.chat = c /\ job.at = "persona"
    BY DEF JobOK
  <2>2. PanelGoes(w, c, job) /\ UNCHANGED archive /\ pnKnown' \subseteq PanelChats
    BY <1>0, <1>2 DEF PersonaMissing
  <2> HIDE DEF job
  <2> QED BY <2>1, <2>2, WriterReads
<1>3. ASSUME NEW c \in PanelChats, EnsureGroup(w, c) PROVE PanelInv'
  BY <1>0, <1>3, SaveBegins DEF EnsureGroup, ChatNames
<1>4. ASSUME NEW c \in PanelChats, InjectName(w, c) PROVE PanelInv'
  BY <1>0, <1>4, SaveBegins DEF InjectName, ChatNames
<1>5. ASSUME NEW name \in {"", "A"}, NameAnswered(w, name) PROVE PanelInv'
  <2> DEFINE c == pnJob[w].chat
  <2>1. c \in PanelChats
    BY <1>5, WriterAtWork DEF NameAnswered, At
  <2>2. CASE name = ""
    <3>1. JobOK(Idle) /\ Idle.at = "idle"
      BY DEF JobOK, Idle
    <3>2. PanelGoes(w, c, Idle) /\ UNCHANGED archive /\ pnKnown' \subseteq PanelChats
      BY <1>0, <1>5, <2>2 DEF NameAnswered
    <3> HIDE DEF c
    <3> QED BY <2>1, <3>1, <3>2, WriterReads
  <2>3. CASE name # ""
    <3>1. SaveChatName(w, c, name, "idle") /\ UNCHANGED archive /\ pnKnown' \subseteq PanelChats
      BY <1>0, <1>5, <2>3 DEF NameAnswered
    <3> HIDE DEF c
    <3> QED BY <2>1, <3>1, SaveBegins DEF ChatNames
  <2> QED BY <2>2, <2>3
<1>6. CASE LookGroupName(w)
  <2> DEFINE c == pnJob[w].chat
             name == pnGroups[c].name
             job == IF pnNames[c] # "" THEN [at |-> "idle"]
                    ELSE IF name = "" THEN [at |-> "ask", chat |-> c]
                    ELSE [at |-> "cache", chat |-> c, name |-> name, next |-> "idle"]
  <2>1. c \in PanelChats
    BY <1>6, WriterAtWork DEF LookGroupName, At
  <2>2. name \in ChatNames
    BY <2>1 DEF PanelInv, PanelTyping, GroupRows
  <2>3. JobOK(job) /\ (job.at # "idle" => job.chat = c) /\ job.at # "group" /\ (job.at = "cache" => name # "")
    BY <2>1, <2>2 DEF JobOK, ChatNames
  <2>4. PanelGoes(w, c, job) /\ UNCHANGED archive /\ pnKnown' \subseteq PanelChats
    BY <1>0, <1>6 DEF LookGroupName
  <2> HIDE DEF job, c
  <2> QED BY <2>1, <2>3, <2>4, WriterReads
<1>7. ASSUME NEW c \in PanelChats, NameForPage(w, c) PROVE PanelInv'
  <2> DEFINE name == pnGroups[c].name
             job == [at |-> "cache", chat |-> c, name |-> name, next |-> "idle"]
  <2>1. name \in ChatNames /\ name # ""
    BY <1>7 DEF PanelInv, PanelTyping, GroupRows, NameForPage
  <2>2. JobOK(job) /\ job.chat = c /\ job.at = "cache"
    BY <2>1 DEF JobOK, ChatNames
  <2>3. PanelGoes(w, c, job) /\ UNCHANGED archive /\ pnKnown' \subseteq PanelChats
    BY <1>0, <1>7 DEF NameForPage
  <2> HIDE DEF job
  <2> QED BY <2>1, <2>2, <2>3, WriterReads
<1> QED BY <1>1, <1>2, <1>3, <1>4, <1>5, <1>6, <1>7

(* the trigger counts one row more *)
LEMMA CountedRow ==
  ASSUME NEW row \in GroupRows, NEW r
  PROVE  LET now == Counted(row, r) IN
         /\ now \in GroupRows /\ now.there /\ now.name = row.name
         /\ now.messages = row.messages + (IF r \in PanelMessages THEN 1 ELSE 0)
         /\ now.people = row.people + (IF r \in PanelPeople THEN 1 ELSE 0)
<1> DEFINE m == row.messages + (IF r \in PanelMessages THEN 1 ELSE 0)
           p == row.people + (IF r \in PanelPeople THEN 1 ELSE 0)
           now == Counted(row, r)
<1>1. DOMAIN row = {"there", "name", "messages", "people"} /\ row.messages \in Nat /\ row.people \in Nat
      /\ row.name \in ChatNames
  BY DEF GroupRows
<1>2. m \in Nat /\ p \in Nat
  BY <1>1
<1>3. now = [row EXCEPT !.there = TRUE, !.messages = m, !.people = p]
  BY <1>1 DEF Counted
<1> HIDE DEF m, p, now
<1>4. now \in GroupRows /\ now.there = TRUE /\ now.name = row.name /\ now.messages = m /\ now.people = p
  BY <1>1, <1>2, <1>3 DEF GroupRows
<1> QED BY <1>4 DEF m, p, now

(* the row and its trigger *)
LEMMA InsertKeeps ==
  ASSUME PanelInv, NEW w \in PanelWriters, Insert(w)
  PROVE  PanelInv'
<1>0. PICK r, c : r = pnJob[w].row /\ c = pnJob[w].chat
  OBVIOUS
<1>1. /\ pnRows' = pnRows \cup {r}
      /\ pnGroups' = IF r \in pnRows THEN pnGroups ELSE [pnGroups EXCEPT ![c] = Counted(@, r)]
      /\ PanelGoes(w, c, Idle) /\ pnNames' = pnNames /\ pnKnown' = pnKnown
      /\ pnJob[w].at = "insert"
  BY <1>0 DEF Insert, At
<1>2. r \in Rows /\ c = Home[r] /\ c \in PanelChats
  BY <1>0, <1>1, WriterAtWork DEF JobOK
<1>3. /\ pnRows \subseteq Rows /\ pnGroups \in [PanelChats -> GroupRows]
      /\ pnNames \in [PanelChats -> ChatNames] /\ pnKnown \subseteq PanelChats
      /\ pnGroups[c] \in GroupRows /\ (pnGroups[c].name # "" => pnGroups[c].there)
  BY <1>2 DEF PanelInv, PanelTyping
<1>4. pnReset' = pnReset
  BY <1>1 DEF PanelGoes, resets
<1>5. JobOK(Idle) /\ Idle.at = "idle"
  BY DEF JobOK, Idle
<1>6. CASE r \in pnRows
  <2>1. pnRows' = pnRows /\ pnGroups' = pnGroups
    BY <1>1, <1>6
  <2>2. RowsFit(c) => RowsFit(c)'
    BY <1>1, <1>4, <2>1 DEF RowsFit, Resetting, MessagesOf, PeopleOf, RowsOf
  <2> QED BY <1>1, <1>2, <1>3, <1>5, <2>1, <2>2, WriterKeeps
<1>7. CASE r \notin pnRows
  <2> DEFINE row == pnGroups[c]
             now == Counted(row, r)
  <2>1. /\ now \in GroupRows /\ now.there /\ now.name = row.name
        /\ now.messages = row.messages + (IF r \in PanelMessages THEN 1 ELSE 0)
        /\ now.people = row.people + (IF r \in PanelPeople THEN 1 ELSE 0)
    BY <1>3, CountedRow
  <2> HIDE DEF now
  <2>2. pnGroups' = [pnGroups EXCEPT ![c] = now]
    BY <1>1, <1>7 DEF now
  <2>3. /\ pnGroups' \in [PanelChats -> GroupRows] /\ pnGroups'[c] = now
        /\ \A d \in PanelChats \ {c} : pnGroups'[d] = pnGroups[d]
    BY <1>2, <1>3, <2>1, <2>2
  <2>4. r \in PanelMessages \/ r \in PanelPeople
    BY <1>2, PanelSets
  <2>5. RowsFit(c) /\ ~ Resetting(c) => RowsFit(c)'
    <3> SUFFICES ASSUME RowsFit(c), ~ Resetting(c) PROVE RowsFit(c)'
      OBVIOUS
    <3>1. /\ row.messages = Cardinality(RowsOf(c, pnRows \cap PanelMessages))
          /\ row.people = Cardinality(RowsOf(c, pnRows \cap PanelPeople))
          /\ pnNames[c] # "" => row.name # ""
      BY DEF RowsFit, MessagesOf, PeopleOf
    <3>2. ~ Resetting(c)'
      BY <1>4 DEF Resetting
    <3>3. ~ (r \in PanelMessages /\ r \in PanelPeople)
      BY PanelSets
    <3>4. /\ now.messages = Cardinality(RowsOf(c, (pnRows \cup {r}) \cap PanelMessages))
          /\ now.people = Cardinality(RowsOf(c, (pnRows \cup {r}) \cap PanelPeople))
      <4>1. row.messages \in Nat /\ row.people \in Nat
        BY <1>3 DEF GroupRows
      <4>2. CASE r \in PanelMessages
        <5>1. now.messages = row.messages + 1 /\ now.people = row.people
          BY <2>1, <3>3, <4>1, <4>2
        <5>2. /\ Cardinality(RowsOf(c, (pnRows \cup {r}) \cap PanelMessages)) = Cardinality(RowsOf(c, pnRows \cap PanelMessages)) + 1
              /\ Cardinality(RowsOf(c, (pnRows \cup {r}) \cap PanelPeople)) = Cardinality(RowsOf(c, pnRows \cap PanelPeople))
          BY <1>2, <1>3, <1>7, <4>2, OneRowMore
        <5> QED BY <3>1, <5>1, <5>2
      <4>3. CASE r \in PanelPeople
        <5>1. now.messages = row.messages /\ now.people = row.people + 1
          BY <2>1, <3>3, <4>1, <4>3
        <5>2. /\ Cardinality(RowsOf(c, (pnRows \cup {r}) \cap PanelPeople)) = Cardinality(RowsOf(c, pnRows \cap PanelPeople)) + 1
              /\ Cardinality(RowsOf(c, (pnRows \cup {r}) \cap PanelMessages)) = Cardinality(RowsOf(c, pnRows \cap PanelMessages))
          BY <1>2, <1>3, <1>7, <4>3, OneRowMore
        <5> QED BY <3>1, <5>1, <5>2
      <4> QED BY <2>4, <4>2, <4>3
    <3> QED BY <1>1, <2>1, <2>3, <3>1, <3>2, <3>4 DEF RowsFit, MessagesOf, PeopleOf
  <2> QED BY <1>1, <1>2, <1>3, <1>5, <2>1, <2>3, <2>5, WriterKeeps
<1> QED BY <1>6, <1>7

(* only the chat's row is written, and its counts are not *)
LEMMA RowWritten ==
  ASSUME PanelInv, NEW w \in PanelWriters, NEW c \in PanelChats, NEW job,
         PanelGoes(w, c, job), JobOK(job), job.at # "idle" => job.chat = c, job.at # "group",
         NEW put \in GroupRows, pnGroups' = [pnGroups EXCEPT ![c] = put],
         UNCHANGED <<pnRows, pnNames, pnKnown>>,
         put.messages = pnGroups[c].messages, put.people = pnGroups[c].people,
         pnGroups[c].there => put.there, pnGroups[c].name # "" => put.name # "",
         put.name # "" => put.there,
         c \notin pnTorn /\ JobsFit(c) /\ ~ Resetting(c) /\ job.at = "cache" => put.name # ""
  PROVE  PanelInv'
<1>1. /\ pnRows \subseteq Rows /\ pnGroups \in [PanelChats -> GroupRows]
      /\ pnNames \in [PanelChats -> ChatNames] /\ pnKnown \subseteq PanelChats
  BY DEF PanelInv, PanelTyping
<1>2. /\ pnGroups' \in [PanelChats -> GroupRows] /\ pnGroups'[c] = put
      /\ \A d \in PanelChats \ {c} : pnGroups'[d] = pnGroups[d]
  BY <1>1
<1>3. pnReset' = pnReset
  BY DEF PanelGoes, resets
<1>4. RowsFit(c) /\ ~ Resetting(c) => RowsFit(c)'
  BY <1>2, <1>3 DEF RowsFit, Resetting, MessagesOf, PeopleOf, RowsOf
<1> QED BY <1>1, <1>2, <1>4, WriterKeeps

LEMMA InsertPersonaKeeps ==
  ASSUME PanelInv, NEW w \in PanelWriters, InsertPersona(w)
  PROVE  PanelInv'
<1>0. PICK c, put : c = pnJob[w].chat /\ put = [pnGroups[c] EXCEPT !.there = TRUE]
  OBVIOUS
<1>1. c \in PanelChats
  BY <1>0, WriterAtWork DEF InsertPersona, At
<1>2. pnGroups[c] \in GroupRows /\ pnGroups \in [PanelChats -> GroupRows]
  BY <1>1 DEF PanelInv, PanelTyping
<1>3. /\ put \in GroupRows /\ put.messages = pnGroups[c].messages /\ put.people = pnGroups[c].people
      /\ put.there /\ put.name = pnGroups[c].name
  BY <1>0, <1>2 DEF GroupRows
<1>4. pnGroups' = [pnGroups EXCEPT ![c] = put]
  BY <1>0, <1>2 DEF InsertPersona
<1>5. PanelGoes(w, c, Idle) /\ UNCHANGED <<pnRows, pnNames, pnKnown>>
  BY <1>0 DEF InsertPersona
<1>6. JobOK(Idle) /\ Idle.at = "idle"
  BY DEF JobOK, Idle
<1> QED BY <1>1, <1>3, <1>4, <1>5, <1>6, RowWritten

LEMMA WriteGroupKeeps ==
  ASSUME PanelInv, NEW w \in PanelWriters, WriteGroup(w)
  PROVE  PanelInv'
<1> DEFINE job == pnJob[w]
<1>0. PICK c : c = job.chat
  OBVIOUS
<1> DEFINE row == pnGroups[c]
           put == IF job.found THEN (IF row.there THEN [row EXCEPT !.name = job.name] ELSE row)
                  ELSE [row EXCEPT !.there = TRUE, !.name = IF job.name = "" THEN @ ELSE job.name]
           next == IF job.name = "" THEN [at |-> job.next, chat |-> c] ELSE [job EXCEPT !.at = "cache"]
<1>1. job.at = "group" /\ c \in PanelChats /\ JobOK(job)
      /\ (c \notin pnTorn => JobsFit(c))
  BY <1>0, WriterAtWork DEF WriteGroup, At
<1>2. /\ job.next \in {"idle", "look"} /\ job.found \in BOOLEAN /\ job.name \in ChatNames
      /\ job.found => job.name # ""
      /\ job = [at |-> "group", chat |-> c, found |-> job.found, name |-> job.name, next |-> job.next]
  BY <1>0, <1>1 DEF JobOK
<1>3. row \in GroupRows /\ (row.name # "" => row.there)
  BY <1>1 DEF PanelInv, PanelTyping
<1>4. /\ pnGroups' = [pnGroups EXCEPT ![c] = put] /\ PanelGoes(w, c, next)
      /\ UNCHANGED <<pnRows, pnNames, pnKnown>>
  BY <1>0 DEF WriteGroup
<1>5. /\ put \in GroupRows /\ put.messages = row.messages /\ put.people = row.people
      /\ (row.there => put.there) /\ (put.name # "" => put.there)
      /\ (row.name # "" => put.name # "")
      /\ (job.name # "" /\ (job.found => row.there) => put.name # "")
  <2>1. CASE job.found /\ row.there
    BY <1>2, <1>3, <2>1 DEF GroupRows
  <2>2. CASE job.found /\ ~ row.there
    BY <1>2, <1>3, <2>2 DEF GroupRows
  <2>3. CASE ~ job.found
    BY <1>2, <1>3, <2>3 DEF GroupRows
  <2> QED BY <2>1, <2>2, <2>3
<1>6. JobOK(next) /\ (next.at # "idle" => next.chat = c) /\ next.at # "group"
      /\ (next.at = "cache" => job.name # "")
  <2>1. CASE job.name = ""
    <3>1. next = [at |-> job.next, chat |-> c]
      BY <2>1
    <3> HIDE DEF next
    <3> QED BY <1>1, <1>2, <3>1 DEF JobOK
  <2>2. CASE job.name # ""
    <3>1. next = [job EXCEPT !.at = "cache"]
      BY <2>2
    <3>2. [job EXCEPT !.at = "cache"] = [at |-> "cache", chat |-> c, found |-> job.found, name |-> job.name, next |-> job.next]
      <4>1. PICK found, name, nxt : found = job.found /\ name = job.name /\ nxt = job.next
        OBVIOUS
      <4>2. job = [at |-> "group", chat |-> c, found |-> found, name |-> name, next |-> nxt]
        BY <1>2, <4>1
      <4> HIDE DEF job
      <4>3. [job EXCEPT !.at = "cache"] = [at |-> "cache", chat |-> c, found |-> found, name |-> name, next |-> nxt]
        BY <4>2
      <4> QED BY <4>1, <4>3
    <3> HIDE DEF next
    <3> QED BY <1>1, <1>2, <2>2, <3>1, <3>2 DEF JobOK, ChatNames
  <2> QED BY <2>1, <2>2
<1>7. JobsFit(c) => (job.found => row.there)
  BY <1>0, <1>1 DEF JobsFit
<1> HIDE DEF next, put
<1> QED BY <1>1, <1>3, <1>4, <1>5, <1>6, <1>7, RowWritten

LEMMA CacheNameKeeps ==
  ASSUME PanelInv, NEW w \in PanelWriters, CacheName(w)
  PROVE  PanelInv'
<1> DEFINE job == pnJob[w]
<1>0. PICK c, next : c = job.chat /\ next = [at |-> job.next, chat |-> c]
  OBVIOUS
<1>1. /\ c \in PanelChats /\ job.at = "cache" /\ job.name \in {"A", "B"} /\ job.next \in {"idle", "look"}
      /\ (c \notin pnTorn => JobsFit(c))
  BY <1>0, WriterAtWork DEF CacheName, At, JobOK
<1>2. /\ pnNames' = [pnNames EXCEPT ![c] = job.name] /\ PanelGoes(w, c, next)
      /\ pnRows' = pnRows /\ pnGroups' = pnGroups /\ pnKnown' = pnKnown
  BY <1>0 DEF CacheName
<1>3. /\ pnRows \subseteq Rows /\ pnGroups \in [PanelChats -> GroupRows]
      /\ pnNames \in [PanelChats -> ChatNames] /\ pnKnown \subseteq PanelChats
      /\ pnGroups[c].name # "" => pnGroups[c].there
  BY <1>1 DEF PanelInv, PanelTyping
<1>4. /\ pnNames' \in [PanelChats -> ChatNames]
      /\ \A d \in PanelChats \ {c} : pnNames'[d] = pnNames[d]
  BY <1>1, <1>2, <1>3 DEF ChatNames
<1>5. pnReset' = pnReset
  BY <1>2 DEF PanelGoes, resets
<1>6. JobsFit(c) => pnGroups[c].name # ""
  BY <1>0, <1>1 DEF JobsFit
<1>7. RowsFit(c) /\ JobsFit(c) /\ ~ Resetting(c) => RowsFit(c)'
  BY <1>2, <1>5, <1>6 DEF RowsFit, Resetting, MessagesOf, PeopleOf, RowsOf
<1>8. JobOK(next) /\ (next.at # "idle" => next.chat = c) /\ next.at \notin {"group", "cache"}
  BY <1>0, <1>1 DEF JobOK
<1> QED BY <1>1, <1>2, <1>3, <1>4, <1>7, <1>8, WriterKeeps

-----------------------------------------------------------------------------
(* an account is emptied *)

LEMMA BeginResetKeeps ==
  ASSUME PanelInv, NEW a \in Accounts, BeginReset(a)
  PROVE  PanelInv'
<1> USE DEF PanelInv
<1>1. /\ pnReset.at = "idle" /\ pnResets' = pnResets + 1
      /\ pnReset' = [at |-> "messages", account |-> a,
                     names |-> {c \in PanelChats : Owner[c] = a /\ pnGroups[c].there}]
      /\ pnTorn' = {c \in PanelChats : PanelWriting(c) \/ (c \in pnTorn /\ ~ (Owner[c] = a /\ pnGroups[c].there))}
      /\ pnAnswer' = Idle
      /\ pnRows' = pnRows /\ pnGroups' = pnGroups /\ pnNames' = pnNames
      /\ pnKnown' = pnKnown /\ pnJob' = pnJob
  BY DEF BeginReset, archive
<1>2. PanelTyping'
  <2>1. (\A w \in PanelWriters : JobOK(pnJob[w]))'
    BY <1>1 DEF PanelTyping, JobOK
  <2>2. ResetTyped'
    BY <1>1 DEF ResetTyped
  <2>3. pnTorn' \subseteq PanelChats
    BY <1>1
  <2> QED BY <1>1, <2>1, <2>2, <2>3 DEF PanelTyping
<1>3. AnswerFits'
  BY <1>1 DEF AnswerFits, Idle
<1>4. ASSUME NEW c \in PanelChats \ pnTorn' PROVE JobsFit(c)' /\ RowsFit(c)'
  <2>1. ~ PanelWriting(c) /\ (c \notin pnTorn \/ (Owner[c] = a /\ pnGroups[c].there))
    BY <1>1, <1>4
  <2>2. JobsFit(c)'
    BY <1>1, <2>1 DEF JobsFit, PanelWriting
  <2>3. c \notin pnTorn => RowsFit(c) /\ ~ Resetting(c)
    BY <1>1 DEF ArchiveFits, Resetting
  <2>4. CASE Owner[c] = a
    <3>1. pnNames[c] # "" => pnGroups[c].there
      BY <2>1, <2>3 DEF RowsFit, PanelTyping
    <3> QED BY <1>1, <2>2, <2>4, <3>1 DEF RowsFit, Resetting
  <2>5. CASE Owner[c] # a
    <3>1. ~ Resetting(c)' /\ c \notin pnTorn
      BY <1>1, <2>1, <2>5 DEF Resetting
    <3> QED BY <1>1, <2>2, <2>3, <3>1 DEF RowsFit, MessagesOf, PeopleOf, RowsOf
  <2> QED BY <2>4, <2>5
<1> QED BY <1>2, <1>3, <1>4 DEF ArchiveFits

(* one table is emptied after the other: chats of other accounts are as they were *)
LEMMA ResetKeeps ==
  ASSUME PanelInv, NEW stage \in {"members", "groups", "cache", "idle"}, ResetGoes(stage),
         pnReset.at \in {"messages", "members", "groups", "cache"},
         pnRows' \subseteq pnRows,
         pnGroups' \in [PanelChats -> GroupRows], pnNames' \in [PanelChats -> ChatNames],
         \A c \in PanelChats : pnGroups'[c].name # "" => pnGroups'[c].there,
         \A r \in pnRows \ pnRows' : Home[r] \in Mine,
         \A c \in PanelChats \ Mine : pnGroups'[c] = pnGroups[c],
         \A c \in PanelChats \ Mine : pnNames'[c] # "" => pnNames[c] # "",
         \A c \in Mine \ pnTorn : RowsFit(c) => RowsFit(c)'
  PROVE  PanelInv'
<1> USE DEF PanelInv
<1>1. /\ pnReset' = (IF stage = "idle" THEN Idle ELSE [pnReset EXCEPT !.at = stage])
      /\ pnKnown' = pnKnown /\ pnJob' = pnJob /\ pnResets' = pnResets /\ pnTorn' = pnTorn /\ pnAnswer' = pnAnswer
  BY DEF ResetGoes
<1>2. pnReset = [at |-> pnReset.at, account |-> pnReset.account, names |-> pnReset.names]
  BY DEF PanelTyping, ResetTyped
<1>3. /\ pnReset'.at = stage
      /\ stage # "idle" =>
           /\ pnReset'.account = pnReset.account
           /\ pnReset' = [at |-> pnReset'.at, account |-> pnReset'.account, names |-> pnReset'.names]
  <2>1. CASE stage = "idle"
    BY <1>1, <2>1 DEF Idle
  <2>2. CASE stage # "idle"
    <3>1. pnReset' = [at |-> stage, account |-> pnReset.account, names |-> pnReset.names]
      BY <1>1, <1>2, <2>2
    <3> QED BY <3>1
  <2> QED BY <2>1, <2>2
<1>4. PanelTyping'
  <2>1. (\A w \in PanelWriters : JobOK(pnJob[w]))'
    BY <1>1 DEF PanelTyping, JobOK
  <2>2. ResetTyped'
    BY <1>3 DEF ResetTyped
  <2> QED BY <1>1, <2>1, <2>2 DEF PanelTyping
<1>5. AnswerFits'
  BY <1>1, <1>3 DEF AnswerFits
<1>6. ASSUME NEW c \in PanelChats \ pnTorn' PROVE JobsFit(c)' /\ RowsFit(c)'
  <2>1. c \notin pnTorn /\ JobsFit(c) /\ RowsFit(c)
    BY <1>1 DEF ArchiveFits
  <2>2. CASE c \in Mine
    <3>1. Resetting(c)
      BY <2>2 DEF Resetting, Mine
    <3>2. \A w \in PanelWriters : ~ (pnJob[w].at # "idle" /\ pnJob[w].chat = c)
      BY <2>1, <3>1 DEF JobsFit
    <3> QED BY <1>1, <2>1, <2>2, <3>2 DEF JobsFit
  <2>3. CASE c \notin Mine
    <3>1. ~ Resetting(c) /\ ~ Resetting(c)'
      <4>1. Owner[c] # pnReset.account
        BY <2>3 DEF Mine
      <4>2. pnReset'.at # "idle" => pnReset'.account = pnReset.account
        BY <1>3
      <4> QED BY <4>1, <4>2 DEF Resetting
    <3>2. pnGroups'[c] = pnGroups[c] /\ (pnNames'[c] # "" => pnNames[c] # "")
      BY <2>3
    <3>3. MessagesOf(c)' = MessagesOf(c) /\ PeopleOf(c)' = PeopleOf(c)
      BY <2>3 DEF MessagesOf, PeopleOf, RowsOf
    <3> QED BY <1>1, <2>1, <3>1, <3>2, <3>3 DEF JobsFit, RowsFit
  <2> QED BY <2>2, <2>3
<1> QED BY <1>4, <1>5, <1>6 DEF ArchiveFits

(* the stage a reset goes to *)
LEMMA ResetMoves ==
  ASSUME PanelInv, NEW stage \in {"members", "groups", "cache", "idle"}, ResetGoes(stage),
         pnReset.at \in {"messages", "members", "groups", "cache"}
  PROVE  /\ pnReset'.at = stage
         /\ stage # "idle" => pnReset'.account = pnReset.account /\ pnReset'.names = pnReset.names
<1>1. pnReset = [at |-> pnReset.at, account |-> pnReset.account, names |-> pnReset.names]
  BY DEF PanelInv, PanelTyping, ResetTyped
<1>2. pnReset' = (IF stage = "idle" THEN Idle ELSE [pnReset EXCEPT !.at = stage])
  BY DEF ResetGoes
<1>3. CASE stage = "idle"
  BY <1>2, <1>3 DEF Idle
<1>4. CASE stage # "idle"
  <2>1. pnReset' = [at |-> stage, account |-> pnReset.account, names |-> pnReset.names]
    BY <1>1, <1>2, <1>4
  <2> QED BY <2>1
<1> QED BY <1>3, <1>4

LEMMA ResetStepKeeps ==
  ASSUME PanelInv, ResetStep
  PROVE  PanelInv'
<1>1. /\ pnRows \subseteq Rows /\ pnGroups \in [PanelChats -> GroupRows]
      /\ pnNames \in [PanelChats -> ChatNames]
      /\ \A c \in PanelChats : pnGroups[c].name # "" => pnGroups[c].there
  BY DEF PanelInv, PanelTyping
<1>2. Mine \subseteq PanelChats /\ \A c \in Mine : Resetting(c) <=> pnReset.at # "idle"
  BY DEF Mine, Resetting
<1>3. CASE /\ pnReset.at = "messages"
           /\ pnRows' = {r \in pnRows : ~ (r \in PanelMessages /\ Home[r] \in Mine)}
           /\ UNCHANGED <<pnGroups, pnNames>> /\ ResetGoes("members")
  <2>1. pnReset'.at = "members" /\ pnReset'.account = pnReset.account /\ pnReset'.names = pnReset.names
    BY <1>3, ResetMoves
  <2>2. ASSUME NEW c \in Mine \ pnTorn, RowsFit(c) PROVE RowsFit(c)'
    <3>1. MessagesOf(c)' = {}
      BY <1>3 DEF MessagesOf, RowsOf
    <3>2. Resetting(c) /\ Resetting(c)'
      BY <1>3, <2>1 DEF Mine, Resetting
    <3> QED BY <1>3, <2>1, <2>2, <3>1, <3>2 DEF RowsFit
  <2> QED BY <1>1, <1>3, <2>2, ResetKeeps
<1>4. CASE /\ pnReset.at = "members"
           /\ pnRows' = {r \in pnRows : ~ (r \in PanelPeople /\ Home[r] \in Mine)}
           /\ UNCHANGED <<pnGroups, pnNames>> /\ ResetGoes("groups")
  <2>1. pnReset'.at = "groups" /\ pnReset'.account = pnReset.account /\ pnReset'.names = pnReset.names
    BY <1>4, ResetMoves
  <2>2. ASSUME NEW c \in Mine \ pnTorn, RowsFit(c) PROVE RowsFit(c)'
    <3>1. PeopleOf(c)' = {} /\ MessagesOf(c)' \subseteq MessagesOf(c)
      BY <1>4 DEF PeopleOf, MessagesOf, RowsOf
    <3>2. Resetting(c) /\ Resetting(c)'
      BY <1>4, <2>1 DEF Mine, Resetting
    <3>3. MessagesOf(c) = {}
      BY <1>4, <2>2, <3>2 DEF RowsFit
    <3> QED BY <1>4, <2>1, <2>2, <3>1, <3>2, <3>3 DEF RowsFit
  <2> QED BY <1>1, <1>4, <2>2, ResetKeeps
<1>5. CASE /\ pnReset.at = "groups"
           /\ pnGroups' = [c \in PanelChats |-> IF c \in Mine THEN NoRow ELSE pnGroups[c]]
           /\ UNCHANGED <<pnRows, pnNames>> /\ ResetGoes("cache")
  <2>1. pnReset'.at = "cache" /\ pnReset'.account = pnReset.account /\ pnReset'.names = pnReset.names
    BY <1>5, ResetMoves
  <2>2. NoRow \in GroupRows /\ NoRow.name = ""
    BY DEF NoRow, GroupRows, ChatNames
  <2>3. /\ pnGroups' \in [PanelChats -> GroupRows]
        /\ \A c \in PanelChats : pnGroups'[c].name # "" => pnGroups'[c].there
    BY <1>1, <1>5, <2>2
  <2>4. ASSUME NEW c \in Mine \ pnTorn, RowsFit(c) PROVE RowsFit(c)'
    <3>1. pnGroups'[c] = NoRow
      BY <1>2, <1>5
    <3>2. Resetting(c) /\ Resetting(c)'
      BY <1>5, <2>1 DEF Mine, Resetting
    <3>3. MessagesOf(c)' = MessagesOf(c) /\ PeopleOf(c)' = PeopleOf(c)
      BY <1>5 DEF PeopleOf, MessagesOf, RowsOf
    <3>4. MessagesOf(c) = {} /\ PeopleOf(c) = {}
      BY <1>5, <2>4, <3>2 DEF RowsFit
    <3> QED BY <1>5, <2>1, <2>4, <3>1, <3>2, <3>3, <3>4 DEF RowsFit
  <2>5. \A c \in PanelChats \ Mine : pnGroups'[c] = pnGroups[c]
    BY <1>5
  <2> QED BY <1>1, <1>5, <2>3, <2>4, <2>5, ResetKeeps
<1>6. CASE /\ pnReset.at = "cache"
           /\ pnNames' = [c \in PanelChats |-> IF c \in pnReset.names THEN "" ELSE pnNames[c]]
           /\ UNCHANGED <<pnRows, pnGroups>> /\ ResetGoes("idle")
  <2>1. pnReset'.at = "idle"
    BY <1>6, ResetMoves
  <2>2. pnNames' \in [PanelChats -> ChatNames]
    BY <1>1, <1>6 DEF ChatNames
  <2>3. ASSUME NEW c \in Mine \ pnTorn, RowsFit(c) PROVE RowsFit(c)'
    <3>1. Resetting(c) /\ ~ Resetting(c)'
      BY <1>6, <2>1 DEF Mine, Resetting
    <3>2. MessagesOf(c) = {} /\ PeopleOf(c) = {} /\ pnGroups[c] = NoRow
          /\ (pnNames[c] # "" => c \in pnReset.names)
      BY <1>6, <2>3, <3>1 DEF RowsFit
    <3>3. MessagesOf(c)' = {} /\ PeopleOf(c)' = {}
      BY <1>6, <3>2 DEF PeopleOf, MessagesOf, RowsOf
    <3>4. pnNames'[c] = ""
      BY <1>2, <1>6, <3>2
    <3>5. pnGroups'[c].messages = 0 /\ pnGroups'[c].people = 0
      <4>1. pnGroups'[c] = NoRow
        BY <1>6, <3>2
      <4>2. NoRow.messages = 0 /\ NoRow.people = 0
        BY DEF NoRow
      <4> QED BY <4>1, <4>2
    <3> QED BY <3>1, <3>3, <3>4, <3>5, FS_EmptySet DEF RowsFit
  <2>4. \A c \in PanelChats \ Mine : pnNames'[c] # "" => pnNames[c] # ""
    BY <1>6
  <2> QED BY <1>1, <1>6, <2>2, <2>3, <2>4, ResetKeeps
<1> QED BY <1>3, <1>4, <1>5, <1>6 DEF ResetStep

-----------------------------------------------------------------------------
(* the panel answers: the archive is only read *)

LEMMA AnswerKeeps ==
  ASSUME PanelInv, NEW answer, PanelAnswers(answer), AnswerFits'
  PROVE  PanelInv'
<1>1. /\ pnRows' = pnRows /\ pnGroups' = pnGroups /\ pnNames' = pnNames /\ pnKnown' = pnKnown
      /\ pnJob' = pnJob /\ pnReset' = pnReset /\ pnTorn' = pnTorn
  BY DEF PanelAnswers, archive, resets
<1>2. (\A w \in PanelWriters : JobOK(pnJob[w]))'
  BY <1>1 DEF PanelInv, PanelTyping, JobOK
<1>3. PanelTyping'
  BY <1>1, <1>2 DEF PanelInv, PanelTyping, ResetTyped
<1>4. ArchiveFits'
  BY <1>1 DEF PanelInv, ArchiveFits, JobsFit, RowsFit, Resetting, MessagesOf, PeopleOf, RowsOf
<1> QED BY <1>3, <1>4 DEF PanelInv

LEMMA OverviewsCounted ==
  /\ IsFiniteSet(Overviews) /\ Cardinality(Overviews) \in Nat /\ DOMAIN Details = Overviews
  /\ \A S : S \subseteq Overviews => Cardinality(S) <= Cardinality(Overviews)
<1>1. Overviews \subseteq PanelChats
  BY DEF Overviews
<1> QED BY <1>1, PanelSets, FS_Subset, FS_CardinalityType DEF Details

LEMMA AnswersKeep ==
  ASSUME PanelInv,
         AskWorkspaces \/ AskSessions \/ ReadStatus \/ ReadMessages \/ \E c \in PanelChats : AskMessages(c)
  PROVE  PanelInv'
<1>1. CASE AskWorkspaces
  <2> DEFINE answer == [at |-> "done", list |-> Details, total |-> Cardinality(DOMAIN Details)]
  <2>1. PanelAnswers(answer) /\ pnAnswer' = answer /\ pnReset' = pnReset /\ pnReset.at = "idle"
    BY <1>1 DEF AskWorkspaces, PanelAnswers, Calm, resets
  <2>2. /\ pnAnswer'.at = "done" /\ pnAnswer'.list = Details
        /\ pnAnswer'.total = Cardinality(Overviews)
    BY <2>1, OverviewsCounted
  <2> HIDE DEF answer
  <2>3. Cardinality(DOMAIN pnAnswer'.list) <= pnAnswer'.total
    BY <2>2, OverviewsCounted
  <2>4. AnswerFits'
    BY <2>1, <2>2, <2>3 DEF AnswerFits
  <2> QED BY <2>1, <2>4, AnswerKeeps
<1>2. CASE AskSessions
  <2> DEFINE answer == [at |-> "status", list |-> Details, total |-> 0]
  <2>1. PanelAnswers(answer) /\ pnAnswer' = answer /\ pnReset' = pnReset /\ pnReset.at = "idle"
        /\ pnGroups' = pnGroups
    BY <1>2 DEF AskSessions, PanelAnswers, Calm, resets, archive
  <2>2. DOMAIN pnAnswer'.list \subseteq Overviews'
    BY <2>1, OverviewsCounted DEF Overviews
  <2>3. AnswerFits'
    BY <2>1, <2>2 DEF AnswerFits
  <2> HIDE DEF answer
  <2> QED BY <2>1, <2>3, AnswerKeeps
<1>3. CASE ReadStatus
  <2> DEFINE answer == [pnAnswer EXCEPT !.at = "done", !.total = Cardinality(DOMAIN Details)]
  <2>1. PanelAnswers(answer) /\ pnAnswer' = answer /\ pnReset' = pnReset /\ pnAnswer.at = "status"
    BY <1>3 DEF ReadStatus, PanelAnswers, resets
  <2>2. /\ pnReset.at = "idle" /\ DOMAIN pnAnswer.list \subseteq Overviews
        /\ pnAnswer = [at |-> "status", list |-> pnAnswer.list, total |-> pnAnswer.total]
    BY <2>1 DEF PanelInv, AnswerFits
  <2>3. answer.at = "done" /\ answer.list = pnAnswer.list /\ answer.total = Cardinality(Overviews)
    BY <2>2, OverviewsCounted
  <2> HIDE DEF answer
  <2>4. Cardinality(DOMAIN pnAnswer'.list) <= pnAnswer'.total
    BY <2>1, <2>2, <2>3, OverviewsCounted
  <2>5. AnswerFits'
    BY <2>1, <2>2, <2>3, <2>4 DEF AnswerFits
  <2> QED BY <2>1, <2>5, AnswerKeeps
<1>4. CASE ReadMessages
  <2> DEFINE c == pnAnswer.chat
             mine == MessagesOf(c)
             limit == IF Cardinality(mine) < PageLimit THEN Cardinality(mine) ELSE PageLimit
  <2>1. PICK page \in SUBSET mine :
          Cardinality(page) = limit /\ PanelAnswers([pnAnswer EXCEPT !.at = "page", !.shown = page])
    BY <1>4 DEF ReadMessages, MessagesOf
  <2> DEFINE answer == [pnAnswer EXCEPT !.at = "page", !.shown = page]
  <2>2. PanelAnswers(answer) /\ pnAnswer' = answer /\ pnReset' = pnReset /\ pnAnswer.at = "rows"
    BY <1>4, <2>1 DEF ReadMessages, PanelAnswers, resets
  <2>3. /\ pnReset.at = "idle" /\ c \in PanelChats /\ pnAnswer.total \in Nat
        /\ pnAnswer.total <= Cardinality(mine)
        /\ pnAnswer = [at |-> "rows", chat |-> pnAnswer.chat, total |-> pnAnswer.total, shown |-> pnAnswer.shown]
    BY <2>2 DEF PanelInv, AnswerFits
  <2>4. answer.at = "page" /\ answer.shown = page /\ answer.total = pnAnswer.total
    BY <2>3
  <2>5. Cardinality(mine) \in Nat /\ PageLimit \in Nat
    BY <2>3, RowsCounted, PanelAssumption DEF MessagesOf, PanelInv, PanelTyping
  <2> HIDE DEF answer, mine
  <2>6. Cardinality(answer.shown) >= (IF answer.total < PageLimit THEN answer.total ELSE PageLimit)
    BY <2>1, <2>3, <2>4, <2>5
  <2>7. AnswerFits'
    BY <2>2, <2>3, <2>4, <2>6 DEF AnswerFits
  <2> QED BY <2>2, <2>7, AnswerKeeps
<1>5. ASSUME NEW c \in PanelChats, AskMessages(c) PROVE PanelInv'
  <2> DEFINE n == Cardinality(MessagesOf(c))
             answer == [at |-> IF n = 0 THEN "page" ELSE "rows", chat |-> c, total |-> n, shown |-> {}]
  <2>1. PanelAnswers(answer) /\ pnAnswer' = answer /\ pnReset' = pnReset /\ pnReset.at = "idle"
        /\ pnRows' = pnRows
    BY <1>5 DEF AskMessages, PanelAnswers, Calm, resets, MessagesOf, archive
  <2>2. n \in Nat /\ PageLimit \in Nat \ {0} /\ n = Cardinality(MessagesOf(c)')
    BY <2>1, RowsCounted, PanelAssumption DEF MessagesOf, RowsOf, PanelInv, PanelTyping
  <2> HIDE DEF n
  <2>3. AnswerFits'
    <3>1. CASE n = 0
      <4>1. answer = [at |-> "page", chat |-> c, total |-> 0, shown |-> {}]
        BY <3>1
      <4> HIDE DEF answer
      <4>2. answer.at = "page" /\ answer.total = 0 /\ answer.shown = {}
        BY <4>1
      <4> QED BY <2>1, <2>2, <4>2, FS_EmptySet DEF AnswerFits
    <3>2. CASE n # 0
      <4>1. answer = [at |-> "rows", chat |-> c, total |-> n, shown |-> {}]
        BY <3>2
      <4> HIDE DEF answer
      <4>2. answer.at = "rows" /\ answer.total = n /\ answer.chat = c
            /\ answer = [at |-> "rows", chat |-> answer.chat, total |-> answer.total, shown |-> answer.shown]
        BY <4>1
      <4>3. n <= n
        BY <2>2
      <4> QED BY <2>1, <2>2, <4>2, <4>3 DEF AnswerFits
    <3> QED BY <3>1, <3>2
  <2> HIDE DEF answer
  <2> QED BY <2>1, <2>3, AnswerKeeps
<1> QED BY <1>1, <1>2, <1>3, <1>4, <1>5

-----------------------------------------------------------------------------

LEMMA PanelInitially == PanelInit => PanelInv
<1> SUFFICES ASSUME PanelInit PROVE PanelInv
  OBVIOUS
<1>1. PanelTyping
  BY DEF PanelInit, PanelTyping, ResetTyped, JobOK, Idle, NoRow, GroupRows, ChatNames
<1>2. \A c \in PanelChats : MessagesOf(c) = {} /\ PeopleOf(c) = {} /\ ~ Resetting(c)
  BY DEF PanelInit, MessagesOf, PeopleOf, RowsOf, Resetting, Idle
<1>3. ArchiveFits
  BY <1>2, FS_EmptySet DEF PanelInit, ArchiveFits, JobsFit, RowsFit, Idle, NoRow
<1>4. AnswerFits
  BY DEF PanelInit, AnswerFits, Idle
<1> QED BY <1>1, <1>3, <1>4 DEF PanelInv

LEMMA PanelStep == PanelInv /\ [PanelNext]_pnVars => PanelInv'
<1> SUFFICES ASSUME PanelInv, [PanelNext]_pnVars PROVE PanelInv'
  OBVIOUS
<1>1. CASE UNCHANGED pnVars
  <2>1. PanelAnswers(pnAnswer)
    BY <1>1 DEF pnVars, PanelAnswers
  <2>2. AnswerFits'
    BY <1>1 DEF pnVars, archive, resets, PanelInv, AnswerFits, Overviews, MessagesOf, RowsOf
  <2>3. PICK answer : answer = pnAnswer
    OBVIOUS
  <2> QED BY <2>1, <2>2, <2>3, AnswerKeeps
<1> QED
  BY <1>1, ReadingKeeps, InsertKeeps, InsertPersonaKeeps, WriteGroupKeeps, CacheNameKeeps,
     BeginResetKeeps, ResetStepKeeps, AnswersKeep DEF PanelNext, Write

LEMMA PanelInvariant == PanelSpec => []PanelInv
BY PanelInitially, PanelStep, PTL DEF PanelSpec

(* The archive's variables stay in their sets. *)
THEOREM PanelTypeCorrect == PanelSpec => []PanelTypeOK
<1>1. PanelInv => PanelTypeOK
  BY DEF PanelInv, PanelTyping, PanelTypeOK, GroupRows, ChatNames
<1> QED BY <1>1, PanelInvariant, PTL

(* However many chats, rows, writers and resets: the numbers in a chat's row are the rows there
   are and a name in the cache is a chat with a name (state/schema.go's triggers, SaveGroupInfo,
   ResetData), but for a chat written while its account was emptied; and no answer of the panel
   contradicts itself. *)
THEOREM PanelAlwaysExact == PanelSpec => []PanelExact
<1>1. PanelInv => PanelExact
  BY DEF PanelInv, ArchiveFits, AnswerFits, RowsFit, Resetting, MessagesOf, PeopleOf, PanelExact
<1> QED BY <1>1, PanelInvariant, PTL

-----------------------------------------------------------------------------
(* LlmGuard: only failures of the service fail a call or open the breaker *)

LlmCallSet ==
  [at: {"idle", "mode", "kwargs", "sent", "after"}, json: BOOLEAN, age: Nat, mode: 0..2,
   kwargs: BOOLEAN, out: {"none", "answer", "error", "cancelled", "limited", "refused"}]

LlmShape ==
  /\ lgTokens \in 0..Burst /\ lgState \in {"closed", "open", "half"} /\ lgAge \in Nat
  /\ lgFails \in 0..Trip - 1 /\ lgMode \in 0..2
  /\ lgCall \in [LlmCallers -> LlmCallSet] /\ lgFaults \in Nat

LlmFlag == lgPlain \in BOOLEAN

(* what a caller that was mistaken has sent since: nothing with the kwargs *)
Settled(c) == lgPlain = TRUE /\ (lgCall[c].at = "sent" => lgCall[c].kwargs = FALSE)

(* an ended call has its result; whoever was mistaken is not mistaken again *)
LlmLoaded ==
  /\ \A c \in LlmCallers : lgCall[c].at = "after" => lgCall[c].out \in {"answer", "error", "cancelled"}
  /\ lgMistaken \subseteq LlmCallers /\ (TakesKwargs => lgMistaken = {})
  /\ \A c \in lgMistaken : Settled(c)

Failed(call) == call.at = "after" /\ call.out = "error"

(* calls that have failed and that the breaker has not counted yet *)
Uncounted == {c \in LlmCallers : Failed(lgCall[c])}

(* faults and mistakes together *)
Blames == lgFaults + Cardinality(lgMistaken)

LlmCounted ==
  /\ lgFails + Cardinality(Uncounted) <= Blames
  /\ lgState # "closed" => Blames >= Trip
  /\ Blames = 0 => \A c \in LlmCallers : lgCall[c].out \notin {"error", "refused"}

LlmInv == LlmShape /\ LlmFlag /\ LlmLoaded /\ LlmCounted

-----------------------------------------------------------------------------
LEMMA TokenTaken ==
  ASSUME NEW t \in 0..Burst
  PROVE  Max({t - 1, 0}) \in 0..Burst
<1>1. Burst \in Nat \ {0} BY LlmAssumption
<1>2. \E x \in {t - 1, 0} : \A y \in {t - 1, 0} : x >= y
  <2>1. CASE t = 0 BY <2>1
  <2>2. CASE t > 0 BY <2>2
  <2> QED BY <2>1, <2>2
<1>3. Max({t - 1, 0}) \in {t - 1, 0} /\ \A y \in {t - 1, 0} : Max({t - 1, 0}) >= y
  BY <1>2 DEF Max
<1> QED BY <1>1, <1>3

LEMMA NewCall ==
  ASSUME NEW json \in BOOLEAN, NEW age \in Nat
  PROVE  LET call == [NoCall EXCEPT !.json = json, !.age = age] IN
         /\ call \in LlmCallSet /\ call.kwargs = FALSE
         /\ [call EXCEPT !.out = "limited"] \in LlmCallSet
         /\ [call EXCEPT !.out = "refused"] \in LlmCallSet
         /\ [call EXCEPT !.at = IF json THEN "mode" ELSE "sent"] \in LlmCallSet
<1>1. NoCall \in LlmCallSet /\ NoCall.kwargs = FALSE BY DEF NoCall, LlmCallSet
<1> DEFINE call == [NoCall EXCEPT !.json = json, !.age = age]
<1>2. call \in LlmCallSet /\ call.kwargs = FALSE
  BY <1>1 DEF LlmCallSet
<1> HIDE DEF call
<1>3. [call EXCEPT !.out = "limited"] \in LlmCallSet BY <1>2 DEF LlmCallSet
<1>4. [call EXCEPT !.out = "refused"] \in LlmCallSet BY <1>2 DEF LlmCallSet
<1>5. [call EXCEPT !.at = IF json THEN "mode" ELSE "sent"] \in LlmCallSet
  <2>1. CASE json BY <1>2, <2>1 DEF LlmCallSet
  <2>2. CASE ~ json BY <1>2, <2>2 DEF LlmCallSet
  <2> QED BY <2>1, <2>2
<1> QED BY <1>2, <1>3, <1>4, <1>5 DEF call

(* a step that replaces the call of one caller *)
LEMMA OneProceeds ==
  ASSUME NEW c \in LlmCallers, NEW call \in LlmCallSet,
         lgCall \in [LlmCallers -> LlmCallSet], Proceed(c, call)
  PROVE  /\ lgCall' \in [LlmCallers -> LlmCallSet]
         /\ lgCall'[c] = call
         /\ \A d \in LlmCallers : d # c => lgCall'[d] = lgCall[d]
BY DEF Proceed

(* the failures that wait to be counted, after such a step *)
LEMMA UncountedAfter ==
  ASSUME NEW c \in LlmCallers, NEW call \in LlmCallSet,
         lgCall \in [LlmCallers -> LlmCallSet], Proceed(c, call)
  PROVE  /\ Cardinality(Uncounted) \in Nat /\ Cardinality(Uncounted') \in Nat
         /\ (Failed(call) <=> Failed(lgCall[c])) => Cardinality(Uncounted') = Cardinality(Uncounted)
         /\ ~ Failed(call) => Cardinality(Uncounted') <= Cardinality(Uncounted)
         /\ Cardinality(Uncounted') <= Cardinality(Uncounted) + 1
         /\ ~ Failed(call) /\ Failed(lgCall[c]) => Cardinality(Uncounted') = Cardinality(Uncounted) - 1
<1>0. /\ lgCall'[c] = call
      /\ \A d \in LlmCallers : d # c => lgCall'[d] = lgCall[d]
  BY OneProceeds
<1>1. IsFiniteSet(Uncounted)
  BY LlmAssumption, FS_Subset DEF Uncounted
<1>2. Uncounted' = IF Failed(call) THEN Uncounted \cup {c} ELSE Uncounted \ {c}
  BY <1>0 DEF Uncounted, Failed
<1>3. c \in Uncounted <=> Failed(lgCall[c]) BY DEF Uncounted
<1>4. Cardinality(Uncounted) \in Nat BY <1>1, FS_CardinalityType
<1>5. IsFiniteSet(Uncounted \cup {c}) /\ Cardinality(Uncounted \cup {c}) =
        IF c \in Uncounted THEN Cardinality(Uncounted) ELSE Cardinality(Uncounted) + 1
  BY <1>1, FS_AddElement
<1>6. IsFiniteSet(Uncounted \ {c}) /\ Cardinality(Uncounted \ {c}) =
        IF c \in Uncounted THEN Cardinality(Uncounted) - 1 ELSE Cardinality(Uncounted)
  BY <1>1, FS_RemoveElement
<1>7. Cardinality(Uncounted \ {c}) \in Nat BY <1>6, FS_CardinalityType
<1>8. CASE Failed(call) BY <1>8, <1>2, <1>3, <1>4, <1>5
<1>9. CASE ~ Failed(call) BY <1>9, <1>2, <1>3, <1>4, <1>6, <1>7
<1> QED BY <1>8, <1>9

-----------------------------------------------------------------------------
LEMMA StartsGood == LlmInit => LlmInv
<1> SUFFICES ASSUME LlmInit PROVE LlmInv OBVIOUS
<1> USE DEF LlmInit, NoCall
<1>1. Burst \in Nat \ {0} /\ Trip \in Nat \ {0} BY LlmAssumption
<1>2. LlmShape
  <2>1. NoCall \in LlmCallSet BY DEF LlmCallSet
  <2>2. lgCall \in [LlmCallers -> LlmCallSet] BY <2>1
  <2> QED BY <1>1, <2>2 DEF LlmShape
<1>3. LlmLoaded BY DEF LlmLoaded
<1>4. Uncounted = {} BY DEF Uncounted, Failed
<1>5. LlmCounted BY <1>4, FS_EmptySet DEF LlmCounted, Blames
<1> QED BY <1>2, <1>3, <1>5 DEF LlmInv, LlmFlag

LEMMA FlagKept ==
  ASSUME LlmFlag, [LlmNext]_lgVars
  PROVE  LlmFlag'
<1>1. lgPlain' \in {lgPlain, TRUE}
  BY DEF LlmNext, lgVars, learned, Refill, Cooldown, Guard, LoadMode, LoadKwargs, ServiceAnswers,
         ServiceFails, Cancelled, RejectsFormat, RejectsRequest, RejectsKwargs, AfterCall
<1> QED BY <1>1 DEF LlmFlag

(* what the end of a call does to the breaker *)
Quiet      == UNCHANGED <<lgState, lgAge>> /\ lgFails' \in {0, lgFails}
Closes     == lgState' = "closed" /\ lgAge' = lgAge + 1 /\ lgFails' = 0
Opens(c)   == /\ lgCall[c].out = "error" /\ (lgState = "half" \/ lgFails + 1 >= Trip)
              /\ lgState' = "open" /\ lgAge' = lgAge + 1 /\ lgFails' = 0
Counts(c)  == /\ lgCall[c].out = "error" /\ ~ (lgFails + 1 >= Trip)
              /\ UNCHANGED <<lgState, lgAge>> /\ lgFails' = lgFails + 1

LEMMA BreakerMoves ==
  ASSUME NEW c \in LlmCallers, AfterCall(c)
  PROVE  Quiet \/ Closes \/ Opens(c) \/ Counts(c)
<1> DEFINE call == lgCall[c]
           trip == lgState = "half" \/ lgFails + 1 >= Trip
<1>1. CASE UNCHANGED breaker BY <1>1 DEF breaker, Quiet
<1>2. CASE lgState' = "closed" /\ lgAge' = lgAge + 1 /\ lgFails' = 0 BY <1>2 DEF Closes
<1>3. CASE lgFails' = 0 /\ UNCHANGED <<lgState, lgAge, lgProbing>> BY <1>3 DEF Quiet
<1>4. CASE call.out = "error" /\ trip /\ lgState' = "open" /\ lgAge' = lgAge + 1 /\ lgFails' = 0
  BY <1>4 DEF Opens
<1>5. CASE call.out = "error" /\ ~ trip /\ lgFails' = lgFails + 1 /\ UNCHANGED <<lgState, lgAge, lgProbing>>
  BY <1>5 DEF Counts
<1>6. CASE UNCHANGED <<lgState, lgAge, lgFails>> BY <1>6 DEF Quiet
<1> QED BY ONLY AfterCall(c), <1>1, <1>2, <1>3, <1>4, <1>5, <1>6, Zenon DEF AfterCall

LEMMA LlmShapeKept ==
  ASSUME LlmInv, [LlmNext]_lgVars
  PROVE  LlmShape'
<1> USE DEF LlmInv
<1>0. Burst \in Nat \ {0} /\ Trip \in Nat \ {0} BY LlmAssumption
<1>1. CASE Refill BY <1>0, <1>1 DEF Refill, LlmShape, breaker, learned, blame
<1>2. CASE Cooldown BY <1>0, <1>2 DEF Cooldown, LlmShape, learned, blame
<1>3. ASSUME NEW c \in LlmCallers, NEW json \in BOOLEAN, Guard(c, json) PROVE LlmShape'
  <2> DEFINE call == [NoCall EXCEPT !.json = json, !.age = lgAge]
  <2>1. /\ call \in LlmCallSet /\ [call EXCEPT !.out = "limited"] \in LlmCallSet
        /\ [call EXCEPT !.out = "refused"] \in LlmCallSet
        /\ [call EXCEPT !.at = IF json THEN "mode" ELSE "sent"] \in LlmCallSet
    BY NewCall DEF LlmShape
  <2> HIDE DEF call
  <2>2. lgCall' \in [LlmCallers -> LlmCallSet]
    BY <1>3, <2>1, OneProceeds DEF Guard, LlmShape, call
  <2>3. lgTokens' \in 0..Burst BY <1>3, TokenTaken DEF Guard, LlmShape
  <2> QED BY <1>3, <2>2, <2>3 DEF Guard, LlmShape, learned, blame
<1>4. ASSUME NEW c \in LlmCallers, LoadMode(c) PROVE LlmShape'
  <2>1. [lgCall[c] EXCEPT !.at = "kwargs", !.mode = lgMode] \in LlmCallSet
    BY DEF LlmShape, LlmCallSet
  <2> QED BY <1>4, <2>1, OneProceeds DEF LoadMode, LlmShape, breaker, learned, blame
<1>5. ASSUME NEW c \in LlmCallers, LoadKwargs(c) PROVE LlmShape'
  <2>1. [lgCall[c] EXCEPT !.at = "sent", !.kwargs = ~ lgPlain] \in LlmCallSet
    BY DEF LlmShape, LlmFlag, LlmCallSet
  <2> QED BY <1>5, <2>1, OneProceeds DEF LoadKwargs, LlmShape, breaker, learned, blame
(* what becomes of a call that is answered, fails, tries again or is over *)
<1>6. ASSUME NEW c \in LlmCallers
      PROVE  /\ [lgCall[c] EXCEPT !.at = "after", !.out = "answer"] \in LlmCallSet
             /\ [lgCall[c] EXCEPT !.at = "after", !.out = "error"] \in LlmCallSet
             /\ [lgCall[c] EXCEPT !.at = "after", !.out = "cancelled"] \in LlmCallSet
             /\ [lgCall[c] EXCEPT !.at = "mode"] \in LlmCallSet
             /\ [lgCall[c] EXCEPT !.at = "idle"] \in LlmCallSet
  BY DEF LlmShape, LlmCallSet
<1>7. ASSUME NEW c \in LlmCallers, ServiceAnswers(c) PROVE LlmShape'
  BY <1>6, <1>7, OneProceeds DEF ServiceAnswers, Ended, LlmShape, breaker, learned, blame
<1>8. ASSUME NEW c \in LlmCallers, ServiceFails(c) PROVE LlmShape'
  <2>1. lgCall' \in [LlmCallers -> LlmCallSet]
    BY <1>6, <1>8, OneProceeds DEF ServiceFails, Ended, LlmShape
  <2>2. lgFaults' \in Nat BY <1>8 DEF ServiceFails, LlmShape
  <2> QED BY <1>8, <2>1, <2>2 DEF ServiceFails, LlmShape, breaker, learned, blame
<1>9. ASSUME NEW c \in LlmCallers, StepDown(c)
      PROVE  lgCall' \in [LlmCallers -> LlmCallSet] /\ lgMode' \in 0..2
  <2>1. lgCall' \in [LlmCallers -> LlmCallSet]
    BY <1>6, <1>9, OneProceeds DEF StepDown, Ended, LlmShape
  <2>2. lgCall[c].mode \in 0..2 BY DEF LlmShape, LlmCallSet
  <2> QED BY <1>9, <2>1, <2>2 DEF StepDown, LlmShape
<1>10. ASSUME NEW c \in LlmCallers, RejectsFormat(c) PROVE LlmShape'
  BY <1>9, <1>10 DEF RejectsFormat, LlmShape, breaker, blame
<1>11. ASSUME NEW c \in LlmCallers, RejectsKwargs(c) PROVE LlmShape'
  BY <1>6, <1>9, <1>11, OneProceeds DEF RejectsKwargs, LlmShape, breaker, blame
<1>12. ASSUME NEW c \in LlmCallers, AfterCall(c) PROVE LlmShape'
  <2>1. lgCall' \in [LlmCallers -> LlmCallSet]
    BY <1>6, <1>12, OneProceeds DEF AfterCall, LlmShape
  <2>2. /\ lgState' \in {"closed", "open", "half"} /\ lgAge' \in Nat
        /\ lgFails' \in 0..Trip - 1
    <3>0. Quiet \/ Closes \/ Opens(c) \/ Counts(c) BY <1>12, BreakerMoves
    <3>1. /\ lgState \in {"closed", "open", "half"} /\ lgAge \in Nat /\ lgFails \in 0..Trip - 1
      BY DEF LlmShape
    <3> QED BY <1>0, <3>0, <3>1 DEF Quiet, Closes, Opens, Counts
  <2> QED BY <1>12, <2>1, <2>2 DEF AfterCall, LlmShape, learned, blame
<1>13. ASSUME NEW c \in LlmCallers, Cancelled(c) PROVE LlmShape'
  BY <1>6, <1>13, OneProceeds DEF Cancelled, Ended, LlmShape, breaker, learned, blame
<1>14. ASSUME NEW c \in LlmCallers, RejectsRequest(c) PROVE LlmShape'
  BY <1>9, <1>14 DEF RejectsRequest, LlmShape, breaker, blame
<1>15. CASE UNCHANGED lgVars BY <1>15 DEF lgVars, breaker, learned, blame, LlmShape
<1> QED BY <1>1, <1>2, <1>3, <1>4, <1>5, <1>7, <1>8, <1>10, <1>11, <1>12, <1>13, <1>14, <1>15 DEF LlmNext

LEMMA LoadedKept ==
  ASSUME LlmInv, [LlmNext]_lgVars
  PROVE  LlmLoaded'
<1> USE DEF LlmInv
<1>0. \A c \in LlmCallers : lgCall[c] \in LlmCallSet
  BY DEF LlmShape
(* a step of one caller that mistakes nobody *)
<1>a. ASSUME NEW c \in LlmCallers, NEW call \in LlmCallSet, Proceed(c, call),
             UNCHANGED lgMistaken, lgPlain' \in {lgPlain, TRUE},
             call.at = "after" => call.out \in {"answer", "error", "cancelled"},
             call.at = "sent" => call.kwargs = FALSE \/ lgPlain = FALSE
      PROVE  LlmLoaded'
  <2>1. lgCall'[c] = call /\ \A d \in LlmCallers : d # c => lgCall'[d] = lgCall[d]
    BY <1>a, OneProceeds DEF LlmShape
  <2>2. ASSUME NEW d \in lgMistaken PROVE Settled(d)'
    <3>1. d \in LlmCallers /\ Settled(d) BY <2>2 DEF LlmLoaded
    <3>2. CASE d = c BY <1>a, <2>1, <3>1, <3>2 DEF Settled
    <3>3. CASE d # c BY <1>a, <2>1, <3>1, <3>3 DEF Settled
    <3> QED BY <3>2, <3>3
  <2>3. \A d \in LlmCallers : lgCall'[d].at = "after" => lgCall'[d].out \in {"answer", "error", "cancelled"}
    BY <1>a, <2>1 DEF LlmLoaded
  <2> QED BY <1>a, <2>2, <2>3 DEF LlmLoaded
<1>1. CASE Refill BY <1>1 DEF Refill, LlmLoaded, Settled, learned, blame
<1>2. CASE Cooldown BY <1>2 DEF Cooldown, LlmLoaded, Settled, learned, blame
<1>3. ASSUME NEW c \in LlmCallers, NEW json \in BOOLEAN, Guard(c, json) PROVE LlmLoaded'
  <2> DEFINE call == [NoCall EXCEPT !.json = json, !.age = lgAge]
  <2>1. \E x \in LlmCallSet : Proceed(c, x) /\ x.at \in {"idle", "mode", "sent"} /\ x.kwargs = FALSE
    <3>1. /\ [call EXCEPT !.out = "limited"] \in LlmCallSet
          /\ [call EXCEPT !.out = "refused"] \in LlmCallSet
          /\ [call EXCEPT !.at = IF json THEN "mode" ELSE "sent"] \in LlmCallSet
      BY NewCall DEF LlmShape
    <3>2. /\ [call EXCEPT !.out = "limited"].at = "idle"
          /\ [call EXCEPT !.out = "refused"].at = "idle"
          /\ [call EXCEPT !.at = IF json THEN "mode" ELSE "sent"].at \in {"mode", "sent"}
          /\ [call EXCEPT !.out = "limited"].kwargs = FALSE
          /\ [call EXCEPT !.out = "refused"].kwargs = FALSE
          /\ [call EXCEPT !.at = IF json THEN "mode" ELSE "sent"].kwargs = FALSE
      BY DEF NoCall
    <3> HIDE DEF call
    <3> QED BY <1>3, <3>1, <3>2 DEF Guard, call
  <2>2. PICK x \in LlmCallSet : Proceed(c, x) /\ x.at \in {"idle", "mode", "sent"} /\ x.kwargs = FALSE
    BY <2>1
  <2>3. UNCHANGED lgMistaken /\ lgPlain' = lgPlain BY <1>3 DEF Guard, learned, blame
  <2> QED BY <1>a, <2>2, <2>3
<1>4. ASSUME NEW c \in LlmCallers, LoadMode(c) PROVE LlmLoaded'
  <2> DEFINE call == [lgCall[c] EXCEPT !.at = "kwargs", !.mode = lgMode]
  <2>1. call \in LlmCallSet /\ call.at = "kwargs" BY <1>0 DEF LlmCallSet, LlmShape
  <2>2. Proceed(c, call) /\ UNCHANGED lgMistaken /\ lgPlain' = lgPlain
    BY <1>4 DEF LoadMode, learned, blame
  <2> HIDE DEF call
  <2> QED BY <1>a, <2>1, <2>2
<1>5. ASSUME NEW c \in LlmCallers, LoadKwargs(c) PROVE LlmLoaded'
  <2> DEFINE call == [lgCall[c] EXCEPT !.at = "sent", !.kwargs = ~ lgPlain]
  <2>1. call \in LlmCallSet /\ call.at = "sent" /\ (call.kwargs = FALSE \/ lgPlain = FALSE)
    BY <1>0 DEF LlmCallSet, LlmFlag
  <2>2. Proceed(c, call) /\ UNCHANGED lgMistaken /\ lgPlain' = lgPlain
    BY <1>5 DEF LoadKwargs, learned, blame
  <2> HIDE DEF call
  <2> QED BY <1>a, <2>1, <2>2
<1>6. ASSUME NEW c \in LlmCallers, UNCHANGED lgMistaken, lgPlain' \in {lgPlain, TRUE},
             \/ Ended(c, "answer") \/ Ended(c, "error") \/ Ended(c, "cancelled")
             \/ Proceed(c, [lgCall[c] EXCEPT !.at = "mode"])
             \/ Proceed(c, [lgCall[c] EXCEPT !.at = "idle"])
      PROVE  LlmLoaded'
  <2>1. ASSUME NEW o \in {"answer", "error", "cancelled"}, Ended(c, o) PROVE LlmLoaded'
    <3> DEFINE x == [lgCall[c] EXCEPT !.at = "after", !.out = o]
    <3>1. x \in LlmCallSet /\ x.at = "after" /\ x.out = o BY <1>0 DEF LlmCallSet
    <3>2. Proceed(c, x) BY <2>1 DEF Ended
    <3> HIDE DEF x
    <3> QED BY <1>a, <1>6, <3>1, <3>2
  <2>2. ASSUME NEW a \in {"mode", "idle"}, Proceed(c, [lgCall[c] EXCEPT !.at = a]) PROVE LlmLoaded'
    <3> DEFINE x == [lgCall[c] EXCEPT !.at = a]
    <3>1. x \in LlmCallSet /\ x.at = a BY <1>0 DEF LlmCallSet
    <3>2. Proceed(c, x) BY <2>2
    <3> HIDE DEF x
    <3> QED BY <1>a, <1>6, <3>1, <3>2
  <2> QED BY <1>6, <2>1, <2>2
<1>7. ASSUME NEW c \in LlmCallers,
             ServiceAnswers(c) \/ ServiceFails(c) \/ Cancelled(c) \/ RejectsFormat(c)
             \/ RejectsRequest(c) \/ AfterCall(c)
      PROVE  LlmLoaded'
  <2>1. UNCHANGED lgMistaken /\ lgPlain' = lgPlain
    BY <1>7 DEF ServiceAnswers, ServiceFails, Cancelled, RejectsFormat, RejectsRequest, AfterCall,
                learned, blame
  <2>2. \/ Ended(c, "answer") \/ Ended(c, "error") \/ Ended(c, "cancelled")
        \/ Proceed(c, [lgCall[c] EXCEPT !.at = "mode"])
        \/ Proceed(c, [lgCall[c] EXCEPT !.at = "idle"])
    BY <1>7 DEF ServiceAnswers, ServiceFails, Cancelled, RejectsFormat, RejectsRequest, AfterCall, StepDown
  <2> QED BY <1>6, <2>1, <2>2
<1>8. ASSUME NEW c \in LlmCallers, RejectsKwargs(c) PROVE LlmLoaded'
  <2>1. CASE UNCHANGED lgMistaken
    <3>1. lgPlain' = TRUE \/ lgPlain' = lgPlain BY <1>8 DEF RejectsKwargs
    <3>2. Ended(c, "error") \/ Proceed(c, [lgCall[c] EXCEPT !.at = "mode"])
      BY <1>8 DEF RejectsKwargs, StepDown
    <3> QED BY <1>6, <2>1, <3>1, <3>2
  (* the caller that is mistaken now: its call is over *)
  <2>2. CASE ~ UNCHANGED lgMistaken
    <3>1. /\ lgPlain /\ UNCHANGED lgPlain /\ ~ TakesKwargs
          /\ lgMistaken' = lgMistaken \cup {c} /\ Ended(c, "error")
      BY <1>8, <2>2 DEF RejectsKwargs, StepDown, KwargsWrong
    <3> DEFINE x == [lgCall[c] EXCEPT !.at = "after", !.out = "error"]
    <3>2. x \in LlmCallSet /\ x.at = "after" /\ x.out = "error" BY <1>0 DEF LlmCallSet
    <3>3. Proceed(c, x) BY <3>1 DEF Ended
    <3> HIDE DEF x
    <3>4. lgCall'[c] = x /\ \A d \in LlmCallers : d # c => lgCall'[d] = lgCall[d]
      BY <3>2, <3>3, OneProceeds DEF LlmShape
    <3>5. lgPlain = TRUE /\ lgPlain' = TRUE BY <3>1 DEF LlmFlag
    <3>6. ASSUME NEW d \in lgMistaken' PROVE Settled(d)'
      <4>1. CASE d = c BY <3>2, <3>4, <3>5, <4>1 DEF Settled
      <4>2. CASE d # c
        <5>1. d \in LlmCallers /\ Settled(d) BY <3>1, <3>6, <4>2 DEF LlmLoaded
        <5> QED BY <3>4, <3>5, <4>2, <5>1 DEF Settled
      <4> QED BY <4>1, <4>2
    <3>7. \A d \in LlmCallers : lgCall'[d].at = "after" => lgCall'[d].out \in {"answer", "error", "cancelled"}
      BY <3>2, <3>4 DEF LlmLoaded
    <3> QED BY <3>1, <3>6, <3>7 DEF LlmLoaded
  <2> QED BY <2>1, <2>2
<1>9. CASE UNCHANGED lgVars BY <1>9 DEF lgVars, learned, blame, LlmLoaded, Settled
<1> QED BY <1>1, <1>2, <1>3, <1>4, <1>5, <1>7, <1>8, <1>9 DEF LlmNext

(* faults and mistakes are counted, and a caller that is mistaken was not so before *)
LEMMA BlamesCounted ==
  ASSUME LlmInv
  PROVE  IsFiniteSet(lgMistaken) /\ Cardinality(lgMistaken) \in Nat /\ Blames \in Nat /\ Blames >= lgFaults
<1>1. IsFiniteSet(lgMistaken) BY LlmAssumption, FS_Subset DEF LlmInv, LlmLoaded
<1>2. Cardinality(lgMistaken) \in Nat BY <1>1, FS_CardinalityType
<1> QED BY <1>1, <1>2 DEF Blames, LlmInv, LlmShape

LEMMA CountedKept ==
  ASSUME LlmInv, [LlmNext]_lgVars
  PROVE  LlmCounted'
<1>0. /\ \A c \in LlmCallers : lgCall[c] \in LlmCallSet
      /\ lgFails \in 0..Trip - 1 /\ lgFaults \in Nat /\ Trip \in Nat \ {0}
      /\ Cardinality(Uncounted) \in Nat /\ LlmCounted /\ Blames \in Nat
  <2>1. IsFiniteSet(Uncounted) BY LlmAssumption, FS_Subset DEF Uncounted
  <2> QED BY <2>1, BlamesCounted, LlmAssumption, FS_CardinalityType DEF LlmInv, LlmShape
(* a call that goes on, with the breaker as it is *)
<1>a. ASSUME NEW c \in LlmCallers, NEW call \in LlmCallSet, Proceed(c, call),
             lgFails' = lgFails, lgState' = lgState, Blames' \in Nat, Blames <= Blames',
             ~ Failed(call), call.out \in {"error", "refused"} => Blames > 0
      PROVE  LlmCounted'
  <2>1. lgCall'[c] = call /\ \A d \in LlmCallers : d # c => lgCall'[d] = lgCall[d]
    BY <1>a, OneProceeds DEF LlmInv, LlmShape
  <2>2. Cardinality(Uncounted') \in Nat /\ Cardinality(Uncounted') <= Cardinality(Uncounted)
    BY <1>a, UncountedAfter DEF LlmInv, LlmShape
  <2>3. ASSUME Blames' = 0, NEW d \in LlmCallers PROVE lgCall'[d].out \notin {"error", "refused"}
    BY <1>0, <1>a, <2>1, <2>3 DEF LlmCounted
  <2>4. lgFails' + Cardinality(Uncounted') <= Blames'
    BY <1>0, <1>a, <2>2 DEF LlmCounted
  <2>5. lgState' # "closed" => Blames' >= Trip BY <1>0, <1>a DEF LlmCounted
  <2> QED BY <2>3, <2>4, <2>5 DEF LlmCounted
(* one that only moves: what it heard, it has heard before *)
<1>b. ASSUME NEW c \in LlmCallers, NEW call \in LlmCallSet, Proceed(c, call), call.at # "after",
             call.out = lgCall[c].out,
             lgFails' = lgFails, lgState' = lgState, Blames' \in Nat, Blames <= Blames'
      PROVE  LlmCounted'
  <2>1. call.out \in {"error", "refused"} => Blames > 0 BY <1>0, <1>b DEF LlmCounted
  <2> QED BY <1>a, <1>b, <2>1 DEF Failed
<1>c. ASSUME NEW c \in LlmCallers, Proceed(c, [lgCall[c] EXCEPT !.at = "mode"]),
             lgFails' = lgFails, lgState' = lgState, Blames' \in Nat, Blames <= Blames'
      PROVE  LlmCounted'
  <2> DEFINE call == [lgCall[c] EXCEPT !.at = "mode"]
  <2>1. call \in LlmCallSet /\ call.at # "after" /\ call.out = lgCall[c].out
    BY <1>0 DEF LlmCallSet
  <2> HIDE DEF call
  <2> QED BY <1>b, <1>c, <2>1 DEF call
<1>d. ASSUME UNCHANGED lgCall, Blames' = Blames, lgFails' \in {0, lgFails},
             lgState' = lgState \/ lgState # "closed"
      PROVE  LlmCounted'
  BY <1>0, <1>d DEF LlmCounted, Uncounted
(* a call that ends, an answer or a cancelled one *)
<1>e. ASSUME NEW c \in LlmCallers, NEW o \in {"answer", "cancelled"}, Ended(c, o),
             lgFails' = lgFails, lgState' = lgState, Blames' = Blames
      PROVE  LlmCounted'
  <2> DEFINE call == [lgCall[c] EXCEPT !.at = "after", !.out = o]
  <2>1. call \in LlmCallSet /\ call.out = o BY <1>0 DEF LlmCallSet
  <2>2. Proceed(c, call) BY <1>e DEF Ended
  <2> HIDE DEF call
  <2> QED BY <1>0, <1>a, <1>e, <2>1, <2>2 DEF Failed
(* a call that fails, and somebody to blame for it *)
<1>f. ASSUME NEW c \in LlmCallers, Ended(c, "error"),
             lgFails' = lgFails, lgState' = lgState, Blames' = Blames + 1
      PROVE  LlmCounted'
  <2> DEFINE call == [lgCall[c] EXCEPT !.at = "after", !.out = "error"]
  <2>1. call \in LlmCallSet BY <1>0 DEF LlmCallSet
  <2>2. Proceed(c, call) BY <1>f DEF Ended
  <2> HIDE DEF call
  <2>3. Cardinality(Uncounted') \in Nat /\ Cardinality(Uncounted') <= Cardinality(Uncounted) + 1
    BY <2>1, <2>2, UncountedAfter DEF LlmInv, LlmShape
  <2> QED BY <1>0, <1>f, <2>3 DEF LlmCounted
<1>g. UNCHANGED blame => Blames' = Blames BY DEF blame, Blames
<1>h. lgFaults' = lgFaults + 1 /\ UNCHANGED lgMistaken => Blames' = Blames + 1
  <2>1. Cardinality(lgMistaken) \in Nat BY BlamesCounted
  <2> QED BY <1>0, <2>1 DEF Blames
<1>1. CASE Refill BY <1>1, <1>d, <1>g DEF Refill, breaker
<1>2. CASE Cooldown BY <1>2, <1>d, <1>g DEF Cooldown
<1>3. ASSUME NEW c \in LlmCallers, NEW json \in BOOLEAN, Guard(c, json) PROVE LlmCounted'
  <2> DEFINE call == [NoCall EXCEPT !.json = json, !.age = lgAge]
  <2>1. /\ lgAge \in Nat /\ lgFails' = lgFails /\ lgState' = lgState
        /\ Blames' \in Nat /\ Blames <= Blames'
    BY <1>0, <1>3, <1>g DEF Guard, LlmInv, LlmShape
  <2>2. CASE lgTokens = 0
    <3> DEFINE x == [call EXCEPT !.out = "limited"]
    <3>1. x \in LlmCallSet BY <2>1, NewCall
    <3>2. x.at = "idle" /\ x.out = "limited" BY DEF NoCall
    <3>3. Proceed(c, x) BY <1>3, <2>2 DEF Guard
    <3> HIDE DEF x
    <3> QED BY <1>a, <2>1, <3>1, <3>2, <3>3 DEF Failed
  <2>3. CASE lgTokens # 0 /\ ~ Admits
    <3> DEFINE x == [call EXCEPT !.out = "refused"]
    <3>1. x \in LlmCallSet BY <2>1, NewCall
    <3>2. x.at = "idle" BY DEF NoCall
    <3>3. Proceed(c, x) BY <1>3, <2>3 DEF Guard
    <3>4. Blames > 0 BY <1>0, <2>3 DEF Admits, LlmCounted
    <3> HIDE DEF x
    <3> QED BY <1>a, <2>1, <3>1, <3>2, <3>3, <3>4 DEF Failed
  <2>4. CASE lgTokens # 0 /\ Admits
    <3> DEFINE x == [call EXCEPT !.at = IF json THEN "mode" ELSE "sent"]
    <3>1. x \in LlmCallSet BY <2>1, NewCall
    <3>2. x.at \in {"mode", "sent"} /\ x.out = "none" BY DEF NoCall
    <3>3. Proceed(c, x) BY <1>3, <2>4 DEF Guard
    <3> HIDE DEF x
    <3> QED BY <1>a, <2>1, <3>1, <3>2, <3>3 DEF Failed
  <2> QED BY <2>2, <2>3, <2>4
<1>4. ASSUME NEW c \in LlmCallers, LoadMode(c) PROVE LlmCounted'
  <2> DEFINE call == [lgCall[c] EXCEPT !.at = "kwargs", !.mode = lgMode]
  <2>1. call \in LlmCallSet /\ call.at = "kwargs" /\ call.out = lgCall[c].out
    BY <1>0 DEF LlmCallSet, LlmInv, LlmShape
  <2>2. /\ Proceed(c, call) /\ lgFails' = lgFails /\ lgState' = lgState
        /\ Blames' \in Nat /\ Blames <= Blames'
    BY <1>0, <1>4, <1>g DEF LoadMode, breaker
  <2> HIDE DEF call
  <2> QED BY <1>b, <2>1, <2>2
<1>5. ASSUME NEW c \in LlmCallers, LoadKwargs(c) PROVE LlmCounted'
  <2> DEFINE call == [lgCall[c] EXCEPT !.at = "sent", !.kwargs = ~ lgPlain]
  <2>1. call \in LlmCallSet /\ call.at = "sent" /\ call.out = lgCall[c].out
    BY <1>0 DEF LlmCallSet, LlmInv, LlmFlag
  <2>2. /\ Proceed(c, call) /\ lgFails' = lgFails /\ lgState' = lgState
        /\ Blames' \in Nat /\ Blames <= Blames'
    BY <1>0, <1>5, <1>g DEF LoadKwargs, breaker
  <2> HIDE DEF call
  <2> QED BY <1>b, <2>1, <2>2
<1>6. ASSUME NEW c \in LlmCallers, ServiceAnswers(c) PROVE LlmCounted'
  BY <1>6, <1>e, <1>g DEF ServiceAnswers, breaker
<1>7. ASSUME NEW c \in LlmCallers, Cancelled(c) PROVE LlmCounted'
  BY <1>7, <1>e, <1>g DEF Cancelled, breaker
<1>8. ASSUME NEW c \in LlmCallers, ServiceFails(c) PROVE LlmCounted'
  BY <1>8, <1>f, <1>h DEF ServiceFails, breaker
<1>9. ASSUME NEW c \in LlmCallers, RejectsFormat(c) PROVE LlmCounted'
  <2>1. lgCall[c].mode # 2 BY <1>9, LlmAssumption DEF RejectsFormat, FormatWrong
  <2>2. Proceed(c, [lgCall[c] EXCEPT !.at = "mode"]) BY <1>9, <2>1 DEF RejectsFormat, StepDown
  <2> QED BY <1>0, <1>9, <1>c, <1>g, <2>2 DEF RejectsFormat, breaker
<1>10. ASSUME NEW c \in LlmCallers, RejectsRequest(c) PROVE LlmCounted'
  <2>1. /\ lgFails' = lgFails /\ lgState' = lgState /\ Blames' = Blames + 1
        /\ Blames' \in Nat /\ Blames <= Blames'
    BY <1>0, <1>10, <1>h DEF RejectsRequest, breaker
  <2>2. CASE Ended(c, "error") BY <1>f, <2>1, <2>2
  <2>3. CASE Proceed(c, [lgCall[c] EXCEPT !.at = "mode"]) BY <1>c, <2>1, <2>3
  <2> QED BY <1>10, <2>2, <2>3 DEF RejectsRequest, StepDown
<1>11. ASSUME NEW c \in LlmCallers, RejectsKwargs(c) PROVE LlmCounted'
  <2>0. lgFails' = lgFails /\ lgState' = lgState /\ lgFaults' = lgFaults
    BY <1>11 DEF RejectsKwargs, breaker
  <2>1. CASE Proceed(c, [lgCall[c] EXCEPT !.at = "mode"]) /\ UNCHANGED lgMistaken
    <3>1. Blames' = Blames BY <2>0, <2>1 DEF Blames
    <3> QED BY <1>0, <1>c, <2>0, <2>1, <3>1
  <2>2. CASE Ended(c, "error") /\ lgMistaken' = lgMistaken \cup {c}
    <3>1. lgCall[c].at = "sent" /\ lgCall[c].kwargs # FALSE
      BY <1>11 DEF RejectsKwargs, KwargsWrong
    <3>2. c \notin lgMistaken BY <3>1 DEF LlmInv, LlmLoaded, Settled
    <3>3. Cardinality(lgMistaken') = Cardinality(lgMistaken) + 1
      BY <2>2, <3>2, BlamesCounted, FS_AddElement
    <3>4. Cardinality(lgMistaken) \in Nat BY BlamesCounted
    <3>5. Blames' = Blames + 1 BY <1>0, <2>0, <3>3, <3>4 DEF Blames
    <3> QED BY <1>f, <2>0, <2>2, <3>5
  <2> QED BY <1>11, <2>1, <2>2 DEF RejectsKwargs, StepDown
<1>12. ASSUME NEW c \in LlmCallers, AfterCall(c) PROVE LlmCounted'
  <2> DEFINE call == [lgCall[c] EXCEPT !.at = "idle"]
  <2>1. call \in LlmCallSet /\ call.at = "idle" /\ call.out = lgCall[c].out BY <1>0 DEF LlmCallSet
  <2>2. Proceed(c, call) /\ Blames' = Blames /\ lgCall[c].at = "after"
    BY <1>12, <1>g DEF AfterCall
  <2> HIDE DEF call
  <2>3. lgCall'[c] = call /\ \A d \in LlmCallers : d # c => lgCall'[d] = lgCall[d]
    BY <2>1, <2>2, OneProceeds DEF LlmInv, LlmShape
  <2>4. Blames' = 0 => \A d \in LlmCallers : lgCall'[d].out \notin {"error", "refused"}
    BY <2>1, <2>2, <2>3, <1>0 DEF LlmCounted
  <2>5. ~ Failed(call) BY <2>1 DEF Failed
  <2>6. /\ Cardinality(Uncounted') \in Nat /\ Cardinality(Uncounted') <= Cardinality(Uncounted)
        /\ Failed(lgCall[c]) => Cardinality(Uncounted') = Cardinality(Uncounted) - 1
    BY <2>1, <2>2, <2>5, UncountedAfter DEF LlmInv, LlmShape
  <2>7. lgCall[c].out = "error" => Failed(lgCall[c]) BY <2>2 DEF Failed
  <2>a. Quiet \/ Closes \/ Opens(c) \/ Counts(c) BY <1>12, BreakerMoves
  <2>b. /\ lgFails \in Nat /\ Cardinality(Uncounted) \in Nat /\ Cardinality(Uncounted') \in Nat
        /\ Blames \in Nat /\ Blames' = Blames /\ Trip \in Nat
        /\ lgFails + Cardinality(Uncounted) <= Blames
        /\ lgState # "closed" => Blames >= Trip
    BY <1>0, <2>2, <2>6 DEF LlmCounted
  <2>8. lgFails' + Cardinality(Uncounted') <= Blames'
    BY <2>a, <2>b, <2>6, <2>7 DEF Quiet, Closes, Opens, Counts
  <2>9. lgState' # "closed" => Blames' >= Trip
    <3>1. CASE Quiet BY <2>b, <3>1 DEF Quiet
    <3>2. CASE Closes BY <3>2 DEF Closes
    <3>3. CASE Opens(c)
      <4>1. Cardinality(Uncounted) >= 1 BY <2>b, <2>6, <2>7, <3>3 DEF Opens
      <4> QED BY <2>b, <3>3, <4>1 DEF Opens
    <3>4. CASE Counts(c) BY <2>b, <3>4 DEF Counts
    <3> QED BY <2>a, <3>1, <3>2, <3>3, <3>4
  <2> QED BY <2>4, <2>8, <2>9 DEF LlmCounted
<1>13. CASE UNCHANGED lgVars BY <1>13, <1>d, <1>g DEF lgVars, breaker
<1> QED BY <1>1, <1>2, <1>3, <1>4, <1>5, <1>6, <1>7, <1>8, <1>9, <1>10, <1>11, <1>12, <1>13 DEF LlmNext

(* The shape of the calls, the mode each was loaded with and the failures counted, together: each
   needs the others (resilient.go guard, llm.go ChatJSON). *)
THEOREM LlmInvariant == LlmSpec => []LlmInv
<1>1. LlmInv /\ [LlmNext]_lgVars => LlmInv'
  BY LlmShapeKept, FlagKept, LoadedKept, CountedKept DEF LlmInv
<1> QED BY StartsGood, <1>1, PTL DEF LlmSpec

(* The variables stay in their sets, for every number of callers and every limit. *)
THEOREM LlmTyping == LlmSpec => []LlmTypeOK
<1>1. LlmInv => LlmTypeOK
  <2> SUFFICES ASSUME LlmInv PROVE LlmTypeOK OBVIOUS
  <2>1. lgPlain \in BOOLEAN BY DEF LlmInv, LlmFlag
  <2>2. \A c \in LlmCallers : lgCall[c].out \in {"none", "answer", "error", "cancelled", "limited", "refused"}
    BY DEF LlmInv, LlmShape, LlmCallSet
  <2> QED BY <2>1, <2>2 DEF LlmTypeOK, LlmInv, LlmShape, LlmLoaded
<1> QED BY LlmInvariant, <1>1, PTL

(* Whatever the service takes: no call fails or is refused without a fault or a mistaken caller,
   and the breaker opens only after as many of both as it is set to; a service that takes the
   kwargs mistakes nobody (resilient.go guard, llm.go ChatJSON). *)
THEOREM LlmFaultsOnly == LlmSpec => []FaultsOnly
<1>1. LlmInv => FaultsOnly
  <2> SUFFICES ASSUME LlmInv PROVE FaultsOnly OBVIOUS
  <2>1. lgFaults = 0 /\ lgMistaken = {} => Blames = 0 BY FS_EmptySet DEF Blames
  <2> QED BY <2>1 DEF LlmInv, LlmLoaded, LlmCounted, Blames, FaultsOnly
<1> QED BY LlmInvariant, <1>1, PTL

-----------------------------------------------------------------------------
(* ToolLoop: what goes to the chat is clean, what goes to the model is counted *)

(* where the reply stands *)
ToolShape ==
  /\ tlAt \in {"ask", "run", "correct", "cut", "done", "failed"}
  /\ tlText \in Kinds \cup {"none"} /\ tlRound \in 1..MaxRounds + 1
  /\ tlAt = "run" => tlRound \in 1..MaxRounds
  /\ tlDue \in Seq(SUBSET Pictures)

(* only a text is cut, only what was cut is said, and only a rewritten one is another text *)
TextRule ==
  /\ tlAt = "cut" => tlText = "text"
  /\ tlAt = "done" => tlText \in (IF tlRewritten THEN {"text", "call"} ELSE {"text"})
  /\ tlAt # "done" => tlSaid = 0 /\ tlRewritten = FALSE
  /\ tlSaid \in Nat /\ (Sentences > 0 => tlSaid <= Sentences)

(* the pictures shown are among those seen, which is what makes the count exact *)
PictureRule ==
  /\ tlShown \subseteq tlSeen /\ tlSeen \subseteq Pictures
  /\ ViewLimit > 0 => tlViewed = Cardinality(tlShown) /\ tlViewed <= ViewLimit

ToolInv == ToolShape /\ TextRule /\ PictureRule

-----------------------------------------------------------------------------
LEMMA Smaller ==
  ASSUME NEW a \in Int, NEW b \in Int
  PROVE  Min({a, b}) \in Int /\ Min({a, b}) <= a /\ Min({a, b}) <= b /\ Min({a, b}) \in {a, b}
<1>1. \E x \in {a, b} : \A y \in {a, b} : x =< y
  <2>1. CASE a <= b BY <2>1
  <2>2. CASE b <= a BY <2>2
  <2> QED BY <2>1, <2>2
<1>2. Min({a, b}) \in {a, b} /\ \A y \in {a, b} : Min({a, b}) =< y BY <1>1 DEF Min
<1> QED BY <1>2

LEMMA Larger ==
  ASSUME NEW a \in Int, NEW b \in Int
  PROVE  Max({a, b}) \in {a, b} /\ Max({a, b}) >= a /\ Max({a, b}) >= b
<1>1. \E x \in {a, b} : \A y \in {a, b} : x >= y
  <2>1. CASE a <= b BY <2>1
  <2>2. CASE b <= a BY <2>2
  <2> QED BY <2>1, <2>2
<1>2. Max({a, b}) \in {a, b} /\ \A y \in {a, b} : Max({a, b}) >= y BY <1>1 DEF Max
<1> QED BY <1>2

(* Of the places that have fewer than limit places of the set before them there are at most limit. *)
LEMMA FirstFew ==
  ASSUME NEW S, IsFiniteSet(S), S \subseteq Nat, NEW limit \in Nat
  PROVE  LET K == {k \in S : Cardinality({j \in S : j < k}) < limit}
         IN  IsFiniteSet(K) /\ Cardinality(K) <= limit
<1> DEFINE before(k) == {j \in S : j < k}
           K == {k \in S : Cardinality(before(k)) < limit}
           f == [k \in K |-> Cardinality(before(k))]
<1>1. \A k \in S : IsFiniteSet(before(k)) /\ Cardinality(before(k)) \in Nat
  <2> TAKE k \in S
  <2>1. before(k) \in SUBSET S OBVIOUS
  <2>2. IsFiniteSet(before(k)) BY <2>1, FS_Subset
  <2> QED BY <2>2, FS_CardinalityType
<1>2. ASSUME NEW i \in S, NEW k \in S, i < k PROVE Cardinality(before(i)) # Cardinality(before(k))
  <2>1. \A j \in before(i) : j \in before(k)
    <3> TAKE j \in before(i)
    <3>1. j \in S /\ j < i /\ j \in Int /\ i \in Int /\ k \in Int OBVIOUS
    <3>2. j < k BY <3>1, <1>2
    <3> QED BY <3>1, <3>2
  <2>2. i \in before(k) /\ i \notin before(i) BY <1>2
  <2>3. before(i) # before(k) BY <2>2
  <2> HIDE DEF before
  <2> QED BY <1>1, <2>1, <2>3, FS_Subset
<1>3. f \in [K -> 0..limit - 1]
  <2>1. \A k \in K : Cardinality(before(k)) \in 0..limit - 1
    <3> HIDE DEF before
    <3> QED BY <1>1
  <2> HIDE DEF K
  <2> QED BY <2>1
<1>4. \A i, k \in K : f[i] = f[k] => i = k
  <2> TAKE i, k \in K
  <2>1. CASE i < k BY <2>1, <1>2
  <2>2. CASE k < i BY <2>2, <1>2
  <2>3. CASE i = k BY <2>3
  <2> QED BY <2>1, <2>2, <2>3
<1>5. f \in Injection(K, 0..limit - 1)
  <2> HIDE DEF f
  <2> QED BY <1>3, <1>4 DEF Injection, IsInjective
<1>6. IsFiniteSet(0..limit - 1) /\ Cardinality(0..limit - 1) = limit BY FS_Interval
<1>7. IsFiniteSet(K) /\ Cardinality(K) <= limit
  <2> HIDE DEF f, K
  <2> QED BY <1>5, <1>6, FS_Injection
<1> QED BY <1>7

LEMMA GivenFits ==
  /\ FirstPictures \subseteq Pictures
  /\ ViewLimit > 0 => Cardinality(FirstPictures) <= ViewLimit
<1> DEFINE new == {i \in DOMAIN Given : \A j \in 1..i - 1 : Given[j] # Given[i]}
           few == {k \in new : Cardinality({j \in new : j < k}) < ViewLimit}
           first == {k \in new : ViewLimit = 0 \/ Cardinality({j \in new : j < k}) < ViewLimit}
<1>0. DOMAIN Given = 1..Len(Given) /\ Len(Given) \in Nat /\ \A i \in DOMAIN Given : Given[i] \in Pictures
  BY ToolAssumption
<1>1. FirstPictures \subseteq Pictures BY <1>0 DEF FirstPictures
<1>2. ASSUME ViewLimit > 0 PROVE Cardinality(FirstPictures) <= ViewLimit
  <2> DEFINE g == [k \in few |-> Given[k]]
  <2>1. IsFiniteSet(new) /\ new \subseteq Nat
    <3>1. IsFiniteSet(1..Len(Given)) BY <1>0, FS_Interval
    <3>2. new \in SUBSET (1..Len(Given))
      <4>1. new \subseteq DOMAIN Given OBVIOUS
      <4> HIDE DEF new
      <4> QED BY <4>1, <1>0
    <3> HIDE DEF new
    <3>3. IsFiniteSet(new) BY <3>1, <3>2, FS_Subset
    <3>4. new \subseteq Nat BY <3>2, <1>0
    <3> QED BY <3>3, <3>4
  <2>2. ViewLimit \in Nat BY ToolAssumption
  <2>3. IsFiniteSet(few) /\ Cardinality(few) <= ViewLimit
    <3> HIDE DEF new
    <3> QED BY <2>1, <2>2, FirstFew
  <2>4. FirstPictures = {Given[k] : k \in few}
    <3>1. FirstPictures = {Given[k] : k \in first} BY DEF FirstPictures
    <3>2. first = few
      <4> HIDE DEF new
      <4> QED BY <1>2, <2>2
    <3> HIDE DEF first, few
    <3> QED BY <3>1, <3>2
  <2>5. g \in Surjection(few, FirstPictures)
    <3> HIDE DEF few
    <3> QED BY <2>4 DEF Surjection
  <2>6. Cardinality(FirstPictures) <= Cardinality(few)
    <3> HIDE DEF g, few
    <3> QED BY <2>3, <2>5, FS_Surjection
  <2>7. IsFiniteSet(FirstPictures) BY <1>1, ToolAssumption, FS_Subset
  <2> HIDE DEF few
  <2> QED BY <2>2, <2>3, <2>6, <2>7, FS_CardinalityType
<1> QED BY <1>1, <1>2

-----------------------------------------------------------------------------
LEMMA ToolStarts == ToolInit => ToolInv
<1> SUFFICES ASSUME ToolInit PROVE ToolInv OBVIOUS
<1>1. ToolShape BY ToolAssumption DEF ToolInit, ToolShape
<1>2. TextRule BY ToolAssumption DEF ToolInit, TextRule
<1>3. PictureRule BY GivenFits DEF ToolInit, PictureRule
<1> QED BY <1>1, <1>2, <1>3 DEF ToolInv

(* Pictures of one result: the new ones are disjoint from those shown, and there is room for
   the ones taken. *)
LEMMA RunToolKeeps == ASSUME ToolInv, RunTool PROVE PictureRule'
<1> DEFINE fresh == Head(tlDue) \ tlSeen
           room  == IF ViewLimit = 0 THEN Cardinality(fresh) ELSE Max({ViewLimit - tlViewed, 0})
           k     == Min({room, Cardinality(fresh)})
<1>0. /\ tlShown \subseteq tlSeen /\ tlSeen \subseteq Pictures
      /\ (ViewLimit > 0 => tlViewed = Cardinality(tlShown) /\ tlViewed <= ViewLimit)
      /\ ViewLimit \in Nat /\ IsFiniteSet(Pictures)
  BY ToolAssumption DEF ToolInv, PictureRule
<1>1. Head(tlDue) \subseteq Pictures BY DEF ToolInv, ToolShape, RunTool
<1>2. fresh \subseteq Pictures /\ IsFiniteSet(fresh) /\ Cardinality(fresh) \in Nat
  <2>1. fresh \subseteq Pictures BY <1>1
  <2> HIDE DEF fresh
  <2> QED BY <2>1, <1>0, FS_Subset, FS_CardinalityType
<1>3. PICK shown \in kSubset(k, fresh) :
        /\ tlSeen' = tlSeen \cup fresh /\ tlShown' = tlShown \cup shown
        /\ tlViewed' = tlViewed + IF ViewLimit = 0 THEN 0 ELSE Cardinality(shown)
  BY DEF RunTool
<1>4. shown \subseteq fresh /\ Cardinality(shown) = k
  <2> HIDE DEF fresh, k
  <2> QED BY DEF kSubset
<1>5. IsFiniteSet(tlShown) /\ Cardinality(tlShown) \in Nat BY <1>0, FS_Subset, FS_CardinalityType
<1>6. IsFiniteSet(shown) /\ Cardinality(shown) \in Nat
  <2> HIDE DEF fresh, k
  <2> QED BY <1>2, <1>4, FS_Subset, FS_CardinalityType
<1>7. Cardinality(tlShown \cup shown) = Cardinality(tlShown) + Cardinality(shown)
  <2>1. tlShown \cap shown = {} BY <1>0, <1>4
  <2> HIDE DEF fresh, k
  <2>2. Cardinality(tlShown \cup shown)
          = Cardinality(tlShown) + Cardinality(shown) - Cardinality(tlShown \cap shown)
    BY <1>5, <1>6, FS_Union, Zenon
  <2>3. Cardinality(tlShown \cap shown) = 0 BY <2>1, FS_EmptySet, Zenon
  <2> QED BY <1>5, <1>6, <2>2, <2>3
<1>8. ASSUME ViewLimit > 0
      PROVE  tlViewed' = Cardinality(tlShown') /\ tlViewed' <= ViewLimit
  <2>0. ViewLimit # 0 /\ tlViewed = Cardinality(tlShown) /\ tlViewed <= ViewLimit /\ tlViewed \in Nat
    BY <1>0, <1>5, <1>8
  <2>1. room = ViewLimit - tlViewed
    <3>a. ViewLimit - tlViewed \in Int /\ 0 \in Int BY <1>0, <2>0
    <3>1. /\ Max({ViewLimit - tlViewed, 0}) \in {ViewLimit - tlViewed, 0}
          /\ Max({ViewLimit - tlViewed, 0}) >= ViewLimit - tlViewed
      BY <3>a, Larger, Zenon
    <3> QED BY <3>1, <1>0, <2>0
  <2> HIDE DEF fresh, room
  <2>a. room \in Int /\ Cardinality(fresh) \in Int BY <2>1, <1>0, <1>2, <2>0
  <2>2. k <= room BY <2>a, Smaller, Zenon
  <2> HIDE DEF k
  <2>3. tlViewed + Cardinality(shown) <= ViewLimit BY <2>0, <2>1, <2>2, <1>0, <1>4, <1>6
  <2>4. tlViewed' = tlViewed + Cardinality(shown) BY <1>3, <2>0
  <2> QED BY <1>3, <1>7, <2>0, <2>3, <2>4
<1>9. tlShown' \subseteq tlSeen' /\ tlSeen' \subseteq Pictures BY <1>0, <1>2, <1>3, <1>4
<1> QED BY <1>8, <1>9 DEF PictureRule

LEMMA PicturesKept == ToolInv /\ [ToolNext]_tlVars => PictureRule'
<1> SUFFICES ASSUME ToolInv, [ToolNext]_tlVars PROVE PictureRule' OBVIOUS
<1>1. CASE UNCHANGED pictures BY <1>1 DEF ToolInv, PictureRule, pictures
<1>2. CASE RunTool BY <1>2, RunToolKeeps
<1> QED BY <1>1, <1>2 DEF ToolNext, AnswerText, Corrected, CallTools, NextRound, Keep, Rewrite, tlVars

LEMMA ToolShapeKept == ToolInv /\ [ToolNext]_tlVars => ToolShape'
<1> SUFFICES ASSUME ToolInv, [ToolNext]_tlVars PROVE ToolShape' OBVIOUS
<1> USE ToolAssumption DEF ToolInv, ToolShape
<1>1. ASSUME NEW kind \in Kinds, AnswerText(kind) PROVE ToolShape'
  BY <1>1 DEF AnswerText
<1>2. ASSUME NEW kind \in Kinds, Corrected(kind) PROVE ToolShape'
  BY <1>2 DEF Corrected
<1>3. ASSUME NEW n \in 1..CallsAtOnce, NEW calls \in [1..n -> SUBSET Pictures], CallTools(calls) PROVE ToolShape'
  <2>1. calls \in Seq(SUBSET Pictures) BY <1>3
  <2> QED BY <1>3, <2>1 DEF CallTools, Withdrawn
<1>4. CASE RunTool
  <2>1. tlDue' \in Seq(SUBSET Pictures) BY <1>4 DEF RunTool
  <2> QED BY <1>4, <2>1 DEF RunTool
<1>5. CASE NextRound BY <1>5 DEF NextRound
<1>6. CASE Keep BY <1>6 DEF Keep
<1>7. ASSUME NEW n \in 1..Sentences + 1, NEW kind \in {"text", "call"}, Rewrite(n, kind) PROVE ToolShape'
  BY <1>7 DEF Rewrite, Kinds
<1>8. CASE UNCHANGED tlVars BY <1>8 DEF tlVars
<1> QED BY <1>1, <1>2, <1>3, <1>4, <1>5, <1>6, <1>7, <1>8 DEF ToolNext

LEMMA TextKept == ToolInv /\ [ToolNext]_tlVars => TextRule'
<1> SUFFICES ASSUME ToolInv, [ToolNext]_tlVars PROVE TextRule' OBVIOUS
<1>0. TextRule BY DEF ToolInv
<1>1. ASSUME NEW kind \in Kinds, AnswerText(kind) PROVE TextRule'
  BY <1>0, <1>1 DEF AnswerText, TextRule, said
<1>2. ASSUME NEW kind \in Kinds, Corrected(kind) PROVE TextRule'
  BY <1>0, <1>2 DEF Corrected, TextRule, said
<1>3. CASE RunTool \/ NextRound \/ \E n \in 1..CallsAtOnce : \E calls \in [1..n -> SUBSET Pictures] : CallTools(calls)
  BY <1>0, <1>3 DEF RunTool, NextRound, CallTools, TextRule, said
<1>4. CASE Keep BY <1>0, <1>4, ToolAssumption DEF Keep, TextRule
<1>5. ASSUME NEW n \in 1..Sentences + 1, NEW kind \in {"text", "call"}, Rewrite(n, kind) PROVE TextRule'
  <2>1. Sentences \in Nat /\ n \in Nat BY ToolAssumption
  <2>a. n \in Int /\ Sentences \in Int BY <2>1
  <2>2. Min({n, Sentences}) <= Sentences /\ Min({n, Sentences}) \in {n, Sentences} BY <2>a, Smaller, Zenon
  <2>3. tlSaid' \in Nat /\ (Sentences > 0 => tlSaid' <= Sentences) BY <1>5, <2>1, <2>2 DEF Rewrite
  <2>4. tlAt' = "done" /\ tlText' = kind /\ tlRewritten' = TRUE BY <1>5 DEF Rewrite
  <2> QED BY <2>3, <2>4 DEF TextRule
<1>6. CASE UNCHANGED tlVars BY <1>0, <1>6 DEF tlVars, said, TextRule
<1> QED BY <1>1, <1>2, <1>3, <1>4, <1>5, <1>6 DEF ToolNext

(* What a step of the loop may rely on: the rules for the text and for the pictures hold at every
   turn of mcp_loop.go, not only at its end. *)
THEOREM ToolInvariant == ToolSpec => []ToolInv
<1>1. ToolInv /\ [ToolNext]_tlVars => ToolInv'
  BY ToolShapeKept, TextKept, PicturesKept DEF ToolInv
<1> QED BY ToolStarts, <1>1, PTL DEF ToolSpec

(* A draft that is handed on is a text, and a rewritten one is whatever the rewriting call made of
   it, within the limit of sentences; the pictures sent to the model are counted exactly within
   theirs: for every number of rounds and calls, whatever the model and the tools answer
   (mcp_loop.go runChatWithTools and its picture limit, reply_format.go rewriteReply). *)
THEOREM ToolReplyIsClean == ToolSpec => []ReplyIsClean
<1>1. ToolInv => ReplyIsClean
  <2> SUFFICES ASSUME ToolInv PROVE ReplyIsClean OBVIOUS
  <2>1. tlSaid > 0 => tlAt = "done" BY DEF ToolInv, TextRule
  <2> QED BY <2>1 DEF ToolInv, TextRule, PictureRule, ReplyIsClean
<1> QED BY ToolInvariant, <1>1, PTL

-----------------------------------------------------------------------------
(* Commands: a command takes effect once *)

Stages == {"queue", "agent", "done"} \cup InCommand \cup InAgent

CommandsShape ==
  /\ cmAt \in [Nums -> Stages] /\ cmRuns \in [Nums -> {0, 1}]
  /\ cmReplies \in [Nums -> SUBSET {"done", "notfound", "refused", "answer"}]
  /\ cmOn \in [Nums -> BOOLEAN] /\ cmRan \in [Nums -> BOOLEAN]
  /\ cmNames \subseteq Personas /\ cmPersona \in Personas \cup {NoPersona}
  /\ cmGate \in {"unset", "on", "off"} /\ cmRow \in {"unset", "on", "off"} /\ cmSwapped \subseteq Nums

CommandsBounds == cmChanges \in 0..TableChanges /\ cmFaults \in 0..CommandFaults

Untouched(m) == cmRuns[m] = 0 /\ cmReplies[m] = {}

(* the commands that the model may answer too *)
MayBeAnswered(m) ==
  \/ Arrivals[m].kind = "start"
  \/ Arrivals[m].kind = "switch" /\ ("notfound" \notin cmReplies[m] \/ m \in cmSwapped)

(* the first match has said so, and nothing has changed since that was not noticed *)
StillThere(m) ==
  \/ Arrivals[m].kind = "start"
  \/ Arrivals[m].kind = "switch" /\ (Arrivals[m].name \in cmNames \/ m \in cmSwapped)

(* a message has not been run until it is past the match it is run after, and what was run in
   the command domain reaches the agent domain with the mark that it ran *)
RunOnce(m) ==
  /\ cmAt[m] \in {"queue", "matched", "routing"} => Untouched(m)
  /\ cmAt[m] = "matched" /\ cmOn[m] => StillThere(m)
  /\ cmRan[m] => MayBeAnswered(m)
  /\ cmAt[m] = "routing" => cmRan[m] = FALSE
  /\ cmAt[m] = "saving" => (cmOn[m] => cmRan[m])
  /\ cmAt[m] = "agent" => Untouched(m) \/ cmRan[m]
  /\ cmAt[m] = "answering" => cmReplies[m] = {} \/ MayBeAnswered(m)
  /\ "answer" \in cmReplies[m] /\ cmReplies[m] # {"answer"} => MayBeAnswered(m)

SaidBy(m) == IF Arrivals[m].kind = "start" THEN "on" ELSE "off"

(* while nothing was cut, at most one switch is on its way to the row, and it is what memory says *)
RowFollows ==
  ~ cmCut =>
    /\ Saving = {} => cmRow = cmGate
    /\ \A m \in Saving : Saving = {m} /\ cmGate = SaidBy(m)

CommandsInv == CommandsShape /\ CommandsBounds /\ (\A m \in Nums : RunOnce(m)) /\ RowFollows

-----------------------------------------------------------------------------
LEMMA CommandsStart == CommandsInit => CommandsInv
<1> SUFFICES ASSUME CommandsInit PROVE CommandsInv OBVIOUS
<1> USE DEF CommandsInit
<1>1. CommandsShape BY DEF CommandsShape, Stages
<1>2. CommandsBounds BY CommandsAssumption DEF CommandsBounds
<1>3. \A m \in Nums : RunOnce(m) BY DEF RunOnce, Untouched
<1>4. RowFollows BY DEF RowFollows, Saving
<1> QED BY <1>1, <1>2, <1>3, <1>4 DEF CommandsInv

LEMMA CommandsBounded ==
  ASSUME CommandsBounds, [CommandsNext]_cmVars
  PROVE  CommandsBounds'
<1> USE CommandsAssumption DEF CommandsBounds
<1>1. CASE Retable BY <1>1 DEF Retable, TableChange
<1>2. CASE CommandsRestart BY <1>2 DEF CommandsRestart, CommandFault
<1>3. ASSUME NEW m \in Nums, CommandMatch(m) PROVE CommandsBounds' BY <1>3 DEF CommandMatch
<1>4. ASSUME NEW m \in Nums, CommandRun(m) PROVE CommandsBounds' BY <1>4 DEF CommandRun
<1>5. ASSUME NEW m \in Nums, SaveGate(m) PROVE CommandsBounds' BY <1>5 DEF SaveGate, CommandFault
<1>6. ASSUME NEW m \in Nums, AgentTurn(m) PROVE CommandsBounds' BY <1>6 DEF AgentTurn
<1>7. ASSUME NEW m \in Nums, RouteMessage(m) PROVE CommandsBounds' BY <1>7 DEF RouteMessage
<1>8. ASSUME NEW m \in Nums, AgentAnswer(m) PROVE CommandsBounds' BY <1>8 DEF AgentAnswer
<1>9. CASE UNCHANGED cmVars BY <1>9 DEF cmVars
<1> QED BY <1>1, <1>2, <1>3, <1>4, <1>5, <1>6, <1>7, <1>8, <1>9 DEF CommandsNext

(* a message that moves between two places, neither of them on the way to the row *)
LEMMA SavingKept ==
  ASSUME NEW m \in Nums, NEW at, Moved(m, at), CommandsShape,
         cmAt[m] \notin {"saving", "agentsaving"}, at \notin {"saving", "agentsaving"}
  PROVE  Saving' = Saving
BY DEF Moved, CommandsShape, Saving

(* RunInternalCommand, in either domain, for a message that has not been run *)
LEMMA CommandRunOnce ==
  ASSUME CommandsInv, NEW m \in Nums, NEW saving \in {"saving", "agentsaving"}, NEW after \in {"agent", "done"},
         cmAt[m] \in {"matched", "routing"}, RunInternalCommand(m, saving, after)
  PROVE  /\ cmAt' \in [Nums -> Stages] /\ cmAt'[m] \in {saving, after}
         /\ cmRuns' \in [Nums -> {0, 1}]
         /\ cmReplies' \in [Nums -> SUBSET {"done", "notfound", "refused", "answer"}]
         /\ "answer" \notin cmReplies'[m] /\ ("notfound" \in cmReplies'[m] => NotFound(m))
         /\ \A n \in Nums : n # m => cmAt'[n] = cmAt[n] /\ cmRuns'[n] = cmRuns[n] /\ cmReplies'[n] = cmReplies[n]
         /\ cmPersona' \in Personas \cup {NoPersona} /\ cmGate' \in {"unset", "on", "off"}
         /\ cmRow' = cmRow => RowFollows'
<1> USE DEF CommandsInv
<1>0. Untouched(m) /\ cmRuns[m] = 0 /\ cmReplies[m] = {} BY DEF RunOnce, Untouched
<1>1. CASE Allowed(m)
  <2>1. /\ Switched(m) /\ PersonaSet(m) /\ AnswersWith(m, IF NotFound(m) THEN "notfound" ELSE "done")
        /\ cmRuns' = [cmRuns EXCEPT ![m] = @ + 1]
    BY <1>1 DEF RunInternalCommand
  <2>2. cmPersona' \in Personas \cup {NoPersona}
    BY <2>1 DEF PersonaSet, CommandsShape
  <2>3. cmGate' \in {"unset", "on", "off"} BY <2>1 DEF Switched, CommandsShape
  <2>4. /\ cmReplies' \in [Nums -> SUBSET {"done", "notfound", "refused", "answer"}]
        /\ cmReplies'[m] = {IF NotFound(m) THEN "notfound" ELSE "done"} /\ \A n \in Nums : n # m => cmReplies'[n] = cmReplies[n]
    BY <1>0, <2>1 DEF AnswersWith, CommandsShape
  <2>5. cmRuns' \in [Nums -> {0, 1}] /\ \A n \in Nums : n # m => cmRuns'[n] = cmRuns[n]
    BY <1>0, <2>1 DEF CommandsShape
  <2>6. CASE Arrivals[m].kind \in {"start", "stop"}
    <3>1. Moved(m, saving) /\ cmCut' = (Saving # {}) BY <1>1, <2>6 DEF RunInternalCommand
    <3>2. /\ cmAt' \in [Nums -> Stages] /\ cmAt'[m] = saving /\ \A n \in Nums : n # m => cmAt'[n] = cmAt[n]
      BY <3>1 DEF Moved, CommandsShape, Stages, InCommand, InAgent
    <3>3. Saving' = Saving \cup {m} BY <3>2 DEF Saving
    <3>4. cmGate' = SaidBy(m) BY <2>1, <2>6 DEF Switched, SaidBy
    <3>5. RowFollows'
      <4> SUFFICES ASSUME ~ cmCut'
                   PROVE  Saving' # {} /\ \A n \in Saving' : Saving' = {n} /\ cmGate' = SaidBy(n)
        BY DEF RowFollows, SaidBy
      <4>1. Saving = {} BY <3>1
      <4> QED BY <3>3, <3>4, <4>1
    <3> QED BY <2>2, <2>3, <2>4, <2>5, <3>2, <3>5
  <2>7. CASE Arrivals[m].kind \notin {"start", "stop"}
    <3>1. Moved(m, after) /\ cmCut' = cmCut BY <1>1, <2>7 DEF RunInternalCommand
    <3>2. /\ cmAt' \in [Nums -> Stages] /\ cmAt'[m] = after /\ \A n \in Nums : n # m => cmAt'[n] = cmAt[n]
      BY <3>1 DEF Moved, CommandsShape, Stages
    <3>3. Saving' = Saving BY <3>1, SavingKept
    <3>4. cmGate' = cmGate BY <2>1, <2>7 DEF Switched
    <3>5. cmRow' = cmRow => RowFollows' BY <3>1, <3>3, <3>4 DEF RowFollows, SaidBy
    <3> QED BY <2>2, <2>3, <2>4, <2>5, <3>2, <3>5
  <2> QED BY <2>6, <2>7
<1>2. CASE ~ Allowed(m)
  <2>1. /\ Moved(m, after) /\ AnswersWith(m, "refused")
        /\ UNCHANGED <<cmGate, cmPersona, cmRuns, cmCut>>
    BY <1>2 DEF RunInternalCommand
  <2>2. /\ cmReplies' \in [Nums -> SUBSET {"done", "notfound", "refused", "answer"}]
        /\ cmReplies'[m] = {"refused"} /\ \A n \in Nums : n # m => cmReplies'[n] = cmReplies[n]
    BY <1>0, <2>1 DEF AnswersWith, CommandsShape
  <2>3. /\ cmAt' \in [Nums -> Stages] /\ cmAt'[m] = after /\ \A n \in Nums : n # m => cmAt'[n] = cmAt[n]
    BY <2>1 DEF Moved, CommandsShape, Stages
  <2>4. Saving' = Saving BY <2>1, SavingKept
  <2>5. cmRow' = cmRow => RowFollows' BY <2>1, <2>4 DEF RowFollows, SaidBy
  <2> QED BY <2>1, <2>2, <2>3, <2>5 DEF CommandsShape
<1> QED BY <1>1, <1>2
-----------------------------------------------------------------------------
(* what is asked of the message that moves; of the others nothing has changed *)
LEMMA OthersKept ==
  ASSUME NEW m \in Nums, CommandsInv, RunOnce(m)',
         \A n \in Nums : n # m => /\ cmAt'[n] = cmAt[n] /\ cmRuns'[n] = cmRuns[n]
                                 /\ cmReplies'[n] = cmReplies[n]
                                 /\ cmOn'[n] = cmOn[n] /\ cmRan'[n] = cmRan[n],
         UNCHANGED <<cmNames, cmSwapped>>
  PROVE  \A n \in Nums : RunOnce(n)'
<1> SUFFICES ASSUME NEW n \in Nums, n # m PROVE RunOnce(n)' OBVIOUS
<1>1. RunOnce(n) BY DEF CommandsInv
<1> QED BY <1>1 DEF RunOnce, Untouched, MayBeAnswered, StillThere

(* a step that leaves the replies, the runs and the marks as they are *)
LEMMA OnlyMoves ==
  ASSUME CommandsInv, NEW m \in Nums, NEW at \in Stages, Moved(m, at), UNCHANGED <<cmDone, cmOn, cmRan, cmNames, cmSwapped>>,
         RunOnce(m)'
  PROVE  /\ cmAt' \in [Nums -> Stages]
         /\ \A n \in Nums : RunOnce(n)'
<1>1. /\ cmAt' \in [Nums -> Stages] /\ \A n \in Nums : n # m => cmAt'[n] = cmAt[n]
  BY DEF Moved, CommandsInv, CommandsShape
<1> QED BY <1>1, OthersKept DEF cmDone

LEMMA MatchKeeps ==
  ASSUME CommandsInv, NEW m \in Nums, CommandMatch(m)
  PROVE  CommandsShape' /\ (\A n \in Nums : RunOnce(n)') /\ RowFollows'
<1> USE DEF CommandsInv
<1>0. /\ cmAt[m] = "queue" /\ Untouched(m) /\ RunOnce(m)
      /\ UNCHANGED <<cmTable, cmNames, cmRan, cmState, cmDone, cmCut, cmSwapped>>
  BY DEF CommandMatch, RunOnce, cmTable, cmSeen
<1>1. PICK at \in {"matched", "agent"} : Moved(m, at) BY DEF CommandMatch
<1>2. /\ cmAt' \in [Nums -> Stages] /\ cmAt'[m] = at /\ \A n \in Nums : n # m => cmAt'[n] = cmAt[n]
  BY <1>1 DEF Moved, CommandsShape, Stages, InCommand
<1>3. \/ at = "matched" /\ cmOn' = [cmOn EXCEPT ![m] = Continues(m)]
      \/ at = "agent" /\ UNCHANGED cmOn
  <2>1. CASE Addressed(m) /\ Matches(m) BY <1>2, <2>1 DEF CommandMatch, Moved, CommandsShape
  <2>2. CASE ~ (Addressed(m) /\ Matches(m)) BY <1>2, <2>2 DEF CommandMatch, Moved, CommandsShape
  <2> QED BY <2>1, <2>2
<1>4. Continues(m) \in BOOLEAN /\ (Continues(m) => StillThere(m)) BY DEF Continues, StillThere
<1>5. /\ cmOn' \in [Nums -> BOOLEAN] /\ (at = "matched" /\ cmOn'[m] => StillThere(m))
      /\ \A n \in Nums : n # m => cmOn'[n] = cmOn[n]
  BY <1>0, <1>3, <1>4 DEF CommandsShape
<1>6. RunOnce(m)' BY <1>0, <1>2, <1>5 DEF RunOnce, Untouched, MayBeAnswered, StillThere, cmDone
<1>7. \A n \in Nums : RunOnce(n)' BY <1>0, <1>2, <1>5, <1>6, OthersKept DEF cmDone
<1>8. RowFollows'
  <2>1. Saving' = Saving BY <1>0, <1>1, SavingKept
  <2> QED BY <1>0, <2>1 DEF RowFollows, SaidBy, cmState
<1> QED BY <1>0, <1>2, <1>5, <1>7, <1>8 DEF CommandsShape, cmTable, cmState, cmDone

LEMMA RunKeeps ==
  ASSUME CommandsInv, NEW m \in Nums, CommandRun(m)
  PROVE  CommandsShape' /\ (\A n \in Nums : RunOnce(n)') /\ RowFollows'
<1> USE DEF CommandsInv
<1>0. cmAt[m] = "matched" /\ Untouched(m) /\ RunOnce(m) /\ UNCHANGED <<cmTable, cmNames, cmOn, cmRow, cmSwapped>>
  BY DEF CommandRun, RunOnce, cmTable
<1>1. CASE Addressed(m) /\ Matches(m)
  <2> DEFINE after == IF cmOn[m] THEN "agent" ELSE "done"
  <2>1. RunInternalCommand(m, "saving", after) /\ Pass(m) BY <1>1 DEF CommandRun
  <2>2. after \in {"agent", "done"} /\ (after = "agent" => cmOn[m]) OBVIOUS
  <2> HIDE DEF after
  <2>3. /\ cmAt' \in [Nums -> Stages] /\ cmAt'[m] \in {"saving", after}
        /\ cmRuns' \in [Nums -> {0, 1}]
        /\ cmReplies' \in [Nums -> SUBSET {"done", "notfound", "refused", "answer"}]
        /\ "answer" \notin cmReplies'[m] /\ ("notfound" \in cmReplies'[m] => NotFound(m))
        /\ \A n \in Nums : n # m => cmAt'[n] = cmAt[n] /\ cmRuns'[n] = cmRuns[n] /\ cmReplies'[n] = cmReplies[n]
        /\ cmPersona' \in Personas \cup {NoPersona} /\ cmGate' \in {"unset", "on", "off"}
        /\ RowFollows'
    BY <1>0, <2>1, <2>2, CommandRunOnce
  <2>4. /\ cmRan' \in [Nums -> BOOLEAN] /\ cmRan'[m] = cmOn[m]
        /\ \A n \in Nums : n # m => cmRan'[n] = cmRan[n]
    BY <2>1 DEF Pass, CommandsShape
  <2>5. cmOn[m] => MayBeAnswered(m)' BY <1>0, <2>3 DEF RunOnce, StillThere, NotFound, MayBeAnswered
  <2>6. RunOnce(m)' BY <1>0, <2>2, <2>3, <2>4, <2>5 DEF RunOnce
  <2>7. \A n \in Nums : RunOnce(n)' BY <1>0, <2>3, <2>4, <2>6, OthersKept
  <2> QED BY <1>0, <2>3, <2>4, <2>7 DEF CommandsShape, cmTable
<1>2. CASE ~ (Addressed(m) /\ Matches(m))
  <2>1. Moved(m, "agent") /\ UNCHANGED <<cmGate, cmPersona, cmDone, cmRan, cmCut>>
    BY <1>2 DEF CommandRun
  <2>2. cmAt'[m] = "agent" BY <2>1 DEF Moved, CommandsShape
  <2>3. RunOnce(m)' BY <1>0, <2>1, <2>2 DEF RunOnce, Untouched, MayBeAnswered, StillThere, cmDone
  <2>4. cmAt' \in [Nums -> Stages] /\ \A n \in Nums : RunOnce(n)'
    BY <1>0, <2>1, <2>3, OnlyMoves DEF Stages
  <2>5. Saving' = Saving BY <1>0, <2>1, SavingKept
  <2>6. RowFollows' BY <1>0, <2>1, <2>5 DEF RowFollows, SaidBy
  <2> QED BY <1>0, <2>1, <2>4, <2>6 DEF CommandsShape, cmTable, cmDone
<1> QED BY <1>1, <1>2

LEMMA SaveKeeps ==
  ASSUME CommandsInv, NEW m \in Nums, SaveGate(m)
  PROVE  CommandsShape' /\ (\A n \in Nums : RunOnce(n)') /\ RowFollows'
<1> USE DEF CommandsInv
<1>0. /\ cmAt[m] \in {"saving", "agentsaving"} /\ RunOnce(m) /\ m \in Saving
      /\ UNCHANGED <<cmTable, cmNames, cmOn, cmRan, cmGate, cmPersona, cmDone, cmSwapped>>
  BY DEF SaveGate, Saving, cmTable, cmSeen
<1>1. PICK at \in {"agent", "done"} : Moved(m, at) /\ (at = "agent" => cmAt[m] = "saving" /\ cmOn[m])
  BY DEF SaveGate
<1>2. /\ cmAt' \in [Nums -> Stages] /\ cmAt'[m] = at /\ \A n \in Nums : n # m => cmAt'[n] = cmAt[n]
  BY <1>1 DEF Moved, CommandsShape, Stages
<1>3. RunOnce(m)' BY <1>0, <1>1, <1>2 DEF RunOnce, MayBeAnswered, cmDone
<1>4. \A n \in Nums : RunOnce(n)' BY <1>0, <1>2, <1>3, OthersKept DEF cmDone
<1>5. Saving' = Saving \ {m} BY <1>2 DEF Saving
<1>6. RowFollows'
  <2> SUFFICES ASSUME ~ cmCut' PROVE Saving' = {} /\ cmRow' = cmGate'
    BY DEF RowFollows
  <2>1. ~ cmCut /\ cmRow' = SaidBy(m) BY DEF SaveGate, SaidBy, cmSeen
  <2>2. Saving = {m} /\ cmGate = SaidBy(m) BY <1>0, <2>1 DEF RowFollows
  <2> QED BY <1>0, <1>5, <2>1, <2>2
<1>7. cmRow' \in {"unset", "on", "off"} BY DEF SaveGate, CommandsShape
<1> QED BY <1>0, <1>2, <1>4, <1>6, <1>7 DEF CommandsShape, cmTable, cmDone

LEMMA TurnKeeps ==
  ASSUME CommandsInv, NEW m \in Nums, AgentTurn(m)
  PROVE  CommandsShape' /\ (\A n \in Nums : RunOnce(n)') /\ RowFollows'
<1> USE DEF CommandsInv
<1>0. cmAt[m] = "agent" /\ RunOnce(m) /\ UNCHANGED <<cmTable, cmNames, cmOn, cmRan, cmState, cmDone, cmCut, cmSwapped>>
  BY DEF AgentTurn, cmTable, cmSeen
<1>1. PICK at \in {"done", "answering", "routing"} :
        Moved(m, at) /\ (at = "answering" => cmRan[m]) /\ (at = "routing" => cmRan[m] = FALSE)
  BY DEF AgentTurn, CommandsShape
<1>2. cmAt'[m] = at BY <1>1 DEF Moved, CommandsShape
<1>3. RunOnce(m)' BY <1>0, <1>1, <1>2 DEF RunOnce, Untouched, MayBeAnswered, cmDone
<1>4. cmAt' \in [Nums -> Stages] /\ \A n \in Nums : RunOnce(n)'
  BY <1>0, <1>1, <1>3, OnlyMoves DEF Stages, InAgent
<1>5. Saving' = Saving BY <1>0, <1>1, SavingKept
<1>6. RowFollows' BY <1>0, <1>5 DEF RowFollows, SaidBy, cmState
<1> QED BY <1>0, <1>4, <1>6 DEF CommandsShape, cmTable, cmState, cmDone

LEMMA RouteKeeps ==
  ASSUME CommandsInv, NEW m \in Nums, RouteMessage(m)
  PROVE  CommandsShape' /\ (\A n \in Nums : RunOnce(n)') /\ RowFollows'
<1> USE DEF CommandsInv
<1>0. cmAt[m] = "routing" /\ Untouched(m) /\ RunOnce(m) /\ UNCHANGED <<cmTable, cmNames, cmOn, cmRan, cmRow, cmSwapped>>
  BY DEF RouteMessage, RunOnce, cmTable
<1>1. CASE Matches(m)
  <2>1. RunInternalCommand(m, "agentsaving", "done") BY <1>1 DEF RouteMessage
  <2>2. /\ cmAt' \in [Nums -> Stages] /\ cmAt'[m] \in {"agentsaving", "done"}
        /\ cmRuns' \in [Nums -> {0, 1}]
        /\ cmReplies' \in [Nums -> SUBSET {"done", "notfound", "refused", "answer"}]
        /\ "answer" \notin cmReplies'[m] /\ ("notfound" \in cmReplies'[m] => NotFound(m))
        /\ \A n \in Nums : n # m => cmAt'[n] = cmAt[n] /\ cmRuns'[n] = cmRuns[n] /\ cmReplies'[n] = cmReplies[n]
        /\ cmPersona' \in Personas \cup {NoPersona} /\ cmGate' \in {"unset", "on", "off"}
        /\ RowFollows'
    BY <1>0, <2>1, CommandRunOnce
  <2>3. RunOnce(m)' BY <1>0, <2>2 DEF RunOnce, MayBeAnswered
  <2>4. \A n \in Nums : RunOnce(n)' BY <1>0, <2>2, <2>3, OthersKept
  <2> QED BY <1>0, <2>2, <2>4 DEF CommandsShape, cmTable
<1>2. CASE ~ Matches(m)
  <2>1. Moved(m, "answering") /\ UNCHANGED <<cmGate, cmPersona, cmDone, cmCut>>
    BY <1>2 DEF RouteMessage
  <2>2. cmAt'[m] = "answering" BY <2>1 DEF Moved, CommandsShape
  <2>3. RunOnce(m)' BY <1>0, <2>1, <2>2 DEF RunOnce, Untouched, MayBeAnswered, cmDone
  <2>4. cmAt' \in [Nums -> Stages] /\ \A n \in Nums : RunOnce(n)'
    BY <1>0, <2>1, <2>3, OnlyMoves DEF Stages, InAgent
  <2>5. Saving' = Saving BY <1>0, <2>1, SavingKept
  <2>6. RowFollows' BY <1>0, <2>1, <2>5 DEF RowFollows, SaidBy
  <2> QED BY <1>0, <2>1, <2>4, <2>6 DEF CommandsShape, cmTable, cmDone
<1> QED BY <1>1, <1>2

LEMMA AgentAnswerKeeps ==
  ASSUME CommandsInv, NEW m \in Nums, AgentAnswer(m)
  PROVE  CommandsShape' /\ (\A n \in Nums : RunOnce(n)') /\ RowFollows'
<1> USE DEF CommandsInv
<1>0. /\ cmAt[m] = "answering" /\ Moved(m, "done") /\ RunOnce(m)
      /\ UNCHANGED <<cmTable, cmNames, cmOn, cmRan, cmState, cmRuns, cmCut, cmSwapped>>
  BY DEF AgentAnswer, cmTable, cmSeen
<1>1. /\ cmAt' \in [Nums -> Stages] /\ cmAt'[m] = "done" /\ \A n \in Nums : n # m => cmAt'[n] = cmAt[n]
  BY <1>0 DEF Moved, CommandsShape, Stages
<1>2. /\ cmReplies' \in [Nums -> SUBSET {"done", "notfound", "refused", "answer"}]
      /\ cmReplies'[m] \in {cmReplies[m], cmReplies[m] \cup {"answer"}}
      /\ \A n \in Nums : n # m => cmReplies'[n] = cmReplies[n]
  BY DEF AgentAnswer, AnswersWith, CommandsShape
<1>3. /\ cmReplies[m] = {} \/ MayBeAnswered(m)'
      /\ MayBeAnswered(m) => MayBeAnswered(m)'
  BY <1>0, <1>2 DEF RunOnce, MayBeAnswered
<1>4. RunOnce(m)' BY <1>0, <1>1, <1>2, <1>3 DEF RunOnce
<1>5. \A n \in Nums : RunOnce(n)' BY <1>0, <1>1, <1>2, <1>4, OthersKept
<1>6. Saving' = Saving BY <1>0, SavingKept
<1>7. RowFollows' BY <1>0, <1>6 DEF RowFollows, SaidBy, cmState
<1> QED BY <1>0, <1>1, <1>2, <1>5, <1>7 DEF CommandsShape, cmTable, cmState

LEMMA ChangeKeeps ==
  ASSUME CommandsInv, Retable
  PROVE  CommandsShape' /\ (\A n \in Nums : RunOnce(n)') /\ RowFollows'
<1> USE DEF CommandsInv
<1>0. UNCHANGED <<cmAt, cmOn, cmRan, cmState, cmDone, cmCut>> BY DEF Retable
<1>1. cmNames' \subseteq Personas /\ cmSwapped' \subseteq Nums /\ cmSwapped \subseteq cmSwapped'
  BY DEF Retable, CommandsShape
(* a persona that goes while a message waits for its second match is noticed *)
<1>2. ASSUME NEW n \in Nums, cmAt[n] = "matched", StillThere(n) PROVE StillThere(n)'
  <2>1. CASE UNCHANGED cmNames BY <1>1, <1>2, <2>1 DEF StillThere
  <2>2. CASE \E p \in Personas :
               /\ cmNames' \in {cmNames \cup {p}, cmNames \ {p}} \ {cmNames}
               /\ cmSwapped' = cmSwapped \cup {m \in Nums : cmAt[m] = "matched" /\ Arrivals[m].name = p}
    BY <1>2, <2>2 DEF StillThere
  <2> QED BY <2>1, <2>2 DEF Retable
<1>3. ASSUME NEW n \in Nums PROVE RunOnce(n)'
  <2>1. RunOnce(n) OBVIOUS
  <2>2. MayBeAnswered(n) => MayBeAnswered(n)' BY <1>0, <1>1 DEF MayBeAnswered, cmDone
  <2> QED BY <1>0, <1>2, <2>1, <2>2 DEF RunOnce, Untouched, cmDone
<1>4. RowFollows' BY <1>0 DEF RowFollows, Saving, SaidBy, cmState
<1> QED BY <1>0, <1>1, <1>3, <1>4 DEF CommandsShape, cmState, cmDone

LEMMA RestartKeeps ==
  ASSUME CommandsInv, CommandsRestart
  PROVE  CommandsShape' /\ (\A n \in Nums : RunOnce(n)') /\ RowFollows'
<1> USE DEF CommandsInv
<1>0. /\ UNCHANGED <<cmTable, cmOn, cmRan, cmRow, cmPersona, cmDone, cmSwapped>> /\ cmGate' = cmRow
      /\ cmAt' = [m \in Nums |-> IF cmAt[m] = "queue" THEN "queue" ELSE "done"]
  BY DEF CommandsRestart
<1>1. /\ cmAt' \in [Nums -> Stages] /\ Saving' = {}
      /\ \A n \in Nums : cmAt'[n] = "done" \/ (cmAt'[n] = "queue" /\ cmAt[n] = "queue")
  BY <1>0 DEF Saving, Stages
<1>2. ASSUME NEW n \in Nums PROVE RunOnce(n)'
  <2>1. RunOnce(n) OBVIOUS
  <2> QED BY <1>0, <1>1, <2>1 DEF RunOnce, Untouched, MayBeAnswered, cmDone
<1>3. RowFollows' BY <1>0, <1>1 DEF RowFollows
<1> QED BY <1>0, <1>1, <1>2, <1>3 DEF CommandsShape, cmTable, cmDone

(* Where a message is, says what its command has done so far (bot/domains.go, command_run.go). *)
THEOREM CommandsInvariant == CommandsSpec => []CommandsInv
<1>1. CommandsInv /\ [CommandsNext]_cmVars => CommandsInv'
  <2> SUFFICES ASSUME CommandsInv, [CommandsNext]_cmVars PROVE CommandsInv' OBVIOUS
  <2>1. CommandsBounds' BY CommandsBounded DEF CommandsInv
  <2>2. CASE UNCHANGED cmVars
    <3> USE <2>2 DEF cmVars, cmTable, cmState, cmDone, cmSeen
    <3>1. CommandsShape' BY DEF CommandsInv, CommandsShape
    <3>2. \A n \in Nums : RunOnce(n)' BY DEF CommandsInv, RunOnce, Untouched, MayBeAnswered, StillThere
    <3>3. RowFollows' BY DEF CommandsInv, RowFollows, Saving, SaidBy
    <3> QED BY <2>1, <3>1, <3>2, <3>3 DEF CommandsInv
  <2>3. CASE CommandsNext
    <3>1. CommandsShape' /\ (\A n \in Nums : RunOnce(n)') /\ RowFollows'
      BY <2>3, MatchKeeps, RunKeeps, SaveKeeps, TurnKeeps, RouteKeeps, AgentAnswerKeeps, ChangeKeeps, RestartKeeps
         DEF CommandsNext
    <3> QED BY <2>1, <3>1 DEF CommandsInv
  <2> QED BY <2>2, <2>3
<1> QED BY CommandsStart, <1>1, PTL DEF CommandsSpec

(* The variables stay in their sets, for every sequence of messages. *)
THEOREM CommandsTyping == CommandsSpec => []CommandsTypeOK
<1>1. CommandsInv => CommandsTypeOK
  <2> SUFFICES ASSUME CommandsInv PROVE CommandsTypeOK OBVIOUS
  <2>1. \A m \in Nums : cmAt[m] \in Stages BY DEF CommandsInv, CommandsShape
  <2>2. \A m \in Nums : cmReplies[m] \subseteq {"done", "notfound", "refused", "answer"}
    BY DEF CommandsInv, CommandsShape
  <2> QED BY <2>1, <2>2 DEF CommandsInv, CommandsShape, CommandsBounds, CommandsTypeOK, Stages
<1> QED BY CommandsInvariant, <1>1, PTL

(* A command runs once.  The model answers no message that a command has answered, but for #start,
   and a #switch that was carried out or refused, or whose persona came or went between its two
   matches.  The row of the chat's switch says what the memory says once the last #start or #stop is
   through, if that one overlapped no other and was saved (bot/domains.go handleCommand,
   speech/command_run.go, speech/dispatch.go RouteMessageNow). *)
THEOREM CommandsOnce == CommandsSpec => []CommandsTakeEffectOnce
<1>1. CommandsInv => CommandsTakeEffectOnce
  <2> SUFFICES ASSUME CommandsInv PROVE CommandsTakeEffectOnce OBVIOUS
  <2>1. \A m \in Nums : cmRuns[m] \in {0, 1} BY DEF CommandsInv, CommandsShape
  <2>2. \A m \in Nums : "answer" \in cmReplies[m] /\ cmReplies[m] # {"answer"} => MayBeAnswered(m)
    BY DEF CommandsInv, RunOnce
  <2>3. Saving = {} /\ ~ cmCut => cmRow = cmGate BY DEF CommandsInv, RowFollows
  <2> QED BY <2>1, <2>2, <2>3 DEF CommandsTakeEffectOnce, MayBeAnswered
<1> QED BY CommandsInvariant, <1>1, PTL

-----------------------------------------------------------------------------
(* The six together, and the flow beside them *)

(* The text of a reply and the pictures it was given stay what they are, round after round
   (mcp_loop.go, the loop's variables). *)
THEOREM ToolTyping == ToolSpec => []ToolTypeOK
<1>1. ToolInv => ToolTypeOK BY DEF ToolInv, ToolShape, PictureRule, ToolTypeOK
<1> QED BY ToolInvariant, <1>1, PTL

LEMMA OneMovesAtATime ==
  /\ RequestsInit => ChatInit /\ NamesInit /\ PanelInit /\ LlmInit /\ ToolInit /\ CommandsInit
  /\ [RequestsNext]_requestsVars =>
       /\ [ChatNext]_chVars /\ [NamesNext]_nmVars /\ [PanelNext]_pnVars
       /\ [LlmNext]_lgVars /\ [ToolNext]_tlVars /\ [CommandsNext]_cmVars
BY DEF RequestsInit, RequestsNext, requestsVars

(* Every variable of the six components stays in its set, for every value of the constants,
   whichever component runs (the cache and the requests of a chat, its names, the panel, the
   guard, the tool rounds, the commands). *)
THEOREM RequestsTyped == RequestsSpec => []RequestsTypeOK
<1>1. RequestsSpec => ChatSpec BY OneMovesAtATime, PTL DEF RequestsSpec, ChatSpec
<1>2. RequestsSpec => NamesSpec BY OneMovesAtATime, PTL DEF RequestsSpec, NamesSpec
<1>3. RequestsSpec => PanelSpec BY OneMovesAtATime, PTL DEF RequestsSpec, PanelSpec
<1>4. RequestsSpec => LlmSpec BY OneMovesAtATime, PTL DEF RequestsSpec, LlmSpec
<1>5. RequestsSpec => ToolSpec BY OneMovesAtATime, PTL DEF RequestsSpec, ToolSpec
<1>6. RequestsSpec => CommandsSpec BY OneMovesAtATime, PTL DEF RequestsSpec, CommandsSpec
<1> QED BY <1>1, <1>2, <1>3, <1>4, <1>5, <1>6, ChatTypeCorrect, NamesTypeCorrect, PanelTypeCorrect,
           LlmTyping, ToolTyping, CommandsTyping, PTL DEF RequestsTypeOK
=============================================================================

--------------------------- MODULE ChatStoreProofs --------------------------
(***************************************************************************)
(* The message cache of a chat implements ChatWindow: for every capacity,    *)
(* every set of messages and every number of faults, the ring with its       *)
(* wrap, its eviction and its set of seen ids is the window of the messages  *)
(* added last.  And a request says what the chat says: the second half goes  *)
(* from the ring to the window of a request, its tokens and its rows.        *)
(***************************************************************************)
EXTENDS ChatStore, Stepwise, FiniteSetTheorems, SequenceTheorems, TLAPS

Entry == [msg : Ids, row : 0..Cardinality(Ids)]

Slots   == 0..ChatCap - 1
Occupied == {i \in Slots : chFilled \/ i < chAt}

(* the ring: its occupied places hold different messages, and these are the ones seen *)
RingRule ==
  /\ chBuf \in [Slots -> Entry \cup {NoEntry}] /\ chAt \in Slots /\ chFilled \in BOOLEAN
  /\ \A i \in Slots : i \in Occupied <=> chBuf[i] \in Entry
  /\ \A i, j \in Occupied : chBuf[i].msg = chBuf[j].msg => i = j
  /\ chSeen = {chBuf[i].msg : i \in Occupied}

(* the table has one row for a message *)
RowRule == chRows \in Seq(Ids) /\ \A i, j \in DOMAIN chRows : chRows[i] = chRows[j] => i = j

(* what is on the way to the ring *)
WayRule ==
  /\ chLine \in Seq(Entry) /\ chReply \in Entry \cup {NoEntry}
  /\ chAgent = [f \in {"at", "trigger", "window", "reply", "mode"} |-> chAgent[f]]
  /\ chAgent.at = "said" => chAgent.reply \in Entry
  /\ chStarts \in Nat

ChatInv == RingRule /\ RowRule /\ WayRule

InRing == IF chFilled THEN ChatCap ELSE chAt
Place(i) == IF chFilled THEN (chAt + i - 1) % ChatCap ELSE i - 1

-----------------------------------------------------------------------------
(* Numbers *)

LEMMA Small == ASSUME NEW n \in Nat, n > 0, NEW x \in 0..n - 1 PROVE x % n = x
  OBVIOUS

LEMMA Wrapped == ASSUME NEW n \in Nat, n > 0, NEW x \in n..2 * n - 1 PROVE x % n = x - n
  OBVIOUS

LEMMA Cap == ChatCap \in Nat /\ ChatCap > 0 /\ NoEntry \notin Entry /\ IsFiniteSet(Ids)
  BY ChatAssumption DEF NoEntry, Entry

(* Reading a full ring from its oldest place goes once around. *)
LEMMA Once ==
  ASSUME NEW n \in Nat, n > 0, NEW x \in 0..2 * n - 1
  PROVE  x % n = IF x < n THEN x ELSE x - n
<1>1. CASE x < n
  <2>1. x \in 0..n - 1 BY <1>1
  <2>2. x % n = x BY <2>1, Small, Zenon
  <2> QED BY <1>1, <2>2
<1>2. CASE ~ (x < n)
  <2>1. x \in n..2 * n - 1 BY <1>2
  <2>2. x % n = x - n BY <2>1, Wrapped, Zenon
  <2> QED BY <1>2, <2>2
<1> QED BY <1>1, <1>2

LEMMA Around ==
  ASSUME NEW at \in Slots, NEW i \in 1..ChatCap
  PROVE  (at + i - 1) % ChatCap = IF at + i - 1 < ChatCap THEN at + i - 1 ELSE at + i - 1 - ChatCap
<1>1. ChatCap \in Nat /\ ChatCap > 0 BY Cap
<1>2. at + i - 1 \in 0..2 * ChatCap - 1 BY <1>1 DEF Slots
<1>3. \A x \in 0..2 * ChatCap - 1 : x % ChatCap = IF x < ChatCap THEN x ELSE x - ChatCap
  BY <1>1, Once
<1>4. PICK y \in 0..2 * ChatCap - 1 : y = at + i - 1 BY <1>2
<1>5. y % ChatCap = IF y < ChatCap THEN y ELSE y - ChatCap BY <1>3, <1>4
<1>6. at \in Int /\ i \in Int BY <1>1 DEF Slots
<1> QED BY <1>1, <1>4, <1>5, <1>6

LEMMA OneFurther ==
  ASSUME NEW at \in Slots
  PROVE  (at + 1) % ChatCap = IF at + 1 = ChatCap THEN 0 ELSE at + 1
<1>1. ChatCap \in Nat /\ ChatCap > 0 /\ at \in Nat /\ at < ChatCap BY Cap DEF Slots
<1>2. CASE at + 1 = ChatCap
  <2>1. ChatCap \in ChatCap..2 * ChatCap - 1 BY <1>1
  <2>2. ChatCap % ChatCap = ChatCap - ChatCap BY <1>1, <2>1, Wrapped, Zenon
  <2> QED BY <1>1, <1>2, <2>2
<1>3. CASE at + 1 # ChatCap
  <2>1. at + 1 \in 0..ChatCap - 1 BY <1>1, <1>3
  <2>2. (at + 1) % ChatCap = at + 1 BY <1>1, <2>1, Small, Zenon
  <2> QED BY <1>3, <2>2
<1> QED BY <1>2, <1>3

-----------------------------------------------------------------------------
(* The window that is read *)

LEMMA Read ==
  ASSUME RingRule
  PROVE  /\ InRing \in 0..ChatCap /\ GetAll = [i \in 1..InRing |-> chBuf[Place(i)]]
         /\ \A i \in 1..InRing : Place(i) \in Occupied
         /\ \A i, j \in 1..InRing : Place(i) = Place(j) => i = j
<1>1. ChatCap \in Nat /\ ChatCap > 0 /\ chAt \in Slots /\ chFilled \in BOOLEAN /\ chAt \in Nat /\ chAt < ChatCap
  BY Cap DEF RingRule, Slots
<1>2. CASE chFilled
  <2>1. InRing = ChatCap /\ GetAll = [i \in 1..InRing |-> chBuf[Place(i)]] BY <1>2 DEF InRing, GetAll, Place
  <2>2. \A i \in 1..ChatCap : Place(i) = IF chAt + i - 1 < ChatCap THEN chAt + i - 1 ELSE chAt + i - 1 - ChatCap
    BY <1>1, <1>2, Around DEF Place
  <2>3. \A i \in 1..ChatCap : Place(i) \in Occupied BY <1>1, <1>2, <2>2 DEF Occupied, Slots
  <2>4. \A i, j \in 1..ChatCap : Place(i) = Place(j) => i = j BY <1>1, <2>2
  <2> QED BY <1>1, <2>1, <2>3, <2>4
<1>3. CASE ~ chFilled
  <2>1. InRing = chAt /\ \A i \in 1..chAt : Place(i) = i - 1 BY <1>3 DEF InRing, Place
  <2>2. GetAll = [i \in 1..chAt |-> chBuf[Place(i)]] BY <1>3, <2>1 DEF GetAll
  <2>3. \A i \in 1..chAt : Place(i) \in Occupied BY <1>1, <2>1 DEF Occupied, Slots
  <2>4. \A i, j \in 1..chAt : Place(i) = Place(j) => i = j BY <1>1, <2>1
  <2> QED BY <1>1, <2>1, <2>2, <2>3, <2>4
<1> QED BY <1>1, <1>2, <1>3

LEMMA WindowShape ==
  ASSUME RingRule
  PROVE  /\ GetAll \in Seq(Entry) /\ Len(GetAll) = InRing /\ InRing <= ChatCap
         /\ \A i \in 1..InRing : GetAll[i].msg \in chSeen
         /\ \A i, j \in 1..InRing : GetAll[i].msg = GetAll[j].msg => i = j
<1>1. \A i \in 1..InRing : chBuf[Place(i)] \in Entry /\ chBuf[Place(i)].msg \in chSeen
  BY Read DEF RingRule, Occupied
<1>2. \A i \in 1..InRing : GetAll[i] = chBuf[Place(i)] BY Read
<1>3. GetAll \in [1..InRing -> Entry] BY <1>1, Read
<1>4. InRing \in Nat /\ InRing <= ChatCap BY Read, Cap
<1> HIDE DEF InRing, GetAll, Place
<1>5. GetAll \in Seq(Entry) /\ Len(GetAll) = InRing BY <1>3, <1>4
<1>6. \A i, j \in 1..InRing : GetAll[i].msg = GetAll[j].msg => i = j
  <2> TAKE i, j \in 1..InRing
  <2>1. Place(i) \in Occupied /\ Place(j) \in Occupied BY Read
  <2> QED BY <2>1, <1>2, Read DEF RingRule
<1> QED BY <1>1, <1>2, <1>4, <1>5, <1>6

WindowRule ==
  /\ GetAll \in Seq(Entry) /\ Len(GetAll) = InRing /\ InRing <= ChatCap /\ InRing \in Nat
  /\ \A i \in 1..InRing : GetAll[i] = chBuf[Place(i)]

LEMMA WindowNext ==
  RingRule' =>
    /\ GetAll' \in Seq(Entry) /\ Len(GetAll') = InRing' /\ InRing' <= ChatCap /\ InRing' \in Nat
    /\ \A i \in 1..InRing' : GetAll'[i] = (chBuf[Place(i)])'
<1>1. RingRule => WindowRule BY Cap, WindowShape, Read DEF WindowRule
<1>2. RingRule' => WindowRule' BY <1>1, PTL
<1> QED BY <1>2 DEF WindowRule

DistinctRule == \A i, j \in DOMAIN GetAll : GetAll[i].msg = GetAll[j].msg => i = j

LEMMA DistinctNext ==
  RingRule' => \A i, j \in DOMAIN GetAll' : GetAll'[i].msg = GetAll'[j].msg => i = j
<1>1. RingRule => DistinctRule
  <2> SUFFICES ASSUME RingRule PROVE DistinctRule OBVIOUS
  <2>1. DOMAIN GetAll = 1..InRing BY Read
  <2> QED BY <2>1, WindowShape DEF DistinctRule
<1>2. RingRule' => DistinctRule' BY <1>1, PTL
<1> QED BY <1>2 DEF DistinctRule

LEMMA SameWindow ==
  ASSUME NEW S, NEW s \in Seq(S), NEW t \in Seq(S), Len(s) = Len(t), \A i \in 1..Len(s) : s[i] = t[i]
  PROVE  s = t
  OBVIOUS

-----------------------------------------------------------------------------
(* The ring takes a message *)

(* The last places of a full window move up by one; one that is not full grows. *)
Newest(s, n) == SubSeq(s, Len(s) - (IF Len(s) < n THEN Len(s) ELSE n) + 1, Len(s))

LEMMA NewestOfGrown ==
  ASSUME NEW S, NEW s \in Seq(S), NEW e \in S, NEW n \in Nat, n > 0, Len(s) <= n
  PROVE  /\ Newest(Append(s, e), n) \in Seq(S)
         /\ Len(Newest(Append(s, e), n)) = IF Len(s) < n THEN Len(s) + 1 ELSE n
         /\ Newest(Append(s, e), n)[IF Len(s) < n THEN Len(s) + 1 ELSE n] = e
         /\ \A i \in 1..(IF Len(s) < n THEN Len(s) + 1 ELSE n) - 1 :
              Newest(Append(s, e), n)[i] = IF Len(s) < n THEN s[i] ELSE s[i + 1]
<1> DEFINE t == Append(s, e)
<1>1. t \in Seq(S) /\ Len(t) = Len(s) + 1 /\ t[Len(s) + 1] = e /\ Len(s) \in Nat
      /\ \A i \in 1..Len(s) : t[i] = s[i]
  OBVIOUS
<1> HIDE DEF t
<1>2. CASE Len(s) < n
  <2>1. Newest(t, n) = SubSeq(t, 1, Len(t))
    <3> DEFINE k == IF Len(t) < n THEN Len(t) ELSE n
    <3>1. k = Len(t) /\ Len(t) - k + 1 = 1 BY <1>1, <1>2
    <3>2. Newest(t, n) = SubSeq(t, Len(t) - k + 1, Len(t)) BY DEF Newest
    <3> HIDE DEF k
    <3> QED BY <3>1, <3>2
  <2>2. SubSeq(t, 1, Len(t)) = t BY <1>1
  <2> QED BY <1>1, <1>2, <2>1, <2>2 DEF t
<1>3. CASE Len(s) = n
  <2>1. Newest(t, n) = SubSeq(t, 2, Len(s) + 1)
    BY <1>1, <1>3 DEF Newest
  <2> DEFINE g == SubSeq(t, 2, Len(s) + 1)
  <2>2. g \in Seq(S) /\ Len(g) = Len(s) /\ \A i \in 1..Len(s) : g[i] = t[i + 1] BY <1>1, <1>3
  <2> HIDE DEF g
  <2>3. g \in Seq(S) /\ Len(g) = n /\ g[n] = e /\ \A i \in 1..n - 1 : g[i] = s[i + 1]
    BY <1>1, <1>3, <2>2
  <2> QED BY <1>3, <2>1, <2>3 DEF g, t
<1> QED BY <1>1, <1>2, <1>3

(* one entry more: the oldest leaves once there is no room *)
Grows(s, e) ==
  Len(s) <= ChatCap =>
    /\ Newest(Append(s, e), ChatCap) \in Seq(Entry)
    /\ Len(Newest(Append(s, e), ChatCap)) = IF Len(s) < ChatCap THEN Len(s) + 1 ELSE ChatCap
    /\ Newest(Append(s, e), ChatCap)[IF Len(s) < ChatCap THEN Len(s) + 1 ELSE ChatCap] = e
    /\ \A i \in 1..(IF Len(s) < ChatCap THEN Len(s) + 1 ELSE ChatCap) - 1 :
         Newest(Append(s, e), ChatCap)[i] = IF Len(s) < ChatCap THEN s[i] ELSE s[i + 1]

LEMMA WindowGrows == ASSUME NEW e \in Entry, NEW s \in Seq(Entry) PROVE Grows(s, e)
<1> SUFFICES ASSUME Len(s) <= ChatCap PROVE Grows(s, e) BY DEF Grows
<1>1. ChatCap \in Nat /\ ChatCap > 0 BY Cap
<1> QED BY <1>1, NewestOfGrown DEF Grows

LEMMA RingKept ==
  ASSUME RingRule, NEW e \in Entry, RingAdd(e), ~ HasSeen(e.msg)
  PROVE  RingRule'
<1> DEFINE old == chBuf[chAt].msg
<1>1. /\ chBuf \in [Slots -> Entry \cup {NoEntry}] /\ chAt \in Slots /\ chFilled \in BOOLEAN
      /\ chBuf' = [chBuf EXCEPT ![chAt] = e] /\ chSeen' = (chSeen \ {old}) \cup {e.msg}
      /\ chAt' = (chAt + 1) % ChatCap /\ chFilled' = (chFilled \/ chAt + 1 = ChatCap)
      /\ e.msg \notin chSeen
  BY DEF RingRule, RingAdd, HasSeen
<1>2. ChatCap \in Nat /\ ChatCap > 0 /\ NoEntry \notin Entry /\ NoEntry.msg \notin Ids
  BY Cap, ChatAssumption DEF NoEntry
<1>3. chAt' = IF chAt + 1 = ChatCap THEN 0 ELSE chAt + 1 BY <1>1, OneFurther
<1>4. chAt' \in Slots /\ chFilled' \in BOOLEAN BY <1>1, <1>2, <1>3 DEF Slots
<1>5. chBuf' \in [Slots -> Entry \cup {NoEntry}] /\ chBuf'[chAt] = e
      /\ \A i \in Slots \ {chAt} : chBuf'[i] = chBuf[i]
  BY <1>1
<1>6. Occupied' = Occupied \cup {chAt}
  <2>1. CASE chFilled BY <2>1, <1>1 DEF Occupied
  <2>2. CASE ~ chFilled /\ chAt + 1 = ChatCap
    <3>1. \A i \in Slots : i < chAt \/ i = chAt BY <1>1, <1>2, <2>2 DEF Slots
    <3> QED BY <3>1, <1>1, <2>2 DEF Occupied
  <2>3. CASE ~ chFilled /\ chAt + 1 # ChatCap
    <3>1. ~ chFilled' /\ chAt' = chAt + 1 BY <1>1, <1>3, <2>3
    <3>2. \A i \in Slots : i < chAt + 1 <=> i < chAt \/ i = chAt BY <1>1, <1>2 DEF Slots
    <3> QED BY <3>1, <3>2, <1>1, <2>3 DEF Occupied, Slots
  <2> QED BY <1>1, <2>1, <2>2, <2>3
<1>7. \A i \in Occupied : chBuf[i] \in Entry /\ chBuf[i].msg \in chSeen /\ i \in Slots BY DEF RingRule, Occupied
<1>8. \A i \in Slots : i \in Occupied' <=> chBuf'[i] \in Entry
  BY <1>1, <1>5, <1>6 DEF RingRule
<1>9. \A i, j \in Occupied' : chBuf'[i].msg = chBuf'[j].msg => i = j
  BY <1>1, <1>5, <1>6, <1>7 DEF RingRule
<1>10. chSeen' = {chBuf'[i].msg : i \in Occupied'}
  <2>1. chSeen = {chBuf[i].msg : i \in Occupied} /\ \A i, j \in Occupied : chBuf[i].msg = chBuf[j].msg => i = j
    BY DEF RingRule
  <2>2. chAt \in Occupied \/ chBuf[chAt] = NoEntry BY <1>1 DEF RingRule
  <2>3. \A i \in Occupied : chBuf[i].msg \in Ids BY <1>7 DEF Entry
  <2>4. \A i \in Occupied \ {chAt} : chBuf[i].msg # old BY <1>2, <2>1, <2>2, <2>3
  <2>5. chSeen \ {old} = {chBuf[i].msg : i \in Occupied \ {chAt}} BY <1>2, <2>1, <2>2, <2>3, <2>4
  <2>6. {chBuf'[i].msg : i \in Occupied'} = {chBuf[i].msg : i \in Occupied \ {chAt}} \cup {e.msg}
    BY <1>5, <1>6, <1>7
  <2> QED BY <1>1, <2>5, <2>6
<1> QED BY <1>4, <1>5, <1>8, <1>9, <1>10 DEF RingRule

LEMMA RingAdds ==
  ASSUME RingRule, NEW e \in Entry, RingAdd(e), ~ HasSeen(e.msg), UNCHANGED chStarts
  PROVE  CachePromise!Add(e)
<1>1. RingRule' BY RingKept
<1>2. ChatCap \in Nat /\ ChatCap > 0 BY Cap
<1>3. /\ chAt \in Slots /\ chFilled \in BOOLEAN /\ chBuf \in [Slots -> Entry \cup {NoEntry}]
      /\ chBuf' = [chBuf EXCEPT ![chAt] = e] /\ chAt' = (chAt + 1) % ChatCap
      /\ chFilled' = (chFilled \/ chAt + 1 = ChatCap) /\ e.msg \notin chSeen
  BY DEF RingRule, RingAdd, HasSeen
<1>4. chAt' = IF chAt + 1 = ChatCap THEN 0 ELSE chAt + 1 BY <1>3, OneFurther
<1>5. chAt \in Nat /\ chAt < ChatCap BY <1>2, <1>3 DEF Slots
<1>6. /\ GetAll \in Seq(Entry) /\ Len(GetAll) = InRing /\ InRing <= ChatCap /\ InRing \in Nat
      /\ \A i \in 1..InRing : GetAll[i].msg \in chSeen /\ GetAll[i] = chBuf[Place(i)] /\ Place(i) \in Slots
  BY <1>2, WindowShape, Read DEF Occupied
<1>7. /\ GetAll' \in Seq(Entry) /\ Len(GetAll') = InRing' /\ InRing' <= ChatCap /\ InRing' \in Nat
      /\ \A i \in 1..InRing' : GetAll'[i] = (chBuf[Place(i)])'
  BY <1>1, WindowNext
<1> DEFINE grown == Newest(Append(GetAll, e), ChatCap)
           size  == IF InRing < ChatCap THEN InRing + 1 ELSE ChatCap
<1>8. /\ grown \in Seq(Entry) /\ Len(grown) = size /\ grown[size] = e
      /\ \A i \in 1..size - 1 : grown[i] = IF InRing < ChatCap THEN GetAll[i] ELSE GetAll[i + 1]
  <2>1. GetAll \in Seq(Entry) /\ Len(GetAll) = InRing /\ InRing <= ChatCap BY <1>6
  <2> HIDE DEF GetAll, InRing, size, grown
  <2>2. Len(GetAll) <= ChatCap BY <2>1
  <2>3. /\ grown \in Seq(Entry)
        /\ Len(grown) = IF Len(GetAll) < ChatCap THEN Len(GetAll) + 1 ELSE ChatCap
        /\ grown[IF Len(GetAll) < ChatCap THEN Len(GetAll) + 1 ELSE ChatCap] = e
        /\ \A i \in 1..(IF Len(GetAll) < ChatCap THEN Len(GetAll) + 1 ELSE ChatCap) - 1 :
             grown[i] = IF Len(GetAll) < ChatCap THEN GetAll[i] ELSE GetAll[i + 1]
    <3>1. Grows(GetAll, e) BY <2>1, WindowGrows
    <3> QED BY <2>1, <2>2, <3>1, Zenon DEF grown, Grows
  <2> QED BY <2>1, <2>3 DEF size
<1> HIDE DEF grown
<1>9. InRing' = size
  <2>1. CASE chFilled
    <3>1. InRing = ChatCap /\ InRing' = ChatCap BY <1>3, <2>1 DEF InRing
    <3> QED BY <1>2, <3>1
  <2>2. CASE ~ chFilled /\ chAt + 1 = ChatCap
    <3>1. InRing = chAt /\ InRing' = ChatCap BY <1>3, <2>2 DEF InRing
    <3>2. size = chAt + 1 BY <1>5, <3>1
    <3> QED BY <2>2, <3>1, <3>2
  <2>3. CASE ~ chFilled /\ chAt + 1 # ChatCap
    <3>1. ~ chFilled' /\ chAt' = chAt + 1 BY <1>3, <1>4, <2>3, Zenon
    <3>2. InRing = chAt /\ InRing' = chAt + 1 BY <3>1, <2>3 DEF InRing
    <3>3. size = chAt + 1 BY <1>5, <3>2
    <3> QED BY <3>2, <3>3
  <2> QED BY <1>3, <2>1, <2>2, <2>3
<1>10. \A i \in 1..size : GetAll'[i] = grown[i]
  <2> TAKE i \in 1..size
  <2>1. GetAll'[i] = (chBuf[Place(i)])' BY <1>7, <1>9
  <2>2. CASE chFilled
    <3>1. InRing = ChatCap BY <2>2 DEF InRing
    <3>2. InRing = ChatCap /\ size = ChatCap /\ i \in 1..ChatCap BY <1>2, <3>1
    <3>3. chAt' \in Slots BY <1>1 DEF RingRule
    <3>4. (chBuf[Place(i)])' = chBuf'[(chAt' + i - 1) % ChatCap] BY <1>3, <2>2 DEF Place
    <3> DEFINE next == (chAt' + i - 1) % ChatCap
    <3>5. next = IF chAt' + i - 1 < ChatCap THEN chAt' + i - 1 ELSE chAt' + i - 1 - ChatCap
      BY <3>2, <3>3, Around
    <3>6. CASE i = ChatCap
      <4>1. next = chAt BY <1>2, <1>4, <1>5, <3>5, <3>6
      <4>2. chBuf'[chAt] = e BY <1>3
      <4> HIDE DEF next
      <4> QED BY <2>1, <3>2, <3>4, <3>6, <4>1, <4>2, <1>8 DEF next
    <3>7. CASE i # ChatCap
      <4>1. i + 1 \in 1..ChatCap /\ i \in 1..size - 1 BY <1>2, <3>2, <3>7
      <4>2. (chAt + (i + 1) - 1) % ChatCap =
              IF chAt + (i + 1) - 1 < ChatCap THEN chAt + (i + 1) - 1 ELSE chAt + (i + 1) - 1 - ChatCap
        BY <1>3, <4>1, Around
      <4>3. next = (chAt + (i + 1) - 1) % ChatCap /\ next # chAt
        BY <1>2, <1>4, <1>5, <3>2, <3>5, <3>7, <4>2
      <4>4. GetAll[i + 1] = chBuf[Place(i + 1)] /\ Place(i + 1) \in Slots BY <1>6, <3>2, <4>1
      <4>5. Place(i + 1) = next BY <2>2, <4>3 DEF Place
      <4>6. grown[i] = GetAll[i + 1] BY <1>2, <1>8, <3>2, <4>1
      <4> HIDE DEF next
      <4>7. chBuf'[next] = chBuf[next] BY <1>3, <4>3, <4>4, <4>5
      <4>8. (chBuf[Place(i)])' = chBuf'[next] BY <3>4 DEF next
      <4> QED BY <2>1, <4>4, <4>5, <4>6, <4>7, <4>8
    <3> QED BY <3>6, <3>7
  <2>3. CASE ~ chFilled
    <3>1. InRing = chAt /\ size = chAt + 1 /\ i \in 1..chAt + 1 BY <1>5, <2>3 DEF InRing
    <3>2. (chBuf[Place(i)])' = chBuf'[i - 1]
      <4>1. CASE chAt + 1 = ChatCap
        <5>1. (chBuf[Place(i)])' = chBuf'[(0 + i - 1) % ChatCap] BY <1>3, <1>4, <4>1 DEF Place
        <5>2. i - 1 \in 0..ChatCap - 1 BY <1>2, <1>5, <3>1, <4>1
        <5>3. (i - 1) % ChatCap = i - 1 BY <1>2, <5>2, Small, Zenon
        <5>4. 0 + i - 1 = i - 1 BY <1>5, <3>1
        <5> QED BY <5>1, <5>3, <5>4
      <4>2. CASE chAt + 1 # ChatCap BY <1>3, <2>3, <4>2 DEF Place
      <4> QED BY <4>1, <4>2
    <3>3. CASE i = chAt + 1
      <4>1. i - 1 = chAt BY <1>5, <3>3
      <4>2. chBuf'[chAt] = e BY <1>3
      <4> QED BY <2>1, <3>1, <3>2, <3>3, <4>1, <4>2, <1>8
    <3>4. CASE i # chAt + 1
      <4>1. i \in 1..chAt /\ i \in 1..size - 1 /\ i - 1 # chAt /\ i - 1 \in Slots
        BY <1>2, <1>5, <3>1, <3>4 DEF Slots
      <4>2. GetAll[i] = chBuf[Place(i)] /\ Place(i) = i - 1 BY <1>6, <2>3, <3>1, <4>1 DEF Place
      <4>3. grown[i] = GetAll[i] BY <1>5, <1>8, <3>1, <4>1
      <4>4. chBuf'[i - 1] = chBuf[i - 1] BY <1>3, <4>1
      <4> QED BY <2>1, <3>2, <4>2, <4>3, <4>4
    <3> QED BY <3>3, <3>4
  <2> QED BY <2>2, <2>3
<1>11. GetAll' = grown
  <2> HIDE DEF size
  <2>1. size \in Nat /\ Len(GetAll') = size /\ Len(grown) = size BY <1>7, <1>8, <1>9
  <2>2. GetAll' \in Seq(Entry) /\ grown \in Seq(Entry) BY <1>7, <1>8
  <2> QED BY <2>1, <2>2, <1>10, SameWindow
<1>12. \A i \in DOMAIN GetAll : GetAll[i].msg # e.msg
  <2>1. DOMAIN GetAll = 1..InRing BY <1>6
  <2> QED BY <2>1, <1>3, <1>6
<1> QED BY <1>11, <1>12 DEF CachePromise!Add, CachePromise!LastOf, Newest, grown

(* What the ring does with a message, and every step that leaves it alone. *)
LEMMA RingStep ==
  ASSUME RingRule, NEW e \in Entry, RingAdd(e), UNCHANGED chStarts
  PROVE  RingRule' /\ (CachePromise!Add(e) \/ UNCHANGED <<GetAll, chStarts>>)
<1>1. CASE HasSeen(e.msg)
  <2>1. UNCHANGED <<chBuf, chAt, chFilled, chSeen>> BY <1>1 DEF RingAdd, ring
  <2> QED BY <2>1 DEF RingRule, Occupied, GetAll
<1>2. CASE ~ HasSeen(e.msg) BY <1>2, RingKept, RingAdds
<1> QED BY <1>1, <1>2

LEMMA RingSame ==
  ASSUME RingRule, UNCHANGED <<ring, chStarts>>
  PROVE  RingRule' /\ UNCHANGED <<GetAll, chStarts>>
<1>1. UNCHANGED <<chBuf, chAt, chFilled, chSeen, chStarts>> BY DEF ring
<1> QED BY <1>1 DEF RingRule, Occupied, GetAll

-----------------------------------------------------------------------------
(* The table *)

LEMMA FewRows ==
  ASSUME NEW r \in Seq(Ids), \A i, j \in DOMAIN r : r[i] = r[j] => i = j
  PROVE  Cardinality(Ids) \in Nat /\ DOMAIN r \subseteq 1..Cardinality(Ids)
<1>1. IsFiniteSet(Ids) /\ Cardinality(Ids) \in Nat BY Cap, FS_CardinalityType
<1>2. Len(r) \in Nat /\ DOMAIN r = 1..Len(r) /\ r \in [1..Len(r) -> Ids] OBVIOUS
<1>3. r \in Injection(1..Len(r), Ids) BY <1>2 DEF Injection, IsInjective
<1>4. Cardinality(1..Len(r)) <= Cardinality(Ids) BY <1>1, <1>3, FS_Injection, Zenon
<1>5. Cardinality(1..Len(r)) = Len(r)
  <2>1. Cardinality(1..Len(r)) = IF 1 > Len(r) THEN 0 ELSE Len(r) - 1 + 1 BY <1>2, FS_Interval
  <2> QED BY <1>2, <2>1
<1> QED BY <1>1, <1>2, <1>4, <1>5

(* Saving keeps one row for a message, and its number is that row's or none. *)
LEMMA Saved ==
  ASSUME RowRule, NEW m \in Ids, NEW n, SaveMessage(m, n)
  PROVE  RowRule' /\ [msg |-> m, row |-> n] \in Entry
<1>1. chRows \in Seq(Ids) /\ \A i, j \in DOMAIN chRows : chRows[i] = chRows[j] => i = j BY DEF RowRule
<1>2. chRows' = chRows \/ (chRows' = Append(chRows, m) /\ \A i \in DOMAIN chRows : chRows[i] # m)
  BY DEF SaveMessage, Upserted, RowOf
<1>3. RowRule'
  <2>1. CASE chRows' = chRows BY <2>1, <1>1 DEF RowRule
  <2>2. CASE chRows' = Append(chRows, m) /\ \A i \in DOMAIN chRows : chRows[i] # m
    BY <2>2, <1>1 DEF RowRule
  <2> QED BY <1>2, <2>1, <2>2
<1>4. Cardinality(Ids) \in Nat /\ DOMAIN chRows' \subseteq 1..Cardinality(Ids)
  BY <1>3, FewRows DEF RowRule
<1>5. n = 0 \/ n \in DOMAIN chRows' BY DEF SaveMessage, RowOf
<1>6. n \in 0..Cardinality(Ids) BY <1>4, <1>5
<1> QED BY <1>3, <1>6 DEF Entry

-----------------------------------------------------------------------------
(* Every step *)

LEMMA ChatStarts == ChatInit => ChatInv /\ GetAll = <<>> /\ chStarts = 0
<1> SUFFICES ASSUME ChatInit PROVE ChatInv /\ GetAll = <<>> /\ chStarts = 0 OBVIOUS
<1>1. ChatCap \in Nat /\ ChatCap > 0 /\ NoEntry \notin Entry BY Cap
<1>2. chBuf = [i \in Slots |-> NoEntry] /\ chAt = 0 /\ chFilled = FALSE /\ chSeen = {}
  BY DEF ChatInit, Slots
<1>3. Occupied = {} BY <1>1, <1>2 DEF Occupied, Slots
<1>4. RingRule
  <2>1. chBuf \in [Slots -> Entry \cup {NoEntry}] BY <1>2
  <2>2. \A i \in Slots : i \in Occupied <=> chBuf[i] \in Entry BY <1>1, <1>2, <1>3
  <2>3. chAt \in Slots BY <1>1, <1>2 DEF Slots
  <2>4. chSeen = {chBuf[i].msg : i \in Occupied} BY <1>2, <1>3
  <2> QED BY <1>2, <1>3, <2>1, <2>2, <2>3, <2>4 DEF RingRule
<1>5. RowRule BY DEF RowRule, ChatInit
<1>6. WayRule BY DEF WayRule, ChatInit, NoWork
<1>7. GetAll = <<>> BY <1>2 DEF GetAll
<1> QED BY <1>4, <1>5, <1>6, <1>7 DEF ChatInv, ChatInit

(* A restart fills the ring from the table. *)
LEMMA RingReloads ==
  ASSUME RowRule, NEW s \in Recent(chRows), RestoreChat(s)
  PROVE  RingRule'
<1>1. ChatCap \in Nat /\ ChatCap > 0 /\ NoEntry \notin Entry BY Cap
<1>2. chRows \in Seq(Ids) /\ \A i, j \in DOMAIN chRows : chRows[i] = chRows[j] => i = j BY DEF RowRule
<1> DEFINE n == IF Len(chRows) < ChatCap THEN Len(chRows) ELSE ChatCap
<1>3. n \in Nat /\ n <= ChatCap BY <1>1, <1>2
<1>4. s \in [1..n -> DOMAIN chRows] /\ \A i, j \in 1..n : s[i] = s[j] => i = j
  BY DEF Recent, IsInjective
<1> HIDE DEF n
<1>5. Len(s) = n /\ DOMAIN s = 1..n BY <1>3, <1>4
<1>6. /\ chBuf' = [i \in Slots |-> IF i + 1 \in 1..n
                     THEN [msg |-> chRows[s[i + 1]], row |-> s[i + 1]] ELSE NoEntry]
      /\ chSeen' = {chRows[s[i]] : i \in 1..n} /\ chAt' = n % ChatCap /\ chFilled' = (n = ChatCap)
  BY <1>5 DEF RestoreChat, Slots
<1>7. Cardinality(Ids) \in Nat /\ DOMAIN chRows \subseteq 1..Cardinality(Ids) BY <1>2, FewRows
<1>8. \A i \in 1..n : [msg |-> chRows[s[i]], row |-> s[i]] \in Entry BY <1>2, <1>4, <1>7 DEF Entry
<1>9. chAt' \in Slots /\ \A i \in Slots : (chFilled' \/ i < chAt') <=> i + 1 \in 1..n
  <2>1. CASE n = ChatCap
    <3>1. 0 \in Slots /\ \A i \in Slots : i + 1 \in 1..n BY <1>1, <2>1 DEF Slots
    <3>2. ChatCap \in 0..2 * ChatCap - 1 BY <1>1
    <3>3. n % ChatCap = 0 BY <1>1, <2>1, <3>2, Once
    <3> QED BY <1>6, <2>1, <3>1, <3>3
  <2>2. CASE n # ChatCap
    <3>1. n \in 0..ChatCap - 1 BY <1>1, <1>3, <2>2
    <3>2. n % ChatCap = n BY <1>1, <3>1, Small, Zenon
    <3>3. n \in Slots /\ \A i \in Slots : i < n <=> i + 1 \in 1..n BY <3>1, <1>3 DEF Slots
    <3> QED BY <1>6, <2>2, <3>2, <3>3
  <2> QED BY <2>1, <2>2
<1>10. Occupied' = {i \in Slots : i + 1 \in 1..n} BY <1>9 DEF Occupied
<1>11. \A i \in Slots : chBuf'[i] = IF i + 1 \in 1..n THEN [msg |-> chRows[s[i + 1]], row |-> s[i + 1]] ELSE NoEntry
  BY <1>6
<1>12. chBuf' \in [Slots -> Entry \cup {NoEntry}] BY <1>6, <1>8
<1>13. \A i \in Slots : i \in Occupied' <=> chBuf'[i] \in Entry BY <1>1, <1>8, <1>10, <1>11
<1>14. \A i \in Occupied' : chBuf'[i].msg = chRows[s[i + 1]] /\ i + 1 \in 1..n /\ i \in Int
  <2> TAKE i \in Occupied'
  <2>1. i \in Slots /\ i + 1 \in 1..n BY <1>10
  <2>2. chBuf'[i] = [msg |-> chRows[s[i + 1]], row |-> s[i + 1]] BY <1>11, <2>1, Zenon
  <2>3. i \in Int BY <1>1, <2>1 DEF Slots
  <2> QED BY <2>1, <2>2, <2>3
<1>15. \A i, j \in Occupied' : chBuf'[i].msg = chBuf'[j].msg => i = j
  <2> SUFFICES ASSUME NEW i \in Occupied', NEW j \in Occupied', chBuf'[i].msg = chBuf'[j].msg PROVE i = j
    OBVIOUS
  <2>1. s[i + 1] = s[j + 1] BY <1>2, <1>4, <1>14
  <2>2. i + 1 = j + 1 BY <1>4, <1>14, <2>1
  <2> QED BY <1>14, <2>2
<1>16. chSeen' = {chBuf'[i].msg : i \in Occupied'}
  <2>1. \A k \in 1..n : k - 1 \in Slots /\ (k - 1) + 1 = k BY <1>1, <1>3 DEF Slots
  <2>2. \A k \in 1..n : k - 1 \in Occupied' /\ chBuf'[k - 1].msg = chRows[s[k]]
    <3> TAKE k \in 1..n
    <3>1. k - 1 \in Occupied' BY <1>10, <2>1
    <3> QED BY <1>14, <2>1, <3>1
  <2>3. \A i \in Occupied' : i + 1 \in 1..n /\ chBuf'[i].msg = chRows[s[i + 1]] BY <1>14
  <2>4. chSeen' = {chRows[s[i]] : i \in 1..n} BY <1>6
  <2> HIDE DEF Occupied
  <2> QED BY <2>2, <2>3, <2>4
<1>17. chFilled' \in BOOLEAN BY <1>6
<1> QED BY <1>9, <1>12, <1>13, <1>15, <1>16, <1>17 DEF RingRule

LEMMA Reloads ==
  ASSUME ChatInv, NEW s \in Recent(chRows), RestoreChat(s)
  PROVE  ChatInv' /\ CachePromise!Reload
<1>1. RingRule' BY RingReloads DEF ChatInv
<1>2. RowRule' BY DEF ChatInv, RowRule, RestoreChat
<1>3. chStarts' = chStarts + 1 BY DEF RestoreChat
<1>4. WayRule' BY <1>3 DEF ChatInv, WayRule, RestoreChat, NoWork
<1>5. GetAll' \in Seq(Entry) /\ Len(GetAll') <= ChatCap
  BY <1>1, WindowNext
<1>6. \A i, j \in DOMAIN GetAll' : GetAll'[i].msg = GetAll'[j].msg => i = j
  BY <1>1, DistinctNext
<1> QED BY <1>1, <1>2, <1>3, <1>4, <1>5, <1>6 DEF ChatInv, CachePromise!Reload, Entry

Promised == (\E e \in Entry : CachePromise!Add(e)) \/ CachePromise!Reload \/ UNCHANGED <<GetAll, chStarts>>

LEMMA ChatKeeps == ChatInv /\ [ChatNext]_chVars => ChatInv' /\ Promised
<1> SUFFICES ASSUME ChatInv, [ChatNext]_chVars PROVE ChatInv' /\ Promised OBVIOUS
<1>1. /\ RingRule /\ RowRule
      /\ chLine \in Seq(Entry) /\ chReply \in Entry \cup {NoEntry}
      /\ chAgent = [f \in {"at", "trigger", "window", "reply", "mode"} |-> chAgent[f]]
      /\ chAgent.at = "said" => chAgent.reply \in Entry
      /\ chStarts \in Nat
  BY DEF ChatInv, WayRule
<1>2. ASSUME NEW m \in ChatMsgs, PrepareBatch(m) PROVE ChatInv' /\ Promised
  <2>1. RingRule' /\ Promised BY <1>1, <1>2, RingSame DEF PrepareBatch, Promised
  <2>2. RowRule' /\ chLine' \in Seq(Entry)
    <3>1. CASE HasSeen(m) BY <1>1, <1>2, <3>1 DEF PrepareBatch, RowRule
    <3>2. CASE ~ HasSeen(m)
      <4>1. PICK n \in RowNumbers : SaveMessage(m, n) /\ chLine' = Append(chLine, [msg |-> m, row |-> n])
        BY <1>2, <3>2 DEF PrepareBatch
      <4>2. RowRule' /\ [msg |-> m, row |-> n] \in Entry BY <1>1, <4>1, Saved DEF Ids
      <4> QED BY <1>1, <4>1, <4>2
    <3> QED BY <3>1, <3>2
  <2>3. UNCHANGED <<chReply, chAgent, chStarts>> BY <1>2 DEF PrepareBatch
  <2> QED BY <1>1, <2>1, <2>2, <2>3 DEF ChatInv, WayRule
<1>3. CASE AgentTakes
  <2>1. chLine # <<>> /\ Head(chLine) \in Entry /\ Tail(chLine) \in Seq(Entry) BY <1>1, <1>3 DEF AgentTakes
  <2>2. RingRule' /\ Promised BY <1>1, <1>3, <2>1, RingStep DEF AgentTakes, Promised
  <2>3. chAgent' = [NoWork EXCEPT !.at = "added", !.trigger = Head(chLine).msg] BY <1>3 DEF AgentTakes
  <2>4. chAgent' = [f \in {"at", "trigger", "window", "reply", "mode"} |-> chAgent'[f]] /\ chAgent'.at = "added"
    BY <2>3 DEF NoWork
  <2>5. RowRule' BY <1>1, <1>3 DEF AgentTakes, RowRule
  <2> QED BY <1>1, <1>3, <2>1, <2>2, <2>4, <2>5 DEF ChatInv, WayRule, AgentTakes
<1>4. CASE AgentLeaves \/ ReplyFails
  <2>1. chAgent' = NoWork /\ UNCHANGED <<chRows, ring, chLine, chReply, chStarts>>
    BY <1>4 DEF AgentLeaves, ReplyFails
  <2>2. RingRule' /\ Promised BY <1>1, <2>1, RingSame DEF Promised
  <2> QED BY <1>1, <2>1, <2>2 DEF ChatInv, WayRule, RowRule, NoWork
<1>5. ASSUME NEW expired \in BOOLEAN, SelectWindow(expired) PROVE ChatInv' /\ Promised
  <2>1. UNCHANGED <<chRows, ring, chLine, chReply, chStarts>> BY <1>5 DEF SelectWindow
  <2>2. RingRule' /\ Promised BY <1>1, <2>1, RingSame DEF Promised
  <2>3. PICK w, d : chAgent' = [chAgent EXCEPT !.at = "asked", !.window = w, !.mode = d]
    BY <1>5 DEF SelectWindow
  <2>4. chAgent' = [f \in {"at", "trigger", "window", "reply", "mode"} |-> chAgent'[f]] /\ chAgent'.at = "asked"
    BY <1>1, <2>3
  <2> QED BY <1>1, <2>1, <2>2, <2>4 DEF ChatInv, WayRule, RowRule
<1>6. ASSUME NEW r \in Replies, SaySelf(r) PROVE ChatInv' /\ Promised
  <2>1. UNCHANGED <<ring, chLine, chReply, chStarts>> BY <1>6 DEF SaySelf
  <2>2. RingRule' /\ Promised BY <1>1, <2>1, RingSame DEF Promised
  <2>3. PICK n \in RowNumbers :
          SaveMessage(r, n) /\ chAgent' = [chAgent EXCEPT !.at = "said", !.reply = [msg |-> r, row |-> n]]
    BY <1>6 DEF SaySelf
  <2>4. RowRule' /\ [msg |-> r, row |-> n] \in Entry BY <1>1, <2>3, Saved DEF Ids
  <2>5. chAgent' = [f \in {"at", "trigger", "window", "reply", "mode"} |-> chAgent'[f]]
        /\ chAgent'.reply = [msg |-> r, row |-> n]
    BY <1>1, <2>3
  <2> QED BY <1>1, <2>1, <2>2, <2>4, <2>5 DEF ChatInv, WayRule
<1>7. CASE Remember
  <2>1. chAgent.reply \in Entry BY <1>1, <1>7 DEF Remember
  <2>2. RingRule' /\ Promised BY <1>1, <1>7, <2>1, RingStep DEF Remember, Promised
  <2>3. chAgent' = [chAgent EXCEPT !.at = "kept"] BY <1>7 DEF Remember
  <2>4. chAgent' = [f \in {"at", "trigger", "window", "reply", "mode"} |-> chAgent'[f]] /\ chAgent'.at = "kept"
    BY <1>1, <2>3
  <2> QED BY <1>1, <1>7, <2>2, <2>4 DEF ChatInv, WayRule, RowRule, Remember
<1>8. CASE SetAnchor
  <2>1. chAgent' = NoWork /\ UNCHANGED <<chRows, ring, chLine, chReply, chStarts>> BY <1>8 DEF SetAnchor
  <2>2. RingRule' /\ Promised BY <1>1, <2>1, RingSame DEF Promised
  <2> QED BY <1>1, <2>1, <2>2 DEF ChatInv, WayRule, RowRule, NoWork
<1>9. ASSUME NEW r \in Replies, CommandReply(r) PROVE ChatInv' /\ Promised
  <2>1. UNCHANGED <<ring, chLine, chAgent, chStarts>> BY <1>9 DEF CommandReply
  <2>2. RingRule' /\ Promised BY <1>1, <2>1, RingSame DEF Promised
  <2>3. PICK n \in RowNumbers : SaveMessage(r, n) /\ chReply' = [msg |-> r, row |-> n]
    BY <1>9 DEF CommandReply
  <2>4. RowRule' /\ [msg |-> r, row |-> n] \in Entry BY <1>1, <2>3, Saved DEF Ids
  <2> QED BY <1>1, <2>1, <2>2, <2>3, <2>4 DEF ChatInv, WayRule
<1>10. CASE CommandKeeps
  <2>1. chReply \in Entry BY <1>1, <1>10 DEF CommandKeeps
  <2>2. RingRule' /\ Promised BY <1>1, <1>10, <2>1, RingStep DEF CommandKeeps, Promised
  <2> QED BY <1>1, <1>10, <2>2 DEF ChatInv, WayRule, RowRule, CommandKeeps
<1>11. ASSUME NEW s \in Recent(chRows), RestoreChat(s) PROVE ChatInv' /\ Promised
  BY <1>11, Reloads DEF Promised
<1>12. CASE UNCHANGED chVars
  <2>1. UNCHANGED <<chRows, ring, chLine, chReply, chAgent, chStarts>> BY <1>12 DEF chVars
  <2>2. RingRule' /\ Promised BY <1>1, <2>1, RingSame DEF Promised
  <2> QED BY <1>1, <2>1, <2>2 DEF ChatInv, WayRule, RowRule
<1> QED
  BY <1>2, <1>3, <1>4, <1>5, <1>6, <1>7, <1>8, <1>9, <1>10, <1>11, <1>12 DEF ChatNext, FreshReplies

(* The ring of the cache implements the window: what GetAll reads is the last    *)
(* max_cache_msg messages that Add took, oldest first, none of them twice,        *)
(* through the wrap, the eviction and a restart.                                  *)
THEOREM RingIsWindow == ChatSpec => WindowIsTail
<1>1. ChatInit => ChatInv /\ CachePromise!Init BY ChatStarts DEF CachePromise!Init
<1>2. ChatInv /\ [ChatNext]_chVars => ChatInv' /\ [CachePromise!Next]_<<GetAll, chStarts>>
  <2>1. SUFFICES ASSUME ChatInv, [ChatNext]_chVars
                 PROVE  ChatInv' /\ [CachePromise!Next]_<<GetAll, chStarts>>
    OBVIOUS
  <2>2. ChatInv' /\ Promised BY <2>1, ChatKeeps
  <2>3. CASE GetAll' # GetAll BY <2>2, <2>3 DEF Promised, CachePromise!Next, Entry
  <2>4. CASE GetAll' = GetAll
    <3>1. \A e \in Entry : CachePromise!Add(e) => UNCHANGED chStarts BY DEF CachePromise!Add
    <3>2. (\E e \in Entry : CachePromise!Add(e)) => UNCHANGED chStarts BY <3>1
    <3> QED BY <2>2, <2>4, <3>2 DEF Promised, CachePromise!Next
  <2> QED BY <2>3, <2>4
<1> QED BY <1>1, <1>2, PTL DEF ChatSpec, WindowIsTail, CachePromise!Spec

-----------------------------------------------------------------------------
(* Tokens *)

LEMMA WeightType == Weight \in [Ids -> Nat] /\ \A e \in Entry : Weight[e.msg] \in Nat /\ e.msg \in Ids
<1>1. Weight \in [Ids -> Nat \ {0}] BY ChatAssumption
<1> QED BY <1>1 DEF Entry

LEMMA SmallLarge ==
  ASSUME NEW a \in Int, NEW b \in Int
  PROVE  Max({a, b}) = IF a >= b THEN a ELSE b
<1>1. \E x \in {a, b} : \A y \in {a, b} : x >= y OBVIOUS
<1>2. Max({a, b}) \in {a, b} /\ \A y \in {a, b} : Max({a, b}) >= y BY <1>1 DEF Max
<1> QED BY <1>2

LEMMA LeastOf ==
  ASSUME NEW S \in SUBSET Nat, S # {}
  PROVE  Min(S) \in S /\ \A y \in S : Min(S) <= y
<1>1. \E x \in S : \A y \in S : x <= y BY LeastNumber
<1> QED BY <1>1 DEF Min

LEMMA Found ==
  ASSUME NEW s \in Seq(Entry), NEW m
  PROVE  /\ FindMsgIndex(s, m) \in 0..Len(s)
         /\ FindMsgIndex(s, m) > 0 => s[FindMsgIndex(s, m)].msg = m
         /\ FindMsgIndex(s, m) = 0 => \A i \in 1..Len(s) : s[i].msg # m
<1> DEFINE at == {i \in DOMAIN s : s[i].msg = m}
<1>1. at \in SUBSET Nat /\ DOMAIN s = 1..Len(s) /\ Len(s) \in Nat OBVIOUS
<1>2. CASE at = {}
  <2>1. FindMsgIndex(s, m) = 0 BY <1>2 DEF FindMsgIndex
  <2> QED BY <1>1, <1>2, <2>1
<1>3. CASE at # {}
  <2>1. FindMsgIndex(s, m) = Min(at) BY <1>3 DEF FindMsgIndex
  <2>2. Min(at) \in at
    <3> HIDE DEF at
    <3> QED BY <1>1, <1>3, LeastOf
  <2> QED BY <1>1, <2>1, <2>2
<1> QED BY <1>2, <1>3

(* f sums the tokens of s from its first message on *)
Sums(s, f) ==
  /\ f \in [0..Len(s) -> Nat] /\ f[0] = 0
  /\ \A i \in 1..Len(s) : f[i] = f[i - 1] + Weight[s[i].msg]

LEMMA TokensSum ==
  ASSUME NEW s \in Seq(Entry)
  PROVE  \E f : Sums(s, f) /\ Tokens(s) = f[Len(s)]
<1> DEFINE N == Len(s)
           Is(f) == f = [i \in 0..N |-> IF i = 0 THEN 0 ELSE f[i - 1] + Weight[s[i].msg]]
           K == CHOOSE f : Is(f)
<1>1. Tokens(s) = K[N] BY DEF Tokens
<1>2. N \in Nat /\ \A i \in 1..N : Weight[s[i].msg] \in Nat BY WeightType
<1>3. \E f : Sums(s, f) /\ Is(f)
  <2> DEFINE step == [n \in 1..N |-> [x \in Nat |-> x + Weight[s[n].msg]]]
  <2>1. step \in [1..N -> [Nat -> Nat]] /\ 0 \in Nat BY <1>2
  <2>2. PICK f : GoesBy(f, Nat, N, 0, step)
    <3> HIDE DEF step, N
    <3> QED BY <1>2, <2>1, StepByStep
  <2>3. f \in [0..N -> Nat] /\ f[0] = 0 /\ \A n \in 1..N : f[n] = step[n][f[n - 1]]
    <3> HIDE DEF step, N
    <3> QED BY <2>2 DEF GoesBy
  <2>4. ASSUME NEW n \in 1..N PROVE f[n] = f[n - 1] + Weight[s[n].msg]
    <3> HIDE DEF N
    <3>1. f[n - 1] \in Nat BY <1>2, <2>3
    <3> QED BY <2>3, <3>1
  <2> HIDE DEF N, step
  <2>5. f = [i \in 0..N |-> IF i = 0 THEN 0 ELSE f[i - 1] + Weight[s[i].msg]]
    BY <1>2, <2>3, <2>4
  <2> QED BY <2>3, <2>4, <2>5 DEF Sums, N
<1>4. Is(K)
  <2> HIDE DEF Is
  <2> QED BY <1>3
<1>5. K[0] = 0 /\ \A i \in 1..N : K[i] = K[i - 1] + Weight[s[i].msg]
  <2> HIDE DEF K, N
  <2> QED BY <1>2, <1>4
<1>6. \A i \in 0..N : K[i] \in Nat
  <2> DEFINE S == {i \in 0..N : K[i] \in Nat}
  <2> HIDE DEF K, N
  <2>1. S \subseteq 0..N /\ 0 \in S BY <1>2, <1>5
  <2>2. \A n \in 1..N : n - 1 \in S => n \in S BY <1>2, <1>5
  <2>3. S = 0..N
    <3> HIDE DEF S
    <3> QED BY <1>2, <2>1, <2>2, CountAll
  <2> QED BY <2>3
<1>7. K \in [0..N -> Nat]
  <2> HIDE DEF K
  <2> QED BY <1>4, <1>6
<1> QED
  <2> HIDE DEF K
  <2> QED BY <1>1, <1>5, <1>7 DEF Sums

(* The tokens of a part are the difference of two sums. *)
LEMMA TokensOfPart ==
  ASSUME NEW s \in Seq(Entry), NEW f, Sums(s, f),
         NEW a \in 1..Len(s) + 1, NEW c \in a - 1..Len(s)
  PROVE  Tokens(SubSeq(s, a, c)) = f[c] - f[a - 1]
<1> DEFINE t == SubSeq(s, a, c)
<1>1. PICK n \in Nat : n = c - a + 1 OBVIOUS
<1>2. /\ Len(s) \in Nat /\ a \in Nat \ {0} /\ a - 1 \in 0..Len(s) /\ c \in Int /\ a + n - 1 = c
      /\ \A i \in 0..n : a + i - 1 \in 0..Len(s)
      /\ \A i \in 1..n : a + i - 1 \in 1..Len(s) /\ (a + i - 1) - 1 = a + (i - 1) - 1
  BY <1>1
<1>3. t \in Seq(Entry) /\ Len(t) = n /\ \A i \in 1..n : t[i] = s[a + i - 1]
  <2>1. c \in a - 1..Len(s) /\ a \in 1..Len(s) + 1 OBVIOUS
  <2>2. t \in Seq(Entry) /\ Len(t) = c - a + 1 OBVIOUS
  <2>3. \A i \in 1..c - a + 1 : t[i] = s[a + i - 1] OBVIOUS
  <2> QED BY <1>1, <2>2, <2>3
<1> HIDE DEF t
<1>4. PICK g : Sums(t, g) /\ Tokens(t) = g[Len(t)] BY <1>3, TokensSum
<1>5. g \in [0..n -> Nat] /\ g[0] = 0 /\ \A i \in 1..n : g[i] = g[i - 1] + Weight[t[i].msg]
  BY <1>3, <1>4 DEF Sums
<1>6. f \in [0..Len(s) -> Nat] /\ \A i \in 1..Len(s) : f[i] = f[i - 1] + Weight[s[i].msg] BY DEF Sums
<1>7. \A i \in 1..n : Weight[t[i].msg] \in Nat BY <1>3, WeightType
<1>8. \A i \in 1..n : f[a + i - 1] = f[a + (i - 1) - 1] + Weight[t[i].msg]
  <2> TAKE i \in 1..n
  <2>1. a + i - 1 \in 1..Len(s) /\ (a + i - 1) - 1 = a + (i - 1) - 1 /\ t[i] = s[a + i - 1] BY <1>2, <1>3
  <2> QED BY <1>6, <2>1
<1>9. \A i \in 0..n : f[a + i - 1] \in Nat /\ g[i] \in Nat BY <1>2, <1>5, <1>6
<1>10. f[a - 1] \in Nat BY <1>2, <1>6
<1> DEFINE S == {i \in 0..n : g[i] = f[a + i - 1] - f[a - 1]}
<1>11. 0 \in S
  <2>1. a + 0 - 1 = a - 1 BY <1>2
  <2> QED BY <1>1, <1>5, <1>10, <2>1
<1>12. ASSUME NEW i \in 1..n, i - 1 \in S PROVE i \in S
  <2>1. g[i - 1] = f[a + (i - 1) - 1] - f[a - 1] BY <1>12
  <2>2. i - 1 \in 0..n /\ i \in 0..n BY <1>1
  <2>3. f[a + (i - 1) - 1] \in Nat BY <1>9, <2>2
  <2>4. f[a + i - 1] = f[a + (i - 1) - 1] + Weight[t[i].msg] /\ Weight[t[i].msg] \in Nat BY <1>7, <1>8
  <2>5. g[i] = g[i - 1] + Weight[t[i].msg] BY <1>5
  <2>6. PICK y, w, z : y = f[a + (i - 1) - 1] /\ w = Weight[t[i].msg] /\ z = f[a - 1] OBVIOUS
  <2>7. y \in Nat /\ w \in Nat /\ z \in Nat /\ (y - z) + w = (y + w) - z BY <1>10, <2>3, <2>4, <2>6
  <2>8. g[i] = f[a + i - 1] - f[a - 1]
    <3>1. g[i] = (y - z) + w BY <2>1, <2>5, <2>6, Zenon
    <3>2. f[a + i - 1] - f[a - 1] = (y + w) - z BY <2>4, <2>6, Zenon
    <3> QED BY <2>7, <3>1, <3>2, Zenon
  <2> QED BY <2>2, <2>8
<1>13. S = 0..n
  <2>1. S \subseteq 0..n OBVIOUS
  <2> HIDE DEF S
  <2> QED BY <1>1, <1>11, <1>12, <2>1, CountAll
<1>14. g[n] = f[a + n - 1] - f[a - 1]
  <2>1. n \in 0..n BY <1>1
  <2>2. n \in S BY <1>13, <2>1, Zenon
  <2> QED BY <2>2, Zenon
<1> QED BY <1>2, <1>3, <1>4, <1>14 DEF t

LEMMA TokensAdd ==
  ASSUME NEW s \in Seq(Entry), NEW a \in 1..Len(s), NEW b \in a..Len(s)
  PROVE  /\ Tokens(SubSeq(s, a, Len(s))) = Tokens(SubSeq(s, a, b)) + Tokens(SubSeq(s, b + 1, Len(s)))
         /\ Tokens(SubSeq(s, a, b)) \in Int /\ Tokens(SubSeq(s, b + 1, Len(s))) \in Int
<1>1. PICK f : Sums(s, f) BY TokensSum
<1>2. /\ Len(s) \in Nat /\ a \in Nat /\ b \in Nat /\ b + 1 \in 1..Len(s) + 1 /\ a \in 1..Len(s) + 1
      /\ b \in a - 1..Len(s) /\ Len(s) \in a - 1..Len(s) /\ Len(s) \in b + 1 - 1..Len(s) /\ b + 1 - 1 = b
      /\ {Len(s), a - 1, b} \subseteq 0..Len(s)
  OBVIOUS
<1>3. f[Len(s)] \in Nat /\ f[a - 1] \in Nat /\ f[b] \in Nat BY <1>1, <1>2 DEF Sums
<1>4. Tokens(SubSeq(s, a, b)) = f[b] - f[a - 1] BY <1>1, <1>2, TokensOfPart
<1>5. Tokens(SubSeq(s, a, Len(s))) = f[Len(s)] - f[a - 1] BY <1>1, <1>2, TokensOfPart
<1>6. Tokens(SubSeq(s, b + 1, Len(s))) = f[Len(s)] - f[b + 1 - 1] BY <1>1, <1>2, TokensOfPart
<1> QED BY <1>2, <1>3, <1>4, <1>5, <1>6

-----------------------------------------------------------------------------
(* The window of a request *)

LEMMA CutAt ==
  ASSUME NEW s \in Seq(Entry), NEW i \in 1..Len(s)
  PROVE  /\ SubSeq(s, i, Len(s)) \in Seq(Entry) /\ Len(SubSeq(s, i, Len(s))) = Len(s) - i + 1
         /\ \A j \in 1..Len(s) - i + 1 : SubSeq(s, i, Len(s))[j] = s[i + j - 1]
  OBVIOUS

LEMMA CutTwice ==
  ASSUME NEW s \in Seq(Entry), NEW x \in 1..Len(s), NEW y \in 1..Len(s) - x + 1
  PROVE  /\ SubSeq(SubSeq(s, x, Len(s)), y, Len(s) - x + 1) = SubSeq(s, x + y - 1, Len(s))
         /\ x + y - 1 \in 1..Len(s)
<1>1. Len(s) \in 1..Len(s) /\ Len(s) - x + 1 \in 1..Len(s) - x + 1 /\ x + (Len(s) - x + 1) - 1 = Len(s)
      /\ x + y - 1 \in 1..Len(s)
  OBVIOUS
<1>2. SubSeq(SubSeq(s, x, Len(s)), y, Len(s) - x + 1) = SubSeq(s, x + y - 1, x + (Len(s) - x + 1) - 1)
  BY <1>1, SubSeqOfSubSeq
<1> QED BY <1>1, <1>2

LEMMA Costs == SendCount \in Nat \ {0} /\ MaxTokens \in Nat /\ System \in Nat
  BY ChatAssumption

(* A reset is the last messages, as many as are sent at most, and fits or is one message. *)
LEMMA ResetFits ==
  ASSUME NEW s \in Seq(Entry), s # <<>>
  PROVE  \E i \in 1..Len(s) :
           /\ ResetWindow(s) = SubSeq(s, i, Len(s)) /\ Len(s) - i + 1 <= SendCount
           /\ MaxTokens > 0 /\ i < Len(s) => System + Tokens(SubSeq(s, i, Len(s))) <= MaxTokens
<1>1. Len(s) \in Nat \ {0} OBVIOUS
<1>2. PICK x \in Int : x = Max({Len(s) - SendCount, 0}) + 1
  <2>1. Max({Len(s) - SendCount, 0}) \in Int BY <1>1, Costs, SmallLarge
  <2> QED BY <2>1
<1>3. x \in 1..Len(s) /\ Len(s) - x + 1 <= SendCount
  <2>1. Len(s) - SendCount \in Int /\ 0 \in Int BY <1>1, Costs
  <2>2. x = (IF Len(s) - SendCount >= 0 THEN Len(s) - SendCount ELSE 0) + 1 BY <1>2, <2>1, SmallLarge
  <2> QED BY <1>1, <2>2, Costs
<1>4. PICK most \in Seq(Entry) : most = SubSeq(s, x, Len(s)) /\ Len(most) = Len(s) - x + 1 BY <1>3, CutAt
<1> DEFINE fits == {i \in DOMAIN most : MaxTokens = 0 \/ System + Tokens(TailFrom(most, i)) <= MaxTokens}
           y == IF fits = {} THEN Len(most) ELSE Min(fits)
<1>5. ResetWindow(s) = TailFrom(most, y) BY <1>2, <1>4 DEF ResetWindow, TailFrom
<1>6. DOMAIN most = 1..Len(most) /\ Len(most) \in Nat \ {0} BY <1>1, <1>3, <1>4
<1>7. y \in 1..Len(most) /\ (y < Len(most) => y \in fits)
  <2>1. CASE fits = {} BY <1>6, <2>1
  <2>2. CASE fits # {}
    <3>1. fits \in SUBSET Nat /\ fits \subseteq 1..Len(most) BY <1>6
    <3>2. Min(fits) \in fits
      <4> HIDE DEF fits
      <4> QED BY <2>2, <3>1, LeastOf
    <3> HIDE DEF fits
    <3> QED BY <2>2, <3>1, <3>2
  <2> QED BY <2>1, <2>2
<1>8. y < Len(most) => MaxTokens = 0 \/ System + Tokens(TailFrom(most, y)) <= MaxTokens BY <1>7
<1> HIDE DEF y, fits
<1>9. TailFrom(most, y) = SubSeq(s, x + y - 1, Len(s)) /\ x + y - 1 \in 1..Len(s)
  BY <1>3, <1>4, <1>7, CutTwice DEF TailFrom
<1>10. PICK i \in 1..Len(s) : i = x + y - 1 BY <1>9
<1>11. Len(s) - i + 1 <= SendCount /\ (i < Len(s) => y < Len(most))
  <2>1. x \in Int /\ y \in Int /\ y >= 1 BY <1>3, <1>6, <1>7
  <2> QED BY <1>1, <1>3, <1>4, <1>10, <2>1, Costs
<1>12. MaxTokens > 0 => MaxTokens # 0 BY Costs
<1> QED BY <1>5, <1>8, <1>9, <1>10, <1>11, <1>12, Zenon

(* What is decided: the messages from a place on; it fits or is one message; an extension begins *)
(* with the first message of the window before, a reset has no more than are sent at most.       *)
Decided(s, anchor, d) ==
  \E i \in 1..Len(s) :
    /\ d.window = SubSeq(s, i, Len(s))
    /\ MaxTokens > 0 /\ i < Len(s) => System + Tokens(d.window) <= MaxTokens
    /\ \/ d.mode = "reset" /\ Len(s) - i + 1 <= SendCount
       \/ d.mode = "extend" /\ anchor # NoAnchor /\ i = FindMsgIndex(s, anchor.start)

LEMMA Decides ==
  ASSUME NEW s \in Seq(Entry), s # <<>>, NEW anchor
  PROVE  Decided(s, anchor, Decide(s, anchor))
<1> DEFINE first == IF anchor = NoAnchor THEN 0 ELSE FindMsgIndex(s, anchor.start)
           last  == Max({FindMsgIndex(s, anchor.last), first})
           hit   == System + Tokens(SubSeq(s, first, last))
           new   == Tokens(TailFrom(s, last + 1))
           reset == System + Tokens(TailFrom(s, Max({Len(s) - SendCount, 0}) + 1))
           cheap == /\ hit * HitCost + new * MissCost < reset * MissCost
                    /\ MaxTokens = 0 \/ hit + new <= MaxTokens
<1>1. CASE first > 0 /\ cheap
  <2>1. Decide(s, anchor) = [mode |-> "extend", window |-> TailFrom(s, first)] BY <1>1 DEF Decide
  <2>2. MaxTokens = 0 \/ hit + new <= MaxTokens BY <1>1
  <2>3. anchor # NoAnchor /\ first = FindMsgIndex(s, anchor.start) BY <1>1
  <2>4. first \in 1..Len(s)
    <3> HIDE DEF first, cheap
    <3>1. first \in 0..Len(s) BY <2>3, Found, Zenon
    <3> QED BY <1>1, <3>1
  <2>5. last \in first..Len(s)
    <3>1. FindMsgIndex(s, anchor.last) \in 0..Len(s) BY Found, Zenon
    <3>2. PICK l \in 0..Len(s) : l = FindMsgIndex(s, anchor.last) BY <3>1
    <3>3. last = Max({l, first}) BY <3>2
    <3> HIDE DEF first, last
    <3>4. l \in Int /\ first \in Int BY <2>4
    <3>5. last = IF l >= first THEN l ELSE first BY <3>3, <3>4, SmallLarge
    <3> QED BY <2>4, <3>5
  <2> HIDE DEF first, last
  <2>6. Tokens(SubSeq(s, first, Len(s))) = Tokens(SubSeq(s, first, last)) + Tokens(SubSeq(s, last + 1, Len(s)))
        /\ Tokens(SubSeq(s, first, last)) \in Int /\ Tokens(SubSeq(s, last + 1, Len(s))) \in Int
    BY <2>4, <2>5, TokensAdd
  <2>7. System + Tokens(SubSeq(s, first, Len(s))) = hit + new
    <3>1. PICK p, q : p = Tokens(SubSeq(s, first, last)) /\ q = Tokens(SubSeq(s, last + 1, Len(s))) OBVIOUS
    <3>2. hit = System + p /\ new = q BY <3>1 DEF TailFrom
    <3>3. p \in Int /\ q \in Int /\ System \in Int /\ System + (p + q) = (System + p) + q BY <2>6, <3>1, Costs
    <3> QED BY <2>6, <3>1, <3>2, <3>3
  <2>8. MaxTokens > 0 => System + Tokens(SubSeq(s, first, Len(s))) <= MaxTokens
    <3> HIDE DEF hit, new
    <3> QED BY <2>2, <2>7, Costs
  <2> HIDE DEF hit, new, reset, cheap
  <2>9. Decide(s, anchor).window = SubSeq(s, first, Len(s)) /\ Decide(s, anchor).mode = "extend"
    <3>1. PICK w : w = TailFrom(s, first) OBVIOUS
    <3>2. Decide(s, anchor) = [mode |-> "extend", window |-> w] BY <2>1, <3>1, Zenon
    <3>3. Decide(s, anchor).window = w /\ Decide(s, anchor).mode = "extend" BY <3>2
    <3>4. w = SubSeq(s, first, Len(s)) BY <3>1, Zenon DEF TailFrom
    <3> QED BY <3>3, <3>4, Zenon
  <2>10. PICK d : d = Decide(s, anchor) OBVIOUS
  <2>11. PICK i \in 1..Len(s) : i = first BY <2>4
  <2>12. /\ d.window = SubSeq(s, i, Len(s)) /\ d.mode = "extend" /\ anchor # NoAnchor
         /\ i = FindMsgIndex(s, anchor.start)
         /\ MaxTokens > 0 => System + Tokens(d.window) <= MaxTokens
    BY <2>3, <2>8, <2>9, <2>10, <2>11, Zenon
  <2>13. Decided(s, anchor, d) BY <2>12, Zenon DEF Decided
  <2> QED BY <2>10, <2>13
<1>2. CASE ~ (first > 0 /\ cheap)
  <2>1. Decide(s, anchor) = [mode |-> "reset", window |-> ResetWindow(s)] BY <1>2 DEF Decide
  <2>2. Decide(s, anchor).mode = "reset" /\ Decide(s, anchor).window = ResetWindow(s) BY <2>1
  <2> QED BY <2>2, ResetFits DEF Decided
<1> QED BY <1>1, <1>2

-----------------------------------------------------------------------------
(* What a request rests on: the inductive invariant behind RequestIsTrue.    *)

(* what an entry says of its row, is what the table says *)
Told(rows, e) == e.row > 0 => e.row \in DOMAIN rows /\ rows[e.row] = e.msg
AllTold(rows, s) == \A i \in DOMAIN s : Told(rows, s[i])

Each(s)  == \A i, j \in DOMAIN s : s[i].msg = s[j].msg => i = j
EndOf(s) == s[Len(s)].msg

(* the ring s, read backwards from the last message of w, is w read backwards, as far as both go *)
Aligned(s, w) ==
  \A p \in DOMAIN s : s[p].msg = EndOf(w) =>
    \A q \in 1..p : Len(w) - (p - q) >= 1 => s[q] = w[Len(w) - (p - q)]

TrueRule ==
  /\ AllTold(chRows, GetAll) /\ AllTold(chRows, chLine) /\ AllTold(chRows, chAgent.window)
  /\ Told(chRows, chReply) /\ Told(chRows, chAgent.reply)

(* the agent node a in front of the ring s *)
WorkOf(a, s) ==
  /\ a.at \in {"idle", "added", "asked", "said", "kept"}
  /\ a.trigger \in ChatMsgs \cup {NoMsg} /\ a.window \in Seq(Entry) /\ a.reply \in Entry \cup {NoEntry}
  /\ a.at # "idle" => a.trigger \in ChatMsgs
  /\ a.at \in {"idle", "added"} => a.window = <<>>
  /\ a.at \in {"asked", "said", "kept"} =>
       a.window # <<>> /\ EndOf(a.window) = a.trigger /\ Each(a.window) /\ Aligned(s, a.window)
  /\ a.at = "said" => a.reply \in Entry /\ a.reply.msg \in Replies

(* the line l behind the message the agent is at *)
LineOf(l, trigger, came) ==
  /\ came \in [ChatMsgs -> Nat] /\ Each(l)
  /\ \A i \in DOMAIN l : l[i].msg \in ChatMsgs /\ l[i].msg # trigger /\ came[l[i].msg] > 0
  /\ trigger \in ChatMsgs => came[trigger] > 0

(* the last window that was answered *)
SentOf(w, anchor, came, l, s) ==
  /\ w \in Seq(Entry)
  /\ w # <<>> =>
       /\ Each(w) /\ EndOf(w) \in ChatMsgs /\ came[EndOf(w)] > 0
       /\ anchor = [start |-> w[1].msg, last |-> EndOf(w)]
       /\ came[EndOf(w)] = 1 => Aligned(s, w) /\ \A i \in DOMAIN l : l[i].msg # EndOf(w)

(* the request that is asked *)
AskedOf(a, anchor, sent, came) ==
  a.at = "asked" =>
    /\ MaxTokens > 0 /\ Len(a.window) > 1 => System + Tokens(a.window) <= MaxTokens
    /\ a.mode = "reset" => Len(a.window) <= SendCount
    /\ a.mode = "extend" /\ sent # <<>> /\ FindMsgIndex(a.window, anchor.last) > 0 /\ came[EndOf(sent)] = 1
         => SubSeq(a.window, 1, FindMsgIndex(a.window, anchor.last)) = sent

Anchors == [start : Ids, last : Ids] \cup {NoAnchor}

RequestRule ==
  /\ TrueRule
  /\ WorkOf(chAgent, GetAll) /\ LineOf(chLine, chAgent.trigger, chCame)
  /\ chReply # NoEntry => chReply.msg \in Replies
  /\ SentOf(chSent, chAnchor, chCame, chLine, GetAll) /\ AskedOf(chAgent, chAnchor, chSent, chCame)
  /\ chAnchor \in Anchors /\ chStored \in Anchors /\ chFaults \in 0..ChatFaults

RequestInv == ChatInv /\ RequestRule

-----------------------------------------------------------------------------
(* The ring moves *)

RingMoved(s, t, e) ==
  \/ t = s
  \/ /\ Len(t) > 0 /\ t[Len(t)] = e
     /\ \E d \in {0, 1} : Len(t) = Len(s) + 1 - d /\ \A i \in 1..Len(t) - 1 : t[i] = s[i + d]

LEMMA RingMoves ==
  ASSUME RingRule, NEW e \in Entry, RingAdd(e), UNCHANGED chStarts
  PROVE  RingMoved(GetAll, GetAll', e)
<1>1. CachePromise!Add(e) \/ GetAll' = GetAll BY RingStep
<1>2. CASE GetAll' = GetAll BY <1>2 DEF RingMoved
<1>3. CASE CachePromise!Add(e)
  <2>1. GetAll' = Newest(Append(GetAll, e), ChatCap) BY <1>3 DEF CachePromise!Add, CachePromise!LastOf, Newest
  <2>2. GetAll \in Seq(Entry) /\ Len(GetAll) <= ChatCap BY WindowShape
  <2>3. PICK s \in Seq(Entry) : s = GetAll BY <2>2
  <2>4. PICK t : t = Newest(Append(s, e), ChatCap) OBVIOUS
  <2>5. ChatCap \in Nat /\ ChatCap > 0 /\ Len(s) <= ChatCap /\ Len(s) \in Nat BY Cap, <2>2, <2>3
  <2>6. /\ t \in Seq(Entry) /\ Len(t) = IF Len(s) < ChatCap THEN Len(s) + 1 ELSE ChatCap
        /\ t[IF Len(s) < ChatCap THEN Len(s) + 1 ELSE ChatCap] = e
        /\ \A i \in 1..(IF Len(s) < ChatCap THEN Len(s) + 1 ELSE ChatCap) - 1 :
             t[i] = IF Len(s) < ChatCap THEN s[i] ELSE s[i + 1]
    <3>1. Grows(s, e) BY <2>3, WindowGrows
    <3> QED BY <2>4, <2>5, <3>1, Zenon DEF Grows
  <2>7. RingMoved(s, t, e)
    <3>1. CASE Len(s) < ChatCap
      <4>1. Len(t) = Len(s) + 1 - 0 /\ \A i \in 1..Len(t) - 1 : t[i] = s[i + 0] BY <2>5, <2>6, <3>1
      <4> QED BY <2>5, <2>6, <3>1, <4>1 DEF RingMoved
    <3>2. CASE ~ (Len(s) < ChatCap)
      <4>1. Len(t) = Len(s) + 1 - 1 /\ \A i \in 1..Len(t) - 1 : t[i] = s[i + 1] BY <2>5, <2>6, <3>2
      <4> QED BY <2>5, <2>6, <3>2, <4>1 DEF RingMoved
    <3> QED BY <3>1, <3>2
  <2> QED BY <2>1, <2>3, <2>4, <2>7, Zenon
<1> QED BY <1>1, <1>2, <1>3

LEMMA MovedAligned ==
  ASSUME NEW s \in Seq(Entry), NEW t \in Seq(Entry), NEW e, NEW w \in Seq(Entry),
         RingMoved(s, t, e), Aligned(s, w), e.msg # EndOf(w)
  PROVE  Aligned(t, w)
<1>1. CASE t = s BY <1>1
<1>2. CASE t # s
  <2>1. PICK d \in {0, 1} : /\ Len(t) > 0 /\ t[Len(t)] = e /\ Len(t) = Len(s) + 1 - d
                            /\ \A i \in 1..Len(t) - 1 : t[i] = s[i + d]
    BY <1>2 DEF RingMoved
  <2>2. DOMAIN s = 1..Len(s) /\ DOMAIN t = 1..Len(t) /\ Len(s) \in Nat /\ Len(t) \in Nat /\ Len(w) \in Nat
    OBVIOUS
  <2>3. SUFFICES ASSUME NEW p \in 1..Len(t), t[p].msg = EndOf(w), NEW q \in 1..p, Len(w) - (p - q) >= 1
                 PROVE  t[q] = w[Len(w) - (p - q)]
    BY <2>2 DEF Aligned
  <2>4. p # Len(t) BY <2>1, <2>3
  <2>5. p \in 1..Len(t) - 1 /\ q \in 1..Len(t) - 1 /\ p + d \in 1..Len(s) /\ q + d \in 1..p + d
        /\ (p + d) - (q + d) = p - q
    BY <2>1, <2>2, <2>4
  <2>6. t[p] = s[p + d] /\ t[q] = s[q + d] BY <2>1, <2>5
  <2>7. s[q + d] = w[Len(w) - ((p + d) - (q + d))] BY <2>2, <2>3, <2>5, <2>6 DEF Aligned
  <2> QED BY <2>5, <2>6, <2>7
<1> QED BY <1>1, <1>2

LEMMA MovedTold ==
  ASSUME NEW rows, NEW s \in Seq(Entry), NEW t \in Seq(Entry), NEW e,
         RingMoved(s, t, e), AllTold(rows, s), Told(rows, e)
  PROVE  AllTold(rows, t)
<1>1. CASE t = s BY <1>1
<1>2. CASE t # s
  <2>1. PICK d \in {0, 1} : /\ Len(t) > 0 /\ t[Len(t)] = e /\ Len(t) = Len(s) + 1 - d
                            /\ \A i \in 1..Len(t) - 1 : t[i] = s[i + d]
    BY <1>2 DEF RingMoved
  <2>2. DOMAIN s = 1..Len(s) /\ DOMAIN t = 1..Len(t) /\ Len(s) \in Nat /\ Len(t) \in Nat OBVIOUS
  <2>3. \A i \in 1..Len(t) - 1 : i + d \in 1..Len(s) BY <2>1, <2>2
  <2>4. SUFFICES ASSUME NEW i \in 1..Len(t) PROVE Told(rows, t[i]) BY <2>2 DEF AllTold
  <2>5. CASE i = Len(t) BY <2>1, <2>5
  <2>6. CASE i # Len(t)
    <3>1. i \in 1..Len(t) - 1
      <4>1. Len(t) \in Nat BY <2>2
      <4> QED BY <4>1, <2>6
    <3>2. t[i] = s[i + d] /\ i + d \in DOMAIN s BY <2>1, <2>2, <2>3, <3>1
    <3> QED BY <3>2, Zenon DEF AllTold
  <2> QED BY <2>5, <2>6
<1> QED BY <1>1, <1>2

Grown(rows, more) == more = rows \/ \E m \in Ids : more = Append(rows, m)

LEMMA GrownTold ==
  ASSUME NEW rows \in Seq(Ids), NEW more, Grown(rows, more)
  PROVE  /\ \A e \in Entry \cup {NoEntry} : Told(rows, e) => Told(more, e)
         /\ \A s \in Seq(Entry) : AllTold(rows, s) => AllTold(more, s)
<1>1. \A i \in DOMAIN rows : i \in DOMAIN more /\ more[i] = rows[i]
  <2>1. CASE more = rows BY <2>1
  <2>2. CASE \E m \in Ids : more = Append(rows, m) BY <2>2
  <2> QED BY <2>1, <2>2 DEF Grown
<1>2. \A e : Told(rows, e) => Told(more, e) BY <1>1 DEF Told
<1> QED BY <1>2 DEF AllTold

LEMMA SavedTold ==
  ASSUME RowRule, NEW m \in Ids, NEW n, SaveMessage(m, n), chFaults \in 0..ChatFaults
  PROVE  /\ Grown(chRows, chRows') /\ Told(chRows', [msg |-> m, row |-> n]) /\ chFaults' \in 0..ChatFaults
         /\ RowRule' /\ [msg |-> m, row |-> n] \in Entry
<1>1. Grown(chRows, chRows') BY DEF SaveMessage, Upserted, Grown
<1>2. Told(chRows', [msg |-> m, row |-> n]) BY DEF Told, SaveMessage, RowOf
<1>3. ChatFaults \in Nat BY ChatAssumption
<1>4. chFaults' \in 0..ChatFaults BY <1>3 DEF SaveMessage
<1> QED BY <1>1, <1>2, <1>4, Saved

-----------------------------------------------------------------------------
(* What each part is kept by *)

LEMMA Apart == /\ \A m \in ChatMsgs, r \in Replies : m # r /\ m # NoMsg /\ r # NoMsg
               /\ ChatMsgs \subseteq Ids /\ Replies \subseteq Ids /\ NoMsg \notin Ids
  BY ChatAssumption DEF Ids

(* A message that comes is new to the line and to the agent. *)
LEMMA LineGrows ==
  ASSUME NEW l \in Seq(Entry), NEW trigger, NEW came, LineOf(l, trigger, came),
         NEW m \in ChatMsgs, m # trigger, \A i \in DOMAIN l : l[i].msg # m,
         NEW e \in Entry, e.msg = m, NEW more, more = l \/ more = Append(l, e)
  PROVE  LineOf(more, trigger, [came EXCEPT ![m] = @ + 1])
<1> DEFINE came2 == [came EXCEPT ![m] = @ + 1]
<1>1. came \in [ChatMsgs -> Nat] BY DEF LineOf
<1>2. came2 \in [ChatMsgs -> Nat] /\ came2[m] > 0 /\ \A x \in ChatMsgs : came[x] > 0 => came2[x] > 0 BY <1>1
<1> HIDE DEF came2
<1>3. Each(more)
  <2>1. CASE more = l BY <2>1 DEF LineOf
  <2>2. CASE more = Append(l, e)
    <3>1. Each(l) BY DEF LineOf
    <3> QED BY <2>2, <3>1 DEF Each
  <2> QED BY <2>1, <2>2
<1>4. \A i \in DOMAIN more : more[i].msg \in ChatMsgs /\ more[i].msg # trigger /\ came2[more[i].msg] > 0
  <2>1. CASE more = l BY <1>2, <2>1 DEF LineOf
  <2>2. CASE more = Append(l, e)
    <3>1. \A i \in DOMAIN more : more[i].msg = m \/ (i \in DOMAIN l /\ more[i] = l[i]) BY <2>2
    <3> QED BY <1>2, <3>1 DEF LineOf
  <2> QED BY <2>1, <2>2
<1>5. trigger \in ChatMsgs => came2[trigger] > 0 BY <1>2 DEF LineOf
<1> QED BY <1>2, <1>3, <1>4, <1>5 DEF LineOf, came2

LEMMA SentGrows ==
  ASSUME NEW l \in Seq(Entry), NEW trigger, NEW came, LineOf(l, trigger, came),
         NEW w, NEW anchor, NEW s, SentOf(w, anchor, came, l, s), NEW m \in ChatMsgs,
         NEW e \in Entry, e.msg = m, NEW more, more = l \/ more = Append(l, e)
  PROVE  SentOf(w, anchor, [came EXCEPT ![m] = @ + 1], more, s)
<1> DEFINE came2 == [came EXCEPT ![m] = @ + 1]
<1>1. came \in [ChatMsgs -> Nat] BY DEF LineOf
<1>2. \A x \in ChatMsgs : came[x] > 0 => came2[x] > 0 /\ (came2[x] = 1 => came[x] = 1 /\ x # m) BY <1>1
<1> HIDE DEF came2
<1>3. \A i \in DOMAIN more : more[i].msg = m \/ (i \in DOMAIN l /\ more[i] = l[i]) OBVIOUS
<1> QED BY <1>2, <1>3 DEF SentOf, came2

LEMMA AskedGrows ==
  ASSUME NEW l, NEW trigger, NEW came, LineOf(l, trigger, came),
         NEW sent, NEW anchor, NEW s, SentOf(sent, anchor, came, l, s), NEW m \in ChatMsgs,
         NEW a, AskedOf(a, anchor, sent, came)
  PROVE  AskedOf(a, anchor, sent, [came EXCEPT ![m] = @ + 1])
<1> DEFINE came2 == [came EXCEPT ![m] = @ + 1]
<1>1. came \in [ChatMsgs -> Nat] BY DEF LineOf
<1>2. \A x \in ChatMsgs : came[x] > 0 => (came2[x] = 1 => came[x] = 1) BY <1>1
<1> HIDE DEF came2
<1>3. sent # <<>> /\ came2[EndOf(sent)] = 1 => came[EndOf(sent)] = 1 BY <1>2 DEF SentOf
<1> QED BY <1>3 DEF AskedOf, came2

(* The agent takes the first of the line. *)
LEMMA LineShrinks ==
  ASSUME NEW l \in Seq(Entry), l # <<>>, NEW trigger, NEW came, LineOf(l, trigger, came)
  PROVE  /\ LineOf(Tail(l), Head(l).msg, came) /\ Head(l) \in Entry /\ Head(l).msg \in ChatMsgs
         /\ Tail(l) \in Seq(Entry) /\ \A i \in DOMAIN Tail(l) : \E j \in DOMAIN l : Tail(l)[i] = l[j]
<1>1. /\ Head(l) = l[1] /\ 1 \in DOMAIN l /\ Head(l) \in Entry /\ Tail(l) \in Seq(Entry)
      /\ \A i \in DOMAIN Tail(l) : i + 1 \in DOMAIN l /\ Tail(l)[i] = l[i + 1] /\ i \in Nat \ {0}
  OBVIOUS
<1> QED BY <1>1 DEF LineOf, Each

LEMMA SentMoves ==
  ASSUME NEW w, NEW anchor, NEW came, NEW l, NEW s \in Seq(Entry), SentOf(w, anchor, came, l, s),
         NEW t \in Seq(Entry), NEW e, RingMoved(s, t, e), NEW less,
         \A i \in DOMAIN less : \E j \in DOMAIN l : less[i] = l[j],
         w # <<>> /\ came[EndOf(w)] = 1 => e.msg # EndOf(w)
  PROVE  SentOf(w, anchor, came, less, t)
<1>1. CASE w = <<>> BY <1>1 DEF SentOf
<1>2. CASE w # <<>>
  <2>1. w \in Seq(Entry) BY DEF SentOf
  <2>2. came[EndOf(w)] = 1 => Aligned(t, w)
    <3> SUFFICES ASSUME came[EndOf(w)] = 1 PROVE Aligned(t, w) OBVIOUS
    <3>1. Aligned(s, w) /\ e.msg # EndOf(w) BY <1>2 DEF SentOf
    <3> QED BY <2>1, <1>2, <3>1, MovedAligned
  <2>3. came[EndOf(w)] = 1 => \A i \in DOMAIN less : less[i].msg # EndOf(w) BY <1>2 DEF SentOf
  <2> QED BY <1>2, <2>2, <2>3 DEF SentOf
<1> QED BY <1>1, <1>2

LEMMA WorkMoves ==
  ASSUME NEW a, NEW s \in Seq(Entry), WorkOf(a, s), NEW t \in Seq(Entry), NEW e, RingMoved(s, t, e),
         e.msg \in Replies
  PROVE  WorkOf(a, t)
<1>1. CASE a.at \in {"asked", "said", "kept"}
  <2>1. a.window \in Seq(Entry) /\ a.window # <<>> /\ EndOf(a.window) = a.trigger /\ a.trigger \in ChatMsgs
        /\ Aligned(s, a.window)
    BY <1>1 DEF WorkOf
  <2>2. e.msg # EndOf(a.window) BY <2>1, Apart
  <2>3. Aligned(t, a.window) BY <2>1, <2>2, MovedAligned
  <2> QED BY <2>3 DEF WorkOf
<1>2. CASE ~ (a.at \in {"asked", "said", "kept"}) BY <1>2 DEF WorkOf
<1> QED BY <1>1, <1>2

-----------------------------------------------------------------------------
(* The window that is selected *)

Cutout(s, m, anchor, d, n, i) ==
  /\ d.window \in Seq(Entry) /\ Len(d.window) = n - i + 1 /\ s[n].msg = m
  /\ \A j \in 1..n - i + 1 : d.window[j] = s[i + j - 1]
  /\ MaxTokens > 0 /\ Len(d.window) > 1 => System + Tokens(d.window) <= MaxTokens
  /\ \/ d.mode = "reset" /\ Len(d.window) <= SendCount
     \/ d.mode = "extend" /\ anchor # NoAnchor /\ s[i].msg = anchor.start

LEMMA Selected ==
  ASSUME NEW s \in Seq(Entry), Each(s), NEW m, SubSeq(s, 1, FindMsgIndex(s, m)) # <<>>,
         NEW anchor, NEW d, Decided(SubSeq(s, 1, FindMsgIndex(s, m)), anchor, d)
  PROVE  \E n \in 1..Len(s) : \E i \in 1..n : Cutout(s, m, anchor, d, n, i)
<1>1. PICK n \in 0..Len(s) : n = FindMsgIndex(s, m) BY Found
<1>2. n # 0
  <2>1. SUFFICES ASSUME n = 0 PROVE FALSE OBVIOUS
  <2>2. SubSeq(s, 1, 0) = <<>> OBVIOUS
  <2> QED BY <1>1, <2>1, <2>2
<1>3. n \in 1..Len(s) /\ s[n].msg = m BY <1>1, <1>2, Found
<1>4. PICK snap : snap = SubSeq(s, 1, n) OBVIOUS
<1>5. snap \in Seq(Entry) /\ Len(snap) = n /\ \A j \in 1..n : snap[j] = s[j] BY <1>3, <1>4
<1>6. Decided(snap, anchor, d) BY <1>1, <1>4
<1>7. PICK i \in 1..n :
        /\ d.window = SubSeq(snap, i, n)
        /\ MaxTokens > 0 /\ i < n => System + Tokens(d.window) <= MaxTokens
        /\ \/ d.mode = "reset" /\ n - i + 1 <= SendCount
           \/ d.mode = "extend" /\ anchor # NoAnchor /\ i = FindMsgIndex(snap, anchor.start)
  BY <1>5, <1>6 DEF Decided
<1>8. d.window \in Seq(Entry) /\ Len(d.window) = n - i + 1 /\ \A j \in 1..n - i + 1 : d.window[j] = snap[i + j - 1]
  BY <1>5, <1>7, CutAt
<1>9. \A j \in 1..n - i + 1 : i + j - 1 \in 1..n BY <1>3
<1>10. \A j \in 1..n - i + 1 : d.window[j] = s[i + j - 1] BY <1>5, <1>8, <1>9
<1>11. Len(d.window) > 1 => i < n BY <1>3, <1>8
<1>12. d.mode = "extend" /\ i = FindMsgIndex(snap, anchor.start) => s[i].msg = anchor.start
  <2>1. i > 0 BY <1>3
  <2>2. i = FindMsgIndex(snap, anchor.start) => snap[i].msg = anchor.start BY <1>5, <2>1, Found
  <2> QED BY <1>5, <2>2
<1> QED BY <1>3, <1>7, <1>8, <1>10, <1>11, <1>12 DEF Cutout

LEMMA Beginning ==
  ASSUME NEW s \in Seq(Entry), NEW k \in 1..Len(s)
  PROVE  SubSeq(s, 1, k) \in Seq(Entry) /\ Len(SubSeq(s, 1, k)) = k /\ \A j \in 1..k : SubSeq(s, 1, k)[j] = s[j]
  OBVIOUS

LEMMA SameFront ==
  ASSUME NEW w \in Seq(Entry), NEW t \in Seq(Entry), Len(t) \in 1..Len(w), \A j \in 1..Len(t) : w[j] = t[j]
  PROVE  SubSeq(w, 1, Len(t)) = t
<1>1. SubSeq(w, 1, Len(t)) \in Seq(Entry) /\ Len(SubSeq(w, 1, Len(t))) = Len(t)
      /\ \A j \in 1..Len(t) : SubSeq(w, 1, Len(t))[j] = w[j]
  BY Beginning
<1> QED BY <1>1, SameWindow

LEMMA SameMessage ==
  ASSUME NEW s \in Seq(Entry), Each(s), NEW x \in 1..Len(s), NEW y \in 1..Len(s), s[x].msg = s[y].msg
  PROVE  x = y
  BY DEF Each

(* It ends with the message it answers, says nothing twice, and is what the ring holds up to there. *)
LEMMA SelectedWorks ==
  ASSUME NEW s \in Seq(Entry), Each(s), NEW n \in 1..Len(s), NEW i \in 1..n,
         NEW w \in Seq(Entry), Len(w) = n - i + 1, \A j \in 1..n - i + 1 : w[j] = s[i + j - 1]
  PROVE  w # <<>> /\ EndOf(w) = s[n].msg /\ Each(w) /\ Aligned(s, w)
<1>1. n - i + 1 \in 1..n - i + 1 /\ i + (n - i + 1) - 1 = n /\ Len(s) \in Nat /\ n \in DOMAIN s
      /\ DOMAIN w = 1..n - i + 1 /\ DOMAIN s = 1..Len(s)
  OBVIOUS
<1>2. w # <<>> /\ EndOf(w) = s[n].msg
  <2>1. w[n - i + 1] = s[n] BY <1>1
  <2>2. w[Len(w)] = s[n] BY <2>1, Zenon
  <2> QED BY <1>1, <2>2 DEF EndOf
<1>3. Each(w)
  <2> SUFFICES ASSUME NEW j \in 1..n - i + 1, NEW k \in 1..n - i + 1, w[j].msg = w[k].msg PROVE j = k
    BY <1>1 DEF Each
  <2>1. i + j - 1 \in 1..Len(s) /\ i + k - 1 \in 1..Len(s) BY <1>1
  <2>2. s[i + j - 1].msg = s[i + k - 1].msg OBVIOUS
  <2>3. i + j - 1 = i + k - 1 BY <2>1, <2>2, SameMessage
  <2> QED BY <2>3
<1>4. Aligned(s, w)
  <2> SUFFICES ASSUME NEW p \in 1..Len(s), s[p].msg = s[n].msg, NEW q \in 1..p, Len(w) - (p - q) >= 1
               PROVE  s[q] = w[Len(w) - (p - q)]
    BY <1>1, <1>2 DEF Aligned
  <2>1. p = n BY <1>1 DEF Each
  <2>2. Len(w) - (p - q) = q - i + 1 /\ q - i + 1 \in 1..n - i + 1 /\ i + (q - i + 1) - 1 = q BY <2>1
  <2> QED BY <2>2
<1> QED BY <1>2, <1>3, <1>4

(* What an extension takes as sent before, is what was sent before. *)
LEMMA CutoutExtends ==
  ASSUME NEW s \in Seq(Entry), Each(s), NEW n \in 1..Len(s), NEW i \in 1..n, NEW m, NEW anchor, NEW d,
         NEW sent, NEW came, NEW ahead, SentOf(sent, anchor, came, ahead, s),
         d.mode = "extend" => Cutout(s, m, anchor, d, n, i)
  PROVE  d.mode = "extend" /\ sent # <<>> /\ FindMsgIndex(d.window, anchor.last) > 0 /\ came[EndOf(sent)] = 1
           => SubSeq(d.window, 1, FindMsgIndex(d.window, anchor.last)) = sent
<1> SUFFICES ASSUME d.mode = "extend", sent # <<>>, FindMsgIndex(d.window, anchor.last) > 0, came[EndOf(sent)] = 1
             PROVE  SubSeq(d.window, 1, FindMsgIndex(d.window, anchor.last)) = sent
  OBVIOUS
<1>1. PICK w \in Seq(Entry) : w = d.window BY DEF Cutout
<1>2. Len(w) = n - i + 1 /\ (\A j \in 1..n - i + 1 : w[j] = s[i + j - 1]) /\ s[i].msg = anchor.start
  BY <1>1 DEF Cutout
<1>3. PICK v \in Seq(Entry) : v = sent BY DEF SentOf
<1>4. v # <<>> /\ Each(v) /\ Aligned(s, v) /\ anchor = [start |-> v[1].msg, last |-> EndOf(v)]
  BY <1>3 DEF SentOf
<1>5. s[i].msg = v[1].msg /\ anchor.last = EndOf(v) BY <1>2, <1>4
<1>6. PICK k \in 1..Len(w) : k = FindMsgIndex(w, anchor.last)
  <2>1. FindMsgIndex(w, anchor.last) \in 0..Len(w) BY Found
  <2> QED BY <1>1, <2>1
<1>7. k > 0 BY <1>1, <1>6
<1>8. w[k].msg = EndOf(v) BY <1>5, <1>6, <1>7, Found
<1>9. PICK l \in Nat \ {0} : l = Len(v)
  <2>1. Len(v) \in Nat \ {0} BY <1>4
  <2> QED BY <2>1
<1>10. /\ k \in 1..n - i + 1 /\ i + k - 1 \in 1..Len(s) /\ DOMAIN s = 1..Len(s) /\ DOMAIN v = 1..l
      /\ Len(s) \in Nat /\ i \in 1..Len(s)
  BY <1>2, <1>9
<1>11. s[i + k - 1].msg = EndOf(v) BY <1>2, <1>8, <1>10
<1>12. \A q \in 1..i + k - 1 : l - ((i + k - 1) - q) >= 1 => s[q] = v[l - ((i + k - 1) - q)]
  BY <1>4, <1>9, <1>10, <1>11 DEF Aligned
<1>13. k = l
  <2>1. CASE k > l
    <3>1. PICK x \in Int : x = i + k - l BY <1>10
    <3>2. x \in 1..i + k - 1 /\ l - ((i + k - 1) - x) = 1 /\ x \in 1..Len(s) /\ x # i BY <1>10, <2>1, <3>1
    <3>3. s[x] = v[l - ((i + k - 1) - x)] BY <1>12, <3>2
    <3>4. s[x].msg = s[i].msg BY <1>5, <3>2, <3>3, Zenon
    <3>5. x = i BY <1>10, <3>2, <3>4, SameMessage
    <3> QED BY <3>2, <3>5
  <2>2. CASE k <= l
    <3>1. PICK y \in Int : y = l - ((i + k - 1) - i) BY <1>10
    <3>2. i \in 1..i + k - 1 /\ y \in 1..l /\ y = l - k + 1 /\ 1 \in 1..l BY <1>10, <2>2, <3>1
    <3>3. y >= 1 BY <3>2
    <3>4. s[i] = v[y] BY <1>12, <3>1, <3>2, <3>3, Zenon
    <3>5. v[y].msg = v[1].msg BY <1>5, <3>4, Zenon
    <3>6. y = 1 BY <1>4, <1>10, <3>2, <3>5 DEF Each
    <3> QED BY <1>10, <3>2, <3>6
  <2> QED BY <1>10, <2>1, <2>2
<1>14. \A j \in 1..k : w[j] = v[j]
  <2> TAKE j \in 1..k
  <2>1. PICK x \in Int : x = i + j - 1 BY <1>10
  <2>2. x \in 1..i + k - 1 /\ l - ((i + k - 1) - x) = j /\ j \in 1..n - i + 1 /\ j >= 1 BY <1>10, <1>13, <2>1
  <2>3. s[x] = v[l - ((i + k - 1) - x)] BY <1>12, <2>2
  <2>4. w[j] = s[x] BY <1>2, <2>1, <2>2
  <2> QED BY <2>2, <2>3, <2>4, Zenon
<1>15. SubSeq(w, 1, k) = v BY <1>9, <1>13, <1>14, SameFront
<1> QED BY <1>1, <1>3, <1>6, <1>15

-----------------------------------------------------------------------------
(* Every step keeps what a request rests on *)

LEMMA RequestBasis ==
  ASSUME RequestInv
  PROVE  /\ RingRule /\ RowRule /\ chRows \in Seq(Ids) /\ chLine \in Seq(Entry) /\ chReply \in Entry \cup {NoEntry}
         /\ chAgent = [f \in {"at", "trigger", "window", "reply", "mode"} |-> chAgent[f]]
         /\ GetAll \in Seq(Entry) /\ Each(GetAll) /\ TrueRule
         /\ WorkOf(chAgent, GetAll) /\ LineOf(chLine, chAgent.trigger, chCame)
         /\ chReply # NoEntry => chReply.msg \in Replies
         /\ SentOf(chSent, chAnchor, chCame, chLine, GetAll) /\ AskedOf(chAgent, chAnchor, chSent, chCame)
         /\ chAnchor \in Anchors /\ chStored \in Anchors /\ chFaults \in 0..ChatFaults
<1>1. RingRule /\ RowRule /\ WayRule /\ RequestRule BY DEF RequestInv, ChatInv
<1>2. GetAll \in Seq(Entry) /\ Len(GetAll) = InRing /\ \A i, j \in 1..InRing : GetAll[i].msg = GetAll[j].msg => i = j
  BY <1>1, WindowShape
<1>3. DOMAIN GetAll = 1..InRing
  <2>1. DOMAIN GetAll = 1..Len(GetAll) BY <1>2
  <2> QED BY <1>2, <2>1, Zenon
<1>4. Each(GetAll) BY <1>2, <1>3, Zenon DEF Each
<1> QED BY <1>1, <1>2, <1>4 DEF RowRule, WayRule, RequestRule

LEMMA RequestNext == ChatInv' => GetAll' \in Seq(Entry) /\ RingRule' /\ RowRule'
  BY WindowNext DEF ChatInv

LEMMA SameRing == UNCHANGED ring => UNCHANGED GetAll
  BY DEF ring, GetAll

LEMMA PrepareKeeps ==
  ASSUME RequestInv, NEW m \in ChatMsgs, PrepareBatch(m)
  PROVE  RequestRule'
<1>1. /\ RowRule /\ chRows \in Seq(Ids) /\ chLine \in Seq(Entry) /\ GetAll \in Seq(Entry) /\ TrueRule
      /\ WorkOf(chAgent, GetAll) /\ LineOf(chLine, chAgent.trigger, chCame)
      /\ chReply # NoEntry => chReply.msg \in Replies
      /\ SentOf(chSent, chAnchor, chCame, chLine, GetAll) /\ AskedOf(chAgent, chAnchor, chSent, chCame)
      /\ chAnchor \in Anchors /\ chStored \in Anchors /\ chFaults \in 0..ChatFaults
      /\ chReply \in Entry \cup {NoEntry}
  BY RequestBasis
<1>2. /\ m # chAgent.trigger /\ \A i \in DOMAIN chLine : chLine[i].msg # m
      /\ chCame' = [chCame EXCEPT ![m] = @ + 1]
      /\ UNCHANGED <<ring, marks, chAgent, chReply, chStarts, chSent>>
  BY DEF PrepareBatch, OnTheWay
<1>3. UNCHANGED <<GetAll, chAnchor, chStored>> BY <1>2, SameRing DEF marks
<1>4. PICK e \in Entry : /\ e.msg = m /\ Grown(chRows, chRows') /\ chFaults' \in 0..ChatFaults
                         /\ chLine' = chLine \/ (chLine' = Append(chLine, e) /\ Told(chRows', e))
  <2>1. CASE HasSeen(m)
    <3>1. UNCHANGED <<chRows, chFaults, chLine>> BY <2>1 DEF PrepareBatch
    <3>2. m \in Ids /\ Cardinality(Ids) \in Nat BY Cap, FS_CardinalityType, Apart
    <3>3. [msg |-> m, row |-> 0] \in Entry BY <3>2 DEF Entry
    <3>4. [msg |-> m, row |-> 0].msg = m OBVIOUS
    <3> QED BY <1>1, <3>1, <3>3, <3>4 DEF Grown
  <2>2. CASE ~ HasSeen(m)
    <3>1. PICK n \in RowNumbers : SaveMessage(m, n) /\ chLine' = Append(chLine, [msg |-> m, row |-> n])
      BY <2>2 DEF PrepareBatch
    <3>2. m \in Ids BY Apart
    <3>3. /\ Grown(chRows, chRows') /\ Told(chRows', [msg |-> m, row |-> n]) /\ chFaults' \in 0..ChatFaults
          /\ [msg |-> m, row |-> n] \in Entry
      BY <1>1, <3>1, <3>2, SavedTold
    <3>4. [msg |-> m, row |-> n].msg = m OBVIOUS
    <3> QED BY <3>1, <3>3, <3>4, Zenon
  <2> QED BY <2>1, <2>2
<1>5. TrueRule'
  <2>1. /\ \A x \in Entry \cup {NoEntry} : Told(chRows, x) => Told(chRows', x)
        /\ \A s \in Seq(Entry) : AllTold(chRows, s) => AllTold(chRows', s)
    BY <1>1, <1>4, GrownTold
  <2>2. chAgent.window \in Seq(Entry) /\ chAgent.reply \in Entry \cup {NoEntry} BY <1>1 DEF WorkOf
  <2>3. AllTold(chRows', chLine')
    <3>1. AllTold(chRows', chLine) BY <1>1, <2>1 DEF TrueRule
    <3>2. CASE chLine' = chLine BY <3>1, <3>2
    <3>3. CASE chLine' = Append(chLine, e) /\ Told(chRows', e) BY <1>1, <3>1, <3>3 DEF AllTold
    <3> QED BY <1>4, <3>2, <3>3
  <2> QED BY <1>1, <1>2, <1>3, <2>1, <2>2, <2>3 DEF TrueRule
<1>6. chLine' = chLine \/ chLine' = Append(chLine, e) BY <1>4
<1>7. LineOf(chLine', chAgent'.trigger, chCame')
  <2>1. PICK l, c : l = chLine' /\ c = [chCame EXCEPT ![m] = @ + 1] OBVIOUS
  <2>2. LineOf(l, chAgent.trigger, c) BY <1>1, <1>2, <1>4, <1>6, <2>1, LineGrows
  <2> QED BY <1>2, <2>1, <2>2
<1>8. SentOf(chSent', chAnchor', chCame', chLine', GetAll')
  <2>1. PICK l, c : l = chLine' /\ c = [chCame EXCEPT ![m] = @ + 1] OBVIOUS
  <2>2. SentOf(chSent, chAnchor, c, l, GetAll) BY <1>1, <1>4, <1>6, <2>1, SentGrows
  <2> QED BY <1>2, <1>3, <2>1, <2>2
<1>9. AskedOf(chAgent', chAnchor', chSent', chCame')
  <2>1. AskedOf(chAgent, chAnchor, chSent, [chCame EXCEPT ![m] = @ + 1]) BY <1>1, AskedGrows
  <2> QED BY <1>2, <1>3, <2>1
<1> QED BY <1>1, <1>2, <1>3, <1>4, <1>5, <1>7, <1>8, <1>9 DEF RequestRule

LEMMA NoWorkWorks ==
  /\ \A s : WorkOf(NoWork, s)
  /\ \A anchor, sent, came : AskedOf(NoWork, anchor, sent, came)
  /\ NoWork.trigger = NoMsg /\ NoWork.window = <<>> /\ NoWork.reply = NoEntry
  /\ \A rows : Told(rows, NoEntry) /\ AllTold(rows, <<>>)
<1>1. /\ NoWork.at = "idle" /\ NoWork.trigger = NoMsg /\ NoWork.window = <<>> /\ NoWork.reply = NoEntry
      /\ NoEntry.row = 0
  BY DEF NoWork, NoEntry
<1>2. \A s : WorkOf(NoWork, s) BY <1>1 DEF WorkOf
<1>3. \A anchor, sent, came : AskedOf(NoWork, anchor, sent, came) BY <1>1 DEF AskedOf
<1>4. \A rows : Told(rows, NoEntry) BY <1>1 DEF Told
<1>5. \A rows : AllTold(rows, <<>>) BY DEF AllTold
<1> QED BY <1>1, <1>2, <1>3, <1>4, <1>5

LEMMA TakeKeeps ==
  ASSUME RequestInv, AgentTakes, ChatInv'
  PROVE  RequestRule'
<1>1. /\ RingRule /\ chLine \in Seq(Entry) /\ GetAll \in Seq(Entry) /\ TrueRule
      /\ LineOf(chLine, chAgent.trigger, chCame)
      /\ chReply # NoEntry => chReply.msg \in Replies
      /\ SentOf(chSent, chAnchor, chCame, chLine, GetAll)
      /\ chAnchor \in Anchors /\ chStored \in Anchors /\ chFaults \in 0..ChatFaults
  BY RequestBasis
<1>2. /\ chLine # <<>> /\ RingAdd(Head(chLine)) /\ chLine' = Tail(chLine)
      /\ chAgent' = [NoWork EXCEPT !.at = "added", !.trigger = Head(chLine).msg]
      /\ UNCHANGED <<chRows, marks, chReply, chCame, chFaults, chStarts, chSent>>
  BY DEF AgentTakes
<1>3. UNCHANGED <<chAnchor, chStored>> BY <1>2 DEF marks
<1>4. GetAll' \in Seq(Entry) BY RequestNext
<1>5. /\ LineOf(Tail(chLine), Head(chLine).msg, chCame) /\ Head(chLine) \in Entry /\ Head(chLine).msg \in ChatMsgs
      /\ Tail(chLine) \in Seq(Entry) /\ \A i \in DOMAIN Tail(chLine) : \E j \in DOMAIN chLine : Tail(chLine)[i] = chLine[j]
  BY <1>1, <1>2, LineShrinks
<1>6. RingMoved(GetAll, GetAll', Head(chLine)) BY <1>1, <1>2, <1>5, RingMoves
<1>7. Head(chLine) = chLine[1] /\ 1 \in DOMAIN chLine BY <1>1, <1>2
<1>8. /\ chAgent'.at = "added" /\ chAgent'.trigger = Head(chLine).msg
      /\ chAgent'.window = <<>> /\ chAgent'.reply = NoEntry
  BY <1>2 DEF NoWork
<1>9. WorkOf(chAgent', GetAll') BY <1>5, <1>8 DEF WorkOf
<1>10. AskedOf(chAgent', chAnchor', chSent', chCame') BY <1>8 DEF AskedOf
<1>11. TrueRule'
  <2>1. AllTold(chRows, chLine) /\ AllTold(chRows, GetAll) /\ Told(chRows, chReply) BY <1>1 DEF TrueRule
  <2>2. Told(chRows, Head(chLine)) BY <1>7, <2>1 DEF AllTold
  <2>3. AllTold(chRows, GetAll') BY <1>1, <1>4, <1>6, <2>1, <2>2, MovedTold
  <2>4. AllTold(chRows, Tail(chLine)) BY <1>5, <2>1 DEF AllTold
  <2> QED BY <1>2, <1>8, <2>1, <2>3, <2>4, NoWorkWorks DEF TrueRule
<1>12. SentOf(chSent, chAnchor, chCame, Tail(chLine), GetAll')
  <2>1. chSent # <<>> /\ chCame[EndOf(chSent)] = 1 => Head(chLine).msg # EndOf(chSent)
    BY <1>1, <1>7 DEF SentOf
  <2>2. PICK t, e, l : t = GetAll' /\ t \in Seq(Entry) /\ e = Head(chLine) /\ l = Tail(chLine) BY <1>4, <1>5
  <2>3. SentOf(chSent, chAnchor, chCame, l, t) BY <1>1, <1>5, <1>6, <2>1, <2>2, SentMoves
  <2> QED BY <2>2, <2>3
<1> QED BY <1>1, <1>2, <1>3, <1>5, <1>8, <1>9, <1>10, <1>11, <1>12 DEF RequestRule

LEMMA LeaveKeeps ==
  ASSUME RequestInv, AgentLeaves \/ ReplyFails
  PROVE  RequestRule'
<1>1. /\ TrueRule /\ LineOf(chLine, chAgent.trigger, chCame)
      /\ chReply # NoEntry => chReply.msg \in Replies
      /\ SentOf(chSent, chAnchor, chCame, chLine, GetAll)
      /\ chAnchor \in Anchors /\ chStored \in Anchors /\ chFaults \in 0..ChatFaults
  BY RequestBasis
<1>2. chAgent' = NoWork /\ UNCHANGED <<chRows, ring, marks, chLine, chReply, chCame, chFaults, chStarts, chSent>>
  BY DEF AgentLeaves, ReplyFails
<1>3. UNCHANGED <<GetAll, chAnchor, chStored>> BY <1>2, SameRing DEF marks
<1>4. TrueRule' BY <1>1, <1>2, <1>3, NoWorkWorks DEF TrueRule
<1>5. LineOf(chLine, NoMsg, chCame)
  <2>1. NoMsg \notin ChatMsgs BY Apart
  <2> QED BY <1>1, <2>1 DEF LineOf
<1>6. WorkOf(chAgent', GetAll') /\ AskedOf(chAgent', chAnchor', chSent', chCame') /\ chAgent'.trigger = NoMsg
  BY <1>2, NoWorkWorks
<1> QED BY <1>1, <1>2, <1>3, <1>4, <1>5, <1>6 DEF RequestRule

LEMMA SelectKeeps ==
  ASSUME RequestInv, NEW expired \in BOOLEAN, SelectWindow(expired)
  PROVE  RequestRule'
<1>1. /\ GetAll \in Seq(Entry) /\ Each(GetAll) /\ TrueRule
      /\ WorkOf(chAgent, GetAll) /\ LineOf(chLine, chAgent.trigger, chCame)
      /\ chReply # NoEntry => chReply.msg \in Replies
      /\ SentOf(chSent, chAnchor, chCame, chLine, GetAll)
      /\ chAnchor \in Anchors /\ chStored \in Anchors /\ chFaults \in 0..ChatFaults
      /\ chAgent = [f \in {"at", "trigger", "window", "reply", "mode"} |-> chAgent[f]]
  BY RequestBasis
<1>2. chAgent.at = "added" /\ Snapshot # <<>>
      /\ UNCHANGED <<chRows, ring, marks, chLine, chReply, chCame, chFaults, chStarts, chSent>>
  BY DEF SelectWindow
<1>3. UNCHANGED <<GetAll, chAnchor, chStored>> BY <1>2, SameRing DEF marks
<1>4. PICK anchor : anchor = IF expired THEN NoAnchor ELSE chAnchor OBVIOUS
<1>5. PICK d : d = Decide(Snapshot, anchor) /\ chAgent' = [chAgent EXCEPT !.at = "asked", !.window = d.window, !.mode = d.mode]
  BY <1>4 DEF SelectWindow
<1>6. PICK s \in Seq(Entry) : s = GetAll BY <1>1
<1>7. PICK m : m = chAgent.trigger OBVIOUS
<1>8. Snapshot = SubSeq(s, 1, FindMsgIndex(s, m)) BY <1>6, <1>7 DEF Snapshot
<1>9. SubSeq(s, 1, FindMsgIndex(s, m)) \in Seq(Entry)
  <2>1. PICK n \in 0..Len(s) : n = FindMsgIndex(s, m) BY Found
  <2>2. SubSeq(s, 1, n) \in Seq(Entry)
    <3>1. CASE n = 0 BY <3>1
    <3>2. CASE n # 0
      <4>1. n \in 1..Len(s) BY <3>2
      <4> QED BY <4>1, Beginning
    <3> QED BY <3>1, <3>2
  <2> QED BY <2>1, <2>2
<1>10. Decided(SubSeq(s, 1, FindMsgIndex(s, m)), anchor, d) BY <1>2, <1>5, <1>8, <1>9, Decides
<1>11. PICK n \in 1..Len(s) : \E i \in 1..n : Cutout(s, m, anchor, d, n, i)
  <2>1. Each(s) /\ SubSeq(s, 1, FindMsgIndex(s, m)) # <<>> BY <1>1, <1>2, <1>6, <1>8
  <2> QED BY <1>10, <2>1, Selected
<1>12. PICK i \in 1..n : Cutout(s, m, anchor, d, n, i) BY <1>11
<1>13.     /\ d.window \in Seq(Entry) /\ Len(d.window) = n - i + 1 /\ s[n].msg = m
           /\ \A j \in 1..n - i + 1 : d.window[j] = s[i + j - 1]
           /\ MaxTokens > 0 /\ Len(d.window) > 1 => System + Tokens(d.window) <= MaxTokens
           /\ \/ d.mode = "reset" /\ Len(d.window) <= SendCount
              \/ d.mode = "extend" /\ anchor # NoAnchor /\ s[i].msg = anchor.start
  BY <1>12 DEF Cutout
<1>14. PICK w \in Seq(Entry) : w = d.window BY <1>13
<1>15. w # <<>> /\ EndOf(w) = m /\ Each(w) /\ Aligned(s, w) BY <1>1, <1>6, <1>13, <1>14, SelectedWorks
<1>16. /\ chAgent'.at = "asked" /\ chAgent'.window = w /\ chAgent'.mode = d.mode
       /\ chAgent'.trigger = m /\ chAgent'.reply = chAgent.reply
  BY <1>1, <1>5, <1>7, <1>14
<1>17. WorkOf(chAgent', GetAll')
  <2>1. m \in ChatMsgs /\ chAgent.reply \in Entry \cup {NoEntry} BY <1>1, <1>2, <1>7 DEF WorkOf
  <2> QED BY <1>3, <1>6, <1>15, <1>16, <2>1 DEF WorkOf
<1>18. AllTold(chRows, w)
  <2>1. AllTold(chRows, s) BY <1>1, <1>6 DEF TrueRule
  <2>2. DOMAIN w = 1..n - i + 1 /\ \A j \in 1..n - i + 1 : w[j] = s[i + j - 1] /\ i + j - 1 \in DOMAIN s
    BY <1>13, <1>14
  <2> QED BY <2>1, <2>2 DEF AllTold
<1>19. TrueRule' BY <1>1, <1>2, <1>3, <1>16, <1>18 DEF TrueRule
<1>20. AskedOf(chAgent', chAnchor', chSent', chCame')
  <2>1. d.mode = "extend" /\ chSent # <<>> /\ FindMsgIndex(w, chAnchor.last) > 0 /\ chCame[EndOf(chSent)] = 1
          => SubSeq(w, 1, FindMsgIndex(w, chAnchor.last)) = chSent
    <3>1. d.mode = "extend" => anchor = chAnchor BY <1>4, <1>13
    <3>2. Each(s) /\ SentOf(chSent, chAnchor, chCame, chLine, s) BY <1>1, <1>6
    <3>3. d.mode = "extend" => Cutout(s, m, chAnchor, d, n, i) BY <1>12, <3>1
    <3> QED BY <1>14, <3>2, <3>3, CutoutExtends
  <2>2. MaxTokens > 0 /\ Len(w) > 1 => System + Tokens(w) <= MaxTokens BY <1>13, <1>14
  <2>3. d.mode = "reset" => Len(w) <= SendCount BY <1>13, <1>14
  <2>4. chAnchor' = chAnchor /\ chSent' = chSent /\ chCame' = chCame BY <1>2, <1>3
  <2>5. \A a : a.window = w /\ a.mode = d.mode => AskedOf(a, chAnchor, chSent, chCame)
    BY <2>1, <2>2, <2>3 DEF AskedOf
  <2> QED BY <1>16, <2>4, <2>5
<1>21. chAgent'.trigger = chAgent.trigger BY <1>7, <1>16
<1> QED BY <1>1, <1>2, <1>3, <1>17, <1>19, <1>20, <1>21 DEF RequestRule

LEMMA SayKeeps ==
  ASSUME RequestInv, NEW r \in Replies, SaySelf(r)
  PROVE  RequestRule'
<1>1. /\ RowRule /\ chRows \in Seq(Ids) /\ chLine \in Seq(Entry) /\ GetAll \in Seq(Entry) /\ TrueRule
      /\ WorkOf(chAgent, GetAll) /\ LineOf(chLine, chAgent.trigger, chCame)
      /\ chReply # NoEntry => chReply.msg \in Replies
      /\ SentOf(chSent, chAnchor, chCame, chLine, GetAll)
      /\ chAnchor \in Anchors /\ chStored \in Anchors /\ chFaults \in 0..ChatFaults
      /\ chReply \in Entry \cup {NoEntry}
      /\ chAgent = [f \in {"at", "trigger", "window", "reply", "mode"} |-> chAgent[f]]
  BY RequestBasis
<1>2. chAgent.at = "asked" /\ UNCHANGED <<ring, marks, chLine, chReply, chCame, chStarts, chSent>> BY DEF SaySelf
<1>3. UNCHANGED <<GetAll, chAnchor, chStored>> BY <1>2, SameRing DEF marks
<1>4. PICK n \in RowNumbers :
        SaveMessage(r, n) /\ chAgent' = [chAgent EXCEPT !.at = "said", !.reply = [msg |-> r, row |-> n]]
  BY DEF SaySelf
<1>5. PICK e \in Entry : e = [msg |-> r, row |-> n] /\ Grown(chRows, chRows') /\ Told(chRows', e) /\ chFaults' \in 0..ChatFaults
  <2>1. r \in Ids BY Apart
  <2>2. /\ Grown(chRows, chRows') /\ Told(chRows', [msg |-> r, row |-> n]) /\ chFaults' \in 0..ChatFaults
        /\ [msg |-> r, row |-> n] \in Entry
    BY <1>1, <1>4, <2>1, SavedTold
  <2> QED BY <2>2
<1>6. e.msg = r BY <1>5
<1>7. /\ chAgent'.at = "said" /\ chAgent'.reply = e /\ chAgent'.window = chAgent.window
      /\ chAgent'.trigger = chAgent.trigger
  BY <1>1, <1>4, <1>5
<1>8. WorkOf(chAgent', GetAll') BY <1>1, <1>2, <1>3, <1>6, <1>7 DEF WorkOf
<1>9. AskedOf(chAgent', chAnchor', chSent', chCame') BY <1>7 DEF AskedOf
<1>10. TrueRule'
  <2>1. /\ \A x \in Entry \cup {NoEntry} : Told(chRows, x) => Told(chRows', x)
        /\ \A s \in Seq(Entry) : AllTold(chRows, s) => AllTold(chRows', s)
    BY <1>1, <1>5, GrownTold
  <2>2. chAgent.window \in Seq(Entry) BY <1>1 DEF WorkOf
  <2> QED BY <1>1, <1>2, <1>3, <1>5, <1>7, <2>1, <2>2 DEF TrueRule
<1> QED BY <1>1, <1>2, <1>3, <1>5, <1>7, <1>8, <1>9, <1>10 DEF RequestRule

LEMMA RememberKeeps ==
  ASSUME RequestInv, Remember, ChatInv'
  PROVE  RequestRule'
<1>1. /\ RingRule /\ chLine \in Seq(Entry) /\ GetAll \in Seq(Entry) /\ TrueRule
      /\ WorkOf(chAgent, GetAll) /\ LineOf(chLine, chAgent.trigger, chCame)
      /\ chReply # NoEntry => chReply.msg \in Replies
      /\ SentOf(chSent, chAnchor, chCame, chLine, GetAll)
      /\ chAnchor \in Anchors /\ chStored \in Anchors /\ chFaults \in 0..ChatFaults
      /\ chAgent = [f \in {"at", "trigger", "window", "reply", "mode"} |-> chAgent[f]]
  BY RequestBasis
<1>2. /\ chAgent.at = "said" /\ RingAdd(chAgent.reply) /\ chAgent' = [chAgent EXCEPT !.at = "kept"]
      /\ UNCHANGED <<chRows, marks, chLine, chReply, chCame, chFaults, chStarts, chSent>>
  BY DEF Remember
<1>3. UNCHANGED <<chAnchor, chStored>> BY <1>2 DEF marks
<1>4. PICK e \in Entry : e = chAgent.reply /\ e.msg \in Replies BY <1>1, <1>2 DEF WorkOf
<1>5. PICK s \in Seq(Entry) : s = GetAll BY <1>1
<1>6. PICK t \in Seq(Entry) : t = GetAll' BY RequestNext
<1>7. RingMoved(s, t, e) BY <1>1, <1>2, <1>4, <1>5, <1>6, RingMoves
<1>8. /\ chAgent'.at = "kept" /\ chAgent'.reply = chAgent.reply /\ chAgent'.window = chAgent.window
      /\ chAgent'.trigger = chAgent.trigger
  BY <1>1, <1>2
<1>9. WorkOf(chAgent', GetAll')
  <2>1. WorkOf(chAgent, t) BY <1>1, <1>4, <1>5, <1>7, WorkMoves
  <2> QED BY <1>2, <1>6, <1>8, <2>1 DEF WorkOf
<1>10. AskedOf(chAgent', chAnchor', chSent', chCame') BY <1>8 DEF AskedOf
<1>11. TrueRule'
  <2>1. AllTold(chRows, s) /\ Told(chRows, e) BY <1>1, <1>4, <1>5 DEF TrueRule
  <2>2. AllTold(chRows, t) BY <1>7, <2>1, MovedTold
  <2> QED BY <1>1, <1>2, <1>6, <1>8, <2>2 DEF TrueRule
<1>12. SentOf(chSent', chAnchor', chCame', chLine', GetAll')
  <2>1. SentOf(chSent, chAnchor, chCame, chLine, s) BY <1>1, <1>5
  <2>2. chSent # <<>> /\ chCame[EndOf(chSent)] = 1 => e.msg # EndOf(chSent) BY <1>4, <2>1, Apart DEF SentOf
  <2>3. \A i \in DOMAIN chLine : \E j \in DOMAIN chLine : chLine[i] = chLine[j] OBVIOUS
  <2>4. SentOf(chSent, chAnchor, chCame, chLine, t) BY <1>7, <2>1, <2>2, <2>3, SentMoves
  <2> QED BY <1>2, <1>3, <1>6, <2>4
<1> QED BY <1>1, <1>2, <1>3, <1>8, <1>9, <1>10, <1>11, <1>12 DEF RequestRule

LEMMA AnchorKeeps ==
  ASSUME RequestInv, SetAnchor
  PROVE  RequestRule'
<1>1. /\ GetAll \in Seq(Entry) /\ TrueRule
      /\ WorkOf(chAgent, GetAll) /\ LineOf(chLine, chAgent.trigger, chCame)
      /\ chReply # NoEntry => chReply.msg \in Replies
      /\ chAnchor \in Anchors /\ chStored \in Anchors /\ chFaults \in 0..ChatFaults
  BY RequestBasis
<1>2. /\ chAgent.at = "kept" /\ chAgent' = NoWork /\ chSent' = chAgent.window
      /\ chAnchor' = [start |-> Head(chAgent.window).msg, last |-> Last(chAgent.window).msg]
      /\ \/ chStored' = chAnchor' /\ UNCHANGED chFaults
         \/ chFaults < ChatFaults /\ chFaults' = chFaults + 1 /\ UNCHANGED chStored
      /\ UNCHANGED <<chRows, ring, chLine, chReply, chCame, chStarts>>
  BY DEF SetAnchor
<1>3. UNCHANGED GetAll BY <1>2, SameRing
<1>4. PICK w \in Seq(Entry) : w = chAgent.window BY <1>1 DEF WorkOf
<1>5. /\ w # <<>> /\ EndOf(w) = chAgent.trigger /\ chAgent.trigger \in ChatMsgs /\ Each(w) /\ Aligned(GetAll, w)
  BY <1>1, <1>2, <1>4 DEF WorkOf
<1>6. Head(w) = w[1] /\ Last(w) = w[Len(w)] /\ w[1] \in Entry /\ w[Len(w)] \in Entry BY <1>5 DEF Last
<1>7. chAnchor' = [start |-> w[1].msg, last |-> EndOf(w)] BY <1>2, <1>4, <1>6 DEF EndOf
<1>8. chAnchor' \in Anchors BY <1>6, <1>7 DEF Anchors, Entry, EndOf
<1>9. chStored' \in Anchors /\ chFaults' \in 0..ChatFaults
  <2>1. ChatFaults \in Nat BY ChatAssumption
  <2> QED BY <1>1, <1>2, <1>8, <2>1
<1>10. SentOf(w, chAnchor', chCame, chLine, GetAll) BY <1>1, <1>5, <1>7 DEF SentOf, LineOf
<1>11. TrueRule' BY <1>1, <1>2, <1>3, NoWorkWorks DEF TrueRule
<1>12. LineOf(chLine, NoMsg, chCame)
  <2>1. NoMsg \notin ChatMsgs BY Apart
  <2> QED BY <1>1, <2>1 DEF LineOf
<1>13. WorkOf(chAgent', GetAll') /\ AskedOf(chAgent', chAnchor', chSent', chCame') /\ chAgent'.trigger = NoMsg
  BY <1>2, NoWorkWorks
<1> QED BY <1>1, <1>2, <1>3, <1>4, <1>8, <1>9, <1>10, <1>11, <1>12, <1>13 DEF RequestRule

LEMMA CommandReplyKeeps ==
  ASSUME RequestInv, NEW r \in Replies, CommandReply(r)
  PROVE  RequestRule'
<1>1. /\ RowRule /\ chRows \in Seq(Ids) /\ chLine \in Seq(Entry) /\ GetAll \in Seq(Entry) /\ TrueRule
      /\ WorkOf(chAgent, GetAll) /\ LineOf(chLine, chAgent.trigger, chCame)
      /\ SentOf(chSent, chAnchor, chCame, chLine, GetAll) /\ AskedOf(chAgent, chAnchor, chSent, chCame)
      /\ chAnchor \in Anchors /\ chStored \in Anchors /\ chFaults \in 0..ChatFaults
  BY RequestBasis
<1>2. UNCHANGED <<ring, marks, chLine, chAgent, chCame, chStarts, chSent>> BY DEF CommandReply
<1>3. UNCHANGED <<GetAll, chAnchor, chStored>> BY <1>2, SameRing DEF marks
<1>4. PICK n \in RowNumbers : SaveMessage(r, n) /\ chReply' = [msg |-> r, row |-> n] BY DEF CommandReply
<1>5. r \in Ids BY Apart
<1>6. /\ Grown(chRows, chRows') /\ Told(chRows', [msg |-> r, row |-> n]) /\ chFaults' \in 0..ChatFaults
  BY <1>1, <1>4, <1>5, SavedTold
<1>7. chReply'.msg = r BY <1>4
<1>8. TrueRule'
  <2>1. /\ \A x \in Entry \cup {NoEntry} : Told(chRows, x) => Told(chRows', x)
        /\ \A s \in Seq(Entry) : AllTold(chRows, s) => AllTold(chRows', s)
    BY <1>1, <1>6, GrownTold
  <2>2. chAgent.window \in Seq(Entry) /\ chAgent.reply \in Entry \cup {NoEntry} BY <1>1 DEF WorkOf
  <2> QED BY <1>1, <1>2, <1>3, <1>4, <1>6, <2>1, <2>2 DEF TrueRule
<1> QED BY <1>1, <1>2, <1>3, <1>6, <1>7, <1>8 DEF RequestRule

LEMMA CommandKeepsKeeps ==
  ASSUME RequestInv, CommandKeeps, ChatInv'
  PROVE  RequestRule'
<1>1. /\ RingRule /\ chLine \in Seq(Entry) /\ GetAll \in Seq(Entry) /\ TrueRule
      /\ WorkOf(chAgent, GetAll) /\ LineOf(chLine, chAgent.trigger, chCame)
      /\ chReply # NoEntry => chReply.msg \in Replies
      /\ chReply \in Entry \cup {NoEntry}
      /\ SentOf(chSent, chAnchor, chCame, chLine, GetAll) /\ AskedOf(chAgent, chAnchor, chSent, chCame)
      /\ chAnchor \in Anchors /\ chStored \in Anchors /\ chFaults \in 0..ChatFaults
  BY RequestBasis
<1>2. /\ chReply # NoEntry /\ RingAdd(chReply) /\ chReply' = NoEntry
      /\ UNCHANGED <<chRows, marks, chLine, chAgent, chCame, chFaults, chStarts, chSent>>
  BY DEF CommandKeeps
<1>3. UNCHANGED <<chAnchor, chStored>> BY <1>2 DEF marks
<1>4. PICK e \in Entry : e = chReply /\ e.msg \in Replies BY <1>1, <1>2
<1>5. PICK s \in Seq(Entry) : s = GetAll BY <1>1
<1>6. PICK t \in Seq(Entry) : t = GetAll' BY RequestNext
<1>7. RingMoved(s, t, e) BY <1>1, <1>2, <1>4, <1>5, <1>6, RingMoves
<1>8. WorkOf(chAgent', GetAll')
  <2>1. WorkOf(chAgent, t) BY <1>1, <1>4, <1>5, <1>7, WorkMoves
  <2> QED BY <1>2, <1>6, <2>1
<1>9. TrueRule'
  <2>1. AllTold(chRows, s) /\ Told(chRows, e) BY <1>1, <1>4, <1>5 DEF TrueRule
  <2>2. AllTold(chRows, t) BY <1>7, <2>1, MovedTold
  <2> QED BY <1>1, <1>2, <1>6, <2>2, NoWorkWorks DEF TrueRule
<1>10. SentOf(chSent', chAnchor', chCame', chLine', GetAll')
  <2>1. SentOf(chSent, chAnchor, chCame, chLine, s) BY <1>1, <1>5
  <2>2. chSent # <<>> /\ chCame[EndOf(chSent)] = 1 => e.msg # EndOf(chSent) BY <1>4, <2>1, Apart DEF SentOf
  <2>3. \A i \in DOMAIN chLine : \E j \in DOMAIN chLine : chLine[i] = chLine[j] OBVIOUS
  <2>4. SentOf(chSent, chAnchor, chCame, chLine, t) BY <1>7, <2>1, <2>2, <2>3, SentMoves
  <2> QED BY <1>2, <1>3, <1>6, <2>4
<1> QED BY <1>1, <1>2, <1>3, <1>8, <1>9, <1>10 DEF RequestRule

BufTold == \A x \in Slots : Told(chRows, chBuf[x])

LEMMA RingTold == RingRule /\ BufTold => AllTold(chRows, GetAll)
<1> SUFFICES ASSUME RingRule, BufTold PROVE AllTold(chRows, GetAll) OBVIOUS
<1>1. /\ InRing \in 0..ChatCap /\ GetAll = [i \in 1..InRing |-> chBuf[Place(i)]]
      /\ \A i \in 1..InRing : Place(i) \in Occupied
  BY Read
<1>2. \A i \in 1..InRing : Place(i) \in Slots BY <1>1 DEF Occupied
<1> HIDE DEF InRing, Place, GetAll
<1> QED BY <1>1, <1>2 DEF AllTold, BufTold

LEMMA RestoreKeeps ==
  ASSUME RequestInv, NEW s \in Recent(chRows), RestoreChat(s), ChatInv'
  PROVE  RequestRule'
<1>1. /\ RowRule /\ LineOf(chLine, chAgent.trigger, chCame)
      /\ chStored \in Anchors /\ chFaults \in 0..ChatFaults
  BY RequestBasis
<1>2. /\ chBuf' = [i \in 0..ChatCap - 1 |-> IF i + 1 \in DOMAIN s
                 THEN [msg |-> chRows[s[i + 1]], row |-> s[i + 1]]
                 ELSE NoEntry]
      /\ chAnchor' = chStored /\ chSent' = <<>>
      /\ chLine' = <<>> /\ chAgent' = NoWork /\ chReply' = NoEntry
      /\ UNCHANGED <<chRows, chStored, chCame, chFaults>>
  BY DEF RestoreChat
<1>3. \A i \in DOMAIN s : s[i] \in DOMAIN chRows BY DEF Recent
<1>4. BufTold'
  <2>1. SUFFICES ASSUME NEW x \in Slots PROVE Told(chRows, chBuf'[x]) BY <1>2 DEF BufTold, Slots
  <2>2. CASE x + 1 \in DOMAIN s
    <3>1. PICK e : e = [msg |-> chRows[s[x + 1]], row |-> s[x + 1]] OBVIOUS
    <3>2. e.row = s[x + 1] /\ e.msg = chRows[s[x + 1]] /\ s[x + 1] \in DOMAIN chRows BY <1>3, <2>2, <3>1
    <3>3. Told(chRows, e) BY <3>2 DEF Told
    <3>4. chBuf'[x] = e BY <1>2, <2>2, <3>1 DEF Slots
    <3> QED BY <3>3, <3>4
  <2>3. CASE ~ (x + 1 \in DOMAIN s)
    <3>1. chBuf'[x] = NoEntry BY <1>2, <2>3 DEF Slots
    <3> QED BY <3>1, NoWorkWorks
  <2> QED BY <2>2, <2>3
<1>5. AllTold(chRows, GetAll)'
  <2>1. (RingRule /\ BufTold => AllTold(chRows, GetAll))' BY RingTold, PTL
  <2>2. RingRule' BY RequestNext
  <2> QED BY <1>4, <2>1, <2>2
<1>6. TrueRule' BY <1>2, <1>5, NoWorkWorks DEF TrueRule
<1>7. LineOf(chLine', chAgent'.trigger, chCame')
  <2>1. NoMsg \notin ChatMsgs BY Apart
  <2>2. LineOf(<<>>, NoMsg, chCame) BY <1>1, <2>1 DEF LineOf, Each
  <2> QED BY <1>2, <2>2, NoWorkWorks
<1>8. WorkOf(chAgent', GetAll') /\ AskedOf(chAgent', chAnchor', chSent', chCame') BY <1>2, NoWorkWorks
<1>9. SentOf(chSent', chAnchor', chCame', chLine', GetAll') BY <1>2 DEF SentOf
<1> QED BY <1>1, <1>2, <1>6, <1>7, <1>8, <1>9 DEF RequestRule

LEMMA RequestStarts == ChatInit => RequestInv
<1> SUFFICES ASSUME ChatInit PROVE RequestInv OBVIOUS
<1>1. ChatInv /\ GetAll = <<>> BY ChatStarts
<1>2. /\ chLine = <<>> /\ chAgent = NoWork /\ chReply = NoEntry /\ chSent = <<>>
      /\ chAnchor = NoAnchor /\ chStored = NoAnchor /\ chFaults = 0 /\ chCame = [m \in ChatMsgs |-> 0]
  BY DEF ChatInit
<1>3. TrueRule BY <1>1, <1>2, NoWorkWorks DEF TrueRule
<1>4. LineOf(chLine, chAgent.trigger, chCame)
  <2>1. NoMsg \notin ChatMsgs BY Apart
  <2> QED BY <1>2, <2>1, NoWorkWorks DEF LineOf, Each
<1>5. WorkOf(chAgent, GetAll) /\ AskedOf(chAgent, chAnchor, chSent, chCame) BY <1>2, NoWorkWorks
<1>6. SentOf(chSent, chAnchor, chCame, chLine, GetAll) BY <1>2 DEF SentOf
<1>7. ChatFaults \in Nat BY ChatAssumption
<1> QED BY <1>1, <1>2, <1>3, <1>4, <1>5, <1>6, <1>7 DEF RequestInv, RequestRule, Anchors

LEMMA RequestKeeps == RequestInv /\ [ChatNext]_chVars => RequestInv'
<1> SUFFICES ASSUME RequestInv, [ChatNext]_chVars PROVE RequestInv' OBVIOUS
<1>1. ChatInv' BY ChatKeeps DEF RequestInv
<1>2. ASSUME NEW m \in ChatMsgs, PrepareBatch(m) PROVE RequestRule' BY <1>2, PrepareKeeps
<1>3. CASE AgentTakes BY <1>1, <1>3, TakeKeeps DEF RequestInv
<1>4. CASE AgentLeaves \/ ReplyFails BY <1>1, <1>4, LeaveKeeps DEF RequestInv
<1>5. ASSUME NEW expired \in BOOLEAN, SelectWindow(expired) PROVE RequestRule' BY <1>5, SelectKeeps
<1>6. ASSUME NEW r \in Replies, SaySelf(r) PROVE RequestRule' BY <1>6, SayKeeps
<1>7. CASE Remember BY <1>1, <1>7, RememberKeeps DEF RequestInv
<1>8. CASE SetAnchor BY <1>1, <1>8, AnchorKeeps DEF RequestInv
<1>9. ASSUME NEW r \in Replies, CommandReply(r) PROVE RequestRule' BY <1>9, CommandReplyKeeps
<1>10. CASE CommandKeeps BY <1>1, <1>10, CommandKeepsKeeps DEF RequestInv
<1>11. ASSUME NEW s \in Recent(chRows), RestoreChat(s) PROVE RequestRule' BY <1>1, <1>11, RestoreKeeps
<1>12. CASE UNCHANGED chVars
  <2>1. UNCHANGED <<chRows, ring, marks, chLine, chAgent, chReply, chCame, chFaults, chStarts, chSent>>
    BY <1>12 DEF chVars
  <2>2. UNCHANGED <<GetAll, chAnchor, chStored>> BY <2>1, SameRing DEF marks
  <2>3. RequestRule BY DEF RequestInv
  <2> QED BY <1>1, <2>1, <2>2, <2>3 DEF RequestRule, TrueRule, RequestInv
<1> QED
  BY <1>1, <1>2, <1>3, <1>4, <1>5, <1>6, <1>7, <1>8, <1>9, <1>10, <1>11, <1>12 DEF RequestInv, ChatNext, FreshReplies

LEMMA RequestHolds == ChatSpec => []RequestInv
  BY RequestStarts, RequestKeeps, PTL DEF ChatSpec

LEMMA OneRow ==
  ASSUME RowRule
  PROVE  \A m \in Ids : Cardinality(RowOf(chRows, m)) <= 1
<1> TAKE m \in Ids
<1>1. \A i, j \in RowOf(chRows, m) : i = j BY DEF RowRule, RowOf
<1>2. CASE RowOf(chRows, m) = {} BY <1>2, FS_EmptySet
<1>3. CASE RowOf(chRows, m) # {}
  <2>1. PICK i : RowOf(chRows, m) = {i} BY <1>1, <1>3
  <2> QED BY <2>1, FS_Singleton
<1> QED BY <1>2, <1>3

(* A request says what the chat says: its numbers stand for one message each, it ends with the   *)
(* message it answers, fits the model or is one message, and what it counts as paid for was sent. *)
THEOREM RequestTrue == ChatSpec => []RequestIsTrue
<1>1. RequestInv => RequestIsTrue
  <2> SUFFICES ASSUME RequestInv PROVE RequestIsTrue OBVIOUS
  <2>1. /\ RowRule /\ TrueRule /\ chLine \in Seq(Entry) /\ GetAll \in Seq(Entry) /\ WorkOf(chAgent, GetAll)
        /\ AskedOf(chAgent, chAnchor, chSent, chCame)
        /\ SentOf(chSent, chAnchor, chCame, chLine, GetAll)
    BY RequestBasis
  <2>2. \A m \in Ids : Cardinality(RowOf(chRows, m)) <= 1 BY <2>1, OneRow
  <2>3. \A e \in Range(GetAll) \cup Range(chLine) \cup Range(chAgent.window) : e.row > 0 => chRows[e.row] = e.msg
    BY <2>1 DEF TrueRule, AllTold, Told, Range
  <2>4. PICK w \in Seq(Entry) : w = chAgent.window BY <2>1 DEF WorkOf
  <2>5. AllTold(chRows, w) BY <2>1, <2>4 DEF TrueRule
  <2>6. \A i \in DOMAIN w : LET n == ChatLog(w)[i].reply IN n > 0 => chRows[n] = Quotes[w[i].msg]
    <3> SUFFICES ASSUME NEW i \in DOMAIN w, ChatLog(w)[i].reply > 0
                 PROVE  chRows[ChatLog(w)[i].reply] = Quotes[w[i].msg]
      OBVIOUS
    <3>1. PICK q \in 0..Len(w) : q = FindMsgIndex(w, Quotes[w[i].msg]) BY Found
    <3>2. ChatLog(w)[i].reply = IF q = 0 THEN 0 ELSE w[q].row BY <3>1 DEF ChatLog
    <3>3. q \in 1..Len(w) /\ w[q].row > 0 /\ ChatLog(w)[i].reply = w[q].row BY <3>2
    <3>4. w[q].msg = Quotes[w[i].msg] BY <3>1, <3>3, Found
    <3>5. chRows[w[q].row] = w[q].msg BY <2>5, <3>3 DEF AllTold, Told
    <3> QED BY <3>3, <3>4, <3>5
  <2>7. ASSUME chAgent.at = "asked"
        PROVE  /\ w # <<>> /\ Last(w).msg = chAgent.trigger
               /\ MaxTokens > 0 /\ Len(w) > 1 => System + Tokens(w) <= MaxTokens
               /\ chAgent.mode = "reset" => Len(w) <= SendCount
               /\ chAgent.mode = "extend" /\ chSent # <<>> /\ FindMsgIndex(w, chAnchor.last) > 0
                   /\ chCame[Last(chSent).msg] = 1
                    => SubSeq(w, 1, FindMsgIndex(w, chAnchor.last)) = chSent
    BY <2>1, <2>4, <2>7 DEF WorkOf, AskedOf, EndOf, Last
  <2> QED BY <2>2, <2>3, <2>4, <2>6, <2>7 DEF RequestIsTrue
<1> QED BY <1>1, RequestHolds, PTL

(* Every variable of the chat's memory stays in its set. *)
THEOREM ChatTypeCorrect == ChatSpec => []ChatTypeOK
<1>1. RequestInv => ChatTypeOK
  <2> SUFFICES ASSUME RequestInv PROVE ChatTypeOK OBVIOUS
  <2>1. /\ RingRule /\ chRows \in Seq(Ids) /\ chLine \in Seq(Entry) /\ WorkOf(chAgent, GetAll)
        /\ chReply \in Entry \cup {NoEntry} /\ chSent \in Seq(Entry)
        /\ chAnchor \in Anchors /\ chStored \in Anchors /\ chFaults \in 0..ChatFaults
    BY RequestBasis DEF SentOf
  <2>2. Entry \subseteq StoredEntry
    <3>1. Cardinality(Ids) \in Nat BY Cap, FS_CardinalityType
    <3>2. \A n \in 0..Cardinality(Ids) : n \in Nat BY <3>1
    <3> QED BY <3>2, Zenon DEF Entry, StoredEntry
  <2>3. Range(chRows) \subseteq Ids BY <2>1 DEF Range
  <2>4. chBuf \in [0..ChatCap - 1 -> StoredEntry \cup {NoEntry}] /\ chAt \in 0..ChatCap - 1 /\ chFilled \in BOOLEAN
    BY <2>1, <2>2 DEF RingRule, Slots
  <2>5. chSeen \subseteq Ids
    <3>1. \A i \in Occupied : chBuf[i].msg \in Ids BY <2>1 DEF RingRule, Occupied, Entry
    <3> QED BY <2>1, <3>1 DEF RingRule
  <2>6. Range(chLine) \cup Range(chAgent.window) \cup Range(chSent) \subseteq StoredEntry
    BY <2>1, <2>2 DEF Range, WorkOf
  <2>7. {chReply, chAgent.reply} \subseteq StoredEntry \cup {NoEntry} BY <2>1, <2>2 DEF WorkOf
  <2>8. chAgent.at \in {"idle", "added", "asked", "said", "kept"} BY <2>1 DEF WorkOf
  <2>9. {chAnchor, chStored} \subseteq [start : Ids, last : Ids] \cup {NoAnchor} BY <2>1 DEF Anchors
  <2> QED BY <2>1, <2>3, <2>4, <2>5, <2>6, <2>7, <2>8, <2>9 DEF ChatTypeOK
<1> QED BY <1>1, RequestHolds, PTL
=============================================================================

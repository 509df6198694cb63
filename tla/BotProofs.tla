----------------------------- MODULE BotProofs ------------------------------
(***************************************************************************)
(* Proofs about the chain of nodes and about the bot around it, for every  *)
(* number of events, chats and messages and every capacity: FlowInv, what  *)
(* the chain keeps; BotInv, what the entrance and the closing add to it;   *)
(* Ready, what a goroutine finds, for the absence of a circle of full      *)
(* buffers and for the contract of a node; and AppInv, what has reached    *)
(* the database while the application shuts down.                          *)
(***************************************************************************)
EXTENDS AppShutdown, Stepwise, SequenceTheorems

(* The line of a chat in its eight segments, from the hand of the last node back to the queue
   of the first. *)
Segments(k) ==
  <<InHand("agent", k), queue["agent"][k], InHand("assets", k), queue["assets"][k],
    InHand("command", k), queue["command"][k], InHand("sync", k), queue["sync"][k]>>
Slots == 1..8
Slot == [agent |-> 1, assets |-> 3, command |-> 5, sync |-> 7]
Lines == [Slots -> Seq(Items)]

(* The segments hold items of A only, and in its order. *)
Known(A, L) == \A s \in Slots : \A x \in DOMAIN L[s] : L[s][x] \in ToSet(A)
Orderly(A, L) ==
  \A s, t \in Slots : \A x \in DOMAIN L[s], y \in DOMAIN L[t] :
    s < t \/ (s = t /\ x < y) => Precedes(A, L[s][x], L[t][y])
Distinct(A) == \A a, b \in DOMAIN A : A[a] = A[b] => a = b

(* Item i is in the line. *)
Stands(L, i) == \E s \in Slots : \E x \in DOMAIN L[s] : L[s][x] = i

(* One chat: what was let in, the line, what has ended, what was dropped, and whether there is
   a closed buffer. *)
ChatFine(A, L, E, X, down) ==
  /\ A \in Seq(Items) /\ L \in Lines
  /\ Distinct(A) /\ Known(A, L) /\ Orderly(A, L)
  /\ \A i \in ToSet(A) :
       \/ Stands(L, i) /\ i \notin E /\ i \notin X
       \/ ~ Stands(L, i) /\ i \in E /\ i \notin X
       \/ ~ Stands(L, i) /\ i \notin E /\ i \in X /\ down

(* The hand of a goroutine: a batch that nobody has seen or hops to the next node. *)
HandFits(n, h) ==
  /\ h.at \in {"free", "drain", "more"} => h.batch = <<>> /\ h.hops = <<>>
  /\ h.at = "handle" => h.hops = <<>>
  /\ h.at = "send" => h.batch = <<>> /\ h.hops # <<>>
  /\ \A x \in DOMAIN h.hops : Slot[h.hops[x].to] = Slot[n] - 2

FlowTyping ==
  /\ queue \in [Nodes -> [Chats -> Seq(Items)]]
  /\ hand \in [Nodes -> [Chats -> HandRecords]]
  /\ bufDown \subseteq Nodes /\ poolDown \subseteq Nodes
  /\ admitted \in [Chats -> Seq(Items)]
  /\ handled \subseteq Nodes \X Items
  /\ ended \subseteq Items /\ lost \subseteq Items
  /\ \A n \in Nodes, k \in Chats : HandFits(n, hand[n][k])

QueuesBounded ==
  \A n \in Nodes :
    (\A k \in Chats : Len(queue[n][k]) <= PerChat) /\ IsFiniteSet(Buffered(n)) /\ Total(n) <= Global
HandsBounded == \A n \in Nodes : IsFiniteSet(Held(n)) /\ Active(n) <= Concurrency[n]

(* An item is in its own chat, and only what was let in has a fate. *)
Belong ==
  /\ \A k \in Chats : \A i \in ToSet(admitted[k]) : ChatOf[i] = k
  /\ \A i \in Items : i \in ended \/ i \in lost \/ (\E n \in Nodes : <<n, i>> \in handled)
                        => i \in ToSet(admitted[ChatOf[i]])

ChatsFine == \A k \in Chats : ChatFine(admitted[k], Segments(k), ended, lost, bufDown # {})

FlowInv == FlowTyping /\ QueuesBounded /\ HandsBounded /\ Belong /\ ChatsFine

-----------------------------------------------------------------------------
(* What moves along a line *)

(* The first c items of segment s go to the end of the segment before it. *)
Forwarded(L, new, s, c) ==
  /\ new[s - 1] = L[s - 1] \o SubSeq(L[s], 1, c)
  /\ new[s] = SubSeq(L[s], c + 1, Len(L[s]))
  /\ \A t \in Slots \ {s - 1, s} : new[t] = L[t]

LEMMA ForwardedFrom ==
  ASSUME NEW L \in Lines, NEW new \in Lines, NEW s \in 2..8, NEW c \in 1..Len(L[s]), Forwarded(L, new, s, c)
  PROVE  /\ Len(new[s - 1]) = Len(L[s - 1]) + c /\ Len(new[s]) = Len(L[s]) - c
         /\ \A x \in 1..Len(L[s - 1]) : new[s - 1][x] = L[s - 1][x]
         /\ \A x \in 1..c : new[s - 1][Len(L[s - 1]) + x] = L[s][x]
         /\ \A x \in 1..(Len(L[s]) - c) : new[s][x] = L[s][x + c]
<1>. DEFINE p == L[s - 1]
            q == L[s]
            b == SubSeq(q, 1, c)
<1>1. p \in Seq(Items) /\ q \in Seq(Items) /\ c \in 1..Len(q) /\ Len(p) \in Nat /\ Len(q) \in Nat
  <2>1. s - 1 \in Slots /\ s \in Slots
    BY DEF Slots
  <2>2. p \in Seq(Items) /\ q \in Seq(Items) /\ c \in 1..Len(q)
    BY <2>1 DEF Lines
  <2>. HIDE DEF p, q
  <2>3. QED
    BY <2>2
<1>2. new[s - 1] = p \o b /\ new[s] = SubSeq(q, c + 1, Len(q))
  BY DEF Forwarded
<1>. HIDE DEF p, q
<1>3. b \in Seq(Items) /\ Len(b) = c /\ \A x \in 1..c : b[x] = q[x]
  BY <1>1
<1>. HIDE DEF b
<1>4. Len(p \o b) = Len(p) + c /\ (\A x \in 1..Len(p) : (p \o b)[x] = p[x])
      /\ \A x \in 1..c : (p \o b)[Len(p) + x] = b[x]
  <2>. DEFINE j == p \o b
  <2>1. /\ Len(j) = Len(p) + Len(b)
        /\ \A x \in 1..(Len(p) + Len(b)) : j[x] = IF x <= Len(p) THEN p[x] ELSE b[x - Len(p)]
    BY <1>1, <1>3, ConcatProperties
  <2>. HIDE DEF j
  <2>2. \A x \in 1..Len(p) : j[x] = p[x]
    BY <1>1, <1>3, <2>1
  <2>3. \A x \in 1..c : j[Len(p) + x] = b[x]
    <3>1. SUFFICES ASSUME NEW x \in 1..c PROVE j[Len(p) + x] = b[x]
      OBVIOUS
    <3>2. Len(p) + x \in 1..(Len(p) + Len(b)) /\ ~ (Len(p) + x <= Len(p)) /\ (Len(p) + x) - Len(p) = x
      BY <1>1, <1>3, <3>1
    <3>3. QED
      BY <2>1, <3>2
  <2>4. QED
    BY <1>3, <2>1, <2>2, <2>3 DEF j
<1>5. /\ Len(SubSeq(q, c + 1, Len(q))) = Len(q) - c
      /\ \A x \in 1..(Len(q) - c) : SubSeq(q, c + 1, Len(q))[x] = q[x + c]
  BY <1>1
<1>6. QED
  BY <1>2, <1>3, <1>4, <1>5 DEF p, q

(* Every place of the new line is one of the old, and the places keep their order. *)
Comes(L, new, from) ==
  /\ \A t \in Slots : \A x \in DOMAIN new[t] :
       /\ from[t][x].s \in Slots /\ from[t][x].at \in DOMAIN L[from[t][x].s]
       /\ new[t][x] = L[from[t][x].s][from[t][x].at]
  /\ \A s, t \in Slots : \A x \in DOMAIN new[s], y \in DOMAIN new[t] :
       s < t \/ (s = t /\ x < y) =>
         \/ from[s][x].s < from[t][y].s
         \/ from[s][x].s = from[t][y].s /\ from[s][x].at < from[t][y].at

LEMMA ComesKeeps ==
  ASSUME NEW A, NEW L, NEW new, NEW from, Comes(L, new, from), Known(A, L), Orderly(A, L)
  PROVE  Known(A, new) /\ Orderly(A, new) /\ \A i : Stands(new, i) => Stands(L, i)
<1>1. Known(A, new)
  BY DEF Comes, Known
<1>2. Orderly(A, new)
  <2>1. SUFFICES ASSUME NEW s \in Slots, NEW t \in Slots, NEW x \in DOMAIN new[s], NEW y \in DOMAIN new[t],
                        s < t \/ (s = t /\ x < y)
                 PROVE  Precedes(A, new[s][x], new[t][y])
    BY DEF Orderly
  <2>2. /\ from[s][x].s \in Slots /\ from[s][x].at \in DOMAIN L[from[s][x].s]
        /\ new[s][x] = L[from[s][x].s][from[s][x].at]
        /\ from[t][y].s \in Slots /\ from[t][y].at \in DOMAIN L[from[t][y].s]
        /\ new[t][y] = L[from[t][y].s][from[t][y].at]
    BY DEF Comes
  <2>3. \/ from[s][x].s < from[t][y].s
        \/ from[s][x].s = from[t][y].s /\ from[s][x].at < from[t][y].at
    BY <2>1 DEF Comes
  <2>4. QED
    BY <2>2, <2>3 DEF Orderly
<1>3. \A i : Stands(new, i) => Stands(L, i)
  BY DEF Comes, Stands
<1>4. QED
  BY <1>1, <1>2, <1>3

LEMMA ForwardedComes ==
  ASSUME NEW L \in Lines, NEW new \in Lines, NEW s \in 2..8, NEW c \in 1..Len(L[s]), Forwarded(L, new, s, c)
  PROVE  (\E from : Comes(L, new, from)) /\ \A i : Stands(L, i) => Stands(new, i)
<1>. DEFINE n == Len(L[s - 1])
            from == [t \in Slots |-> [x \in DOMAIN new[t] |->
                       IF t = s THEN [s |-> s, at |-> x + c]
                       ELSE IF t = s - 1 /\ x > n THEN [s |-> s, at |-> x - n]
                       ELSE [s |-> t, at |-> x]]]
<1>1. /\ \A t \in Slots : /\ L[t] \in Seq(Items) /\ DOMAIN L[t] = 1..Len(L[t]) /\ Len(L[t]) \in Nat
                          /\ new[t] \in Seq(Items) /\ DOMAIN new[t] = 1..Len(new[t]) /\ Len(new[t]) \in Nat
      /\ s \in Slots /\ s - 1 \in Slots /\ c \in Nat \ {0} /\ c <= Len(L[s])
  <2>1. s - 1 \in Slots /\ s \in Slots
    BY DEF Slots
  <2>2. \A t \in Slots : L[t] \in Seq(Items) /\ new[t] \in Seq(Items)
    BY DEF Lines
  <2>3. \A t \in Slots : /\ DOMAIN L[t] = 1..Len(L[t]) /\ Len(L[t]) \in Nat
                        /\ DOMAIN new[t] = 1..Len(new[t]) /\ Len(new[t]) \in Nat
    BY <2>2, LenProperties
  <2>4. c \in Nat \ {0} /\ c <= Len(L[s])
    BY <2>1, <2>3
  <2>5. QED
    BY <2>1, <2>2, <2>3, <2>4
<1>2. /\ Len(new[s - 1]) = n + c /\ Len(new[s]) = Len(L[s]) - c
      /\ \A x \in 1..n : new[s - 1][x] = L[s - 1][x]
      /\ \A x \in 1..c : new[s - 1][n + x] = L[s][x]
      /\ \A x \in 1..(Len(L[s]) - c) : new[s][x] = L[s][x + c]
      /\ \A t \in Slots \ {s - 1, s} : new[t] = L[t]
  BY ForwardedFrom DEF Forwarded
<1>3. n \in Nat
  BY <1>1
<1>. HIDE DEF n
<1>4. ASSUME NEW t \in Slots, NEW x \in DOMAIN new[t]
      PROVE  /\ from[t][x].s \in Slots /\ from[t][x].at \in DOMAIN L[from[t][x].s]
             /\ new[t][x] = L[from[t][x].s][from[t][x].at]
  <2>1. x \in 1..Len(new[t]) /\ Len(new[t]) \in Nat
    BY <1>1
  <2>2. CASE t = s
    <3>1. x \in 1..(Len(L[s]) - c) /\ x + c \in 1..Len(L[s])
      BY <1>1, <1>2, <2>1, <2>2
    <3>2. QED
      BY <1>1, <1>2, <2>2, <3>1
  <2>3. CASE t = s - 1 /\ x > n
    <3>1. x - n \in 1..c /\ x - n \in 1..Len(L[s]) /\ x = n + (x - n)
      BY <1>1, <1>2, <1>3, <2>1, <2>3
    <3>2. new[t][x] = L[s][x - n]
      BY <1>2, <2>3, <3>1
    <3>3. from[t][x] = [s |-> s, at |-> x - n]
      BY <1>1, <2>3
    <3>. HIDE DEF from
    <3>4. QED
      BY <1>1, <3>1, <3>2, <3>3
  <2>4. CASE t = s - 1 /\ ~ (x > n)
    <3>1. x \in 1..n /\ n = Len(L[s - 1])
      BY <1>3, <2>1, <2>4 DEF n
    <3>2. QED
      BY <1>1, <1>2, <2>4, <3>1
  <2>5. CASE t # s /\ t # s - 1
    <3>1. new[t] = L[t]
      BY <1>2, <2>5
    <3>2. QED
      BY <1>1, <2>5, <3>1
  <2>6. QED
    BY <2>2, <2>3, <2>4, <2>5
<1>5. ASSUME NEW t \in Slots, NEW u \in Slots, NEW x \in DOMAIN new[t], NEW y \in DOMAIN new[u],
             t < u \/ (t = u /\ x < y)
      PROVE  \/ from[t][x].s < from[u][y].s
             \/ from[t][x].s = from[u][y].s /\ from[t][x].at < from[u][y].at
  <2>1. /\ x \in 1..Len(new[t]) /\ Len(new[t]) \in Nat /\ y \in 1..Len(new[u]) /\ Len(new[u]) \in Nat
        /\ t \in Int /\ u \in Int
    <3>1. t \in Int /\ u \in Int
      BY DEF Slots
    <3>2. QED
      BY <1>1, <3>1
  <2>. DEFINE fs(v, z) == IF v = s - 1 /\ z > n THEN s ELSE v
              fa(v, z) == IF v = s THEN z + c ELSE IF v = s - 1 /\ z > n THEN z - n ELSE z
  <2>2. from[t][x].s = fs(t, x) /\ from[t][x].at = fa(t, x)
    BY <1>1
  <2>3. from[u][y].s = fs(u, y) /\ from[u][y].at = fa(u, y)
    BY <1>1
  <2>4. t = s - 1 => x <= n + c
    BY <1>2, <2>1
  <2>. HIDE DEF from
  <2>5. fs(t, x) < fs(u, y) \/ (fs(t, x) = fs(u, y) /\ fa(t, x) < fa(u, y))
    BY <1>1, <1>3, <1>5, <2>1, <2>4
  <2>6. QED
    BY <2>2, <2>3, <2>5
<1>6. Comes(L, new, from)
  <2>. HIDE DEF from
  <2>1. QED
    BY <1>4, <1>5 DEF Comes
<1>7. ASSUME NEW i, Stands(L, i) PROVE Stands(new, i)
  <2>1. PICK t \in Slots : \E x \in DOMAIN L[t] : L[t][x] = i
    BY <1>7 DEF Stands
  <2>2. PICK x \in DOMAIN L[t] : L[t][x] = i
    BY <2>1
  <2>3. x \in 1..Len(L[t])
    BY <1>1
  <2>4. CASE t = s /\ x <= c
    <3>1. x \in 1..c /\ n + x \in 1..Len(new[s - 1])
      BY <1>1, <1>2, <1>3, <2>3, <2>4
    <3>2. QED
      BY <1>1, <1>2, <2>2, <2>4, <3>1 DEF Stands
  <2>5. CASE t = s /\ ~ (x <= c)
    <3>1. x - c \in 1..(Len(L[s]) - c) /\ x - c + c = x
      BY <1>1, <2>3, <2>5
    <3>2. QED
      BY <1>1, <1>2, <2>2, <2>5, <3>1 DEF Stands
  <2>6. CASE t = s - 1
    <3>1. x \in 1..n /\ x \in 1..Len(new[s - 1])
      BY <1>1, <1>2, <1>3, <2>3, <2>6 DEF n
    <3>2. QED
      BY <1>1, <1>2, <2>2, <2>6, <3>1 DEF Stands
  <2>7. CASE t # s /\ t # s - 1
    <3>1. new[t] = L[t]
      BY <1>2, <2>7
    <3>2. QED
      BY <2>2, <3>1 DEF Stands
  <2>8. QED
    BY <2>4, <2>5, <2>6, <2>7
<1>8. QED
  BY <1>6, <1>7

(* Moving forward changes nothing about a chat. *)
LEMMA ForwardedFine ==
  ASSUME NEW A, NEW L, NEW E, NEW X, NEW down, ChatFine(A, L, E, X, down),
         NEW new \in Lines, NEW s \in 2..8, NEW c \in 1..Len(L[s]), Forwarded(L, new, s, c)
  PROVE  ChatFine(A, new, E, X, down)
<1>1. L \in Lines /\ Known(A, L) /\ Orderly(A, L)
  BY DEF ChatFine
<1>2. (\E from : Comes(L, new, from)) /\ \A i : Stands(L, i) => Stands(new, i)
  BY <1>1, ForwardedComes
<1>3. Known(A, new) /\ Orderly(A, new) /\ \A i : Stands(new, i) => Stands(L, i)
  BY <1>1, <1>2, ComesKeeps
<1>4. QED
  BY <1>2, <1>3 DEF ChatFine

(* No item stands in two places. *)
LEMMA StandsOnce ==
  ASSUME NEW A, NEW L, Distinct(A), Orderly(A, L), A \in Seq(Items), L \in Lines,
         NEW s \in Slots, NEW t \in Slots, NEW x \in DOMAIN L[s], NEW y \in DOMAIN L[t], L[s][x] = L[t][y]
  PROVE  s = t /\ x = y
<1>1. \A i : ~ Precedes(A, i, i)
  <2>1. DOMAIN A = 1..Len(A) /\ Len(A) \in Nat
    OBVIOUS
  <2>2. QED
    BY <2>1 DEF Precedes, Distinct
<1>2. s \in Int /\ t \in Int /\ L[s] \in Seq(Items) /\ L[t] \in Seq(Items)
  <2>1. s \in Int /\ t \in Int
    BY DEF Slots
  <2>2. QED
    BY <2>1 DEF Lines
<1>3. x \in Int /\ y \in Int
  BY <1>2, LenProperties
<1>4. ~ (s < t) /\ ~ (t < s)
  BY <1>1 DEF Orderly
<1>5. s = t
  BY <1>2, <1>4
<1>6. ~ (x < y) /\ ~ (y < x)
  BY <1>1, <1>5 DEF Orderly
<1>7. QED
  BY <1>3, <1>5, <1>6

LEMMA OnceInSegment ==
  ASSUME NEW A, NEW L, Distinct(A), Orderly(A, L), A \in Seq(Items), L \in Lines, NEW s \in Slots
  PROVE  \A x, y \in DOMAIN L[s] : L[s][x] = L[s][y] => x = y
  BY StandsOnce

(* What is left of a sequence when some of its items are taken out. *)
Thins(rest, seq) ==
  \E g \in [DOMAIN rest -> DOMAIN seq] :
    /\ \A x \in DOMAIN rest : rest[x] = seq[g[x]]
    /\ \A x, y \in DOMAIN rest : x < y => g[x] < g[y]

LEMMA ThinnedComes ==
  ASSUME NEW L \in Lines, NEW new \in Lines, NEW s \in Slots, Thins(new[s], L[s]),
         \A t \in Slots \ {s} : new[t] = L[t]
  PROVE  \E from : Comes(L, new, from)
<1>1. PICK g \in [DOMAIN new[s] -> DOMAIN L[s]] :
         /\ \A x \in DOMAIN new[s] : new[s][x] = L[s][g[x]]
         /\ \A x, y \in DOMAIN new[s] : x < y => g[x] < g[y]
  BY DEF Thins
<1>. DEFINE from == [t \in Slots |-> [x \in DOMAIN new[t] |->
                       IF t = s THEN [s |-> s, at |-> g[x]] ELSE [s |-> t, at |-> x]]]
<1>2. \A t \in Slots : \A x \in DOMAIN new[t] :
        from[t][x].s = t /\ from[t][x].at = IF t = s THEN g[x] ELSE x
  OBVIOUS
<1>. HIDE DEF from
<1>3. ASSUME NEW t \in Slots, NEW x \in DOMAIN new[t]
      PROVE  /\ from[t][x].s \in Slots /\ from[t][x].at \in DOMAIN L[from[t][x].s]
             /\ new[t][x] = L[from[t][x].s][from[t][x].at]
  <2>1. CASE t = s
    BY <1>1, <1>2, <2>1
  <2>2. CASE t # s
    <3>1. new[t] = L[t]
      BY <2>2
    <3>2. QED
      BY <1>2, <2>2, <3>1
  <2>3. QED
    BY <2>1, <2>2
<1>4. ASSUME NEW t \in Slots, NEW u \in Slots, NEW x \in DOMAIN new[t], NEW y \in DOMAIN new[u],
             t < u \/ (t = u /\ x < y)
      PROVE  \/ from[t][x].s < from[u][y].s
             \/ from[t][x].s = from[u][y].s /\ from[t][x].at < from[u][y].at
  <2>1. CASE t < u
    BY <1>2, <2>1
  <2>2. CASE t = u /\ x < y
    BY <1>1, <1>2, <2>2
  <2>3. QED
    BY <1>4, <2>1, <2>2
<1>5. QED
  BY <1>3, <1>4 DEF Comes

(* Who leaves a segment has ended, or was dropped while there was a closed buffer. *)
LEMMA ThinnedFine ==
  ASSUME NEW A, NEW L, NEW E, NEW X, NEW down, ChatFine(A, L, E, X, down),
         NEW new \in Lines, NEW s \in Slots, Thins(new[s], L[s]), \A t \in Slots \ {s} : new[t] = L[t]
  PROVE  /\ ChatFine(A, new, E \cup (ToSet(L[s]) \ ToSet(new[s])), X, down)
         /\ ChatFine(A, new, E, X \cup (ToSet(L[s]) \ ToSet(new[s])), TRUE)
<1>1. L \in Lines /\ Known(A, L) /\ Orderly(A, L) /\ Distinct(A) /\ A \in Seq(Items)
  BY DEF ChatFine
<1>2. \E from : Comes(L, new, from)
  BY <1>1, ThinnedComes
<1>3. Known(A, new) /\ Orderly(A, new) /\ \A i : Stands(new, i) => Stands(L, i)
  BY <1>1, <1>2, ComesKeeps
<1>. DEFINE gone == ToSet(L[s]) \ ToSet(new[s])
<1>4. ASSUME NEW i PROVE Stands(new, i) <=> Stands(L, i) /\ i \notin gone
  <2>1. ASSUME Stands(new, i) PROVE i \notin gone
    <3>1. SUFFICES ASSUME i \in gone PROVE FALSE
      OBVIOUS
    <3>2. PICK x \in DOMAIN L[s] : L[s][x] = i
      BY <3>1 DEF ToSet
    <3>3. PICK t \in Slots : \E y \in DOMAIN new[t] : new[t][y] = i
      BY <2>1 DEF Stands
    <3>4. t # s
      BY <3>1, <3>3 DEF ToSet
    <3>5. PICK y \in DOMAIN L[t] : L[t][y] = i
      BY <3>3, <3>4
    <3>6. QED
      BY <1>1, <3>2, <3>4, <3>5, StandsOnce
  <2>2. ASSUME Stands(L, i), i \notin gone PROVE Stands(new, i)
    <3>1. PICK t \in Slots : \E y \in DOMAIN L[t] : L[t][y] = i
      BY <2>2 DEF Stands
    <3>2. CASE t = s
      <4>1. i \in ToSet(new[s])
        BY <2>2, <3>1, <3>2 DEF ToSet
      <4>2. QED
        BY <4>1 DEF Stands, ToSet
    <3>3. CASE t # s
      BY <3>1, <3>3 DEF Stands
    <3>4. QED
      BY <3>2, <3>3
  <2>3. QED
    BY <1>3, <2>1, <2>2
<1>5. \A i \in gone : Stands(L, i)
  BY DEF Stands, ToSet
<1>. HIDE DEF gone
<1>6. \A i \in ToSet(A) :
        \/ Stands(new, i) /\ i \notin E \cup gone /\ i \notin X
        \/ ~ Stands(new, i) /\ i \in E \cup gone /\ i \notin X
        \/ ~ Stands(new, i) /\ i \notin E \cup gone /\ i \in X /\ down
  BY <1>4, <1>5 DEF ChatFine
<1>7. \A i \in ToSet(A) :
        \/ Stands(new, i) /\ i \notin E /\ i \notin X \cup gone
        \/ ~ Stands(new, i) /\ i \in E /\ i \notin X \cup gone
        \/ ~ Stands(new, i) /\ i \notin E /\ i \in X \cup gone
  BY <1>4, <1>5 DEF ChatFine
<1>8. QED
  BY <1>1, <1>3, <1>6, <1>7 DEF ChatFine, gone

(* Somebody new comes in at the end of the line. *)
LEMMA ArrivedFine ==
  ASSUME NEW A, NEW L, NEW E, NEW X, NEW down, ChatFine(A, L, E, X, down),
         NEW i \in Items, i \notin ToSet(A), i \notin E, i \notin X,
         NEW new \in Lines, new[8] = Append(L[8], i), \A t \in Slots \ {8} : new[t] = L[t]
  PROVE  ChatFine(Append(A, i), new, E, X, down)
<1>. DEFINE B == Append(A, i)
<1>1. L \in Lines /\ Known(A, L) /\ Orderly(A, L) /\ Distinct(A) /\ A \in Seq(Items)
  BY DEF ChatFine
<1>2. /\ B \in Seq(Items) /\ DOMAIN A = 1..Len(A) /\ Len(A) \in Nat /\ DOMAIN B = 1..(Len(A) + 1)
      /\ B[Len(A) + 1] = i /\ \A a \in 1..Len(A) : B[a] = A[a]
  BY <1>1
<1>. HIDE DEF B
<1>3. ToSet(B) = ToSet(A) \cup {i}
  <2>1. \A a \in 1..(Len(A) + 1) : a \in 1..Len(A) \/ a = Len(A) + 1
    BY <1>2
  <2>2. Len(A) + 1 \in 1..(Len(A) + 1) /\ 1..Len(A) \subseteq 1..(Len(A) + 1)
    BY <1>2
  <2>3. QED
    BY <1>2, <2>1, <2>2 DEF ToSet
<1>4. Distinct(B)
  <2>1. \A a \in 1..Len(A) : A[a] # i
    BY <1>2 DEF ToSet
  <2>2. QED
    BY <1>1, <1>2, <2>1 DEF Distinct
<1>5. \A j, k : Precedes(A, j, k) => Precedes(B, j, k)
  BY <1>2 DEF Precedes
<1>6. \A j \in ToSet(A) : Precedes(B, j, i)
  <2>1. SUFFICES ASSUME NEW a \in 1..Len(A) PROVE Precedes(B, A[a], i)
    BY <1>2 DEF ToSet
  <2>2. a \in DOMAIN B /\ Len(A) + 1 \in DOMAIN B /\ a < Len(A) + 1
    BY <1>2
  <2>3. QED
    BY <1>2, <2>2 DEF Precedes
<1>7. \A t \in Slots : L[t] \in Seq(Items) /\ DOMAIN L[t] = 1..Len(L[t]) /\ Len(L[t]) \in Nat
  <2>1. \A t \in Slots : L[t] \in Seq(Items)
    BY <1>1 DEF Lines
  <2>2. QED
    BY <2>1, LenProperties
<1>. DEFINE n == Len(L[8])
<1>8. 8 \in Slots /\ n \in Nat
  BY <1>7 DEF Slots
<1>9. DOMAIN new[8] = 1..(n + 1) /\ new[8][n + 1] = i /\ \A x \in 1..n : new[8][x] = L[8][x]
  BY <1>7, <1>8
<1>. HIDE DEF n
<1>10. ASSUME NEW t \in Slots, NEW x \in DOMAIN new[t]
       PROVE  \/ t = 8 /\ x = n + 1 /\ new[t][x] = i
              \/ x \in DOMAIN L[t] /\ new[t][x] = L[t][x] /\ (t = 8 => x \in 1..n)
  <2>1. CASE t = 8
    <3>1. DOMAIN L[8] = 1..n
      BY <1>7, <1>8 DEF n
    <3>2. x \in 1..n \/ x = n + 1
      BY <1>8, <1>9, <2>1
    <3>3. QED
      BY <1>9, <2>1, <3>1, <3>2
  <2>2. CASE t # 8
    BY <2>2
  <2>3. QED
    BY <2>1, <2>2
<1>11. Known(B, new)
  BY <1>1, <1>3, <1>10 DEF Known
<1>12. Orderly(B, new)
  <2>1. SUFFICES ASSUME NEW s \in Slots, NEW t \in Slots, NEW x \in DOMAIN new[s], NEW y \in DOMAIN new[t],
                        s < t \/ (s = t /\ x < y)
                 PROVE  Precedes(B, new[s][x], new[t][y])
    BY DEF Orderly
  <2>2. CASE t = 8 /\ y = n + 1
    <3>1. ~ (s = 8 /\ x = n + 1)
      BY <1>8, <2>1, <2>2
    <3>2. x \in DOMAIN L[s] /\ new[s][x] = L[s][x]
      BY <1>10, <3>1
    <3>3. L[s][x] \in ToSet(A)
      BY <1>1, <3>2 DEF Known
    <3>4. QED
      BY <1>6, <1>9, <2>2, <3>2, <3>3
  <2>3. CASE ~ (t = 8 /\ y = n + 1)
    <3>1. y \in DOMAIN L[t] /\ new[t][y] = L[t][y] /\ (t = 8 => y \in 1..n)
      BY <1>10, <2>3
    <3>2. ~ (s = 8 /\ x = n + 1)
      <4>1. s \in 1..8 /\ t \in 1..8
        BY DEF Slots
      <4>2. QED
        BY <1>8, <2>1, <3>1, <4>1
    <3>3. x \in DOMAIN L[s] /\ new[s][x] = L[s][x]
      BY <1>10, <3>2
    <3>4. QED
      BY <1>1, <1>5, <2>1, <3>1, <3>3 DEF Orderly
  <2>4. QED
    BY <2>2, <2>3
<1>13. ASSUME NEW j PROVE Stands(new, j) <=> Stands(L, j) \/ j = i
  <2>1. Stands(new, j) => Stands(L, j) \/ j = i
    BY <1>10 DEF Stands
  <2>2. Stands(new, i)
    <3>1. n + 1 \in DOMAIN new[8]
      BY <1>8, <1>9
    <3>2. QED
      BY <1>8, <1>9, <3>1 DEF Stands
  <2>3. ASSUME Stands(L, j) PROVE Stands(new, j)
    <3>1. PICK t \in Slots : \E x \in DOMAIN L[t] : L[t][x] = j
      BY <2>3 DEF Stands
    <3>2. PICK x \in DOMAIN L[t] : L[t][x] = j
      BY <3>1
    <3>3. CASE t = 8
      <4>1. DOMAIN L[8] = 1..n
        BY <1>7, <1>8 DEF n
      <4>2. x \in 1..n /\ x \in DOMAIN new[8]
        BY <1>8, <1>9, <3>3, <4>1
      <4>3. QED
        BY <1>9, <3>2, <3>3, <4>2 DEF Stands
    <3>4. CASE t # 8
      BY <3>2, <3>4 DEF Stands
    <3>5. QED
      BY <3>3, <3>4
  <2>4. QED
    BY <2>1, <2>2, <2>3
<1>14. ~ Stands(L, i)
  BY <1>1 DEF Stands, Known
<1>15. \A j \in ToSet(B) :
         \/ Stands(new, j) /\ j \notin E /\ j \notin X
         \/ ~ Stands(new, j) /\ j \in E /\ j \notin X
         \/ ~ Stands(new, j) /\ j \notin E /\ j \in X /\ down
  BY <1>3, <1>13, <1>14 DEF ChatFine
<1>16. QED
  BY <1>2, <1>4, <1>11, <1>12, <1>15 DEF ChatFine, B

(* What happens to others does not touch a chat, nor does a buffer that is closed. *)
LEMMA OthersFine ==
  ASSUME NEW A, NEW L, NEW E, NEW X, NEW down, ChatFine(A, L, E, X, down),
         NEW E2, NEW X2, NEW down2, \A i \in ToSet(A) : (i \in E2 <=> i \in E) /\ (i \in X2 <=> i \in X),
         down => down2
  PROVE  ChatFine(A, L, E2, X2, down2)
  BY DEF ChatFine

-----------------------------------------------------------------------------
(* The items a node passes on are some of its batch, in the batch's order. *)
LEMMA OnwardThins ==
  ASSUME NEW batch \in Seq(Items), NEW answer
  PROVE  LET onward == Onward(batch, answer) IN
         /\ onward \in Seq(Items) /\ Thins(onward, batch)
         /\ \A x \in DOMAIN onward : GoesOn(answer[onward[x]])
<1>. DEFINE N == Len(batch)
            S == Seq(Items)
            Goes(n) == GoesOn(answer[batch[n]])
            Step(n, kept) == IF Goes(n) THEN Append(kept, batch[n]) ELSE kept
            Is(f) == f = [x \in 0..N |-> IF x = 0 THEN <<>> ELSE Step(x, f[x - 1])]
            K == CHOOSE f : Is(f)
<1>1. Onward(batch, answer) = K[N]
  BY DEF Onward
<1>2. N \in Nat /\ <<>> \in S /\ \A n \in 1..N : batch[n] \in Items
  OBVIOUS
<1>3. \A n \in 1..N, kept \in S : Step(n, kept) \in S
  <2>. HIDE DEF N
  <2>1. SUFFICES ASSUME NEW n \in 1..N, NEW kept \in S PROVE Step(n, kept) \in S
    OBVIOUS
  <2>2. Append(kept, batch[n]) \in S
    BY <1>2
  <2>. HIDE DEF S, Goes
  <2>3. QED
    BY <2>2
<1>4. \E f : Is(f)
  <2>. DEFINE step == [n \in 1..N |-> [kept \in S |-> Step(n, kept)]]
              none == <<>>
  <2>1. step \in [1..N -> [S -> S]] /\ none \in S
    <3>. HIDE DEF Step, N, S
    <3>1. QED
      BY <1>2, <1>3
  <2>2. PICK f : GoesBy(f, S, N, none, step)
    <3>. HIDE DEF step, S, N, none
    <3>1. QED
      BY <1>2, <2>1, StepByStep
  <2>3. f \in [0..N -> S] /\ f[0] = <<>> /\ \A n \in 1..N : f[n] = step[n][f[n - 1]]
    <3>. HIDE DEF step, S, N
    <3>1. QED
      BY <2>2 DEF GoesBy
  <2>4. ASSUME NEW n \in 1..N PROVE f[n] = Step(n, f[n - 1])
    <3>. HIDE DEF Step, S, N
    <3>1. n - 1 \in 0..N
      BY <1>2
    <3>2. f[n - 1] \in S
      BY <2>3, <3>1
    <3>3. QED
      BY <2>3, <3>2
  <2>. HIDE DEF S, N, Step
  <2>5. f = [x \in 0..N |-> IF x = 0 THEN <<>> ELSE Step(x, f[x - 1])]
    BY <1>2, <2>3, <2>4
  <2>6. QED
    BY <2>5
<1>5. Is(K)
  <2>. HIDE DEF Is
  <2>1. QED
    BY <1>4
<1>6. K[0] = <<>> /\ \A n \in 1..N : K[n] = Step(n, K[n - 1])
  <2>. HIDE DEF K, N, Step
  <2>1. QED
    BY <1>2, <1>5
<1>. DEFINE Some(n, kept, g) ==
              /\ g \in [DOMAIN kept -> 1..n]
              /\ \A x \in DOMAIN kept : kept[x] = batch[g[x]] /\ Goes(g[x])
              /\ \A x, y \in DOMAIN kept : x < y => g[x] < g[y]
            Fine(n, kept) == kept \in S /\ \E g : Some(n, kept, g)
<1>7. Fine(0, K[0])
  <2>1. Some(0, <<>>, [x \in {} |-> 0])
    OBVIOUS
  <2>. HIDE DEF Some, K, S
  <2>2. QED
    BY <1>2, <1>6, <2>1
<1>8. ASSUME NEW n \in 1..N, NEW kept, Fine(n - 1, kept) PROVE Fine(n, Step(n, kept))
  <2>. HIDE DEF N
  <2>1. PICK g : Some(n - 1, kept, g)
    BY <1>8
  <2>2. kept \in Seq(Items) /\ DOMAIN kept = 1..Len(kept) /\ Len(kept) \in Nat /\ n \in Nat \ {0}
    BY <1>2, <1>8
  <2>3. CASE ~ Goes(n)
    <3>1. Some(n, kept, g)
      BY <2>1, <2>2
    <3>2. Step(n, kept) = kept
      BY <2>3
    <3>. HIDE DEF Some, Step
    <3>3. QED
      BY <2>2, <3>1, <3>2
  <2>4. CASE Goes(n)
    <3>. DEFINE new == Append(kept, batch[n])
                h == [x \in 1..(Len(kept) + 1) |-> IF x = Len(kept) + 1 THEN n ELSE g[x]]
    <3>1. /\ new \in Seq(Items) /\ DOMAIN new = 1..(Len(kept) + 1)
          /\ new[Len(kept) + 1] = batch[n] /\ \A x \in 1..Len(kept) : new[x] = kept[x]
      BY <1>2, <2>2
    <3>2. Step(n, kept) = new
      BY <2>4
    <3>. HIDE DEF new, Step
    <3>3. \A x \in 1..Len(kept) : g[x] \in 1..(n - 1) /\ kept[x] = batch[g[x]] /\ Goes(g[x])
      BY <2>1, <2>2
    <3>4. \A x, y \in 1..Len(kept) : x < y => g[x] < g[y]
      BY <2>1, <2>2
    <3>. HIDE DEF Goes, Some
    <3>5. \A x \in DOMAIN new : x \in 1..Len(kept) \/ x = Len(kept) + 1
      BY <2>2, <3>1
    <3>6. h \in [DOMAIN new -> 1..n]
      BY <2>2, <3>1, <3>3
    <3>7. \A x \in DOMAIN new : new[x] = batch[h[x]] /\ Goes(h[x])
      BY <2>2, <2>4, <3>1, <3>3, <3>5
    <3>8. \A x, y \in DOMAIN new : x < y => h[x] < h[y]
      BY <2>2, <3>1, <3>3, <3>4, <3>5
    <3>. HIDE DEF h
    <3>9. Some(n, new, h)
      BY <3>6, <3>7, <3>8 DEF Some
    <3>10. QED
      BY <3>1, <3>2, <3>9
  <2>5. QED
    BY <2>3, <2>4
<1>9. \A n \in 0..N : Fine(n, K[n])
  <2>. DEFINE P == [n \in 0..N |-> Fine(n, K[n])]
  <2>. HIDE DEF K, N, Step, Some, S
  <2>1. P \in [0..N -> BOOLEAN]
    OBVIOUS
  <2>. HIDE DEF Fine
  <2>2. P[0]
    BY <1>2, <1>7
  <2>3. \A n \in 1..N : P[n - 1] => P[n]
    <3>1. \A n \in 1..N : n - 1 \in 0..N /\ n \in 0..N
      BY <1>2
    <3>2. QED
      BY <1>6, <1>8, <3>1
  <2>. HIDE DEF P
  <2>4. \A n \in 0..N : P[n]
    BY <1>2, <2>1, <2>2, <2>3, CountUp
  <2>5. QED
    BY <2>4 DEF P
<1>. DEFINE onward == K[N]
<1>10. Fine(N, onward)
  <2>. HIDE DEF Fine, K, N
  <2>1. QED
    BY <1>2, <1>9
<1>. HIDE DEF K, onward
<1>11. PICK g : Some(N, onward, g)
  BY <1>10
<1>12. onward \in Seq(Items)
  BY <1>10
<1>13. DOMAIN batch = 1..N
  OBVIOUS
<1>14. Thins(onward, batch)
  <2>. HIDE DEF N
  <2>1. g \in [DOMAIN onward -> DOMAIN batch]
    BY <1>11, <1>13
  <2>2. QED
    BY <1>11, <2>1 DEF Thins
<1>15. \A x \in DOMAIN onward : GoesOn(answer[onward[x]])
  <2>. HIDE DEF N
  <2>1. QED
    BY <1>11
<1>16. QED
  BY <1>1, <1>12, <1>14, <1>15 DEF onward

(* The segments of an ordered line in a row are in order. *)
Sorted(A, s) == s \in Seq(Items) /\ \A x, y \in DOMAIN s : x < y => Precedes(A, s[x], s[y])

LEMMA JoinedSorted ==
  ASSUME NEW A, NEW s, NEW t, Sorted(A, s), Sorted(A, t),
         \A x \in DOMAIN s, y \in DOMAIN t : Precedes(A, s[x], t[y])
  PROVE  Sorted(A, s \o t) /\ ToSet(s \o t) = ToSet(s) \cup ToSet(t)
<1>1. /\ s \in Seq(Items) /\ t \in Seq(Items)
      /\ DOMAIN s = 1..Len(s) /\ Len(s) \in Nat /\ DOMAIN t = 1..Len(t) /\ Len(t) \in Nat
  <2>1. s \in Seq(Items) /\ t \in Seq(Items)
    BY DEF Sorted
  <2>2. QED
    BY <2>1, LenProperties
<1>. DEFINE u == s \o t
<1>2. /\ u \in Seq(Items) /\ DOMAIN u = 1..(Len(s) + Len(t))
      /\ \A x \in 1..Len(s) : u[x] = s[x]
      /\ \A x \in 1..Len(t) : u[Len(s) + x] = t[x]
  BY <1>1
<1>. HIDE DEF u
<1>3. \A x \in DOMAIN u : x \in 1..Len(s) \/ (x - Len(s) \in 1..Len(t) /\ x = Len(s) + (x - Len(s)))
  BY <1>1, <1>2
<1>4. \A x \in 1..Len(s) : x \in DOMAIN u
  BY <1>1, <1>2
<1>5. \A x \in 1..Len(t) : Len(s) + x \in DOMAIN u
  BY <1>1, <1>2
<1>6. ToSet(u) = ToSet(s) \cup ToSet(t)
  <2>1. ToSet(u) \subseteq ToSet(s) \cup ToSet(t)
    BY <1>1, <1>2, <1>3 DEF ToSet
  <2>2. ToSet(s) \subseteq ToSet(u)
    BY <1>1, <1>2, <1>4 DEF ToSet
  <2>3. ToSet(t) \subseteq ToSet(u)
    BY <1>1, <1>2, <1>5 DEF ToSet
  <2>4. QED
    BY <2>1, <2>2, <2>3
<1>7. ASSUME NEW x \in DOMAIN u, NEW y \in DOMAIN u, x < y PROVE Precedes(A, u[x], u[y])
  <2>1. CASE x \in 1..Len(s) /\ y \in 1..Len(s)
    BY <1>1, <1>2, <1>7, <2>1 DEF Sorted
  <2>2. CASE x \in 1..Len(s) /\ y - Len(s) \in 1..Len(t) /\ y = Len(s) + (y - Len(s))
    <3>1. u[y] = t[y - Len(s)] /\ u[x] = s[x]
      BY <1>2, <2>2
    <3>2. QED
      BY <1>1, <2>2, <3>1
  <2>3. CASE x - Len(s) \in 1..Len(t) /\ x = Len(s) + (x - Len(s)) /\ y - Len(s) \in 1..Len(t) /\ y = Len(s) + (y - Len(s))
    <3>1. u[y] = t[y - Len(s)] /\ u[x] = t[x - Len(s)] /\ x - Len(s) < y - Len(s)
      BY <1>1, <1>2, <1>7, <2>3
    <3>2. QED
      BY <1>1, <2>3, <3>1 DEF Sorted
  <2>4. CASE x - Len(s) \in 1..Len(t) /\ y \in 1..Len(s)
    BY <1>1, <1>2, <1>7, <2>4
  <2>5. QED
    BY <1>3, <2>1, <2>2, <2>3, <2>4
<1>8. QED
  BY <1>2, <1>6, <1>7 DEF Sorted, u

(* The line of a chat as the properties read it. *)
LEMMA LineSorted ==
  ASSUME NEW k, NEW A, Segments(k) \in Lines, Orderly(A, Segments(k))
  PROVE  Sorted(A, Line(k)) /\ \A i : i \in ToSet(Line(k)) <=> Stands(Segments(k), i)
<1>. DEFINE L == Segments(k)
            J2 == L[1] \o L[2]
            J3 == J2 \o L[3]
            J4 == J3 \o L[4]
            J5 == J4 \o L[5]
            J6 == J5 \o L[6]
            J7 == J6 \o L[7]
            J8 == J7 \o L[8]
<1>1. Line(k) = J8
  BY DEF Line, Segments
<1>2. L \in Lines /\ Orderly(A, L)
  OBVIOUS
<1>3. \A s \in Slots : Sorted(A, L[s])
  <2>. HIDE DEF L
  <2>1. \A s \in Slots : s \in Int
    BY DEF Slots
  <2>2. QED
    BY <1>2, <2>1 DEF Sorted, Orderly, Lines
<1>. HIDE DEF L
<1>. DEFINE Upto(n, seq) == Sorted(A, seq) /\ \A i : i \in ToSet(seq) <=> \E s \in 1..n : i \in ToSet(L[s])
<1>4. ASSUME NEW n \in 1..7, NEW seq, Upto(n, seq) PROVE Upto(n + 1, seq \o L[n + 1])
  <2>1. n + 1 \in Slots /\ 1..n \subseteq Slots /\ 1..(n + 1) = 1..n \cup {n + 1}
    BY DEF Slots
  <2>2. ASSUME NEW x \in DOMAIN seq, NEW y \in DOMAIN L[n + 1] PROVE Precedes(A, seq[x], L[n + 1][y])
    <3>1. seq[x] \in ToSet(seq)
      BY DEF ToSet
    <3>2. PICK s \in 1..n : seq[x] \in ToSet(L[s])
      BY <1>4, <3>1
    <3>3. PICK z \in DOMAIN L[s] : seq[x] = L[s][z]
      BY <3>2 DEF ToSet
    <3>4. s \in Slots /\ s < n + 1
      BY <2>1
    <3>5. QED
      BY <1>2, <2>1, <3>3, <3>4 DEF Orderly
  <2>3. Sorted(A, seq \o L[n + 1]) /\ ToSet(seq \o L[n + 1]) = ToSet(seq) \cup ToSet(L[n + 1])
    <3>1. Sorted(A, seq) /\ Sorted(A, L[n + 1])
      BY <1>3, <1>4, <2>1
    <3>. DEFINE t == L[n + 1]
    <3>2. Sorted(A, seq) /\ Sorted(A, t) /\ \A x \in DOMAIN seq, y \in DOMAIN t : Precedes(A, seq[x], t[y])
      BY <2>2, <3>1
    <3>. HIDE DEF t
    <3>3. Sorted(A, seq \o t) /\ ToSet(seq \o t) = ToSet(seq) \cup ToSet(t)
      BY <3>2, JoinedSorted
    <3>4. QED
      BY <3>3 DEF t
  <2>4. \A i : (\E s \in 1..(n + 1) : i \in ToSet(L[s])) <=> (\E s \in 1..n : i \in ToSet(L[s])) \/ i \in ToSet(L[n + 1])
    BY <2>1
  <2>5. QED
    BY <1>4, <2>3, <2>4
<1>5. Upto(1, L[1])
  <2>1. 1..1 = {1} /\ 1 \in Slots
    BY DEF Slots
  <2>2. QED
    BY <1>3, <2>1
<1>6. Upto(8, J8)
  <2>. HIDE DEF Upto
  <2>1. Upto(1 + 1, J2)
    BY <1>4, <1>5
  <2>2. Upto(2 + 1, J3)
    BY <1>4, <2>1
  <2>3. Upto(3 + 1, J4)
    BY <1>4, <2>2
  <2>4. Upto(4 + 1, J5)
    BY <1>4, <2>3
  <2>5. Upto(5 + 1, J6)
    BY <1>4, <2>4
  <2>6. Upto(6 + 1, J7)
    BY <1>4, <2>5
  <2>7. Upto(7 + 1, J8)
    BY <1>4, <2>6
  <2>8. QED
    BY <2>7
<1>. HIDE DEF J8
<1>7. \A i : i \in ToSet(J8) <=> Stands(L, i)
  BY <1>6 DEF Stands, ToSet, Slots
<1>8. QED
  BY <1>1, <1>6, <1>7 DEF L

-----------------------------------------------------------------------------
(* The segments of a chat *)

LEMMA SlotNames ==
  /\ \A n \in Nodes : Slot[n] \in Slots /\ Slot[n] + 1 \in Slots
  /\ \A n, m \in Nodes : Slot[n] # Slot[m] + 1 /\ (n # m => Slot[n] # Slot[m])
  /\ \A t \in Slots : \E n \in Nodes : t \in {Slot[n], Slot[n] + 1}
<1>1. Slots = {1, 2, 3, 4, 5, 6, 7, 8}
  BY DEF Slots
<1>2. Slot["agent"] = 1 /\ Slot["assets"] = 3 /\ Slot["command"] = 5 /\ Slot["sync"] = 7
  BY DEF Slot
<1>3. QED
  BY <1>1, <1>2 DEF Nodes

LEMMA SegmentOf ==
  \A k : \A n \in Nodes : Segments(k)[Slot[n]] = InHand(n, k) /\ Segments(k)[Slot[n] + 1] = queue[n][k]
<1>. TAKE k
<1>1. Slot["agent"] = 1 /\ Slot["assets"] = 3 /\ Slot["command"] = 5 /\ Slot["sync"] = 7
  BY DEF Slot
<1>2. /\ Segments(k)[1] = InHand("agent", k) /\ Segments(k)[2] = queue["agent"][k]
      /\ Segments(k)[3] = InHand("assets", k) /\ Segments(k)[4] = queue["assets"][k]
      /\ Segments(k)[5] = InHand("command", k) /\ Segments(k)[6] = queue["command"][k]
      /\ Segments(k)[7] = InHand("sync", k) /\ Segments(k)[8] = queue["sync"][k]
  BY DEF Segments
<1>3. QED
  BY <1>1, <1>2 DEF Nodes

LEMMA SegmentNext ==
  \A k : \A n \in Nodes : Segments(k)'[Slot[n]] = InHand(n, k)' /\ Segments(k)'[Slot[n] + 1] = queue'[n][k]
<1>1. (\A k : \A n \in Nodes : Segments(k)[Slot[n]] = InHand(n, k) /\ Segments(k)[Slot[n] + 1] = queue[n][k])'
  BY SegmentOf, PTL
<1>2. QED
  BY <1>1

ItemsOf(hops) == [x \in DOMAIN hops |-> hops[x].item]

LEMMA ItemsOfHops ==
  ASSUME NEW hops \in Seq(Hops)
  PROVE  /\ ItemsOf(hops) \in Seq(Items) /\ Len(ItemsOf(hops)) = Len(hops)
         /\ \A x \in 1..Len(hops) : ItemsOf(hops)[x] = hops[x].item
<1>1. DOMAIN hops = 1..Len(hops) /\ Len(hops) \in Nat /\ \A x \in 1..Len(hops) : hops[x] \in Hops
  OBVIOUS
<1>2. \A x \in 1..Len(hops) : hops[x].item \in Items
  BY <1>1 DEF Hops
<1>3. ItemsOf(hops) = [x \in 1..Len(hops) |-> hops[x].item]
  BY <1>1 DEF ItemsOf
<1>. DEFINE f == [x \in 1..Len(hops) |-> hops[x].item]
<1>4. f \in [1..Len(hops) -> Items]
  BY <1>2
<1>5. f \in Seq(Items) /\ Len(f) = Len(hops)
  <2>. HIDE DEF f
  <2>1. f \in Seq(Items)
    BY <1>1, <1>4
  <2>2. QED
    BY <1>1, <1>4, <2>1
<1>6. QED
  BY <1>1, <1>3, <1>5

LEMMA NothingJoined == ASSUME NEW s \in Seq(Items) PROVE s \o <<>> = s /\ <<>> \o s = s
  BY ConcatEmptySeq

(* What a goroutine has in its hand: its batch or the items of its hops. *)
LEMMA InHandIs ==
  \A n, k : hand[n][k] \in HandRecords /\ HandFits(n, hand[n][k]) =>
         /\ InHand(n, k) = IF hand[n][k].at = "handle" THEN hand[n][k].batch ELSE ItemsOf(hand[n][k].hops)
         /\ InHand(n, k) \in Seq(Items)
<1>. SUFFICES ASSUME NEW n, NEW k, hand[n][k] \in HandRecords, HandFits(n, hand[n][k])
               PROVE  /\ InHand(n, k) = IF hand[n][k].at = "handle" THEN hand[n][k].batch ELSE ItemsOf(hand[n][k].hops)
                      /\ InHand(n, k) \in Seq(Items)
  OBVIOUS
<1>. DEFINE h == hand[n][k]
<1>1. h.batch \in Seq(Items) /\ h.hops \in Seq(Hops) /\ h.at \in {"free", "drain", "handle", "send", "more"}
  BY DEF HandRecords
<1>2. InHand(n, k) = h.batch \o ItemsOf(h.hops)
  BY DEF InHand, ItemsOf
<1>3. ItemsOf(h.hops) \in Seq(Items) /\ (h.hops = <<>> => ItemsOf(h.hops) = <<>>)
  <2>1. ItemsOf(h.hops) \in Seq(Items) /\ Len(ItemsOf(h.hops)) = Len(h.hops)
    BY <1>1, ItemsOfHops
  <2>2. QED
    BY <2>1
<1>4. IF h.at = "handle" THEN h.hops = <<>> ELSE h.batch = <<>>
  BY <1>1 DEF HandFits
<1>. HIDE DEF h
<1>5. CASE h.at = "handle"
  BY <1>1, <1>2, <1>3, <1>4, <1>5, NothingJoined DEF h
<1>6. CASE h.at # "handle"
  BY <1>1, <1>2, <1>3, <1>4, <1>6, NothingJoined DEF h
<1>7. QED
  BY <1>5, <1>6

LEMMA InHandNext ==
  \A n, k : hand'[n][k] \in HandRecords /\ HandFits(n, hand'[n][k]) =>
         /\ InHand(n, k)' = IF hand'[n][k].at = "handle" THEN hand'[n][k].batch ELSE ItemsOf(hand'[n][k].hops)
         /\ InHand(n, k)' \in Seq(Items)
<1>1. (\A n, k : hand[n][k] \in HandRecords /\ HandFits(n, hand[n][k]) =>
         /\ InHand(n, k) = IF hand[n][k].at = "handle" THEN hand[n][k].batch ELSE ItemsOf(hand[n][k].hops)
         /\ InHand(n, k) \in Seq(Items))'
  BY InHandIs, PTL
<1>2. QED
  BY <1>1

LEMMA SegmentsTyped == FlowTyping => \A k \in Chats : Segments(k) \in Lines
<1>. SUFFICES ASSUME FlowTyping, NEW k \in Chats PROVE Segments(k) \in Lines
  OBVIOUS
<1>1. \A n \in Nodes : InHand(n, k) \in Seq(Items) /\ queue[n][k] \in Seq(Items)
  BY InHandIs DEF FlowTyping
<1>. DEFINE L == Segments(k)
<1>2. L = [t \in Slots |-> L[t]]
  BY DEF Segments, Slots
<1>3. \A t \in Slots : L[t] \in Seq(Items)
  BY <1>1, SlotNames, SegmentOf
<1>. HIDE DEF L
<1>4. QED
  BY <1>2, <1>3, Zenon DEF Lines, L

LEMMA SegmentsTypedNext == FlowTyping' => \A k \in Chats : Segments(k)' \in Lines
<1>1. (FlowTyping => \A k \in Chats : Segments(k) \in Lines)'
  BY SegmentsTyped, PTL
<1>2. QED
  BY <1>1

-----------------------------------------------------------------------------
(* What an action does to the hands and to the queues *)

LEMMA OneAppended ==
  ASSUME NEW p \in Seq(Items), NEW i \in Items
  PROVE  /\ Append(p, i) \in Seq(Items) /\ Len(Append(p, i)) = Len(p) + 1
         /\ ToSet(Append(p, i)) = ToSet(p) \cup {i}
<1>1. /\ Append(p, i) \in Seq(Items) /\ Len(p) \in Nat /\ DOMAIN p = 1..Len(p)
      /\ DOMAIN Append(p, i) = 1..(Len(p) + 1) /\ Len(Append(p, i)) = Len(p) + 1
      /\ Append(p, i)[Len(p) + 1] = i /\ \A x \in 1..Len(p) : Append(p, i)[x] = p[x]
  OBVIOUS
<1>2. \A x \in 1..(Len(p) + 1) : x \in 1..Len(p) \/ x = Len(p) + 1
  BY <1>1
<1>3. Len(p) + 1 \in 1..(Len(p) + 1) /\ 1..Len(p) \subseteq 1..(Len(p) + 1)
  BY <1>1
<1>4. ToSet(Append(p, i)) = ToSet(p) \cup {i}
  BY <1>1, <1>2, <1>3 DEF ToSet
<1>5. QED
  BY <1>1, <1>4

LEMMA FirstOnesGone ==
  ASSUME NEW p \in Seq(Items), NEW c \in 1..Len(p)
  PROVE  LET q == SubSeq(p, c + 1, Len(p)) IN
         q \in Seq(Items) /\ Len(q) <= Len(p) /\ ToSet(q) \subseteq ToSet(p)
<1>. DEFINE q == SubSeq(p, c + 1, Len(p))
<1>1. /\ q \in Seq(Items) /\ Len(q) = Len(p) - c /\ DOMAIN q = 1..(Len(p) - c) /\ DOMAIN p = 1..Len(p)
      /\ Len(p) \in Nat /\ c \in Nat /\ \A x \in 1..(Len(p) - c) : q[x] = p[x + c]
  OBVIOUS
<1>. HIDE DEF q
<1>2. \A x \in 1..(Len(p) - c) : x + c \in 1..Len(p)
  BY <1>1
<1>3. ToSet(q) \subseteq ToSet(p)
  BY <1>1, <1>2 DEF ToSet
<1>4. q \in Seq(Items) /\ Len(q) <= Len(p)
  BY <1>1
<1>5. QED
  BY <1>3, <1>4, Zenon DEF q

QueueIs(n, k, q) == queue' = [queue EXCEPT ![n][k] = q]

LEMMA QueueSet ==
  ASSUME FlowTyping, NEW n \in Nodes, NEW k \in Chats, NEW q \in Seq(Items), QueueIs(n, k, q)
  PROVE  /\ queue' \in [Nodes -> [Chats -> Seq(Items)]]
         /\ \A m \in Nodes, j \in Chats : queue'[m][j] = IF m = n /\ j = k THEN q ELSE queue[m][j]
<1>1. queue \in [Nodes -> [Chats -> Seq(Items)]] /\ queue' = [queue EXCEPT ![n][k] = q]
  BY DEF FlowTyping, QueueIs
<1>2. QED
  BY <1>1

LEMMA HandSet ==
  ASSUME FlowTyping, NEW n \in Nodes, NEW k \in Chats, NEW h \in HandRecords, HandFits(n, h), SetHand(n, k, h)
  PROVE  /\ hand' \in [Nodes -> [Chats -> HandRecords]]
         /\ \A m \in Nodes, j \in Chats : HandFits(m, hand'[m][j])
         /\ \A m \in Nodes, j \in Chats : hand'[m][j] = IF m = n /\ j = k THEN h ELSE hand[m][j]
<1>1. hand \in [Nodes -> [Chats -> HandRecords]] /\ \A m \in Nodes, j \in Chats : HandFits(m, hand[m][j])
  BY DEF FlowTyping
<1>2. hand' = [hand EXCEPT ![n][k] = h]
  BY DEF SetHand
<1>. HIDE DEF HandRecords
<1>3. hand' \in [Nodes -> [Chats -> HandRecords]]
      /\ \A m \in Nodes, j \in Chats : hand'[m][j] = IF m = n /\ j = k THEN h ELSE hand[m][j]
  BY <1>1, <1>2
<1>4. QED
  BY <1>1, <1>3

(* No goroutine takes a chat up, so no pool has more to do. *)
LEMMA NoMoreHeld ==
  ASSUME HandsBounded, OrchestratorAssumption,
         \A m \in Nodes, j \in Chats : hand'[m][j].at # "free" => hand[m][j].at # "free"
  PROVE  HandsBounded'
<1>1. SUFFICES ASSUME NEW m \in Nodes PROVE IsFiniteSet(Held(m)') /\ Cardinality(Held(m)') <= Concurrency[m]
  BY DEF HandsBounded, Active
<1>2. Held(m)' \subseteq Held(m)
  BY DEF Held
<1>3. IsFiniteSet(Held(m)) /\ Cardinality(Held(m)) <= Concurrency[m]
  BY DEF HandsBounded, Active
<1>4. IsFiniteSet(Held(m)') /\ Cardinality(Held(m)') <= Cardinality(Held(m))
  BY <1>2, <1>3, FS_Subset
<1>5. Cardinality(Held(m)') \in Nat /\ Cardinality(Held(m)) \in Nat /\ Concurrency[m] \in Nat
  BY <1>3, <1>4, FS_CardinalityType DEF OrchestratorAssumption
<1>6. QED
  BY <1>3, <1>4, <1>5

(* A queue takes one more item when it has room. *)
LEMMA QueueTakesOne ==
  ASSUME FlowTyping, QueuesBounded, OrchestratorAssumption, NEW n \in Nodes, NEW k \in Chats, NEW i \in Items,
         HasRoom(n, k), NEW q \in Seq(Items), Len(q) = Len(queue[n][k]) + 1,
         ToSet(q) \subseteq ToSet(queue[n][k]) \cup {i}, QueueIs(n, k, q)
  PROVE  QueuesBounded'
<1>1. queue[n][k] \in Seq(Items)
  BY DEF FlowTyping
<1>2. \A m \in Nodes, j \in Chats : queue'[m][j] = IF m = n /\ j = k THEN q ELSE queue[m][j]
  BY QueueSet
<1>3. ASSUME NEW m \in Nodes
      PROVE  IsFiniteSet(Buffered(m)') /\ Cardinality(Buffered(m)') <= Global
  <2>1. IsFiniteSet(Buffered(m)) /\ Cardinality(Buffered(m)) <= Global /\ Global \in Nat
    BY DEF QueuesBounded, Total, OrchestratorAssumption
  <2>2. CASE m = n
    <3>1. Buffered(n)' \subseteq Buffered(n) \cup {i}
      <4>1. \A j \in Chats : ToSet(queue'[n][j]) \subseteq ToSet(queue[n][j]) \cup {i}
        BY <1>2
      <4>2. QED
        BY <4>1 DEF Buffered
    <3>2. Cardinality(Buffered(n)) < Global
      BY DEF HasRoom, Total
    <3>3. IsFiniteSet(Buffered(n) \cup {i}) /\ Cardinality(Buffered(n) \cup {i}) <= Cardinality(Buffered(n)) + 1
      <4>1. IsFiniteSet(Buffered(n))
        BY <2>1, <2>2
      <4>2. /\ IsFiniteSet(Buffered(n) \cup {i})
            /\ Cardinality(Buffered(n) \cup {i}) =
                 IF i \in Buffered(n) THEN Cardinality(Buffered(n)) ELSE Cardinality(Buffered(n)) + 1
        BY <4>1, FS_AddElement
      <4>3. Cardinality(Buffered(n)) \in Nat
        BY <4>1, FS_CardinalityType
      <4>4. QED
        BY <4>2, <4>3
    <3>4. IsFiniteSet(Buffered(n)') /\ Cardinality(Buffered(n)') <= Cardinality(Buffered(n) \cup {i})
      BY <3>1, <3>3, FS_Subset
    <3>5. /\ Cardinality(Buffered(n)') \in Nat /\ Cardinality(Buffered(n)) \in Nat
          /\ Cardinality(Buffered(n) \cup {i}) \in Nat
      BY <2>1, <2>2, <3>3, <3>4, FS_CardinalityType
    <3>6. QED
      BY <2>1, <2>2, <3>2, <3>3, <3>4, <3>5
  <2>3. CASE m # n
    <3>1. Buffered(m)' = Buffered(m)
      BY <1>2, <2>3 DEF Buffered
    <3>2. QED
      BY <2>1, <3>1
  <2>4. QED
    BY <2>2, <2>3
<1>4. ASSUME NEW m \in Nodes, NEW j \in Chats PROVE Len(queue'[m][j]) <= PerChat
  <2>1. CASE m = n /\ j = k
    <3>1. queue'[m][j] = q /\ Len(queue[n][k]) < PerChat
      BY <1>2, <2>1 DEF HasRoom
    <3>2. Len(queue[n][k]) \in Nat /\ PerChat \in Nat
      BY <1>1, LenProperties DEF OrchestratorAssumption
    <3>3. QED
      BY <3>1, <3>2
  <2>2. CASE ~ (m = n /\ j = k)
    BY <1>2, <2>2 DEF QueuesBounded
  <2>3. QED
    BY <2>1, <2>2
<1>5. QED
  BY <1>3, <1>4 DEF QueuesBounded, Total

(* A queue gives items away. *)
LEMMA QueueGives ==
  ASSUME FlowTyping, QueuesBounded, OrchestratorAssumption, NEW n \in Nodes, NEW k \in Chats,
         NEW q \in Seq(Items), Len(q) <= Len(queue[n][k]), ToSet(q) \subseteq ToSet(queue[n][k]), QueueIs(n, k, q)
  PROVE  QueuesBounded'
<1>1. queue[n][k] \in Seq(Items)
  BY DEF FlowTyping
<1>2. \A m \in Nodes, j \in Chats : queue'[m][j] = IF m = n /\ j = k THEN q ELSE queue[m][j]
  BY QueueSet
<1>3. ASSUME NEW m \in Nodes
      PROVE  IsFiniteSet(Buffered(m)') /\ Cardinality(Buffered(m)') <= Global
  <2>1. IsFiniteSet(Buffered(m)) /\ Cardinality(Buffered(m)) <= Global /\ Global \in Nat
    BY DEF QueuesBounded, Total, OrchestratorAssumption
  <2>2. \A j \in Chats : ToSet(queue'[m][j]) \subseteq ToSet(queue[m][j])
    BY <1>2
  <2>3. Buffered(m)' \subseteq Buffered(m)
    BY <2>2 DEF Buffered
  <2>4. IsFiniteSet(Buffered(m)') /\ Cardinality(Buffered(m)') <= Cardinality(Buffered(m))
    BY <2>1, <2>3, FS_Subset
  <2>5. Cardinality(Buffered(m)') \in Nat /\ Cardinality(Buffered(m)) \in Nat
    BY <2>1, <2>4, FS_CardinalityType
  <2>6. QED
    BY <2>1, <2>4, <2>5
<1>4. ASSUME NEW m \in Nodes, NEW j \in Chats PROVE Len(queue'[m][j]) <= PerChat
  <2>1. CASE m = n /\ j = k
    <3>1. Len(q) \in Nat /\ Len(queue[n][k]) \in Nat /\ PerChat \in Nat
      BY <1>1, LenProperties DEF OrchestratorAssumption
    <3>2. Len(queue[n][k]) <= PerChat
      BY DEF QueuesBounded
    <3>3. queue'[m][j] = q
      BY <1>2, <2>1
    <3>4. QED
      BY <3>1, <3>2, <3>3
  <2>2. CASE ~ (m = n /\ j = k)
    BY <1>2, <2>2 DEF QueuesBounded
  <2>3. QED
    BY <2>1, <2>2
<1>5. QED
  BY <1>3, <1>4 DEF QueuesBounded, Total

(* What happens in one chat leaves the others as they were. *)
LEMMA OneChatMoves ==
  ASSUME FlowInv, NEW k \in Chats,
         \A m \in Nodes, j \in Chats : j # k => queue'[m][j] = queue[m][j] /\ hand'[m][j] = hand[m][j],
         \A j \in Chats : j # k => admitted'[j] = admitted[j],
         \A i \in Items : ChatOf[i] # k => (i \in ended' <=> i \in ended) /\ (i \in lost' <=> i \in lost),
         bufDown \subseteq bufDown',
         ChatFine(admitted'[k], Segments(k)', ended', lost', bufDown' # {})
  PROVE  ChatsFine'
<1>1. SUFFICES ASSUME NEW j \in Chats PROVE ChatFine(admitted'[j], Segments(j)', ended', lost', bufDown' # {})
  BY DEF ChatsFine
<1>2. CASE j = k
  BY <1>2
<1>3. CASE j # k
  <2>1. Segments(j)' = Segments(j)
    BY <1>3 DEF Segments, InHand, Nodes
  <2>2. ChatFine(admitted[j], Segments(j), ended, lost, bufDown # {})
    BY DEF FlowInv, ChatsFine
  <2>3. \A i \in ToSet(admitted[j]) : i \in Items /\ ChatOf[i] = j
    <3>1. admitted[j] \in Seq(Items)
      BY DEF FlowInv, FlowTyping
    <3>2. QED
      BY <3>1 DEF FlowInv, Belong, ToSet
  <2>4. \A i \in ToSet(admitted[j]) : (i \in ended' <=> i \in ended) /\ (i \in lost' <=> i \in lost)
    BY <1>3, <2>3
  <2>5. ChatFine(admitted[j], Segments(j), ended', lost', bufDown' # {})
    BY <2>2, <2>4, OthersFine
  <2>6. QED
    BY <1>3, <2>1, <2>5
<1>4. QED
  BY <1>2, <1>3

LEMMA OtherSegments ==
  ASSUME NEW k, NEW S,
         \A n \in Nodes : Slot[n] \notin S => InHand(n, k)' = InHand(n, k),
         \A n \in Nodes : Slot[n] + 1 \notin S => queue'[n][k] = queue[n][k]
  PROVE  \A t \in Slots \ S : Segments(k)'[t] = Segments(k)[t]
<1>1. SUFFICES ASSUME NEW t \in Slots \ S PROVE Segments(k)'[t] = Segments(k)[t]
  OBVIOUS
<1>2. PICK n \in Nodes : t = Slot[n] \/ t = Slot[n] + 1
  BY SlotNames
<1>3. CASE t = Slot[n]
  BY <1>3, SegmentOf, SegmentNext
<1>4. CASE t = Slot[n] + 1
  BY <1>4, SegmentOf, SegmentNext
<1>5. QED
  BY <1>2, <1>3, <1>4

LEMMA FlowStarts == FlowInit => FlowInv
<1>. SUFFICES ASSUME FlowInit PROVE FlowInv
  OBVIOUS
<1>1. FreeHand \in HandRecords /\ FreeHand.at = "free" /\ FreeHand.batch = <<>> /\ FreeHand.hops = <<>>
  BY DEF FreeHand, HandRecords
<1>2. \A n : HandFits(n, FreeHand)
  BY <1>1 DEF HandFits
<1>3. \A n \in Nodes, k \in Chats : hand[n][k] = FreeHand /\ queue[n][k] = <<>>
  BY DEF FlowInit
<1>4. \A k \in Chats : admitted[k] = <<>>
  BY DEF FlowInit
<1>5. /\ queue \in [Nodes -> [Chats -> Seq(Items)]] /\ admitted \in [Chats -> Seq(Items)]
      /\ bufDown \subseteq Nodes /\ poolDown \subseteq Nodes
      /\ handled \subseteq Nodes \X Items /\ ended \subseteq Items /\ lost \subseteq Items
  BY DEF FlowInit
<1>6. hand \in [Nodes -> [Chats -> HandRecords]]
  <2>. HIDE DEF HandRecords, FreeHand
  <2>1. QED
    BY <1>1 DEF FlowInit
<1>7. FlowTyping
  BY <1>2, <1>3, <1>5, <1>6 DEF FlowTyping
<1>8. QueuesBounded
  <2>1. \A n \in Nodes : Buffered(n) = {}
    BY <1>3 DEF Buffered, ToSet
  <2>2. IsFiniteSet({}) /\ Cardinality({}) = 0
    BY FS_EmptySet
  <2>3. 0 <= Global /\ 0 <= PerChat /\ Len(<<>>) = 0
    BY OrchestratorAssumption DEF OrchestratorAssumption
  <2>4. QED
    BY <1>3, <2>1, <2>2, <2>3 DEF QueuesBounded, Total
<1>9. HandsBounded
  <2>1. \A n \in Nodes : Held(n) = {}
    BY <1>1, <1>3 DEF Held
  <2>2. IsFiniteSet({}) /\ Cardinality({}) = 0
    BY FS_EmptySet
  <2>3. \A n \in Nodes : 0 <= Concurrency[n]
    BY OrchestratorAssumption DEF OrchestratorAssumption
  <2>4. QED
    BY <2>1, <2>2, <2>3 DEF HandsBounded, Active
<1>10. Belong
  BY <1>4 DEF Belong, FlowInit, ToSet
<1>11. ChatsFine
  <2>1. SUFFICES ASSUME NEW k \in Chats PROVE ChatFine(<<>>, Segments(k), ended, lost, bufDown # {})
    BY <1>4 DEF ChatsFine
  <2>2. Segments(k) \in Lines
    BY <1>7, SegmentsTyped
  <2>3. \A n \in Nodes : InHand(n, k) = <<>> /\ queue[n][k] = <<>>
    <3>1. ItemsOf(<<>>) = <<>>
      BY DEF ItemsOf
    <3>2. QED
      BY <1>1, <1>2, <1>3, <3>1, InHandIs
  <2>4. \A t \in Slots : Segments(k)[t] = <<>>
    BY <2>3, SlotNames, SegmentOf
  <2>5. Known(<<>>, Segments(k)) /\ Orderly(<<>>, Segments(k)) /\ Distinct(<<>>) /\ ToSet(<<>>) = {}
    BY <2>4 DEF Known, Orderly, Distinct, ToSet
  <2>6. QED
    BY <2>2, <2>5 DEF ChatFine
<1>12. QED
  BY <1>7, <1>8, <1>9, <1>10, <1>11 DEF FlowInv

LEMMA AdmitKeeps ==
  ASSUME FlowInv, NEW i \in Items, Fresh(i), Admit(i)
  PROVE  FlowInv'
<1>1. PICK k \in Chats : k = ChatOf[i]
  BY OrchestratorAssumption DEF OrchestratorAssumption
<1>2. queue["sync"][k] \in Seq(Items) /\ admitted[k] \in Seq(Items) /\ "sync" \in Nodes
  BY DEF FlowInv, FlowTyping, Nodes
<1>3. PICK q \in Seq(Items) : /\ q = Append(queue["sync"][k], i) /\ Len(q) = Len(queue["sync"][k]) + 1
                              /\ ToSet(q) = ToSet(queue["sync"][k]) \cup {i}
  BY <1>2, OneAppended
<1>4. PICK A \in Seq(Items) : A = Append(admitted[k], i) /\ ToSet(A) = ToSet(admitted[k]) \cup {i}
  BY <1>2, OneAppended
<1>5. /\ QueueIs("sync", k, q) /\ admitted' = [admitted EXCEPT ![k] = A] /\ HasRoom("sync", k)
      /\ hand' = hand /\ bufDown' = bufDown /\ poolDown' = poolDown
      /\ handled' = handled /\ ended' = ended /\ lost' = lost
  BY <1>1, <1>3, <1>4 DEF Admit, QueueIs, fates
<1>6. /\ queue' \in [Nodes -> [Chats -> Seq(Items)]]
      /\ \A m \in Nodes, j \in Chats : queue'[m][j] = IF m = "sync" /\ j = k THEN q ELSE queue[m][j]
  BY <1>2, <1>5, QueueSet DEF FlowInv
<1>7. /\ admitted' \in [Chats -> Seq(Items)]
      /\ \A j \in Chats : admitted'[j] = IF j = k THEN A ELSE admitted[j]
  <2>. DEFINE S == Seq(Items)
  <2>1. admitted \in [Chats -> S] /\ A \in S
    BY DEF FlowInv, FlowTyping
  <2>. HIDE DEF S
  <2>2. admitted' \in [Chats -> S] /\ \A j \in Chats : admitted'[j] = IF j = k THEN A ELSE admitted[j]
    BY <1>5, <2>1
  <2>3. QED
    BY <2>2 DEF S
<1>8. FlowTyping'
  BY <1>5, <1>6, <1>7 DEF FlowInv, FlowTyping
<1>9. QueuesBounded'
  BY <1>2, <1>3, <1>5, QueueTakesOne, OrchestratorAssumption DEF FlowInv
<1>10. HandsBounded'
  BY <1>5 DEF FlowInv, HandsBounded, Active, Held
<1>11. \A j \in Chats : ToSet(admitted'[j]) = IF j = k THEN ToSet(admitted[k]) \cup {i} ELSE ToSet(admitted[j])
  BY <1>4, <1>7
<1>12. Belong'
  <2>1. \A j \in Items : ChatOf[j] \in Chats
    BY OrchestratorAssumption DEF OrchestratorAssumption
  <2>2. QED
    BY <1>1, <1>5, <1>11, <2>1 DEF FlowInv, Belong
<1>13. i \notin ToSet(admitted[k]) /\ i \notin ended /\ i \notin lost
  BY <1>1 DEF FlowInv, Belong, Fresh
<1>14. ChatFine(A, Segments(k)', ended, lost, bufDown # {})
  <2>1. PICK L \in Lines : L = Segments(k)
    BY SegmentsTyped DEF FlowInv
  <2>2. PICK new \in Lines : new = Segments(k)'
    BY <1>8, SegmentsTypedNext
  <2>3. L[8] = queue["sync"][k] /\ new[8] = queue'["sync"][k] /\ Slot["sync"] + 1 = 8
    BY <2>1, <2>2 DEF Segments, Slot
  <2>4. \A t \in Slots \ {8} : new[t] = L[t]
    <3>1. \A n \in Nodes : InHand(n, k)' = InHand(n, k)
      BY <1>5 DEF InHand
    <3>2. \A n \in Nodes : Slot[n] + 1 # 8 => n # "sync"
      BY <2>3
    <3>3. \A n \in Nodes : Slot[n] + 1 \notin {8} => queue'[n][k] = queue[n][k]
      BY <1>6, <3>2
    <3>4. \A t \in Slots \ {8} : Segments(k)'[t] = Segments(k)[t]
      BY <3>1, <3>3, OtherSegments
    <3>5. QED
      BY <2>1, <2>2, <3>4
  <2>5. ChatFine(admitted[k], L, ended, lost, bufDown # {})
    BY <2>1 DEF FlowInv, ChatsFine
  <2>6. new[8] = Append(L[8], i)
    BY <1>2, <1>3, <1>6, <2>3
  <2>7. ChatFine(Append(admitted[k], i), new, ended, lost, bufDown # {})
    BY <1>13, <2>4, <2>5, <2>6, ArrivedFine
  <2>8. QED
    BY <1>4, <2>2, <2>7
<1>15. ChatsFine'
  <2>1. \A m \in Nodes, j \in Chats : j # k => queue'[m][j] = queue[m][j] /\ hand'[m][j] = hand[m][j]
    BY <1>5, <1>6
  <2>2. \A j \in Chats : j # k => admitted'[j] = admitted[j]
    BY <1>7
  <2>3. ChatFine(admitted'[k], Segments(k)', ended', lost', bufDown' # {})
    BY <1>5, <1>7, <1>14
  <2>4. QED
    BY <1>5, <2>1, <2>2, <2>3, OneChatMoves
<1>16. QED
  BY <1>8, <1>9, <1>10, <1>12, <1>15 DEF FlowInv

-----------------------------------------------------------------------------
(* The steps of a node *)

(* What has been seen of the hands, the queues and the chats of a state in which only what node n
   holds of chat k has moved. *)
LEMMA NodeMoves ==
  ASSUME FlowInv, NEW n \in Nodes, NEW k \in Chats, NEW h \in HandRecords, HandFits(n, h), SetHand(n, k, h),
         queue' \in [Nodes -> [Chats -> Seq(Items)]], QueuesBounded', HandsBounded',
         \A m \in Nodes, j \in Chats : j # k => queue'[m][j] = queue[m][j],
         bufDown' = bufDown, poolDown' = poolDown, admitted' = admitted,
         NEW gone \in SUBSET ToSet(admitted[k]), NEW seen \in SUBSET (Nodes \X ToSet(admitted[k])),
         handled' = handled \cup seen,
         (ended' = ended \cup gone /\ lost' = lost) \/ (ended' = ended /\ lost' = lost \cup gone),
         Segments(k)' \in Lines => ChatFine(admitted[k], Segments(k)', ended', lost', bufDown # {})
  PROVE  FlowInv'
<1>1. /\ hand' \in [Nodes -> [Chats -> HandRecords]]
      /\ \A m \in Nodes, j \in Chats : HandFits(m, hand'[m][j])
      /\ \A m \in Nodes, j \in Chats : hand'[m][j] = IF m = n /\ j = k THEN h ELSE hand[m][j]
  BY HandSet DEF FlowInv
<1>2. \A i \in ToSet(admitted[k]) : i \in Items /\ ChatOf[i] = k
  <2>1. admitted[k] \in Seq(Items)
    BY DEF FlowInv, FlowTyping
  <2>2. QED
    BY <2>1 DEF FlowInv, Belong, ToSet
<1>3. FlowTyping'
  <2>1. ended' \subseteq Items /\ lost' \subseteq Items /\ handled' \subseteq Nodes \X Items
    BY <1>2 DEF FlowInv, FlowTyping
  <2>2. QED
    BY <1>1, <2>1 DEF FlowInv, FlowTyping
<1>4. Belong'
  <2>1. \A j \in Chats : \A i \in ToSet(admitted[j]) : ChatOf[i] = j
    BY DEF FlowInv, Belong
  <2>2. ASSUME NEW i \in Items, i \in ended' \/ i \in lost' \/ \E m \in Nodes : <<m, i>> \in handled'
        PROVE  i \in ToSet(admitted[ChatOf[i]])
    <3>1. \A m \in Nodes : <<m, i>> \in seen => i \in ToSet(admitted[k])
      OBVIOUS
    <3>2. CASE i \in ToSet(admitted[k])
      BY <1>2, <3>2
    <3>3. CASE i \notin ToSet(admitted[k])
      <4>1. i \in ended \/ i \in lost \/ \E m \in Nodes : <<m, i>> \in handled
        BY <2>2, <3>1, <3>3
      <4>2. QED
        BY <4>1 DEF FlowInv, Belong
    <3>4. QED
      BY <3>2, <3>3
  <2>3. QED
    BY <2>1, <2>2 DEF Belong
<1>5. ChatsFine'
  <2>1. Segments(k)' \in Lines
    BY <1>3, SegmentsTypedNext
  <2>2. ChatFine(admitted'[k], Segments(k)', ended', lost', bufDown' # {})
    BY <2>1
  <2>3. \A m \in Nodes, j \in Chats : j # k => queue'[m][j] = queue[m][j] /\ hand'[m][j] = hand[m][j]
    BY <1>1
  <2>4. \A i \in Items : ChatOf[i] # k => (i \in ended' <=> i \in ended) /\ (i \in lost' <=> i \in lost)
    BY <1>2
  <2>5. QED
    BY <2>2, <2>3, <2>4, OneChatMoves
<1>6. QED
  BY <1>1, <1>3, <1>4, <1>5 DEF FlowInv

(* The line of the chat: what node n holds may have changed, and what is queued where S says so. *)
LEMMA LineMoves ==
  ASSUME FlowInv, NEW n \in Nodes, NEW k \in Chats, NEW h \in HandRecords, HandFits(n, h), SetHand(n, k, h), NEW S,
         \A m \in Nodes : Slot[m] + 1 \notin S => queue'[m][k] = queue[m][k]
  PROVE  /\ \A t \in Slots \ (S \cup {Slot[n]}) : Segments(k)'[t] = Segments(k)[t]
         /\ Segments(k)[Slot[n]] = IF hand[n][k].at = "handle" THEN hand[n][k].batch ELSE ItemsOf(hand[n][k].hops)
         /\ Segments(k)'[Slot[n]] = IF h.at = "handle" THEN h.batch ELSE ItemsOf(h.hops)
<1>1. /\ \A m \in Nodes, j \in Chats : HandFits(m, hand'[m][j]) /\ hand'[m][j] \in HandRecords
      /\ \A m \in Nodes, j \in Chats : hand'[m][j] = IF m = n /\ j = k THEN h ELSE hand[m][j]
  <2>1. /\ hand' \in [Nodes -> [Chats -> HandRecords]]
        /\ \A m \in Nodes, j \in Chats : HandFits(m, hand'[m][j])
        /\ \A m \in Nodes, j \in Chats : hand'[m][j] = IF m = n /\ j = k THEN h ELSE hand[m][j]
    BY HandSet DEF FlowInv
  <2>. HIDE DEF HandRecords
  <2>2. QED
    BY <2>1
<1>2. hand[n][k] \in HandRecords /\ HandFits(n, hand[n][k])
  <2>. HIDE DEF HandRecords
  <2>1. QED
    BY DEF FlowInv, FlowTyping
<1>3. \A m \in Nodes : m # n => InHand(m, k)' = InHand(m, k)
  BY <1>1 DEF InHand
<1>4. \A m \in Nodes : Slot[m] \notin S \cup {Slot[n]} => InHand(m, k)' = InHand(m, k)
  BY <1>3
<1>5. \A m \in Nodes : Slot[m] + 1 \notin S \cup {Slot[n]} => queue'[m][k] = queue[m][k]
  OBVIOUS
<1>6. \A t \in Slots \ (S \cup {Slot[n]}) : Segments(k)'[t] = Segments(k)[t]
  BY <1>4, <1>5, OtherSegments
<1>7. Segments(k)[Slot[n]] = IF hand[n][k].at = "handle" THEN hand[n][k].batch ELSE ItemsOf(hand[n][k].hops)
  BY <1>2, InHandIs, SegmentOf
<1>8. hand'[n][k] = h
  BY <1>1
<1>9. Segments(k)'[Slot[n]] = IF h.at = "handle" THEN h.batch ELSE ItemsOf(h.hops)
  BY <1>1, <1>8, InHandNext, SegmentNext
<1>10. QED
  BY <1>6, <1>7, <1>9

(* A goroutine that takes a chat up or gives it back has nothing in its hand. *)
LEMMA QuietHand ==
  ASSUME FlowInv, NEW n \in Nodes, NEW k \in Chats, NEW h \in HandRecords, HandFits(n, h), SetHand(n, k, h),
         hand[n][k].at \in {"free", "drain", "more"}, h.at \in {"free", "drain", "more"}, HandsBounded',
         UNCHANGED <<queue, bufDown, poolDown, admitted, fates>>
  PROVE  FlowInv'
<1>1. /\ queue' = queue /\ bufDown' = bufDown /\ poolDown' = poolDown /\ admitted' = admitted
      /\ handled' = handled /\ ended' = ended /\ lost' = lost
  BY DEF fates
<1>2. \A t \in Slots \ ({} \cup {Slot[n]}) : Segments(k)'[t] = Segments(k)[t]
  BY <1>1, LineMoves
<1>3. Segments(k)'[Slot[n]] = Segments(k)[Slot[n]]
  <2>1. hand[n][k].hops = <<>> /\ h.hops = <<>>
    BY DEF FlowInv, FlowTyping, HandFits
  <2>2. QED
    BY <1>1, <2>1, LineMoves
<1>4. ASSUME Segments(k)' \in Lines
      PROVE  ChatFine(admitted[k], Segments(k)', ended', lost', bufDown # {})
  <2>1. Segments(k) \in Lines
    BY SegmentsTyped DEF FlowInv
  <2>2. \A t \in Slots : Segments(k)'[t] = Segments(k)[t]
    BY <1>2, <1>3
  <2>3. Segments(k)' = Segments(k)
    <3>1. \A L, M \in Lines : (\A t \in Slots : L[t] = M[t]) => L = M
      BY DEF Lines
    <3>2. QED
      BY <1>4, <2>1, <2>2, <3>1
  <2>4. QED
    BY <1>1, <2>3 DEF FlowInv, ChatsFine
<1>5. QueuesBounded' /\ queue' \in [Nodes -> [Chats -> Seq(Items)]]
  BY <1>1 DEF FlowInv, FlowTyping, QueuesBounded, Total, Buffered
<1>6. QED
  <2>1. {} \in SUBSET ToSet(admitted[k]) /\ {} \in SUBSET (Nodes \X ToSet(admitted[k]))
    OBVIOUS
  <2>2. handled' = handled \cup {} /\ ended' = ended \cup {} /\ lost' = lost
    BY <1>1
  <2>3. QED
    BY <1>1, <1>4, <1>5, <2>1, <2>2, NodeMoves

LEMMA DrainHand ==
  ASSUME NEW n
  PROVE  \E h \in HandRecords : h = [FreeHand EXCEPT !.at = "drain"] /\ h.at = "drain" /\ HandFits(n, h)
<1>. DEFINE h == [FreeHand EXCEPT !.at = "drain"]
<1>1. h = [at |-> "drain", batch |-> <<>>, hops |-> <<>>]
  BY DEF FreeHand
<1>. HIDE DEF h
<1>2. h.at = "drain" /\ h.batch = <<>> /\ h.hops = <<>>
  BY <1>1
<1>3. h \in HandRecords
  BY <1>1 DEF HandRecords
<1>4. HandFits(n, h)
  BY <1>2 DEF HandFits
<1>5. QED
  BY <1>2, <1>3, <1>4 DEF h

LEMMA PickKeeps ==
  ASSUME FlowInv, NEW n \in Nodes, NEW k \in Chats, Pick(n, k)
  PROVE  FlowInv'
<1>1. PICK h \in HandRecords : h = [FreeHand EXCEPT !.at = "drain"] /\ h.at = "drain" /\ HandFits(n, h)
  BY DrainHand
<1>2. /\ hand[n][k].at = "free" /\ Active(n) < Concurrency[n] /\ SetHand(n, k, h)
      /\ UNCHANGED <<queue, bufDown, poolDown, admitted, fates>>
  BY <1>1 DEF Pick
<1>3. \A m \in Nodes, j \in Chats : hand'[m][j] = IF m = n /\ j = k THEN h ELSE hand[m][j]
  BY <1>1, <1>2, HandSet DEF FlowInv
<1>4. HandsBounded'
  <2>1. SUFFICES ASSUME NEW m \in Nodes PROVE IsFiniteSet(Held(m)') /\ Cardinality(Held(m)') <= Concurrency[m]
    BY DEF HandsBounded, Active
  <2>2. IsFiniteSet(Held(m)) /\ Cardinality(Held(m)) <= Concurrency[m] /\ Concurrency[m] \in Nat
    BY OrchestratorAssumption DEF FlowInv, HandsBounded, Active, OrchestratorAssumption
  <2>3. CASE m = n
    <3>1. Held(n)' = Held(n) \cup {k} /\ k \notin Held(n)
      BY <1>1, <1>2, <1>3 DEF Held
    <3>2. /\ IsFiniteSet(Held(n) \cup {k})
          /\ Cardinality(Held(n) \cup {k}) = Cardinality(Held(n)) + 1
      BY <2>2, <2>3, <3>1, FS_AddElement
    <3>3. Cardinality(Held(n)) \in Nat /\ Cardinality(Held(n)) < Concurrency[n]
      BY <1>2, <2>2, <2>3, FS_CardinalityType DEF Active
    <3>4. QED
      BY <2>2, <2>3, <3>1, <3>2, <3>3
  <2>4. CASE m # n
    <3>1. Held(m)' = Held(m)
      BY <1>3, <2>4 DEF Held
    <3>2. QED
      BY <2>2, <3>1
  <2>5. QED
    BY <2>3, <2>4
<1>5. QED
  BY <1>1, <1>2, <1>4, QuietHand

LEMMA ReleaseKeeps ==
  ASSUME FlowInv, NEW n \in Nodes, NEW k \in Chats, Release(n, k)
  PROVE  FlowInv'
<1>1. FreeHand \in HandRecords /\ FreeHand.at = "free" /\ HandFits(n, FreeHand)
  BY DEF FreeHand, HandRecords, HandFits
<1>. HIDE DEF FreeHand
<1>2. /\ hand[n][k].at = "more" /\ SetHand(n, k, FreeHand)
      /\ UNCHANGED <<queue, bufDown, poolDown, admitted, fates>>
  BY DEF Release
<1>3. \A m \in Nodes, j \in Chats : hand'[m][j] = IF m = n /\ j = k THEN FreeHand ELSE hand[m][j]
  BY <1>1, <1>2, HandSet DEF FlowInv
<1>4. HandsBounded'
  <2>1. \A m \in Nodes, j \in Chats : hand'[m][j].at # "free" => hand[m][j].at # "free"
    BY <1>1, <1>3
  <2>2. QED
    BY <2>1, NoMoreHeld, OrchestratorAssumption DEF FlowInv
<1>5. QED
  BY <1>1, <1>2, <1>4, QuietHand

LEMMA HopFacts ==
  ASSUME NEW hops \in Seq(Hops), hops # <<>>
  PROVE  /\ Head(hops) \in Hops /\ Tail(hops) \in Seq(Hops) /\ Len(hops) \in Nat \ {0}
         /\ Len(Tail(hops)) = Len(hops) - 1 /\ (Len(hops) # 1 => Tail(hops) # <<>>) /\ (Len(hops) = 1 => Tail(hops) = <<>>)
         /\ \A x \in DOMAIN Tail(hops) : x + 1 \in DOMAIN hops /\ Tail(hops)[x] = hops[x + 1]
         /\ 1 \in DOMAIN hops /\ Head(hops) = hops[1]
         /\ ItemsOf(Tail(hops)) = SubSeq(ItemsOf(hops), 2, Len(ItemsOf(hops)))
         /\ 1 \in 1..Len(ItemsOf(hops)) /\ ItemsOf(hops)[1] = Head(hops).item
<1>. DEFINE t == Tail(hops)
            u == ItemsOf(hops)
            v == ItemsOf(t)
<1>1. /\ Head(hops) \in Hops /\ Head(hops) = hops[1] /\ t \in Seq(Hops) /\ Len(t) = Len(hops) - 1
      /\ Len(hops) \in Nat \ {0} /\ \A x \in 1..(Len(hops) - 1) : t[x] = hops[x + 1]
      /\ DOMAIN hops = 1..Len(hops) /\ DOMAIN t = 1..(Len(hops) - 1)
  BY HeadTailProperties
<1>2. (Len(hops) # 1 => t # <<>>) /\ (Len(hops) = 1 => t = <<>>)
  <2>. HIDE DEF t
  <2>1. Len(t) = 0 <=> t = <<>>
    BY <1>1
  <2>2. QED
    BY <1>1, <2>1
<1>. HIDE DEF t
<1>3. /\ u \in Seq(Items) /\ Len(u) = Len(hops) /\ \A x \in 1..Len(hops) : u[x] = hops[x].item
  BY ItemsOfHops
<1>4. /\ v \in Seq(Items) /\ Len(v) = Len(hops) - 1 /\ \A x \in 1..(Len(hops) - 1) : v[x] = t[x].item
  BY <1>1, ItemsOfHops
<1>. HIDE DEF u, v
<1>5. v = SubSeq(u, 2, Len(u))
  <2>. DEFINE w == SubSeq(u, 2, Len(u))
  <2>1. w \in Seq(Items) /\ Len(w) = Len(u) - 1 /\ \A x \in 1..(Len(u) - 1) : w[x] = u[x + 1]
    BY <1>1, <1>3
  <2>. HIDE DEF w
  <2>2. \A x \in 1..(Len(hops) - 1) : x + 1 \in 1..Len(hops)
    BY <1>1
  <2>3. \A x \in 1..Len(v) : v[x] = w[x]
    BY <1>1, <1>3, <1>4, <2>1, <2>2
  <2>4. Len(v) = Len(w)
    BY <1>3, <1>4, <2>1
  <2>5. v = w
    BY <1>4, <2>1, <2>3, <2>4, SeqEqual
  <2>6. QED
    BY <2>5 DEF w
<1>6. 1 \in 1..Len(u) /\ u[1] = Head(hops).item
  BY <1>1, <1>3
<1>7. \A x \in 1..(Len(hops) - 1) : x + 1 \in 1..Len(hops)
  BY <1>1
<1>8. QED
  BY <1>1, <1>2, <1>5, <1>6, <1>7 DEF t, u, v

LEMMA FirstOnes ==
  ASSUME NEW p \in Seq(Items), NEW c \in 1..Len(p)
  PROVE  SubSeq(p, 1, c) \in Seq(Items)
  OBVIOUS

LEMMA BatchHand ==
  ASSUME NEW b \in Seq(Items), NEW n
  PROVE  LET h == [FreeHand EXCEPT !.at = "handle", !.batch = b] IN
         h \in HandRecords /\ HandFits(n, h) /\ h.at = "handle" /\ h.batch = b
<1>. DEFINE h == [FreeHand EXCEPT !.at = "handle", !.batch = b]
<1>1. FreeHand \in HandRecords /\ FreeHand.hops = <<>>
  BY DEF FreeHand, HandRecords
<1>2. h \in HandRecords
  <2>. HIDE DEF FreeHand
  <2>1. QED
    BY <1>1 DEF HandRecords
<1>3. h.at = "handle" /\ h.batch = b /\ h.hops = FreeHand.hops
  <2>1. "at" \in DOMAIN FreeHand /\ "batch" \in DOMAIN FreeHand /\ "hops" \in DOMAIN FreeHand
    BY DEF FreeHand
  <2>. HIDE DEF FreeHand
  <2>2. QED
    BY <2>1
<1>. HIDE DEF h
<1>4. HandFits(n, h)
  BY <1>1, <1>3 DEF HandFits
<1>5. QED
  BY <1>2, <1>3, <1>4 DEF h

LEMMA CollectKeeps ==
  ASSUME FlowInv, NEW n \in Nodes, NEW k \in Chats, Collect(n, k)
  PROVE  FlowInv'
<1>1. PICK p \in Seq(Items) : p = queue[n][k]
  BY DEF FlowInv, FlowTyping
<1>2. PICK c \in 1..MaxBatch : /\ c <= Len(p)
                              /\ QueueIs(n, k, SubSeq(p, c + 1, Len(p)))
                              /\ SetHand(n, k, [FreeHand EXCEPT !.at = "handle", !.batch = SubSeq(p, 1, c)])
  BY <1>1 DEF Collect, QueueIs
<1>3. /\ hand[n][k].at \in {"drain", "more"}
      /\ bufDown' = bufDown /\ poolDown' = poolDown /\ admitted' = admitted
      /\ handled' = handled /\ ended' = ended /\ lost' = lost
  BY DEF Collect, fates
<1>4. c \in 1..Len(p)
  BY <1>1, <1>2, OrchestratorAssumption DEF OrchestratorAssumption
<1>5. PICK q \in Seq(Items) : q = SubSeq(p, c + 1, Len(p)) /\ Len(q) <= Len(p) /\ ToSet(q) \subseteq ToSet(p)
  BY <1>4, FirstOnesGone
<1>6. PICK b \in Seq(Items) : b = SubSeq(p, 1, c)
  BY <1>4, FirstOnes
<1>7. PICK h \in HandRecords : h = [FreeHand EXCEPT !.at = "handle", !.batch = b]
  BY BatchHand
<1>8. h.at = "handle" /\ h.batch = b /\ HandFits(n, h)
  BY <1>7, BatchHand
<1>9. SetHand(n, k, h) /\ QueueIs(n, k, q)
  BY <1>2, <1>5, <1>6, <1>7
<1>10. QueuesBounded'
  BY <1>1, <1>5, <1>9, QueueGives, OrchestratorAssumption DEF FlowInv
<1>11. /\ queue' \in [Nodes -> [Chats -> Seq(Items)]]
      /\ \A m \in Nodes, j \in Chats : queue'[m][j] = IF m = n /\ j = k THEN q ELSE queue[m][j]
  BY <1>9, QueueSet DEF FlowInv
<1>12. HandsBounded'
  <2>1. \A m \in Nodes, j \in Chats : hand'[m][j] = IF m = n /\ j = k THEN h ELSE hand[m][j]
    BY <1>8, <1>9, HandSet DEF FlowInv
  <2>2. \A m \in Nodes, j \in Chats : hand'[m][j].at # "free" => hand[m][j].at # "free"
    BY <1>3, <1>8, <2>1
  <2>3. QED
    BY <2>2, NoMoreHeld, OrchestratorAssumption DEF FlowInv
<1>13. ASSUME Segments(k)' \in Lines
       PROVE  ChatFine(admitted[k], Segments(k)', ended, lost, bufDown # {})
  <2>1. PICK L \in Lines : L = Segments(k)
    BY SegmentsTyped DEF FlowInv
  <2>2. PICK new \in Lines : new = Segments(k)'
    BY <1>13
  <2>3. PICK s \in 2..8 : s = Slot[n] + 1 /\ s - 1 = Slot[n]
    BY DEF Nodes, Slot
  <2>4. L[s] = p /\ new[s] = q
    BY <1>1, <1>11, <2>1, <2>2, <2>3, SegmentOf, SegmentNext
  <2>5. L[s - 1] = <<>> /\ new[s - 1] = b
    <3>1. hand[n][k].hops = <<>> /\ ItemsOf(<<>>) = <<>>
      BY <1>3 DEF FlowInv, FlowTyping, HandFits, ItemsOf
    <3>2. \A m \in Nodes : Slot[m] + 1 \notin Slots => queue'[m][k] = queue[m][k]
      BY SlotNames
    <3>3. QED
      BY <1>3, <1>8, <1>9, <2>1, <2>2, <2>3, <3>1, <3>2, LineMoves
  <2>6. \A t \in Slots \ {s - 1, s} : new[t] = L[t]
    <3>1. PICK S : S = {s}
      OBVIOUS
    <3>2. \A m \in Nodes : Slot[m] + 1 \notin S => queue'[m][k] = queue[m][k]
      BY <1>11, <2>3, <3>1
    <3>3. \A t \in Slots \ (S \cup {Slot[n]}) : Segments(k)'[t] = Segments(k)[t]
      BY <1>8, <1>9, <3>2, LineMoves
    <3>4. QED
      BY <2>1, <2>2, <2>3, <3>1, <3>3
  <2>7. Forwarded(L, new, s, c)
    <3>1. <<>> \o b = b
      BY NothingJoined
    <3>2. QED
      BY <1>5, <1>6, <2>4, <2>5, <2>6, <3>1 DEF Forwarded
  <2>8. ChatFine(admitted[k], L, ended, lost, bufDown # {}) /\ c \in 1..Len(L[s])
    BY <1>4, <2>1, <2>4 DEF FlowInv, ChatsFine
  <2>9. QED
    BY <2>2, <2>7, <2>8, ForwardedFine
<1>14. QED
  <2>1. {} \in SUBSET ToSet(admitted[k]) /\ {} \in SUBSET (Nodes \X ToSet(admitted[k]))
    OBVIOUS
  <2>2. handled' = handled \cup {} /\ ended' = ended \cup {} /\ lost' = lost
    BY <1>3
  <2>3. Segments(k)' \in Lines => ChatFine(admitted[k], Segments(k)', ended', lost', bufDown # {})
    BY <1>3, <1>13
  <2>4. \A m \in Nodes, j \in Chats : j # k => queue'[m][j] = queue[m][j]
    BY <1>11
  <2>5. QED
    BY <1>3, <1>8, <1>9, <1>10, <1>11, <1>12, <2>1, <2>2, <2>3, <2>4, NodeMoves

(* A goroutine that is done with a hop. *)
LEMMA HopDoneFacts ==
  ASSUME FlowInv, NEW n \in Nodes, NEW k \in Chats, hand[n][k].at = "send", HopDone(n, k)
  PROVE  \E hops \in Seq(Hops), h \in HandRecords :
           /\ hops = hand[n][k].hops /\ hops # <<>> /\ HandFits(n, h) /\ SetHand(n, k, h)
           /\ h.at \in {"more", "send"} /\ h.hops = Tail(hops)
           /\ Head(hops).to \in Nodes /\ Slot[Head(hops).to] = Slot[n] - 2 /\ Head(hops).item \in Items
<1>1. PICK g \in HandRecords : g = hand[n][k] /\ HandFits(n, g)
  <2>. HIDE DEF HandRecords
  <2>1. QED
    BY DEF FlowInv, FlowTyping
<1>2. g.at = "send" /\ g.batch = <<>> /\ g.hops \in Seq(Hops) /\ g.hops # <<>>
  BY <1>1 DEF HandFits, HandRecords
<1>3. PICK hops \in Seq(Hops) : hops = g.hops
  BY <1>2
<1>4. PICK at \in {"more", "send"} : at = IF Len(hops) = 1 THEN "more" ELSE "send"
  OBVIOUS
<1>5. PICK rest \in Seq(Hops) : rest = Tail(hops) /\ (IF at = "more" THEN rest = <<>> ELSE rest # <<>>)
  BY <1>2, <1>3, <1>4, HopFacts
<1>. DEFINE h == [g EXCEPT !.hops = rest, !.at = at]
<1>6. h \in HandRecords /\ h.at = at /\ h.hops = rest /\ h.batch = <<>>
  <2>1. h \in HandRecords
    BY <1>1, <1>4 DEF HandRecords
  <2>2. h.at = at /\ h.hops = rest /\ h.batch = g.batch
    BY <1>1 DEF HandRecords
  <2>. HIDE DEF h
  <2>3. QED
    BY <1>2, <2>1, <2>2
<1>7. SetHand(n, k, h)
  <2>1. SetHand(n, k, [g EXCEPT !.hops = Tail(g.hops), !.at = IF Len(g.hops) = 1 THEN "more" ELSE "send"])
    BY <1>1 DEF HopDone
  <2>2. QED
    BY <1>3, <1>4, <1>5, <2>1
<1>. HIDE DEF h
<1>8. \A x \in DOMAIN hops : Slot[hops[x].to] = Slot[n] - 2
  BY <1>1, <1>3 DEF HandFits
<1>9. \A x \in DOMAIN rest : Slot[rest[x].to] = Slot[n] - 2
  BY <1>2, <1>3, <1>5, <1>8, HopFacts
<1>10. HandFits(n, h)
  BY <1>4, <1>5, <1>6, <1>9 DEF HandFits
<1>11. Head(hops).to \in Nodes /\ Slot[Head(hops).to] = Slot[n] - 2 /\ Head(hops).item \in Items
  <2>1. Head(hops) \in Hops /\ Head(hops) = hops[1] /\ 1 \in DOMAIN hops
    BY <1>2, <1>3, HopFacts
  <2>2. QED
    BY <1>8, <2>1 DEF Hops
<1>12. QED
  BY <1>1, <1>2, <1>3, <1>4, <1>5, <1>6, <1>7, <1>10, <1>11

(* The hands after a step in which a goroutine that held its chat still holds it. *)
LEMMA StillHeld ==
  ASSUME FlowInv, NEW n \in Nodes, NEW k \in Chats, NEW h \in HandRecords, HandFits(n, h), SetHand(n, k, h),
         hand[n][k].at # "free"
  PROVE  HandsBounded'
<1>1. \A m \in Nodes, j \in Chats : hand'[m][j] = IF m = n /\ j = k THEN h ELSE hand[m][j]
  BY HandSet DEF FlowInv
<1>2. \A m \in Nodes, j \in Chats : hand'[m][j].at # "free" => hand[m][j].at # "free"
  BY <1>1
<1>3. QED
  BY <1>2, NoMoreHeld, OrchestratorAssumption DEF FlowInv

LEMMA SendKeeps ==
  ASSUME FlowInv, NEW n \in Nodes, NEW k \in Chats, Send(n, k)
  PROVE  FlowInv'
<1>1. /\ hand[n][k].at = "send" /\ HopDone(n, k)
      /\ bufDown' = bufDown /\ poolDown' = poolDown /\ admitted' = admitted
      /\ handled' = handled /\ ended' = ended /\ lost' = lost
  BY DEF Send, fates
<1>2. PICK hops \in Seq(Hops), h \in HandRecords :
           /\ hops = hand[n][k].hops /\ hops # <<>> /\ HandFits(n, h) /\ SetHand(n, k, h)
           /\ h.at \in {"more", "send"} /\ h.hops = Tail(hops)
           /\ Head(hops).to \in Nodes /\ Slot[Head(hops).to] = Slot[n] - 2 /\ Head(hops).item \in Items
  BY <1>1, HopDoneFacts
<1>3. PICK to \in Nodes, i \in Items : to = Head(hops).to /\ i = Head(hops).item /\ Slot[to] = Slot[n] - 2
  BY <1>2
<1>4. PICK p \in Seq(Items) : p = queue[to][k]
  BY DEF FlowInv, FlowTyping
<1>5. PICK q \in Seq(Items) : q = Append(p, i) /\ Len(q) = Len(p) + 1 /\ ToSet(q) = ToSet(p) \cup {i}
  BY OneAppended
<1>6. HasRoom(to, k) /\ QueueIs(to, k, q)
  <2>1. HasRoom(to, k) /\ queue' = [queue EXCEPT ![to][k] = Append(@, i)]
    BY <1>2, <1>3 DEF Send
  <2>2. QED
    BY <1>4, <1>5, <2>1 DEF QueueIs
<1>7. QueuesBounded'
  <2>1. Len(q) = Len(queue[to][k]) + 1 /\ ToSet(q) \subseteq ToSet(queue[to][k]) \cup {i}
    BY <1>4, <1>5
  <2>2. QED
    BY <1>6, <2>1, QueueTakesOne, OrchestratorAssumption DEF FlowInv
<1>8. /\ queue' \in [Nodes -> [Chats -> Seq(Items)]]
      /\ \A m \in Nodes, j \in Chats : queue'[m][j] = IF m = to /\ j = k THEN q ELSE queue[m][j]
  BY <1>6, QueueSet DEF FlowInv
<1>9. HandsBounded'
  BY <1>1, <1>2, StillHeld
<1>10. ASSUME Segments(k)' \in Lines
       PROVE  ChatFine(admitted[k], Segments(k)', ended, lost, bufDown # {})
  <2>1. PICK L \in Lines : L = Segments(k)
    BY SegmentsTyped DEF FlowInv
  <2>2. PICK new \in Lines : new = Segments(k)'
    BY <1>10
  <2>3. PICK s \in 2..8 : s = Slot[n] /\ s - 1 = Slot[to] + 1
    BY <1>3 DEF Nodes, Slot
  <2>4. PICK u \in Seq(Items) : u = ItemsOf(hops) /\ 1 \in 1..Len(u) /\ u[1] = i
    BY <1>2, <1>3, HopFacts, ItemsOfHops
  <2>5. L[s - 1] = p /\ new[s - 1] = q
    BY <1>4, <1>8, <2>1, <2>2, <2>3, SegmentOf, SegmentNext
  <2>6. PICK S : S = {s - 1}
    OBVIOUS
  <2>7. \A m \in Nodes : Slot[m] + 1 \notin S => queue'[m][k] = queue[m][k]
    BY <1>8, <2>3, <2>6
  <2>8. L[s] = u /\ new[s] = SubSeq(u, 2, Len(u))
    <3>1. ItemsOf(Tail(hops)) = SubSeq(u, 2, Len(u))
      BY <1>2, <2>4, HopFacts
    <3>2. Segments(k)[Slot[n]] = ItemsOf(hops) /\ Segments(k)'[Slot[n]] = ItemsOf(Tail(hops))
      BY <1>1, <1>2, <2>7, LineMoves
    <3>3. QED
      BY <2>1, <2>2, <2>3, <2>4, <3>1, <3>2
  <2>9. \A t \in Slots \ {s - 1, s} : new[t] = L[t]
    <3>1. \A t \in Slots \ (S \cup {Slot[n]}) : Segments(k)'[t] = Segments(k)[t]
      BY <1>2, <2>7, LineMoves
    <3>2. QED
      BY <2>1, <2>2, <2>3, <2>6, <3>1
  <2>10. Append(p, i) = p \o SubSeq(u, 1, 1)
    BY <2>4
  <2>11. Forwarded(L, new, s, 1)
    <3>1. new[s - 1] = L[s - 1] \o SubSeq(L[s], 1, 1)
      BY <1>5, <2>5, <2>8, <2>10
    <3>2. new[s] = SubSeq(L[s], 1 + 1, Len(L[s]))
      BY <2>8
    <3>3. QED
      BY <2>9, <3>1, <3>2 DEF Forwarded
  <2>12. ChatFine(admitted[k], L, ended, lost, bufDown # {}) /\ 1 \in 1..Len(L[s])
    BY <2>1, <2>4, <2>8 DEF FlowInv, ChatsFine
  <2>13. QED
    BY <2>2, <2>11, <2>12, ForwardedFine
<1>11. QED
  <2>1. {} \in SUBSET ToSet(admitted[k]) /\ {} \in SUBSET (Nodes \X ToSet(admitted[k]))
    OBVIOUS
  <2>2. handled' = handled \cup {} /\ ended' = ended \cup {} /\ lost' = lost
    BY <1>1
  <2>3. Segments(k)' \in Lines => ChatFine(admitted[k], Segments(k)', ended', lost', bufDown # {})
    BY <1>1, <1>10
  <2>4. \A m \in Nodes, j \in Chats : j # k => queue'[m][j] = queue[m][j]
    BY <1>8
  <2>5. QED
    BY <1>1, <1>2, <1>7, <1>8, <1>9, <2>1, <2>2, <2>3, <2>4, NodeMoves

(* Who stands in a segment was let in. *)
LEMMA StandersKnown ==
  ASSUME FlowInv, NEW k \in Chats, NEW s \in Slots
  PROVE  ToSet(Segments(k)[s]) \subseteq ToSet(admitted[k])
  BY DEF FlowInv, ChatsFine, ChatFine, Known, ToSet

LEMMA SendClosedKeeps ==
  ASSUME FlowInv, NEW n \in Nodes, NEW k \in Chats, SendClosed(n, k)
  PROVE  FlowInv'
<1>1. /\ hand[n][k].at = "send" /\ HopDone(n, k) /\ bufDown # {}
      /\ queue' = queue /\ bufDown' = bufDown /\ poolDown' = poolDown /\ admitted' = admitted
      /\ handled' = handled /\ ended' = ended /\ lost' = lost \cup {Head(hand[n][k].hops).item}
  BY DEF SendClosed
<1>2. PICK hops \in Seq(Hops), h \in HandRecords :
           /\ hops = hand[n][k].hops /\ hops # <<>> /\ HandFits(n, h) /\ SetHand(n, k, h)
           /\ h.at \in {"more", "send"} /\ h.hops = Tail(hops)
           /\ Head(hops).to \in Nodes /\ Slot[Head(hops).to] = Slot[n] - 2 /\ Head(hops).item \in Items
  BY <1>1, HopDoneFacts
<1>3. PICK i \in Items : i = Head(hops).item /\ lost' = lost \cup {i}
  BY <1>1, <1>2
<1>4. QueuesBounded' /\ queue' \in [Nodes -> [Chats -> Seq(Items)]]
  BY <1>1 DEF FlowInv, FlowTyping, QueuesBounded, Total, Buffered
<1>5. HandsBounded'
  BY <1>1, <1>2, StillHeld
<1>6. PICK L \in Lines : L = Segments(k)
  BY SegmentsTyped DEF FlowInv
<1>7. PICK s \in Slots : s = Slot[n]
  BY SlotNames
<1>8. PICK u \in Seq(Items) : u = ItemsOf(hops) /\ 1 \in 1..Len(u) /\ u[1] = i
  BY <1>2, <1>3, HopFacts, ItemsOfHops
<1>9. PICK rest \in Seq(Items) : /\ rest = ItemsOf(Tail(hops)) /\ DOMAIN rest = 1..(Len(u) - 1)
                                /\ \A x \in 1..(Len(u) - 1) : rest[x] = u[x + 1]
  <2>1. ItemsOf(Tail(hops)) = SubSeq(u, 2, Len(u))
    BY <1>2, <1>8, HopFacts
  <2>2. PICK r : r = SubSeq(u, 2, Len(u))
    OBVIOUS
  <2>3. r \in Seq(Items) /\ DOMAIN r = 1..(Len(u) - 1) /\ \A x \in 1..(Len(u) - 1) : r[x] = u[x + 1]
    BY <1>8, <2>2
  <2>4. QED
    BY <2>1, <2>2, <2>3
<1>10. L[s] = u /\ Segments(k)'[s] = rest /\ \A t \in Slots \ {s} : Segments(k)'[t] = L[t]
  <2>1. PICK S : S = {}
    OBVIOUS
  <2>2. \A m \in Nodes : Slot[m] + 1 \notin S => queue'[m][k] = queue[m][k]
    BY <1>1
  <2>3. /\ \A t \in Slots \ (S \cup {Slot[n]}) : Segments(k)'[t] = Segments(k)[t]
        /\ Segments(k)[Slot[n]] = ItemsOf(hops) /\ Segments(k)'[Slot[n]] = ItemsOf(Tail(hops))
    BY <1>1, <1>2, <2>2, LineMoves
  <2>4. QED
    BY <1>6, <1>7, <1>8, <1>9, <2>1, <2>3
<1>11. ToSet(u) \ ToSet(rest) = {i} /\ Thins(rest, u)
  <2>1. DOMAIN u = 1..Len(u) /\ Len(u) \in Nat
    BY <1>8, LenProperties
  <2>2. \A x \in 1..(Len(u) - 1) : x + 1 \in 1..Len(u) /\ x + 1 # 1
    BY <2>1
  <2>3. \A x \in 1..Len(u) : x = 1 \/ (x - 1 \in 1..(Len(u) - 1) /\ x - 1 + 1 = x)
    BY <2>1
  <2>4. \A x, y \in 1..Len(u) : u[x] = u[y] => x = y
    <3>1. Distinct(admitted[k]) /\ Orderly(admitted[k], L) /\ admitted[k] \in Seq(Items)
      BY <1>6 DEF FlowInv, ChatsFine, ChatFine
    <3>2. \A x, y \in DOMAIN L[s] : L[s][x] = L[s][y] => x = y
      BY <3>1, OnceInSegment
    <3>3. QED
      BY <1>10, <2>1, <3>2
  <2>5. i \notin ToSet(rest)
    BY <1>8, <1>9, <2>1, <2>2, <2>4 DEF ToSet
  <2>6. ToSet(rest) \subseteq ToSet(u) /\ ToSet(u) \subseteq ToSet(rest) \cup {i}
    <3>1. ToSet(rest) \subseteq ToSet(u)
      BY <1>9, <2>1, <2>2 DEF ToSet
    <3>2. ASSUME NEW x \in 1..Len(u) PROVE u[x] \in ToSet(rest) \cup {i}
      <4>1. CASE x = 1
        BY <1>8, <4>1
      <4>2. CASE x - 1 \in DOMAIN rest /\ x - 1 + 1 = x
        <5>1. rest[x - 1] = u[x]
          BY <1>9, <4>2
        <5>2. QED
          BY <4>2, <5>1 DEF ToSet
      <4>3. QED
        BY <1>9, <2>3, <4>1, <4>2
    <3>3. QED
      BY <2>1, <3>1, <3>2 DEF ToSet
  <2>7. i \in ToSet(u)
    BY <1>8, <2>1 DEF ToSet
  <2>8. Thins(rest, u)
    <3>1. PICK g \in [1..(Len(u) - 1) -> 1..Len(u)] : g = [x \in 1..(Len(u) - 1) |-> x + 1]
      BY <2>2
    <3>2. \A x, y \in 1..(Len(u) - 1) : x < y => g[x] < g[y]
      BY <2>1, <3>1
    <3>3. \A x \in 1..(Len(u) - 1) : rest[x] = u[g[x]]
      BY <1>9, <3>1
    <3>4. QED
      BY <1>9, <2>1, <3>2, <3>3 DEF Thins
  <2>9. QED
    BY <2>5, <2>6, <2>7, <2>8
<1>12. ASSUME Segments(k)' \in Lines
       PROVE  ChatFine(admitted[k], Segments(k)', ended', lost', bufDown # {})
  <2>1. PICK new \in Lines : new = Segments(k)'
    BY <1>12
  <2>2. ChatFine(admitted[k], L, ended, lost, bufDown # {})
    BY <1>6 DEF FlowInv, ChatsFine
  <2>3. Thins(new[s], L[s]) /\ \A t \in Slots \ {s} : new[t] = L[t]
    BY <1>10, <1>11, <2>1
  <2>4. ChatFine(admitted[k], new, ended, lost \cup (ToSet(L[s]) \ ToSet(new[s])), TRUE)
    BY <2>2, <2>3, ThinnedFine
  <2>5. ToSet(L[s]) \ ToSet(new[s]) = {i}
    BY <1>10, <1>11, <2>1
  <2>6. QED
    BY <1>1, <1>3, <2>1, <2>4, <2>5
<1>13. QED
  <2>1. {i} \in SUBSET ToSet(admitted[k])
    BY <1>6, <1>7, <1>10, <1>11, StandersKnown
  <2>2. {} \in SUBSET (Nodes \X ToSet(admitted[k]))
    OBVIOUS
  <2>3. handled' = handled \cup {} /\ ended' = ended /\ lost' = lost \cup {i}
    BY <1>1, <1>3
  <2>4. \A m \in Nodes, j \in Chats : j # k => queue'[m][j] = queue[m][j]
    BY <1>1
  <2>5. QED
    BY <1>1, <1>2, <1>4, <1>5, <1>12, <2>1, <2>2, <2>3, <2>4, NodeMoves

(* What a handler leaves in the hand: a hop for each item that goes on. *)
AllGoOn(onward, answer) == \A x \in DOMAIN onward : GoesOn(answer[onward[x]])
HopsMade(n, onward, answer, hops) ==
  /\ hops = [x \in DOMAIN onward |-> [to |-> Advance[answer[onward[x]]], item |-> onward[x]]]
  /\ ItemsOf(hops) = onward /\ (onward = <<>> <=> hops = <<>>)
  /\ \A x \in DOMAIN hops : Slot[hops[x].to] = Slot[n] - 2

LEMMA HopsOfOnward ==
  ASSUME NEW n \in Nodes, NEW batch \in Seq(Items), NEW answer \in [ToSet(batch) -> Answers[n]],
         NEW onward \in Seq(Items), Thins(onward, batch), AllGoOn(onward, answer)
  PROVE  \E hops \in Seq(Hops) : HopsMade(n, onward, answer, hops)
<1>1. /\ DOMAIN onward = 1..Len(onward) /\ Len(onward) \in Nat
      /\ \A x \in 1..Len(onward) : onward[x] \in Items /\ onward[x] \in ToSet(batch)
  <2>1. DOMAIN onward = 1..Len(onward) /\ Len(onward) \in Nat /\ \A x \in 1..Len(onward) : onward[x] \in Items
    BY LenProperties, ElementOfSeq
  <2>2. \A x \in DOMAIN onward : onward[x] \in ToSet(batch)
    BY DEF Thins, ToSet
  <2>3. QED
    BY <2>1, <2>2
<1>. DEFINE to(x) == Advance[answer[onward[x]]]
<1>2. \A x \in 1..Len(onward) : to(x) \in Nodes /\ Slot[to(x)] = Slot[n] - 2
  <2>1. SUFFICES ASSUME NEW x \in 1..Len(onward) PROVE to(x) \in Nodes /\ Slot[to(x)] = Slot[n] - 2
    OBVIOUS
  <2>2. PICK e : e = answer[onward[x]] /\ e \in Answers[n] /\ GoesOn(e)
    BY <1>1 DEF AllGoOn
  <2>3. \/ (n = "sync" /\ e = "chat")
        \/ (n = "command" /\ e = "command_pass")
        \/ (n = "assets" /\ e = "tagged")
    <3>1. Answers["sync"] = {"chat", "left_out"} /\ Answers["command"] = {"command_pass", "command_done"}
          /\ Answers["assets"] = {"tagged"} /\ Answers["agent"] = {"replied"}
      BY DEF Answers
    <3>2. e \notin {"command_done", "replied", "left_out"}
      BY <2>2 DEF GoesOn, Ends
    <3>3. n \in {"sync", "command", "assets", "agent"}
      BY DEF Nodes
    <3>4. QED
      BY <2>2, <3>1, <3>2, <3>3
  <2>4. to(x) = Advance[e]
    BY <2>2
  <2>. HIDE DEF to
  <2>5. QED
    BY <2>3, <2>4 DEF Advance, Slot, Nodes
<1>. DEFINE hops == [x \in 1..Len(onward) |-> [to |-> to(x), item |-> onward[x]]]
<1>3. hops = [x \in DOMAIN onward |-> [to |-> Advance[answer[onward[x]]], item |-> onward[x]]]
  BY <1>1
<1>. HIDE DEF to
<1>4. \A x \in 1..Len(onward) : [to |-> to(x), item |-> onward[x]] \in Hops
  BY <1>1, <1>2 DEF Hops
<1>5. DOMAIN hops = 1..Len(onward) /\ \A x \in 1..Len(onward) : hops[x].to = to(x) /\ hops[x].item = onward[x]
  OBVIOUS
<1>6. hops \in Seq(Hops)
  <2>1. hops \in [1..Len(onward) -> Hops]
    BY <1>4
  <2>. HIDE DEF hops
  <2>2. QED
    BY <1>1, <2>1
<1>. HIDE DEF hops
<1>7. Len(hops) = Len(onward)
  BY <1>1, <1>5, <1>6, LenProperties
<1>8. ItemsOf(hops) = onward
  <2>1. /\ ItemsOf(hops) \in Seq(Items) /\ Len(ItemsOf(hops)) = Len(hops)
        /\ \A x \in 1..Len(hops) : ItemsOf(hops)[x] = hops[x].item
    BY <1>6, ItemsOfHops
  <2>2. \A x \in 1..Len(ItemsOf(hops)) : ItemsOf(hops)[x] = onward[x]
    BY <1>5, <1>7, <2>1
  <2>3. QED
    BY <1>7, <2>1, <2>2, SeqEqual
<1>9. onward = <<>> <=> hops = <<>>
  <2>1. (Len(onward) = 0 <=> onward = <<>>) /\ (Len(hops) = 0 <=> hops = <<>>)
    BY <1>6
  <2>2. QED
    BY <1>7, <2>1
<1>10. \A x \in DOMAIN hops : Slot[hops[x].to] = Slot[n] - 2
  BY <1>2, <1>5
<1>11. QED
  BY <1>3, <1>6, <1>8, <1>9, <1>10 DEF HopsMade

LEMMA HandleFacts ==
  ASSUME FlowInv, NEW n \in Nodes, NEW k \in Chats,
         NEW answer \in [ToSet(hand[n][k].batch) -> Answers[n]], Handle(n, k, answer)
  PROVE  \E batch, onward \in Seq(Items), h \in HandRecords :
           /\ hand[n][k].at = "handle" /\ batch = hand[n][k].batch /\ onward = Onward(batch, answer)
           /\ Thins(onward, batch) /\ HandFits(n, h) /\ SetHand(n, k, h)
           /\ h.at \in {"more", "send"} /\ ItemsOf(h.hops) = onward
           /\ handled' = handled \cup ({n} \X ToSet(batch))
           /\ ended' = ended \cup (ToSet(batch) \ ToSet(onward))
           /\ AllGoOn(onward, answer)
<1>1. PICK batch \in Seq(Items) : batch = hand[n][k].batch
  BY DEF FlowInv, FlowTyping, HandRecords
<1>2. PICK onward \in Seq(Items) : /\ onward = Onward(batch, answer) /\ Thins(onward, batch)
                                  /\ \A x \in DOMAIN onward : GoesOn(answer[onward[x]])
  BY OnwardThins
<1>3. PICK hops \in Seq(Hops) : HopsMade(n, onward, answer, hops)
  <2>1. PICK given : given = answer
    OBVIOUS
  <2>2. given \in [ToSet(batch) -> Answers[n]] /\ Thins(onward, batch) /\ AllGoOn(onward, given)
    BY <1>1, <1>2, <2>1 DEF AllGoOn
  <2>3. \E hops \in Seq(Hops) : HopsMade(n, onward, given, hops)
    BY <2>2, HopsOfOnward
  <2>4. QED
    BY <2>1, <2>3
<1>4. PICK at \in {"more", "send"} : at = IF onward = <<>> THEN "more" ELSE "send"
  OBVIOUS
<1>. DEFINE h == [at |-> at, batch |-> <<>>, hops |-> hops]
<1>5. h \in HandRecords
  BY <1>4 DEF HandRecords
<1>6. SetHand(n, k, h) /\ hand[n][k].at = "handle" /\ handled' = handled \cup ({n} \X ToSet(batch))
      /\ ended' = ended \cup (ToSet(batch) \ ToSet(onward))
  BY <1>1, <1>2, <1>3, <1>4 DEF Handle, HopsMade
<1>7. h.at = at /\ h.batch = <<>> /\ h.hops = hops
  OBVIOUS
<1>. HIDE DEF h
<1>8. HandFits(n, h)
  BY <1>3, <1>4, <1>7 DEF HandFits, HopsMade
<1>9. QED
  BY <1>1, <1>2, <1>3, <1>4, <1>5, <1>6, <1>7, <1>8 DEF HopsMade, AllGoOn

LEMMA HandleKeeps ==
  ASSUME FlowInv, NEW n \in Nodes, NEW k \in Chats,
         NEW answer \in [ToSet(hand[n][k].batch) -> Answers[n]], Handle(n, k, answer)
  PROVE  FlowInv'
<1>1. PICK batch \in Seq(Items), onward \in Seq(Items), h \in HandRecords :
           /\ hand[n][k].at = "handle" /\ batch = hand[n][k].batch
           /\ Thins(onward, batch) /\ HandFits(n, h) /\ SetHand(n, k, h)
           /\ h.at \in {"more", "send"} /\ ItemsOf(h.hops) = onward
           /\ handled' = handled \cup ({n} \X ToSet(batch))
           /\ ended' = ended \cup (ToSet(batch) \ ToSet(onward))
  BY HandleFacts
<1>2. /\ queue' = queue /\ bufDown' = bufDown /\ poolDown' = poolDown /\ admitted' = admitted /\ lost' = lost
  BY DEF Handle
<1>3. QueuesBounded' /\ queue' \in [Nodes -> [Chats -> Seq(Items)]]
  BY <1>2 DEF FlowInv, FlowTyping, QueuesBounded, Total, Buffered
<1>4. HandsBounded'
  BY <1>1, StillHeld
<1>5. PICK L \in Lines : L = Segments(k)
  BY SegmentsTyped DEF FlowInv
<1>6. PICK s \in Slots : s = Slot[n]
  BY SlotNames
<1>7. L[s] = batch /\ Segments(k)'[s] = onward /\ \A t \in Slots \ {s} : Segments(k)'[t] = L[t]
  <2>1. PICK S : S = {}
    OBVIOUS
  <2>2. \A m \in Nodes : Slot[m] + 1 \notin S => queue'[m][k] = queue[m][k]
    BY <1>2
  <2>3. /\ \A t \in Slots \ (S \cup {Slot[n]}) : Segments(k)'[t] = Segments(k)[t]
        /\ Segments(k)[Slot[n]] = hand[n][k].batch /\ Segments(k)'[Slot[n]] = ItemsOf(h.hops)
    BY <1>1, <2>2, LineMoves
  <2>4. QED
    BY <1>1, <1>5, <1>6, <2>1, <2>3
<1>8. ASSUME Segments(k)' \in Lines
      PROVE  ChatFine(admitted[k], Segments(k)', ended', lost', bufDown # {})
  <2>1. PICK new \in Lines : new = Segments(k)'
    BY <1>8
  <2>2. ChatFine(admitted[k], L, ended, lost, bufDown # {})
    BY <1>5 DEF FlowInv, ChatsFine
  <2>3. Thins(new[s], L[s]) /\ \A t \in Slots \ {s} : new[t] = L[t]
    BY <1>1, <1>7, <2>1
  <2>4. ChatFine(admitted[k], new, ended \cup (ToSet(L[s]) \ ToSet(new[s])), lost, bufDown # {})
    BY <2>2, <2>3, ThinnedFine
  <2>5. QED
    BY <1>1, <1>2, <1>7, <2>1, <2>4
<1>9. QED
  <2>1. PICK gone : gone = ToSet(batch) \ ToSet(onward)
    OBVIOUS
  <2>2. PICK seen : seen = {n} \X ToSet(batch)
    OBVIOUS
  <2>3. ToSet(batch) \subseteq ToSet(admitted[k])
    BY <1>5, <1>6, <1>7, StandersKnown
  <2>4. gone \in SUBSET ToSet(admitted[k]) /\ seen \in SUBSET (Nodes \X ToSet(admitted[k]))
    BY <2>1, <2>2, <2>3
  <2>5. handled' = handled \cup seen /\ ended' = ended \cup gone /\ lost' = lost
    BY <1>1, <1>2, <2>1, <2>2
  <2>6. \A m \in Nodes, j \in Chats : j # k => queue'[m][j] = queue[m][j]
    BY <1>2
  <2>7. QED
    BY <1>1, <1>2, <1>3, <1>4, <1>8, <2>4, <2>5, <2>6, NodeMoves

(* Closing buffers or pools moves nothing. *)
LEMMA NothingMoves ==
  ASSUME FlowInv, UNCHANGED <<queue, hand, admitted, fates>>, bufDown \subseteq bufDown',
         bufDown' \subseteq Nodes, poolDown' \subseteq Nodes
  PROVE  FlowInv'
<1>1. /\ queue' = queue /\ hand' = hand /\ admitted' = admitted
      /\ handled' = handled /\ ended' = ended /\ lost' = lost
  BY DEF fates
<1>2. FlowTyping'
  BY <1>1 DEF FlowInv, FlowTyping
<1>3. QueuesBounded' /\ HandsBounded' /\ Belong'
  <2>1. QueuesBounded'
    BY <1>1 DEF FlowInv, QueuesBounded, Total, Buffered
  <2>2. HandsBounded'
    BY <1>1 DEF FlowInv, HandsBounded, Active, Held
  <2>3. Belong'
    BY <1>1 DEF FlowInv, Belong
  <2>4. QED
    BY <2>1, <2>2, <2>3
<1>4. ChatsFine'
  <2>1. SUFFICES ASSUME NEW k \in Chats PROVE ChatFine(admitted[k], Segments(k)', ended, lost, bufDown' # {})
    BY <1>1 DEF ChatsFine
  <2>2. Segments(k)' = Segments(k)
    BY <1>1 DEF Segments, InHand
  <2>3. ChatFine(admitted[k], Segments(k), ended, lost, bufDown # {})
    BY DEF FlowInv, ChatsFine
  <2>4. ChatFine(admitted[k], Segments(k), ended, lost, bufDown' # {})
    BY <2>3, OthersFine
  <2>5. QED
    BY <2>2, <2>4
<1>5. QED
  BY <1>2, <1>3, <1>4 DEF FlowInv

LEMMA CloseBufferKeeps == ASSUME FlowInv, NEW n \in Nodes, CloseBuffer(n) PROVE FlowInv'
<1>1. UNCHANGED <<queue, hand, admitted, fates>> /\ bufDown' = bufDown \cup {n} /\ poolDown' = poolDown
  BY DEF CloseBuffer
<1>2. QED
  BY <1>1, NothingMoves DEF FlowInv, FlowTyping

LEMMA ClosePoolKeeps == ASSUME FlowInv, NEW n \in Nodes, ClosePool(n) PROVE FlowInv'
<1>1. UNCHANGED <<queue, hand, admitted, fates>> /\ bufDown' = bufDown /\ poolDown' = poolDown \cup {n}
  BY DEF ClosePool
<1>2. QED
  BY <1>1, NothingMoves DEF FlowInv, FlowTyping

LEMMA FlowQuiet == ASSUME FlowInv, UNCHANGED flowVars PROVE FlowInv'
  BY NothingMoves DEF flowVars, FlowInv, FlowTyping

LEMMA NodeKeeps ==
  ASSUME FlowInv, NEW n \in Nodes, NEW k \in Chats, NodeStep(n, k)
  PROVE  FlowInv'
  BY PickKeeps, CollectKeeps, SendKeeps, SendClosedKeeps, ReleaseKeeps, HandleKeeps DEF NodeStep

LEMMA FlowKeeps == ASSUME FlowInv, [FlowNext]_flowVars PROVE FlowInv'
<1>1. CASE \E i \in Items : Fresh(i) /\ Admit(i)
  BY <1>1, AdmitKeeps
<1>2. CASE \E n \in Nodes, k \in Chats : NodeStep(n, k)
  BY <1>2, NodeKeeps
<1>3. CASE \E n \in Nodes : CloseBuffer(n) \/ (bufDown = Nodes /\ ClosePool(n))
  BY <1>3, CloseBufferKeeps, ClosePoolKeeps
<1>4. CASE UNCHANGED flowVars
  BY <1>4, FlowQuiet
<1>5. QED
  BY <1>1, <1>2, <1>3, <1>4 DEF FlowNext

LEMMA FlowInvariant == FlowSpec => []FlowInv
<1>1. FlowInit => FlowInv
  BY FlowStarts
<1>2. FlowInv /\ [FlowNext]_flowVars => FlowInv'
  BY FlowKeeps
<1>3. QED
  BY <1>1, <1>2, PTL DEF FlowSpec

LEMMA TypesFromInv == FlowInv => FlowTypeOK
  BY DEF FlowInv, FlowTyping, QueuesBounded, HandsBounded, FlowTypeOK

LEMMA SetOfItems == ASSUME NEW s \in Seq(Items) PROVE ToSet(s) \subseteq Items
<1>1. \A x \in DOMAIN s : s[x] \in Items
  BY ElementOfSeq, LenProperties
<1>2. QED
  BY <1>1 DEF ToSet

LEMMA OrderFromInv == FlowInv => ChatOrder
<1>1. SUFFICES ASSUME FlowInv, NEW k \in Chats
               PROVE  /\ ToSet(Line(k)) \subseteq ToSet(admitted[k])
                      /\ \A x, y \in DOMAIN Line(k) : x < y => Precedes(admitted[k], Line(k)[x], Line(k)[y])
  BY DEF ChatOrder
<1>2. Segments(k) \in Lines /\ Orderly(admitted[k], Segments(k)) /\ Known(admitted[k], Segments(k))
  BY <1>1, SegmentsTyped DEF FlowInv, ChatsFine, ChatFine
<1>3. Sorted(admitted[k], Line(k)) /\ \A i : i \in ToSet(Line(k)) <=> Stands(Segments(k), i)
  BY <1>2, LineSorted
<1>4. QED
  BY <1>2, <1>3 DEF Sorted, Known, Stands

LEMMA PlacesFromInv == FlowInv => NothingVanishes
<1>1. SUFFICES ASSUME FlowInv, NEW k \in Chats, NEW i \in ToSet(admitted[k])
               PROVE  \/ i \in ToSet(Line(k)) /\ i \notin ended /\ i \notin lost
                      \/ i \notin ToSet(Line(k)) /\ i \in ended /\ i \notin lost
                      \/ i \notin ToSet(Line(k)) /\ i \notin ended /\ i \in lost /\ bufDown # {}
  BY DEF NothingVanishes
<1>2. ChatFine(admitted[k], Segments(k), ended, lost, bufDown # {})
  BY <1>1 DEF FlowInv, ChatsFine
<1>3. \A j : j \in ToSet(Line(k)) <=> Stands(Segments(k), j)
  BY <1>2, LineSorted DEF ChatFine
<1>4. QED
  BY <1>1, <1>2, <1>3 DEF ChatFine

(* The messages of a chat never overtake one another on their way through the chain, whatever
   the capacities, the batch sizes and the numbers of goroutines are. *)
THEOREM FlowChatOrder == FlowSpec => []ChatOrder
  BY FlowInvariant, OrderFromInv, PTL

(* No hop between the nodes loses an item or makes two of it, the closing of the buffers included. *)
THEOREM FlowNothingVanishes == FlowSpec => []NothingVanishes
  BY FlowInvariant, PlacesFromInv, PTL

(* Capacities and pool sizes hold, and the chain is well formed. *)
THEOREM FlowTypeCorrect == FlowSpec => []FlowTypeOK
<1>1. FlowInv => FlowTypeOK
  BY TypesFromInv
<1>2. QED
  BY <1>1, FlowInvariant, PTL

-----------------------------------------------------------------------------
(* The entrance and the redeliveries *)

(* An event that has laid claim to its message, and one whose message is on its way *)
Holds(i) == call[i] \in {"claimed", "failing", "accepted"}
OnWay(i) == call[i] \in {"claimed", "failing"} \/ (call[i] = "accepted" /\ i \notin ended /\ i \notin lost)
Twins(i, j) == MsgOf[i] = MsgOf[j] /\ i # j
Routed == {i \in Items : <<"sync", i>> \in handled}

EntryTyping ==
  /\ call \in [Items -> {"new", "entered", "disowned", "duplicate", "claimed",
                         "accepted", "failing", "refused"}]
  /\ claimed \subseteq Messages /\ late \subseteq expired /\ expired \subseteq Messages
  /\ closed \in BOOLEAN
  /\ run \in [at : {"serving", "pending", "active", "idle", "expired", "buffers",
                    "pools", "wait", "returned"}, left : SUBSET Nodes]

CacheTyping ==
  /\ cached \in [Chats -> Seq(Messages)] /\ evicted \subseteq Messages
  /\ \A k \in Chats : Len(cached[k]) <= CacheSize

Admissions == \A i \in Items : i \in ToSet(admitted[ChatOf[i]]) <=> call[i] = "accepted"

(* A claim lasts for dedupTTL, and only once it has run out can a second event be let in with its
   message; one that is on its way by then makes the first late. *)
Claims ==
  /\ \A i \in Items : Holds(i) => MsgOf[i] \in claimed \cup expired
  /\ \A i, j \in Items : Twins(i, j) /\ Holds(i) /\ Holds(j) => MsgOf[i] \in expired
  /\ \A i \in Items : OnWay(i) => MsgOf[i] \in claimed \cup late
  /\ \A i, j \in Items : Twins(i, j) /\ OnWay(i) /\ OnWay(j) => MsgOf[i] \in late
  /\ \A m \in claimed : \E i \in Items : MsgOf[i] = m /\ Holds(i)

(* Only what the router let through is further down the chain. *)
RoutedHand(n, h, R) ==
  /\ n # "sync" => ToSet(h.batch) \subseteq R
  /\ \A x \in DOMAIN h.hops : h.hops[x].item \in R
SyncFirst ==
  \A n \in Nodes, k \in Chats :
    (n # "sync" => ToSet(queue[n][k]) \subseteq Routed) /\ RoutedHand(n, hand[n][k], Routed)

(* What the cache still holds of a chat, the router leaves out; what the agent has answered, the
   cache holds or has forgotten. *)
Ring(i) == ToSet(cached[ChatOf[i]])
Once ==
  /\ \A i \in Routed : i \notin ended /\ i \notin lost => MsgOf[i] \in late \/ MsgOf[i] \notin Ring(i)
  /\ \A i \in Items : <<"agent", i>> \in handled => MsgOf[i] \in Ring(i) \cup evicted
  /\ \A i, j \in Items : Twins(i, j) /\ <<"agent", i>> \in handled /\ <<"agent", j>> \in handled =>
       MsgOf[i] \in late \/ MsgOf[i] \in expired \cap evicted

Ending == run.at \in {"pools", "wait", "returned"} => bufDown = Nodes

BotInv == FlowInv /\ EntryTyping /\ CacheTyping /\ Admissions /\ Claims /\ SyncFirst /\ Once /\ Ending

LEMMA RoutedMoves ==
  ASSUME FlowInv, SyncFirst, NEW n \in Nodes, NEW k \in Chats, NEW h \in HandRecords, HandFits(n, h),
         SetHand(n, k, h), NEW R, R = Routed', Routed \subseteq R, RoutedHand(n, h, R),
         \A m \in Nodes, j \in Chats : m # "sync" => ToSet(queue'[m][j]) \subseteq ToSet(queue[m][j]) \cup R
  PROVE  SyncFirst'
<1>1. SUFFICES ASSUME NEW m \in Nodes, NEW j \in Chats
               PROVE  (m # "sync" => ToSet(queue'[m][j]) \subseteq R) /\ RoutedHand(m, hand'[m][j], R)
  BY DEF SyncFirst, RoutedHand
<1>2. (m # "sync" => ToSet(queue[m][j]) \subseteq Routed) /\ RoutedHand(m, hand[m][j], Routed)
  BY DEF SyncFirst
<1>3. m # "sync" => ToSet(queue'[m][j]) \subseteq R
  BY <1>2
<1>4. hand'[m][j] = IF m = n /\ j = k THEN h ELSE hand[m][j]
  BY HandSet DEF FlowInv
<1>5. RoutedHand(m, hand[m][j], R)
  BY <1>2 DEF RoutedHand
<1>6. QED
  BY <1>3, <1>4, <1>5

LEMMA PickRouted == ASSUME FlowInv, SyncFirst, NEW n \in Nodes, NEW k \in Chats, Pick(n, k) PROVE SyncFirst'
<1>1. PICK h \in HandRecords : h = [FreeHand EXCEPT !.at = "drain"] /\ HandFits(n, h) /\ h.batch = <<>> /\ h.hops = <<>>
  <2>. DEFINE h == [FreeHand EXCEPT !.at = "drain"]
  <2>1. h = [at |-> "drain", batch |-> <<>>, hops |-> <<>>]
    BY DEF FreeHand
  <2>. HIDE DEF h
  <2>2. h.at = "drain" /\ h.batch = <<>> /\ h.hops = <<>> /\ h \in HandRecords
    BY <2>1 DEF HandRecords
  <2>3. HandFits(n, h)
    BY <2>2 DEF HandFits
  <2>4. QED
    BY <2>2, <2>3 DEF h
<1>2. SetHand(n, k, h) /\ queue' = queue /\ handled' = handled
  BY <1>1 DEF Pick, fates
<1>3. PICK R : R = Routed' /\ R = Routed
  BY <1>2 DEF Routed
<1>4. RoutedHand(n, h, R)
  BY <1>1 DEF RoutedHand, ToSet
<1>5. QED
  BY <1>1, <1>2, <1>3, <1>4, RoutedMoves

LEMMA ReleaseRouted == ASSUME FlowInv, SyncFirst, NEW n \in Nodes, NEW k \in Chats, Release(n, k) PROVE SyncFirst'
<1>1. FreeHand \in HandRecords /\ FreeHand.at = "free" /\ FreeHand.batch = <<>> /\ FreeHand.hops = <<>>
  BY DEF FreeHand, HandRecords
<1>2. SetHand(n, k, FreeHand) /\ queue' = queue /\ handled' = handled
  BY DEF Release, fates
<1>3. PICK R : R = Routed' /\ R = Routed
  BY <1>2 DEF Routed
<1>4. RoutedHand(n, FreeHand, R) /\ HandFits(n, FreeHand)
  BY <1>1 DEF RoutedHand, ToSet, HandFits
<1>5. QED
  BY <1>1, <1>2, <1>3, <1>4, RoutedMoves

LEMMA CollectRouted == ASSUME FlowInv, SyncFirst, NEW n \in Nodes, NEW k \in Chats, Collect(n, k) PROVE SyncFirst'
<1>1. PICK p \in Seq(Items) : p = queue[n][k]
  BY DEF FlowInv, FlowTyping
<1>2. PICK c \in 1..MaxBatch : /\ c <= Len(p)
                              /\ QueueIs(n, k, SubSeq(p, c + 1, Len(p)))
                              /\ SetHand(n, k, [FreeHand EXCEPT !.at = "handle", !.batch = SubSeq(p, 1, c)])
  BY <1>1 DEF Collect, QueueIs
<1>3. handled' = handled
  BY DEF Collect, fates
<1>4. c \in 1..Len(p)
  BY <1>1, <1>2, OrchestratorAssumption DEF OrchestratorAssumption
<1>5. PICK q \in Seq(Items) : q = SubSeq(p, c + 1, Len(p)) /\ ToSet(q) \subseteq ToSet(p)
  BY <1>4, FirstOnesGone
<1>6. PICK b \in Seq(Items) : b = SubSeq(p, 1, c) /\ ToSet(b) \subseteq ToSet(p)
  <2>1. \A x \in 1..Len(SubSeq(p, 1, c)) : x \in 1..Len(p) /\ SubSeq(p, 1, c)[x] = p[x]
    BY <1>4
  <2>2. SubSeq(p, 1, c) \in Seq(Items)
    BY <1>4, FirstOnes
  <2>. DEFINE b == SubSeq(p, 1, c)
  <2>3. b \in Seq(Items) /\ \A x \in 1..Len(b) : x \in 1..Len(p) /\ b[x] = p[x]
    BY <2>1, <2>2
  <2>. HIDE DEF b
  <2>4. DOMAIN b = 1..Len(b) /\ DOMAIN p = 1..Len(p)
    BY <2>3, LenProperties
  <2>5. ToSet(b) \subseteq ToSet(p)
    BY <2>3, <2>4 DEF ToSet
  <2>6. QED
    BY <2>3, <2>5 DEF b
<1>7. PICK h \in HandRecords : h = [FreeHand EXCEPT !.at = "handle", !.batch = b]
  BY BatchHand
<1>8. h.at = "handle" /\ h.batch = b /\ HandFits(n, h)
  BY <1>7, BatchHand
<1>9. SetHand(n, k, h) /\ QueueIs(n, k, q)
  BY <1>2, <1>5, <1>6, <1>7
<1>10. \A m \in Nodes, j \in Chats : queue'[m][j] = IF m = n /\ j = k THEN q ELSE queue[m][j]
  BY <1>9, QueueSet DEF FlowInv
<1>11. PICK R : R = Routed' /\ R = Routed
  BY <1>3 DEF Routed
<1>12. RoutedHand(n, h, R)
  <2>1. h.hops = <<>> /\ DOMAIN <<>> = {}
    BY <1>8 DEF HandFits
  <2>2. n # "sync" => ToSet(p) \subseteq R
    BY <1>1, <1>11 DEF SyncFirst
  <2>3. QED
    BY <1>6, <1>8, <2>1, <2>2 DEF RoutedHand
<1>13. \A m \in Nodes, j \in Chats : m # "sync" => ToSet(queue'[m][j]) \subseteq ToSet(queue[m][j]) \cup R
  BY <1>1, <1>5, <1>10
<1>14. QED
  BY <1>8, <1>9, <1>11, <1>12, <1>13, RoutedMoves

LEMMA HopsRouted ==
  ASSUME FlowInv, SyncFirst, NEW n \in Nodes, NEW k \in Chats, hand[n][k].at = "send", HopDone(n, k),
         handled' = handled,
         \A m \in Nodes, j \in Chats : m # "sync" =>
           ToSet(queue'[m][j]) \subseteq ToSet(queue[m][j]) \cup {Head(hand[n][k].hops).item}
  PROVE  SyncFirst'
<1>1. PICK hops \in Seq(Hops), h \in HandRecords :
           /\ hops = hand[n][k].hops /\ hops # <<>> /\ HandFits(n, h) /\ SetHand(n, k, h)
           /\ h.at \in {"more", "send"} /\ h.hops = Tail(hops)
  BY HopDoneFacts
<1>2. PICK R : R = Routed' /\ R = Routed
  BY DEF Routed
<1>3. \A x \in DOMAIN hops : hops[x].item \in R
  BY <1>1, <1>2 DEF SyncFirst, RoutedHand
<1>4. h.batch = <<>>
  BY <1>1 DEF HandFits
<1>5. 1 \in DOMAIN hops /\ Head(hops) = hops[1]
      /\ \A x \in DOMAIN Tail(hops) : x + 1 \in DOMAIN hops /\ Tail(hops)[x] = hops[x + 1]
  BY <1>1, HopFacts
<1>6. RoutedHand(n, h, R)
  <2>1. ToSet(<<>>) = {}
    BY DEF ToSet
  <2>2. QED
    BY <1>1, <1>3, <1>4, <1>5, <2>1 DEF RoutedHand
<1>7. Head(hand[n][k].hops).item \in R
  BY <1>1, <1>3, <1>5
<1>8. QED
  BY <1>1, <1>2, <1>6, <1>7, RoutedMoves

LEMMA SendRouted == ASSUME FlowInv, SyncFirst, NEW n \in Nodes, NEW k \in Chats, Send(n, k) PROVE SyncFirst'
<1>1. hand[n][k].at = "send" /\ HopDone(n, k) /\ handled' = handled
  BY DEF Send, fates
<1>2. PICK hop : hop = Head(hand[n][k].hops)
  OBVIOUS
<1>3. hop.to \in Nodes /\ hop.item \in Items
  BY <1>1, <1>2, HopDoneFacts
<1>4. queue[hop.to][k] \in Seq(Items)
  BY <1>3 DEF FlowInv, FlowTyping
<1>5. PICK q \in Seq(Items) : /\ q = Append(queue[hop.to][k], hop.item)
                              /\ ToSet(q) = ToSet(queue[hop.to][k]) \cup {hop.item}
  BY <1>3, <1>4, OneAppended
<1>6. QueueIs(hop.to, k, q)
  BY <1>2, <1>5 DEF Send, QueueIs
<1>7. \A m \in Nodes, j \in Chats : queue'[m][j] = IF m = hop.to /\ j = k THEN q ELSE queue[m][j]
  BY <1>3, <1>6, QueueSet DEF FlowInv
<1>8. \A m \in Nodes, j \in Chats : ToSet(queue'[m][j]) \subseteq ToSet(queue[m][j]) \cup {hop.item}
  BY <1>5, <1>7
<1>9. QED
  BY <1>1, <1>2, <1>8, HopsRouted

LEMMA SendClosedRouted == ASSUME FlowInv, SyncFirst, NEW n \in Nodes, NEW k \in Chats, SendClosed(n, k) PROVE SyncFirst'
<1>1. hand[n][k].at = "send" /\ HopDone(n, k) /\ handled' = handled /\ queue' = queue
  BY DEF SendClosed
<1>2. QED
  BY <1>1, HopsRouted

LEMMA HandleRouted ==
  ASSUME FlowInv, SyncFirst, NEW n \in Nodes, NEW k \in Chats,
         NEW answer \in [ToSet(hand[n][k].batch) -> Answers[n]], Handle(n, k, answer)
  PROVE  SyncFirst'
<1>1. PICK batch \in Seq(Items), onward \in Seq(Items), h \in HandRecords :
           /\ hand[n][k].at = "handle" /\ batch = hand[n][k].batch
           /\ Thins(onward, batch) /\ HandFits(n, h) /\ SetHand(n, k, h)
           /\ h.at \in {"more", "send"} /\ ItemsOf(h.hops) = onward
           /\ handled' = handled \cup ({n} \X ToSet(batch))
  BY HandleFacts
<1>2. queue' = queue
  BY DEF Handle
<1>3. PICK R : R = Routed'
  OBVIOUS
<1>4. Routed \subseteq R /\ (n = "sync" => ToSet(batch) \subseteq R)
  <2>1. ToSet(batch) \subseteq Items
    BY <1>1, SetOfItems
  <2>2. QED
    BY <1>1, <1>3, <2>1 DEF Routed
<1>5. ToSet(batch) \subseteq R
  BY <1>1, <1>4 DEF SyncFirst, RoutedHand
<1>6. h.batch = <<>> /\ h.hops \in Seq(Hops)
  BY <1>1 DEF HandFits, HandRecords
<1>7. \A x \in DOMAIN h.hops : h.hops[x].item \in ToSet(batch)
  <2>1. /\ Len(ItemsOf(h.hops)) = Len(h.hops) /\ ItemsOf(h.hops) \in Seq(Items)
        /\ \A x \in 1..Len(h.hops) : ItemsOf(h.hops)[x] = h.hops[x].item
    BY <1>6, ItemsOfHops
  <2>2. DOMAIN h.hops = 1..Len(h.hops) /\ DOMAIN onward = 1..Len(onward)
    BY <1>1, <1>6, LenProperties
  <2>3. \A x \in DOMAIN onward : onward[x] \in ToSet(batch)
    BY <1>1 DEF Thins, ToSet
  <2>4. QED
    BY <1>1, <2>1, <2>2, <2>3
<1>8. RoutedHand(n, h, R)
  <2>1. ToSet(<<>>) = {}
    BY DEF ToSet
  <2>2. QED
    BY <1>5, <1>6, <1>7, <2>1 DEF RoutedHand
<1>9. QED
  BY <1>1, <1>2, <1>3, <1>4, <1>8, RoutedMoves

LEMMA NodeRouted == ASSUME FlowInv, SyncFirst, NEW n \in Nodes, NEW k \in Chats, NodeStep(n, k) PROVE SyncFirst'
  BY PickRouted, CollectRouted, SendRouted, SendClosedRouted, ReleaseRouted, HandleRouted DEF NodeStep

LEMMA AdmitRouted == ASSUME FlowInv, SyncFirst, NEW i \in Items, Admit(i) PROVE SyncFirst'
<1>1. hand' = hand /\ handled' = handled /\ \A n \in Nodes, k \in Chats : n # "sync" => queue'[n][k] = queue[n][k]
  BY DEF Admit, fates, FlowInv, FlowTyping
<1>2. Routed' = Routed
  BY <1>1 DEF Routed
<1>3. QED
  BY <1>1, <1>2 DEF SyncFirst

(* What a goroutine holds for its handler was let in and has met no fate yet. *)
LEMMA InBatch ==
  ASSUME FlowInv, NEW n \in Nodes, NEW k \in Chats, hand[n][k].at = "handle", NEW i \in ToSet(hand[n][k].batch)
  PROVE  i \in Items /\ ChatOf[i] = k /\ i \in ToSet(admitted[k]) /\ i \notin ended /\ i \notin lost
<1>1. PICK L \in Lines : L = Segments(k) /\ ChatFine(admitted[k], L, ended, lost, bufDown # {})
  BY SegmentsTyped DEF FlowInv, ChatsFine
<1>2. PICK s \in Slots : s = Slot[n]
  BY SlotNames
<1>3. L[s] = hand[n][k].batch
  <2>1. hand[n][k] \in HandRecords /\ HandFits(n, hand[n][k])
    BY DEF FlowInv, FlowTyping
  <2>2. InHand(n, k) = hand[n][k].batch
    BY <2>1, InHandIs
  <2>3. QED
    BY <1>1, <1>2, <2>2, SegmentOf
<1>4. Stands(L, i)
  BY <1>3 DEF Stands, ToSet
<1>5. i \in ToSet(admitted[k])
  BY <1>1, <1>3, StandersKnown
<1>6. admitted[k] \in Seq(Items)
  BY DEF FlowInv, FlowTyping
<1>7. i \in Items /\ ChatOf[i] = k
  BY <1>5, <1>6, SetOfItems DEF FlowInv, Belong
<1>8. QED
  BY <1>1, <1>4, <1>5, <1>7 DEF ChatFine

(* An event with a fate, or one that a node has seen, was accepted. *)
LEMMA SeenAccepted ==
  ASSUME FlowInv, Admissions, NEW n \in Nodes, NEW i \in Items, <<n, i>> \in handled
  PROVE  call[i] = "accepted"
  BY DEF FlowInv, Belong, Admissions

LEMMA NodeFacts ==
  ASSUME NEW n \in Nodes, NEW k \in Chats, NodeStep(n, k)
  PROVE  /\ admitted' = admitted /\ bufDown' = bufDown
         /\ ended \subseteq ended' /\ lost \subseteq lost'
<1>1. CASE Pick(n, k) \/ Collect(n, k) \/ Send(n, k) \/ Release(n, k)
  BY <1>1 DEF Pick, Collect, Send, Release, fates
<1>2. CASE SendClosed(n, k)
  BY <1>2 DEF SendClosed
<1>3. CASE \E answer \in [ToSet(hand[n][k].batch) -> Answers[n]] : Handle(n, k, answer)
  BY <1>3 DEF Handle
<1>4. QED
  BY <1>1, <1>2, <1>3 DEF NodeStep

(* As long as the cache and what the nodes have seen stay as they are *)
LEMMA OnceStays ==
  ASSUME Once, UNCHANGED cacheVars, handled' = handled, ended \subseteq ended', lost \subseteq lost',
         late \subseteq late', expired \subseteq expired'
  PROVE  Once'
<1>0. cached' = cached /\ evicted' = evicted
  BY DEF cacheVars
<1>1. \A i \in Routed' : i \in Routed /\ (i \notin ended' => i \notin ended) /\ (i \notin lost' => i \notin lost)
  BY DEF Routed
<1>2. \A i \in Routed' : i \notin ended' /\ i \notin lost' => MsgOf[i] \in late' \/ MsgOf[i] \notin Ring(i)'
  BY <1>0, <1>1 DEF Once, Ring
<1>3. \A i \in Items : <<"agent", i>> \in handled' => MsgOf[i] \in Ring(i)' \cup evicted'
  BY <1>0 DEF Once, Ring
<1>4. \A i, j \in Items : Twins(i, j) /\ <<"agent", i>> \in handled' /\ <<"agent", j>> \in handled' =>
        MsgOf[i] \in late' \/ MsgOf[i] \in expired' \cap evicted'
  BY <1>0 DEF Once
<1>5. QED
  BY <1>2, <1>3, <1>4 DEF Once, Twins

-----------------------------------------------------------------------------
(* The ring of a chat: as long as it may be, and with nothing in it but what was there and what
   came. *)
RingFits(ring, old, fresh) ==
  ring \in Seq(Messages) /\ Len(ring) <= CacheSize /\ ToSet(ring) \subseteq ToSet(old) \cup fresh

LEMMA SuffixIsSome ==
  ASSUME NEW s \in Seq(Messages), NEW c \in 0..Len(s)
  PROVE  LET q == SubSeq(s, c + 1, Len(s)) IN
         q \in Seq(Messages) /\ Len(q) <= Len(s) /\ Len(q) = Len(s) - c /\ ToSet(q) \subseteq ToSet(s)
<1>. DEFINE q == SubSeq(s, c + 1, Len(s))
<1>1. /\ q \in Seq(Messages) /\ Len(q) = Len(s) - c /\ DOMAIN q = 1..(Len(s) - c) /\ DOMAIN s = 1..Len(s)
      /\ Len(s) \in Nat /\ c \in Nat /\ \A x \in 1..(Len(s) - c) : q[x] = s[x + c]
  OBVIOUS
<1>. HIDE DEF q
<1>2. \A x \in 1..(Len(s) - c) : x + c \in 1..Len(s)
  BY <1>1
<1>3. ToSet(q) \subseteq ToSet(s)
  BY <1>1, <1>2 DEF ToSet
<1>4. q \in Seq(Messages) /\ Len(q) <= Len(s) /\ Len(q) = Len(s) - c
  BY <1>1
<1>5. QED
  BY <1>3, <1>4, Zenon DEF q

LEMMA OneMore ==
  ASSUME NEW p \in Seq(Messages), NEW m \in Messages
  PROVE  /\ Append(p, m) \in Seq(Messages) /\ Len(Append(p, m)) = Len(p) + 1
         /\ ToSet(Append(p, m)) = ToSet(p) \cup {m}
<1>1. /\ Append(p, m) \in Seq(Messages) /\ Len(p) \in Nat /\ DOMAIN p = 1..Len(p)
      /\ DOMAIN Append(p, m) = 1..(Len(p) + 1) /\ Len(Append(p, m)) = Len(p) + 1
      /\ Append(p, m)[Len(p) + 1] = m /\ \A x \in 1..Len(p) : Append(p, m)[x] = p[x]
  OBVIOUS
<1>2. \A x \in 1..(Len(p) + 1) : x \in 1..Len(p) \/ x = Len(p) + 1
  BY <1>1
<1>3. Len(p) + 1 \in 1..(Len(p) + 1) /\ 1..Len(p) \subseteq 1..(Len(p) + 1)
  BY <1>1
<1>4. ToSet(Append(p, m)) = ToSet(p) \cup {m}
  BY <1>1, <1>2, <1>3 DEF ToSet
<1>5. QED
  BY <1>1, <1>4

LEMMA TailIsSome ==
  ASSUME NEW p \in Seq(Messages), Len(p) >= 1
  PROVE  Tail(p) \in Seq(Messages) /\ Len(Tail(p)) = Len(p) - 1 /\ ToSet(Tail(p)) \subseteq ToSet(p)
<1>. DEFINE q == Tail(p)
<1>1. /\ q \in Seq(Messages) /\ Len(q) = Len(p) - 1 /\ DOMAIN q = 1..(Len(p) - 1) /\ DOMAIN p = 1..Len(p)
      /\ Len(p) \in Nat /\ \A x \in 1..(Len(p) - 1) : q[x] = p[x + 1]
  OBVIOUS
<1>. HIDE DEF q
<1>2. \A x \in 1..(Len(p) - 1) : x + 1 \in 1..Len(p)
  BY <1>1
<1>3. ToSet(q) \subseteq ToSet(p)
  BY <1>1, <1>2 DEF ToSet
<1>4. QED
  BY <1>1, <1>3 DEF q

LEMMA AddedFits ==
  ASSUME NEW ring \in Seq(Messages), Len(ring) <= CacheSize, NEW m \in Messages
  PROVE  RingFits(Added(ring, m), ring, {m})
<1>0. CacheSize \in Nat \ {0} /\ Len(ring) \in Nat
  BY BotAssumption, LenProperties DEF BotAssumption
<1>1. CASE m \in ToSet(ring)
  BY <1>1 DEF Added, RingFits
<1>2. CASE m \notin ToSet(ring) /\ Len(ring) < CacheSize
  <2>1. Added(ring, m) = Append(ring, m)
    BY <1>2 DEF Added
  <2>2. QED
    BY <1>0, <1>2, <2>1, OneMore DEF RingFits
<1>3. CASE m \notin ToSet(ring) /\ ~ (Len(ring) < CacheSize)
  <2>1. Added(ring, m) = Append(Tail(ring), m)
    BY <1>3 DEF Added
  <2>2. Len(ring) = CacheSize /\ Len(ring) >= 1
    BY <1>0, <1>3
  <2>3. PICK q \in Seq(Messages) : q = Tail(ring) /\ Len(q) = Len(ring) - 1 /\ ToSet(q) \subseteq ToSet(ring)
    BY <2>2, TailIsSome
  <2>4. Append(q, m) \in Seq(Messages) /\ Len(Append(q, m)) = Len(q) + 1 /\ ToSet(Append(q, m)) = ToSet(q) \cup {m}
    BY OneMore
  <2>5. Len(Append(q, m)) <= CacheSize
    BY <1>0, <2>2, <2>3, <2>4
  <2>6. QED
    BY <2>1, <2>3, <2>4, <2>5 DEF RingFits
<1>4. QED
  BY <1>1, <1>2, <1>3

(* a whole batch, one message after another *)
LEMMA AddedAllFits ==
  ASSUME NEW ring \in Seq(Messages), Len(ring) <= CacheSize, NEW batch \in Seq(Items)
  PROVE  RingFits(AddedAll(ring, batch), ring, {MsgOf[i] : i \in ToSet(batch)})
<1>. DEFINE N == Len(batch)
            Come(n) == {MsgOf[batch[x]] : x \in 1..n}
            S == {r \in Seq(Messages) : Len(r) <= CacheSize}
            Step(n, r) == Added(r, MsgOf[batch[n]])
            Is(f) == f = [x \in 0..N |-> IF x = 0 THEN ring ELSE Step(x, f[x - 1])]
            K == CHOOSE f : Is(f)
<1>1. AddedAll(ring, batch) = K[N]
  BY DEF AddedAll
<1>2. N \in Nat /\ ring \in S /\ \A n \in 1..N : MsgOf[batch[n]] \in Messages
  BY BotAssumption DEF BotAssumption
<1>3. \A n \in 1..N, r \in S : Step(n, r) \in S /\ ToSet(Step(n, r)) \subseteq ToSet(r) \cup {MsgOf[batch[n]]}
  <2>. HIDE DEF N
  <2>1. SUFFICES ASSUME NEW n \in 1..N, NEW r \in S
                 PROVE  Step(n, r) \in S /\ ToSet(Step(n, r)) \subseteq ToSet(r) \cup {MsgOf[batch[n]]}
    OBVIOUS
  <2>2. RingFits(Added(r, MsgOf[batch[n]]), r, {MsgOf[batch[n]]})
    BY <1>2, AddedFits
  <2>3. QED
    BY <2>2 DEF RingFits
<1>4. \E f : Is(f)
  <2>. DEFINE step == [n \in 1..N |-> [r \in S |-> Step(n, r)]]
  <2>1. step \in [1..N -> [S -> S]]
    <3>. HIDE DEF Step, N, S
    <3>1. QED
      BY <1>3
  <2>2. PICK f : GoesBy(f, S, N, ring, step)
    <3>. HIDE DEF step, S, N
    <3>1. QED
      BY <1>2, <2>1, StepByStep
  <2>3. f \in [0..N -> S] /\ f[0] = ring /\ \A n \in 1..N : f[n] = step[n][f[n - 1]]
    <3>. HIDE DEF step, S, N
    <3>1. QED
      BY <2>2 DEF GoesBy
  <2>4. ASSUME NEW n \in 1..N PROVE f[n] = Step(n, f[n - 1])
    <3>. HIDE DEF Step, S, N
    <3>1. n - 1 \in 0..N
      BY <1>2
    <3>2. f[n - 1] \in S
      BY <2>3, <3>1
    <3>3. QED
      BY <2>3, <3>2
  <2>. HIDE DEF S, N, Step
  <2>5. f = [x \in 0..N |-> IF x = 0 THEN ring ELSE Step(x, f[x - 1])]
    BY <1>2, <2>3, <2>4
  <2>6. QED
    BY <2>5
<1>5. Is(K)
  <2>. HIDE DEF Is
  <2>1. QED
    BY <1>4
<1>6. K[0] = ring /\ \A n \in 1..N : K[n] = Step(n, K[n - 1])
  <2>. HIDE DEF K, N, Step
  <2>1. QED
    BY <1>2, <1>5
<1>. DEFINE Fine(n, r) == r \in S /\ ToSet(r) \subseteq ToSet(ring) \cup Come(n)
<1>7. \A n \in 0..N : Fine(n, K[n])
  <2>. DEFINE P == [n \in 0..N |-> Fine(n, K[n])]
  <2>1. P \in [0..N -> BOOLEAN]
    OBVIOUS
  <2>2. Fine(0, K[0])
    <3>. HIDE DEF K, N, S
    <3>1. QED
      BY <1>2, <1>6
  <2>3. ASSUME NEW n \in 1..N, Fine(n - 1, K[n - 1]) PROVE Fine(n, K[n])
    <3>. HIDE DEF K, N, S, Step
    <3>1. K[n] \in S /\ ToSet(K[n]) \subseteq ToSet(K[n - 1]) \cup {MsgOf[batch[n]]}
      BY <1>3, <1>6, <2>3
    <3>2. Come(n - 1) \subseteq Come(n) /\ MsgOf[batch[n]] \in Come(n)
      <4>1. 1..(n - 1) \subseteq 1..n /\ n \in 1..n
        BY <1>2
      <4>2. QED
        BY <4>1
    <3>3. QED
      BY <2>3, <3>1, <3>2
  <2>4. P[0] /\ \A n \in 1..N : P[n - 1] => P[n]
    <3>. HIDE DEF K, Fine
    <3>1. \A n \in 1..N : n - 1 \in 0..N /\ n \in 0..N
      BY <1>2
    <3>2. 0 \in 0..N
      BY <1>2
    <3>. HIDE DEF N
    <3>3. QED
      BY <2>2, <2>3, <3>1, <3>2
  <2>. HIDE DEF P, N
  <2>5. \A n \in 0..N : P[n]
    BY <1>2, <2>1, <2>4, CountUp
  <2>6. QED
    BY <2>5 DEF P
<1>8. Fine(N, K[N])
  <2>. HIDE DEF Fine, K, N
  <2>1. QED
    BY <1>2, <1>7
<1>9. Come(N) = {MsgOf[i] : i \in ToSet(batch)}
  BY DEF ToSet
<1>. HIDE DEF K, N, Come
<1>10. QED
  BY <1>1, <1>8, <1>9 DEF RingFits

(* What a handler does to the ring of its chat *)
RingGoes(k, ring, fresh) ==
  /\ RingFits(ring, cached[k], fresh)
  /\ cached' = [cached EXCEPT ![k] = ring]
  /\ evicted' = evicted \cup ((ToSet(cached[k]) \cup fresh) \ ToSet(ring))

(* The router lets nothing through that is in the cache. *)
SyncSkips(k, answer) ==
  \A y \in DOMAIN hand["sync"][k].batch :
    HasSeen(k, MsgOf[hand["sync"][k].batch[y]]) => answer[hand["sync"][k].batch[y]] = "left_out"

FreshOf(n, k) == IF n = "agent" THEN {MsgOf[i] : i \in ToSet(hand[n][k].batch)} ELSE {}

LEMMA CachesFit ==
  ASSUME CacheTyping, NEW n \in Nodes, NEW k \in Chats, NEW batch \in Seq(Items), batch = hand[n][k].batch,
         NEW ring \in Caches(n, k, batch)
  PROVE  RingFits(ring, cached[k], FreshOf(n, k))
<1>1. cached[k] \in Seq(Messages) /\ Len(cached[k]) <= CacheSize
  BY DEF CacheTyping
<1>2. PICK full : full = IF n = "agent" THEN AddedAll(cached[k], batch) ELSE cached[k]
  OBVIOUS
<1>3. RingFits(full, cached[k], FreshOf(n, k))
  <2>1. CASE n = "agent"
    BY <1>1, <1>2, <2>1, AddedAllFits DEF FreshOf
  <2>2. CASE n # "agent"
    BY <1>1, <1>2, <2>2 DEF FreshOf, RingFits
  <2>3. QED
    BY <2>1, <2>2
<1>4. full \in Seq(Messages)
  BY <1>3 DEF RingFits
<1>5. \/ ring = full
      \/ \E own \in 0..Len(full) : ring = SubSeq(full, own + 1, Len(full))
  BY <1>2 DEF Caches
<1>6. ASSUME NEW own \in 0..Len(full), ring = SubSeq(full, own + 1, Len(full))
      PROVE  RingFits(ring, cached[k], FreshOf(n, k))
  <2>1. ring \in Seq(Messages) /\ Len(ring) <= Len(full) /\ ToSet(ring) \subseteq ToSet(full)
    BY <1>4, <1>6, SuffixIsSome
  <2>2. Len(ring) \in Nat /\ Len(full) \in Nat /\ CacheSize \in Nat
    BY <1>4, <2>1, LenProperties, BotAssumption DEF BotAssumption
  <2>3. QED
    BY <1>3, <2>1, <2>2 DEF RingFits
<1>7. QED
  BY <1>3, <1>5, <1>6

LEMMA DomainGives ==
  ASSUME BotInv, NEW n \in Nodes, NEW k \in Chats, Domain(n, k)
  PROVE  \E answer \in [ToSet(hand[n][k].batch) -> Answers[n]], ring \in Seq(Messages) :
           /\ Handle(n, k, answer) /\ RingGoes(k, ring, FreshOf(n, k))
           /\ n = "sync" => SyncSkips(k, answer)
<1>1. PICK batch \in Seq(Items) : batch = hand[n][k].batch
  BY DEF BotInv, FlowInv, FlowTyping, HandRecords
<1>2. PICK answer \in [ToSet(hand[n][k].batch) -> Answers[n]] :
        /\ n = "sync" =>
             \A y \in DOMAIN batch :
               \/ HasSeen(k, MsgOf[batch[y]])
               \/ \E x \in 1..(y - 1) : MsgOf[batch[x]] = MsgOf[batch[y]]
               => answer[batch[y]] = "left_out"
        /\ Handle(n, k, answer)
  BY <1>1 DEF Domain
<1>3. PICK ring \in Caches(n, k, batch) :
        /\ cached' = [cached EXCEPT ![k] = ring]
        /\ evicted' = evicted \cup (((ToSet(cached[k]) \cup
             IF n = "agent" THEN {MsgOf[i] : i \in ToSet(batch)} ELSE {}) \ ToSet(ring)))
  BY <1>1 DEF Domain
<1>4. RingFits(ring, cached[k], FreshOf(n, k))
  BY <1>1, CachesFit DEF BotInv
<1>5. ring \in Seq(Messages)
  BY <1>4 DEF RingFits
<1>6. RingGoes(k, ring, FreshOf(n, k))
  BY <1>1, <1>3, <1>4 DEF RingGoes, FreshOf
<1>7. n = "sync" => SyncSkips(k, answer)
  BY <1>1, <1>2 DEF SyncSkips
<1>8. QED
  BY <1>2, <1>5, <1>6, <1>7

(* the rings of the other chats stay as they are, and what a ring loses is written down *)
LEMMA RingsMove ==
  ASSUME BotInv, NEW k \in Chats, NEW ring \in Seq(Messages), NEW fresh \in SUBSET Messages, RingGoes(k, ring, fresh)
  PROVE  /\ CacheTyping'
         /\ \A i \in Items : /\ Ring(i)' \subseteq Ring(i) \cup (IF ChatOf[i] = k THEN fresh ELSE {})
                             /\ Ring(i) \subseteq Ring(i)' \cup evicted'
                             /\ ChatOf[i] = k => fresh \subseteq Ring(i)' \cup evicted'
         /\ evicted \subseteq evicted'
<1>1. cached \in [Chats -> Seq(Messages)] /\ evicted \subseteq Messages /\ \A c \in Chats : Len(cached[c]) <= CacheSize
  BY DEF BotInv, CacheTyping
<1>2. /\ Len(ring) <= CacheSize /\ ToSet(ring) \subseteq ToSet(cached[k]) \cup fresh
      /\ cached' = [cached EXCEPT ![k] = ring]
      /\ evicted' = evicted \cup ((ToSet(cached[k]) \cup fresh) \ ToSet(ring))
  BY DEF RingGoes, RingFits
<1>3. \A c \in Chats : cached'[c] = IF c = k THEN ring ELSE cached[c]
  BY <1>1, <1>2
<1>4. CacheTyping'
  <2>1. cached' \in [Chats -> Seq(Messages)]
    BY <1>1, <1>2
  <2>2. ToSet(cached[k]) \subseteq Messages
    BY <1>1 DEF ToSet
  <2>3. QED
    BY <1>1, <1>2, <1>3, <2>1, <2>2 DEF CacheTyping
<1>5. ASSUME NEW i \in Items
      PROVE  /\ Ring(i)' \subseteq Ring(i) \cup (IF ChatOf[i] = k THEN fresh ELSE {})
             /\ Ring(i) \subseteq Ring(i)' \cup evicted'
             /\ ChatOf[i] = k => fresh \subseteq Ring(i)' \cup evicted'
  <2>1. ChatOf[i] \in Chats
    BY OrchestratorAssumption DEF OrchestratorAssumption
  <2>2. Ring(i)' = IF ChatOf[i] = k THEN ToSet(ring) ELSE Ring(i)
    BY <1>3, <2>1 DEF Ring
  <2>3. QED
    BY <1>2, <2>2 DEF Ring
<1>6. QED
  BY <1>2, <1>4, <1>5

(* what the agent has in its hands *)
LEMMA AgentsBatch ==
  ASSUME BotInv, NEW k \in Chats, hand["agent"][k].at = "handle", NEW j \in ToSet(hand["agent"][k].batch)
  PROVE  j \in Items /\ ChatOf[j] = k /\ j \notin ended /\ j \notin lost /\ OnWay(j) /\ Holds(j) /\ j \in Routed
<1>1. "agent" \in Nodes /\ "agent" # "sync"
  BY DEF Nodes
<1>2. j \in Items /\ ChatOf[j] = k /\ j \in ToSet(admitted[k]) /\ j \notin ended /\ j \notin lost
  BY <1>1, InBatch DEF BotInv
<1>3. call[j] = "accepted"
  BY <1>2 DEF BotInv, Admissions
<1>4. j \in Routed
  BY <1>1 DEF BotInv, SyncFirst, RoutedHand
<1>5. QED
  BY <1>2, <1>3, <1>4 DEF OnWay, Holds

(* and what it has answered is at its end *)
LEMMA AgentEnds ==
  ASSUME NEW batch \in Seq(Items), NEW onward \in Seq(Items), Thins(onward, batch),
         NEW answer \in [ToSet(batch) -> Answers["agent"]], AllGoOn(onward, answer)
  PROVE  ToSet(onward) = {}
<1>1. \A x \in DOMAIN onward : onward[x] \in ToSet(batch)
  BY DEF Thins, ToSet
<1>2. \A j \in ToSet(batch) : answer[j] = "replied"
  BY DEF Answers
<1>3. ~ GoesOn("replied")
  BY DEF GoesOn, Ends
<1>4. \A x \in DOMAIN onward : FALSE
  BY <1>1, <1>2, <1>3 DEF AllGoOn
<1>5. QED
  BY <1>4 DEF ToSet

LEMMA DomainStep ==
  ASSUME BotInv, NEW n \in Nodes, NEW k \in Chats, Domain(n, k), late' = late, expired' = expired
  PROVE  NodeStep(n, k) /\ Once' /\ CacheTyping'
<1>1. PICK answer \in [ToSet(hand[n][k].batch) -> Answers[n]], ring \in Seq(Messages) :
        /\ Handle(n, k, answer) /\ RingGoes(k, ring, FreshOf(n, k))
        /\ n = "sync" => SyncSkips(k, answer)
  BY DomainGives
<1>2. NodeStep(n, k)
  BY <1>1 DEF NodeStep
<1>3. PICK batch \in Seq(Items), onward \in Seq(Items) :
           /\ batch = hand[n][k].batch /\ hand[n][k].at = "handle" /\ Thins(onward, batch)
           /\ handled' = handled \cup ({n} \X ToSet(batch))
           /\ ended' = ended \cup (ToSet(batch) \ ToSet(onward))
           /\ AllGoOn(onward, answer)
  BY <1>1, HandleFacts DEF BotInv
<1>4. lost' = lost
  BY <1>1 DEF Handle
<1>5. ToSet(batch) \subseteq Items /\ \A i \in Items : MsgOf[i] \in Messages
  BY SetOfItems, BotAssumption DEF BotAssumption
<1>6. PICK fresh \in SUBSET Messages : fresh = FreshOf(n, k)
  BY <1>3, <1>5 DEF FreshOf
<1>7. /\ CacheTyping'
      /\ \A i \in Items : /\ Ring(i)' \subseteq Ring(i) \cup (IF ChatOf[i] = k THEN fresh ELSE {})
                          /\ Ring(i) \subseteq Ring(i)' \cup evicted'
                          /\ ChatOf[i] = k => fresh \subseteq Ring(i)' \cup evicted'
      /\ evicted \subseteq evicted'
  BY <1>1, <1>6, RingsMove
<1>8. ASSUME NEW m, NEW i, <<m, i>> \in handled', <<m, i>> \notin handled
      PROVE  n = m /\ i \in ToSet(batch)
  BY <1>3, <1>8
<1>9. ASSUME n = "agent", NEW j \in ToSet(batch)
      PROVE  /\ j \in Items /\ ChatOf[j] = k /\ j \notin ended /\ j \notin lost /\ OnWay(j) /\ Holds(j)
             /\ j \in Routed /\ j \in ended'
  <2>1. /\ j \in Items /\ ChatOf[j] = k /\ j \notin ended /\ j \notin lost /\ OnWay(j) /\ Holds(j)
        /\ j \in Routed
    BY <1>3, <1>9, AgentsBatch
  <2>2. ToSet(onward) = {}
    BY <1>3, <1>9, AgentEnds
  <2>3. QED
    BY <1>3, <2>1, <2>2
<1>10. ASSUME NEW i \in Routed', i \notin ended', i \notin lost', MsgOf[i] \notin late PROVE MsgOf[i] \notin Ring(i)'
  <2>1. i \in Items /\ i \notin ended /\ i \notin lost /\ <<"sync", i>> \in handled'
    BY <1>3, <1>4, <1>10 DEF Routed
  <2>2. MsgOf[i] \notin Ring(i)
    <3>1. CASE i \in Routed
      BY <1>10, <2>1, <3>1 DEF BotInv, Once
    <3>2. CASE i \notin Routed
      <4>1. n = "sync" /\ i \in ToSet(batch)
        <5>1. <<"sync", i>> \notin handled
          BY <2>1, <3>2 DEF Routed
        <5>2. QED
          BY <1>8, <2>1, <5>1
      <4>2. i \in ToSet(onward)
        BY <1>3, <1>10, <4>1
      <4>3. GoesOn(answer[i])
        BY <1>3, <4>2 DEF ToSet, AllGoOn
      <4>4. PICK y \in DOMAIN batch : batch[y] = i
        BY <4>1 DEF ToSet
      <4>5. HasSeen(k, MsgOf[i]) => answer[i] = "left_out"
        BY <1>1, <1>3, <4>1, <4>4 DEF SyncSkips
      <4>6. ~ GoesOn("left_out")
        BY DEF GoesOn
      <4>7. ChatOf[i] = k
        BY <1>3, <4>1, InBatch DEF BotInv
      <4>8. QED
        BY <4>3, <4>5, <4>6, <4>7 DEF HasSeen, Ring
    <3>3. QED
      BY <3>1, <3>2
  <2>3. ~ (ChatOf[i] = k /\ MsgOf[i] \in fresh)
    <3>1. SUFFICES ASSUME ChatOf[i] = k, MsgOf[i] \in fresh PROVE FALSE
      OBVIOUS
    <3>2. PICK j \in ToSet(batch) : MsgOf[j] = MsgOf[i] /\ n = "agent"
      BY <1>3, <1>6, <3>1 DEF FreshOf
    <3>3. OnWay(j) /\ j \in Items /\ j \in ended'
      BY <1>9, <3>2
    <3>4. i # j /\ <<"sync", i>> \in handled
      <4>1. i # j
        BY <1>10, <3>3
      <4>2. n # "sync"
        BY <3>2
      <4>3. QED
        BY <1>8, <2>1, <4>1, <4>2
    <3>5. call[i] = "accepted"
      BY <2>1, <3>4, SeenAccepted DEF Nodes, BotInv
    <3>6. OnWay(i) /\ Twins(i, j)
      BY <2>1, <3>2, <3>4, <3>5 DEF OnWay, Twins
    <3>7. QED
      BY <1>10, <2>1, <3>3, <3>6 DEF BotInv, Claims
  <2>4. QED
    BY <1>7, <2>1, <2>2, <2>3
<1>11. ASSUME NEW i \in Items, <<"agent", i>> \in handled' PROVE MsgOf[i] \in Ring(i)' \cup evicted'
  <2>1. CASE <<"agent", i>> \in handled
    BY <1>7, <2>1 DEF BotInv, Once
  <2>2. CASE n = "agent" /\ i \in ToSet(batch)
    <3>1. MsgOf[i] \in fresh /\ ChatOf[i] = k
      BY <1>3, <1>6, <1>9, <2>2 DEF FreshOf
    <3>2. QED
      BY <1>7, <3>1
  <2>3. QED
    BY <1>8, <1>11, <2>1, <2>2
(* a message the agent answers now and answered before was late, or the cache has forgotten it *)
<1>12. ASSUME NEW i \in Items, NEW j \in Items, MsgOf[i] = MsgOf[j], i # j, <<"agent", j>> \in handled,
              n = "agent", i \in ToSet(batch)
       PROVE  MsgOf[i] \in late \/ MsgOf[i] \in expired \cap evicted
  <2>1. Holds(i) /\ i \in Routed /\ i \notin ended /\ i \notin lost
    BY <1>9, <1>12
  <2>2. Holds(j)
    BY <1>12, SeenAccepted DEF Nodes, BotInv, Holds
  <2>3. MsgOf[i] \in expired
    BY <1>12, <2>1, <2>2 DEF BotInv, Claims, Twins
  <2>4. ChatOf[i] = ChatOf[j]
    BY <1>12, BotAssumption DEF BotAssumption
  <2>5. MsgOf[i] \in Ring(i) \cup evicted
    BY <1>12, <2>4 DEF BotInv, Once, Ring
  <2>6. MsgOf[i] \in late \/ MsgOf[i] \notin Ring(i)
    BY <2>1 DEF BotInv, Once
  <2>7. QED
    BY <2>3, <2>5, <2>6
<1>13. ASSUME NEW i \in Items, NEW j \in Items, Twins(i, j), <<"agent", i>> \in handled', <<"agent", j>> \in handled'
       PROVE  MsgOf[i] \in late \/ MsgOf[i] \in expired \cap evicted'
  <2>1. MsgOf[i] = MsgOf[j] /\ i # j
    BY <1>13 DEF Twins
  <2>2. CASE <<"agent", i>> \in handled /\ <<"agent", j>> \in handled
    BY <1>7, <1>13, <2>2 DEF BotInv, Once
  <2>3. CASE <<"agent", i>> \notin handled /\ <<"agent", j>> \in handled
    <3>1. n = "agent" /\ i \in ToSet(batch)
      BY <1>8, <1>13, <2>3
    <3>2. MsgOf[i] \in late \/ MsgOf[i] \in expired \cap evicted
      BY <1>12, <2>1, <2>3, <3>1
    <3>3. QED
      BY <1>7, <3>2
  <2>4. CASE <<"agent", i>> \in handled /\ <<"agent", j>> \notin handled
    <3>1. n = "agent" /\ j \in ToSet(batch)
      BY <1>8, <1>13, <2>4
    <3>2. MsgOf[j] \in late \/ MsgOf[j] \in expired \cap evicted
      BY <1>12, <2>1, <2>4, <3>1
    <3>3. QED
      BY <1>7, <2>1, <3>2
  <2>5. CASE <<"agent", i>> \notin handled /\ <<"agent", j>> \notin handled
    <3>1. n = "agent" /\ i \in ToSet(batch) /\ j \in ToSet(batch)
      BY <1>8, <1>13, <2>5
    <3>2. OnWay(i) /\ OnWay(j)
      BY <1>9, <3>1
    <3>3. QED
      BY <1>13, <3>2 DEF BotInv, Claims
  <2>6. QED
    BY <2>2, <2>3, <2>4, <2>5
<1>14. Once'
  <2>1. \A i \in Routed' : i \notin ended' /\ i \notin lost' => MsgOf[i] \in late' \/ MsgOf[i] \notin Ring(i)'
    BY <1>10
  <2>2. \A i, j \in Items : Twins(i, j) /\ <<"agent", i>> \in handled' /\ <<"agent", j>> \in handled' =>
          MsgOf[i] \in late' \/ MsgOf[i] \in expired' \cap evicted'
    BY <1>13
  <2>3. QED
    BY <1>11, <2>1, <2>2 DEF Once, Twins
<1>15. QED
  BY <1>2, <1>7, <1>14

-----------------------------------------------------------------------------
(* Nobody comes to hold a claim, and nothing sets out. *)
LEMMA ClaimsStay ==
  ASSUME Claims, claimed' = claimed, expired' = expired, late' = late,
         \A j \in Items : (Holds(j)' <=> Holds(j)) /\ (OnWay(j)' => OnWay(j))
  PROVE  Claims'
<1>1. \A i \in Items : Holds(i)' => MsgOf[i] \in claimed' \cup expired'
  BY DEF Claims
<1>2. \A i, j \in Items : Twins(i, j) /\ Holds(i)' /\ Holds(j)' => MsgOf[i] \in expired'
  BY DEF Claims
<1>3. \A i \in Items : OnWay(i)' => MsgOf[i] \in claimed' \cup late'
  BY DEF Claims
<1>4. \A i, j \in Items : Twins(i, j) /\ OnWay(i)' /\ OnWay(j)' => MsgOf[i] \in late'
  BY DEF Claims
<1>5. \A m \in claimed' : \E i \in Items : MsgOf[i] = m /\ Holds(i)'
  BY DEF Claims
<1>6. QED
  BY <1>1, <1>2, <1>3, <1>4, <1>5 DEF Claims, Twins

LEMMA CallMoves ==
  ASSUME BotInv, NEW i \in Items,
         NEW at \in {"new", "entered", "disowned", "duplicate", "claimed", "accepted", "failing", "refused"},
         SetCall(i, at)
  PROVE  /\ call' \in [Items -> {"new", "entered", "disowned", "duplicate", "claimed",
                                 "accepted", "failing", "refused"}]
         /\ \A j \in Items : call'[j] = IF j = i THEN at ELSE call[j]
  BY DEF BotInv, EntryTyping, SetCall

(* The chain stands still. *)
LEMMA ChainStill ==
  ASSUME BotInv, UNCHANGED <<queue, hand, admitted, fates>>, UNCHANGED cacheVars,
         late \subseteq late', expired \subseteq expired'
  PROVE  SyncFirst' /\ Once' /\ CacheTyping'
<1>1. queue' = queue /\ hand' = hand /\ handled' = handled /\ ended' = ended /\ lost' = lost
  BY DEF fates
<1>2. Routed' = Routed
  BY <1>1 DEF Routed
<1>3. SyncFirst'
  BY <1>1, <1>2 DEF BotInv, SyncFirst
<1>4. Once'
  BY <1>1, OnceStays DEF BotInv
<1>5. CacheTyping'
  BY DEF BotInv, CacheTyping, cacheVars
<1>6. QED
  BY <1>3, <1>4, <1>5

(* A call that goes on without touching the chain *)
LEMMA CallKeeps ==
  ASSUME BotInv, NEW i \in Items, NEW at \in {"entered", "disowned", "duplicate", "claimed", "failing", "refused"},
         SetCall(i, at), call[i] # "accepted", UNCHANGED <<flowVars, expired, late, cacheVars, closed, run>>,
         claimed' \subseteq Messages, Claims'
  PROVE  BotInv'
<1>1. /\ UNCHANGED flowVars /\ admitted' = admitted /\ bufDown' = bufDown
      /\ UNCHANGED <<queue, hand, admitted, fates>>
  BY DEF flowVars
<1>2. FlowInv'
  BY <1>1, FlowQuiet DEF BotInv
<1>3. \A j \in Items : call'[j] = IF j = i THEN at ELSE call[j]
  BY CallMoves
<1>4. Admissions'
  BY <1>1, <1>3 DEF BotInv, Admissions
<1>5. EntryTyping'
  BY CallMoves DEF BotInv, EntryTyping
<1>6. SyncFirst' /\ Once' /\ CacheTyping'
  BY <1>1, ChainStill
<1>7. Ending'
  BY <1>1 DEF BotInv, Ending
<1>8. QED
  BY <1>2, <1>4, <1>5, <1>6, <1>7 DEF BotInv

(* A call that lays no claim and gives none up *)
LEMMA QuietCallKeeps ==
  ASSUME BotInv, NEW i \in Items, NEW at \in {"entered", "disowned", "duplicate", "failing", "refused"},
         SetCall(i, at), UNCHANGED <<flowVars, claimed, expired, late, cacheVars, closed, run>>,
         IF at = "failing" THEN call[i] = "claimed" ELSE call[i] \in {"new", "entered"}
  PROVE  BotInv'
<1>1. \A j \in Items : call'[j] = IF j = i THEN at ELSE call[j]
  BY CallMoves
<1>2. ended' = ended /\ lost' = lost
  BY DEF flowVars, fates
<1>3. \A j \in Items : (Holds(j)' <=> Holds(j)) /\ (OnWay(j)' => OnWay(j))
  BY <1>1, <1>2 DEF Holds, OnWay
<1>4. Claims'
  BY <1>3, ClaimsStay DEF BotInv
<1>5. QED
  BY <1>4, CallKeeps DEF BotInv, EntryTyping

LEMMA EnterKeeps == ASSUME BotInv, NEW i \in Items, Enter(i) PROVE BotInv'
  BY QuietCallKeeps DEF Enter

LEMMA DisownKeeps == ASSUME BotInv, NEW i \in Items, Disown(i) PROVE BotInv'
  BY QuietCallKeeps DEF Disown

LEMMA FailKeeps == ASSUME BotInv, NEW i \in Items, Fail(i) PROVE BotInv'
  BY QuietCallKeeps DEF Fail

LEMMA ClaimKeeps == ASSUME BotInv, NEW i \in Items, Claim(i) PROVE BotInv'
<1>1. call[i] = "entered" /\ UNCHANGED <<flowVars, expired, late, cacheVars, closed, run>>
  BY DEF Claim
<1>2. CASE MsgOf[i] \in claimed
  BY <1>1, <1>2, QuietCallKeeps DEF Claim
<1>3. CASE MsgOf[i] \notin claimed
  <2>1. SetCall(i, "claimed") /\ claimed' = claimed \cup {MsgOf[i]}
    BY <1>3 DEF Claim
  <2>2. \A j \in Items : call'[j] = IF j = i THEN "claimed" ELSE call[j]
    BY <2>1, CallMoves
  <2>3. ended' = ended /\ lost' = lost /\ expired' = expired /\ late' = late
    BY <1>1 DEF flowVars, fates
  <2>4. \A j \in Items : j # i => (Holds(j)' <=> Holds(j)) /\ (OnWay(j)' <=> OnWay(j))
    BY <2>2, <2>3 DEF Holds, OnWay
  <2>5. \A j \in Items : Twins(i, j) \/ Twins(j, i) =>
          (OnWay(j)' => MsgOf[i] \in late) /\ (Holds(j)' => MsgOf[i] \in expired)
    BY <1>3, <2>4 DEF BotInv, Claims, Twins
  <2>6. Claims'
    <3>1. \A j \in Items : Holds(j)' => MsgOf[j] \in claimed' \cup expired'
      BY <2>1, <2>3, <2>4 DEF BotInv, Claims
    <3>2. \A j, l \in Items : Twins(j, l) /\ Holds(j)' /\ Holds(l)' => MsgOf[j] \in expired'
      <4>1. SUFFICES ASSUME NEW j \in Items, NEW l \in Items, Twins(j, l), Holds(j)', Holds(l)'
                     PROVE  MsgOf[j] \in expired
        BY <2>3
      <4>2. CASE j = i \/ l = i
        BY <2>5, <4>1, <4>2 DEF Twins
      <4>3. CASE j # i /\ l # i
        BY <2>4, <4>1, <4>3 DEF BotInv, Claims
      <4>4. QED
        BY <4>2, <4>3
    <3>3. \A j \in Items : OnWay(j)' => MsgOf[j] \in claimed' \cup late'
      BY <2>1, <2>3, <2>4 DEF BotInv, Claims
    <3>4. \A j, l \in Items : Twins(j, l) /\ OnWay(j)' /\ OnWay(l)' => MsgOf[j] \in late'
      <4>1. SUFFICES ASSUME NEW j \in Items, NEW l \in Items, Twins(j, l), OnWay(j)', OnWay(l)'
                     PROVE  MsgOf[j] \in late
        BY <2>3
      <4>2. CASE j = i \/ l = i
        BY <2>5, <4>1, <4>2 DEF Twins
      <4>3. CASE j # i /\ l # i
        BY <2>4, <4>1, <4>3 DEF BotInv, Claims
      <4>4. QED
        BY <4>2, <4>3
    <3>5. \A m \in claimed' : \E j \in Items : MsgOf[j] = m /\ Holds(j)'
      <4>1. SUFFICES ASSUME NEW m \in claimed' PROVE \E j \in Items : MsgOf[j] = m /\ Holds(j)'
        OBVIOUS
      <4>2. CASE m \in claimed
        <5>1. PICK j \in Items : MsgOf[j] = m /\ Holds(j)
          BY <4>2 DEF BotInv, Claims
        <5>2. j # i
          BY <1>3, <4>2, <5>1
        <5>3. QED
          BY <2>4, <5>1, <5>2
      <4>3. CASE m = MsgOf[i]
        BY <2>2, <4>3 DEF Holds
      <4>4. QED
        BY <2>1, <4>2, <4>3
    <3>6. QED
      BY <3>1, <3>2, <3>3, <3>4, <3>5 DEF Claims, Twins
  <2>7. claimed' \subseteq Messages
    BY <2>1, BotAssumption DEF BotAssumption, BotInv, EntryTyping
  <2>8. QED
    BY <1>1, <2>1, <2>6, <2>7, CallKeeps
<1>4. QED
  BY <1>2, <1>3

LEMMA ForgetKeeps == ASSUME BotInv, NEW i \in Items, Forget(i) PROVE BotInv'
<1>1. /\ call[i] = "failing" /\ claimed' = claimed \ {MsgOf[i]} /\ SetCall(i, "refused")
      /\ UNCHANGED <<flowVars, expired, late, cacheVars, closed, run>>
  BY DEF Forget
<1>2. \A j \in Items : call'[j] = IF j = i THEN "refused" ELSE call[j]
  BY <1>1, CallMoves
<1>3. ended' = ended /\ lost' = lost /\ expired' = expired /\ late' = late
  BY <1>1 DEF flowVars, fates
<1>4. \A j \in Items : j # i => (Holds(j)' <=> Holds(j)) /\ (OnWay(j)' <=> OnWay(j))
  BY <1>2, <1>3 DEF Holds, OnWay
<1>5. ~ Holds(i)' /\ ~ OnWay(i)' /\ Holds(i) /\ OnWay(i)
  BY <1>1, <1>2 DEF Holds, OnWay
<1>6. \A j \in Items : Twins(i, j) => (OnWay(j)' => MsgOf[j] \in late) /\ (Holds(j)' => MsgOf[j] \in expired)
  BY <1>4, <1>5 DEF BotInv, Claims, Twins
<1>7. Claims'
  <2>1. \A j \in Items : Holds(j)' => MsgOf[j] \in claimed' \cup expired'
    <3>1. SUFFICES ASSUME NEW j \in Items, Holds(j)' PROVE MsgOf[j] \in claimed' \cup expired
      BY <1>3
    <3>2. j # i /\ Holds(j) /\ MsgOf[j] \in claimed \cup expired
      BY <1>4, <1>5, <3>1 DEF BotInv, Claims
    <3>3. QED
      BY <1>1, <1>6, <3>1, <3>2 DEF Twins
  <2>2. \A j, l \in Items : Twins(j, l) /\ Holds(j)' /\ Holds(l)' => MsgOf[j] \in expired'
    BY <1>3, <1>4, <1>5 DEF BotInv, Claims
  <2>3. \A j \in Items : OnWay(j)' => MsgOf[j] \in claimed' \cup late'
    <3>1. SUFFICES ASSUME NEW j \in Items, OnWay(j)' PROVE MsgOf[j] \in claimed' \cup late
      BY <1>3
    <3>2. j # i /\ OnWay(j) /\ MsgOf[j] \in claimed \cup late
      BY <1>4, <1>5, <3>1 DEF BotInv, Claims
    <3>3. QED
      BY <1>1, <1>6, <3>1, <3>2 DEF Twins
  <2>4. \A j, l \in Items : Twins(j, l) /\ OnWay(j)' /\ OnWay(l)' => MsgOf[j] \in late'
    BY <1>3, <1>4, <1>5 DEF BotInv, Claims
  <2>5. \A m \in claimed' : \E j \in Items : MsgOf[j] = m /\ Holds(j)'
    <3>1. SUFFICES ASSUME NEW m \in claimed' PROVE \E j \in Items : MsgOf[j] = m /\ Holds(j)'
      OBVIOUS
    <3>2. PICK j \in Items : MsgOf[j] = m /\ Holds(j)
      BY <1>1, <3>1 DEF BotInv, Claims
    <3>3. j # i
      BY <1>1, <3>1, <3>2
    <3>4. QED
      BY <1>4, <3>2, <3>3
  <2>6. QED
    BY <2>1, <2>2, <2>3, <2>4, <2>5 DEF Claims, Twins
<1>8. QED
  BY <1>1, <1>7, CallKeeps DEF BotInv, EntryTyping

LEMMA AcceptIsFresh == ASSUME BotInv, NEW i \in Items, Accept(i) PROVE Fresh(i) /\ Admit(i)
  BY DEF BotInv, Admissions, Accept, Fresh

LEMMA AcceptKeeps == ASSUME BotInv, NEW i \in Items, Accept(i) PROVE BotInv'
<1>1. /\ call[i] = "claimed" /\ Admit(i) /\ SetCall(i, "accepted")
      /\ UNCHANGED <<claimed, expired, late, cacheVars, closed, run>>
  BY DEF Accept
<1>2. FlowInv'
  BY <1>1, AcceptIsFresh, AdmitKeeps DEF BotInv
<1>3. PICK k \in Chats : k = ChatOf[i]
  BY OrchestratorAssumption DEF OrchestratorAssumption
<1>4. admitted[k] \in Seq(Items) /\ admitted \in [Chats -> Seq(Items)]
  BY DEF BotInv, FlowInv, FlowTyping
<1>5. PICK A \in Seq(Items) : A = Append(admitted[k], i) /\ ToSet(A) = ToSet(admitted[k]) \cup {i}
  BY <1>4, OneAppended
<1>6. admitted' = [admitted EXCEPT ![k] = A]
  BY <1>1, <1>3, <1>5 DEF Admit
<1>7. bufDown' = bufDown /\ handled' = handled /\ ended' = ended /\ lost' = lost
  BY <1>1 DEF Admit, fates
<1>8. \A j \in Items : call'[j] = IF j = i THEN "accepted" ELSE call[j]
  BY <1>1, CallMoves
<1>9. Admissions'
  <2>1. SUFFICES ASSUME NEW j \in Items PROVE j \in ToSet(admitted'[ChatOf[j]]) <=> call'[j] = "accepted"
    BY DEF Admissions
  <2>2. ChatOf[j] \in Chats
    BY OrchestratorAssumption DEF OrchestratorAssumption
  <2>3. j \in ToSet(admitted[ChatOf[j]]) <=> call[j] = "accepted"
    BY DEF BotInv, Admissions
  <2>4. admitted'[ChatOf[j]] = IF ChatOf[j] = k THEN A ELSE admitted[ChatOf[j]]
    BY <1>4, <1>6, <2>2
  <2>5. j \in ToSet(admitted'[ChatOf[j]]) <=> j \in ToSet(admitted[ChatOf[j]]) \/ j = i
    BY <1>3, <1>5, <2>4
  <2>6. QED
    BY <1>8, <2>3, <2>5
<1>10. Claims'
  <2>1. \A j \in Items : (Holds(j)' <=> Holds(j)) /\ (OnWay(j)' => OnWay(j))
    BY <1>1, <1>7, <1>8 DEF Holds, OnWay
  <2>2. QED
    BY <1>1, <2>1, ClaimsStay DEF BotInv
<1>11. SyncFirst' /\ Once'
  BY <1>1, <1>7, AdmitRouted, OnceStays DEF BotInv
<1>12. EntryTyping' /\ CacheTyping' /\ Ending'
  BY <1>1, <1>7, CallMoves DEF BotInv, EntryTyping, CacheTyping, cacheVars, Ending
<1>13. QED
  BY <1>2, <1>9, <1>10, <1>11, <1>12 DEF BotInv

(* What was accepted and is on its way stands in the line of its chat. *)
LEMMA OnWayPasses ==
  ASSUME BotInv, NEW i \in Items, OnWay(i), call[i] \notin {"claimed", "failing"} PROVE Passing(i)
<1>1. call[i] = "accepted" /\ i \notin ended /\ i \notin lost
  BY DEF OnWay
<1>2. ChatOf[i] \in Chats
  BY OrchestratorAssumption DEF OrchestratorAssumption
<1>3. i \in ToSet(admitted[ChatOf[i]])
  BY <1>1 DEF BotInv, Admissions
<1>4. NothingVanishes
  BY PlacesFromInv DEF BotInv
<1>5. i \in ToSet(Line(ChatOf[i]))
  BY <1>1, <1>2, <1>3, <1>4 DEF NothingVanishes
<1>6. QED
  BY <1>5 DEF Passing

LEMMA ExpireKeeps == ASSUME BotInv, NEW m \in Messages, Expire(m) PROVE BotInv'
<1>1. /\ m \in claimed /\ claimed' = claimed \ {m} /\ expired' = expired \cup {m}
      /\ \A i \in Items : MsgOf[i] = m => call[i] \notin {"claimed", "failing"}
      /\ late' = IF \E i \in Items : MsgOf[i] = m /\ Passing(i) THEN late \cup {m} ELSE late
      /\ UNCHANGED <<flowVars, call, cacheVars, closed, run>>
  BY DEF Expire
<1>2. /\ admitted' = admitted /\ bufDown' = bufDown /\ ended' = ended /\ lost' = lost
      /\ UNCHANGED <<queue, hand, admitted, fates>> /\ late \subseteq late' /\ late' \subseteq late \cup {m}
  BY <1>1 DEF flowVars, fates
<1>3. FlowInv'
  BY <1>1, FlowQuiet DEF BotInv
<1>4. \A j \in Items : (Holds(j)' <=> Holds(j)) /\ (OnWay(j)' <=> OnWay(j))
  BY <1>1, <1>2 DEF Holds, OnWay
<1>5. \A j \in Items : OnWay(j) /\ MsgOf[j] = m => m \in late'
  BY <1>1, OnWayPasses
<1>6. Claims'
  <2>1. \A j \in Items : Holds(j)' => MsgOf[j] \in claimed' \cup expired'
    BY <1>1, <1>4 DEF BotInv, Claims
  <2>2. \A j, l \in Items : Twins(j, l) /\ Holds(j)' /\ Holds(l)' => MsgOf[j] \in expired'
    BY <1>1, <1>4 DEF BotInv, Claims
  <2>3. \A j \in Items : OnWay(j)' => MsgOf[j] \in claimed' \cup late'
    BY <1>1, <1>2, <1>4, <1>5 DEF BotInv, Claims
  <2>4. \A j, l \in Items : Twins(j, l) /\ OnWay(j)' /\ OnWay(l)' => MsgOf[j] \in late'
    BY <1>2, <1>4 DEF BotInv, Claims
  <2>5. \A c \in claimed' : \E j \in Items : MsgOf[j] = c /\ Holds(j)'
    BY <1>1, <1>4 DEF BotInv, Claims
  <2>6. QED
    BY <2>1, <2>2, <2>3, <2>4, <2>5 DEF Claims, Twins
<1>7. SyncFirst' /\ Once' /\ CacheTyping'
  BY <1>1, <1>2, ChainStill
<1>8. EntryTyping' /\ Admissions' /\ Ending'
  BY <1>1, <1>2 DEF BotInv, EntryTyping, Admissions, Ending
<1>9. QED
  BY <1>3, <1>6, <1>7, <1>8 DEF BotInv

LEMMA ChainStep ==
  ASSUME BotInv, NEW n \in Nodes, NEW k \in Chats, Chain(n, k)
  PROVE  NodeStep(n, k) /\ Once' /\ CacheTyping'
<1>0. late' = late /\ expired' = expired
  BY DEF Chain
<1>1. CASE (Pick(n, k) \/ Collect(n, k) \/ Send(n, k) \/ SendClosed(n, k) \/ Release(n, k)) /\ UNCHANGED cacheVars
  <2>1. NodeStep(n, k)
    BY <1>1 DEF NodeStep
  <2>2. handled' = handled
    BY <1>1 DEF Pick, Collect, Send, SendClosed, Release, fates
  <2>3. Once'
    BY <1>0, <1>1, <2>1, <2>2, NodeFacts, OnceStays DEF BotInv
  <2>4. CacheTyping'
    BY <1>1 DEF BotInv, CacheTyping, cacheVars
  <2>5. QED
    BY <2>1, <2>3, <2>4
<1>2. CASE Domain(n, k)
  BY <1>0, <1>2, DomainStep
<1>3. QED
  BY <1>1, <1>2 DEF Chain

LEMMA ChainKeeps == ASSUME BotInv, NEW n \in Nodes, NEW k \in Chats, Chain(n, k) PROVE BotInv'
<1>1. NodeStep(n, k) /\ Once' /\ CacheTyping'
  BY ChainStep
<1>2. FlowInv' /\ SyncFirst'
  BY <1>1, NodeKeeps, NodeRouted DEF BotInv
<1>3. /\ call' = call /\ claimed' = claimed /\ expired' = expired /\ late' = late /\ closed' = closed
      /\ run' = run /\ admitted' = admitted /\ bufDown' = bufDown
      /\ ended \subseteq ended' /\ lost \subseteq lost'
  BY <1>1, NodeFacts DEF Chain
<1>4. \A j \in Items : (Holds(j)' <=> Holds(j)) /\ (OnWay(j)' => OnWay(j))
  BY <1>3 DEF Holds, OnWay
<1>5. Claims'
  BY <1>3, <1>4, ClaimsStay DEF BotInv
<1>6. EntryTyping' /\ Admissions' /\ Ending'
  BY <1>1, <1>3 DEF BotInv, EntryTyping, Admissions, Ending
<1>7. QED
  BY <1>1, <1>2, <1>5, <1>6 DEF BotInv

(* Run looks at the chain and closes it, and moves nothing. *)
LEMMA RunKeeps ==
  ASSUME BotInv, UNCHANGED <<queue, hand, admitted, fates>>, UNCHANGED entryVars, FlowInv',
         closed' \in BOOLEAN, Ending',
         run' \in [at : {"serving", "pending", "active", "idle", "expired", "buffers",
                         "pools", "wait", "returned"}, left : SUBSET Nodes]
  PROVE  BotInv'
<1>1. /\ admitted' = admitted /\ ended' = ended /\ lost' = lost
      /\ call' = call /\ claimed' = claimed /\ expired' = expired /\ late' = late /\ UNCHANGED cacheVars
  BY DEF fates, entryVars, cacheVars
<1>2. \A j \in Items : (Holds(j)' <=> Holds(j)) /\ (OnWay(j)' => OnWay(j))
  BY <1>1 DEF Holds, OnWay
<1>3. Claims'
  BY <1>1, <1>2, ClaimsStay DEF BotInv
<1>4. SyncFirst' /\ Once' /\ CacheTyping'
  BY <1>1, ChainStill
<1>5. EntryTyping' /\ Admissions'
  BY <1>1 DEF BotInv, EntryTyping, Admissions
<1>6. QED
  BY <1>3, <1>4, <1>5 DEF BotInv

RunPlaces == {"serving", "pending", "active", "idle", "expired", "buffers", "pools", "wait", "returned"}

LEMMA GoesTo ==
  ASSUME NEW at \in RunPlaces, NEW left \in SUBSET Nodes, GoTo(at, left)
  PROVE  /\ run' \in [at : {"serving", "pending", "active", "idle", "expired", "buffers",
                            "pools", "wait", "returned"}, left : SUBSET Nodes]
         /\ run'.at = at
  BY DEF GoTo, RunPlaces

LEMMA DrainKeeps ==
  ASSUME BotInv, UNCHANGED <<flowVars, entryVars>>, closed' \in BOOLEAN,
         NEW at \in RunPlaces, NEW left \in SUBSET Nodes, GoTo(at, left),
         at \in {"pools", "wait", "returned"} => run.at \in {"pools", "wait", "returned"}
  PROVE  BotInv'
<1>1. UNCHANGED <<queue, hand, admitted, fates>> /\ bufDown' = bufDown /\ UNCHANGED flowVars /\ UNCHANGED entryVars
  BY DEF flowVars
<1>2. FlowInv'
  BY <1>1, FlowQuiet DEF BotInv
<1>3. Ending'
  BY <1>1, GoesTo DEF BotInv, Ending
<1>4. QED
  BY <1>1, <1>2, <1>3, GoesTo, RunKeeps

LEMMA ContextDoneKeeps == ASSUME BotInv, ContextDone PROVE BotInv'
<1>1. \E at \in RunPlaces, left \in SUBSET Nodes : GoTo(at, left) /\ at \in {"pending", "expired"}
  <2>1. "pending" \in RunPlaces /\ "expired" \in RunPlaces /\ Nodes \in SUBSET Nodes /\ {} \in SUBSET Nodes
    BY DEF RunPlaces
  <2>2. QED
    BY <2>1 DEF ContextDone
<1>2. UNCHANGED <<flowVars, entryVars>> /\ closed' \in BOOLEAN
  BY DEF ContextDone, BotInv, EntryTyping
<1>3. QED
  BY <1>1, <1>2, DrainKeeps

LEMMA DeadlineKeeps == ASSUME BotInv, Deadline PROVE BotInv'
<1>1. "expired" \in RunPlaces /\ {} \in SUBSET Nodes /\ GoTo("expired", {})
  BY DEF RunPlaces, Deadline
<1>2. UNCHANGED <<flowVars, entryVars>> /\ closed' \in BOOLEAN
  BY DEF Deadline, BotInv, EntryTyping
<1>3. QED
  BY <1>1, <1>2, DrainKeeps

LEMMA ReadKeeps == ASSUME BotInv, NEW n \in Nodes, ReadPending(n) \/ ReadActive(n) PROVE BotInv'
<1>1. \E at \in RunPlaces, left \in SUBSET Nodes : GoTo(at, left) /\ at \in {"pending", "active", "idle"}
  <2>1. /\ "pending" \in RunPlaces /\ "active" \in RunPlaces /\ "idle" \in RunPlaces
        /\ Nodes \in SUBSET Nodes /\ {} \in SUBSET Nodes /\ run.left \ {n} \in SUBSET Nodes
    BY DEF RunPlaces, BotInv, EntryTyping
  <2>2. CASE ReadPending(n)
    <3>1. GoTo("pending", Nodes) \/ GoTo("active", Nodes) \/ GoTo("pending", run.left \ {n})
      BY <2>2 DEF ReadPending
    <3>2. QED
      BY <2>1, <3>1
  <2>3. CASE ReadActive(n)
    <3>1. GoTo("pending", Nodes) \/ GoTo("idle", {}) \/ GoTo("active", run.left \ {n})
      BY <2>3 DEF ReadActive
    <3>2. QED
      BY <2>1, <3>1
  <2>4. QED
    BY <2>2, <2>3
<1>2. UNCHANGED <<flowVars, entryVars>> /\ closed' \in BOOLEAN
  BY DEF ReadPending, ReadActive, BotInv, EntryTyping
<1>3. QED
  BY <1>1, <1>2, DrainKeeps

LEMMA RaiseClosedKeeps == ASSUME BotInv, RaiseClosed PROVE BotInv'
<1>1. "buffers" \in RunPlaces /\ {} \in SUBSET Nodes /\ GoTo("buffers", {})
  BY DEF RunPlaces, RaiseClosed
<1>2. UNCHANGED <<flowVars, entryVars>> /\ closed' \in BOOLEAN
  BY DEF RaiseClosed
<1>3. QED
  BY <1>1, <1>2, DrainKeeps

LEMMA ReturnKeeps == ASSUME BotInv, Return PROVE BotInv'
<1>1. "returned" \in RunPlaces /\ {} \in SUBSET Nodes /\ GoTo("returned", {}) /\ run.at = "wait"
  BY DEF RunPlaces, Return
<1>2. UNCHANGED <<flowVars, entryVars>> /\ closed' \in BOOLEAN
  BY DEF Return, BotInv, EntryTyping
<1>3. QED
  BY <1>1, <1>2, DrainKeeps

LEMMA CloseNodeBufferKeeps == ASSUME BotInv, NEW n \in Nodes, CloseNodeBuffer(n) PROVE BotInv'
<1>1. PICK at \in RunPlaces : /\ at = IF bufDown' = Nodes THEN "pools" ELSE "buffers"
                             /\ GoTo(at, {}) /\ CloseBuffer(n) /\ UNCHANGED <<entryVars, closed>>
  BY DEF CloseNodeBuffer, RunPlaces
<1>2. UNCHANGED <<queue, hand, admitted, fates>> /\ FlowInv'
  BY <1>1, CloseBufferKeeps DEF BotInv, CloseBuffer
<1>3. Ending' /\ closed' \in BOOLEAN
  BY <1>1, GoesTo DEF Ending, BotInv, EntryTyping
<1>4. QED
  BY <1>1, <1>2, <1>3, GoesTo, RunKeeps

LEMMA CloseNodePoolKeeps == ASSUME BotInv, NEW n \in Nodes, CloseNodePool(n) PROVE BotInv'
<1>1. PICK at \in RunPlaces : /\ at = IF poolDown' = Nodes THEN "wait" ELSE "pools"
                             /\ GoTo(at, {}) /\ ClosePool(n) /\ UNCHANGED <<entryVars, closed>>
                             /\ run.at = "pools"
  BY DEF CloseNodePool, RunPlaces
<1>2. UNCHANGED <<queue, hand, admitted, fates>> /\ FlowInv' /\ bufDown' = bufDown
  BY <1>1, ClosePoolKeeps DEF BotInv, ClosePool
<1>3. Ending' /\ closed' \in BOOLEAN
  BY <1>1, <1>2, GoesTo DEF Ending, BotInv, EntryTyping
<1>4. QED
  BY <1>1, <1>2, <1>3, GoesTo, RunKeeps

LEMMA StutterKeeps == ASSUME BotInv, UNCHANGED vars PROVE BotInv'
<1>1. /\ UNCHANGED flowVars /\ UNCHANGED entryVars /\ UNCHANGED <<queue, hand, admitted, fates>>
      /\ closed' = closed /\ run' = run /\ bufDown' = bufDown
  BY DEF vars, flowVars
<1>2. FlowInv'
  BY <1>1, FlowQuiet DEF BotInv
<1>3. QED
  BY <1>1, <1>2, RunKeeps DEF BotInv, EntryTyping, Ending

LEMMA BotStarts == Init => BotInv
<1>. SUFFICES ASSUME Init PROVE BotInv
  OBVIOUS
<1>1. FlowInv /\ FlowInit
  BY FlowStarts DEF Init
<1>2. EntryTyping /\ CacheTyping /\ Ending
  <2>1. <<>> \in Seq(Messages) /\ Len(<<>>) = 0
    OBVIOUS
  <2>2. CacheTyping
    BY <2>1, BotAssumption DEF Init, CacheTyping, BotAssumption
  <2>3. QED
    BY <2>2 DEF Init, EntryTyping, Ending
<1>3. \A i \in Items : call[i] = "new"
  BY DEF Init
<1>4. Claims
  BY <1>3 DEF Init, Claims, Holds, OnWay
<1>5. Routed = {} /\ Once
  BY <1>1 DEF FlowInit, Routed, Once
<1>6. ToSet(<<>>) = {}
  BY DEF ToSet
<1>7. Admissions
  <2>1. \A i \in Items : ChatOf[i] \in Chats
    BY OrchestratorAssumption DEF OrchestratorAssumption
  <2>2. QED
    BY <1>1, <1>3, <1>6, <2>1 DEF FlowInit, Admissions
<1>8. SyncFirst
  <2>1. \A n \in Nodes, k \in Chats : hand[n][k] = FreeHand /\ queue[n][k] = <<>>
    BY <1>1 DEF FlowInit
  <2>2. FreeHand.batch = <<>> /\ FreeHand.hops = <<>>
    BY DEF FreeHand
  <2>3. QED
    BY <1>6, <2>1, <2>2 DEF SyncFirst, RoutedHand
<1>9. QED
  BY <1>1, <1>2, <1>4, <1>5, <1>7, <1>8 DEF BotInv

LEMMA BotInvariant == Spec => []BotInv
<1>1. BotInv /\ [Next]_vars => BotInv'
  <2>1. SUFFICES ASSUME BotInv, [Next]_vars PROVE BotInv'
    OBVIOUS
  <2>2. CASE \E i \in Items : Calls(i)
    BY <2>1, <2>2, EnterKeeps, DisownKeeps, ClaimKeeps, AcceptKeeps, FailKeeps, ForgetKeeps DEF Calls
  <2>3. CASE \E m \in Messages : Expire(m)
    BY <2>1, <2>3, ExpireKeeps
  <2>4. CASE \E n \in Nodes, k \in Chats : Chain(n, k)
    BY <2>1, <2>4, ChainKeeps
  <2>5. CASE ContextDone \/ Deadline
    BY <2>1, <2>5, ContextDoneKeeps, DeadlineKeeps
  <2>6. CASE Shutdown
    BY <2>1, <2>6, ReadKeeps, CloseNodeBufferKeeps, CloseNodePoolKeeps, RaiseClosedKeeps, ReturnKeeps DEF Shutdown
  <2>7. CASE UNCHANGED vars
    BY <2>1, <2>7, StutterKeeps
  <2>8. QED
    BY <2>1, <2>2, <2>3, <2>4, <2>5, <2>6, <2>7 DEF Next
<1>2. QED
  BY <1>1, BotStarts, PTL DEF Spec

(* The state of the bot is well formed, and capacities and pool sizes hold in it. *)
THEOREM BotTypeCorrect == Spec => []BotTypeOK
<1>1. BotInv => BotTypeOK
  BY TypesFromInv DEF BotInv, BotTypeOK, EntryTyping, CacheTyping
<1>2. QED
  BY <1>1, BotInvariant, PTL

(* The agent answers a message twice only when its claim ran out while the first copy was still on
   its way, or ran out and the chat's cache had forgotten the message; a command runs twice only
   after its claim ran out: for every number of events, every size of the cache and of the
   buffers (handler.go 46, conversation/cache.go 161, ingest.go). *)
THEOREM BotHandledOnce == Spec => []HandledOnce
<1>1. BotInv => HandledOnce
  <2>1. SUFFICES ASSUME BotInv, NEW i \in Items, NEW j \in Items, MsgOf[i] = MsgOf[j], i # j
                 PROVE  /\ <<"agent", i>> \in handled /\ <<"agent", j>> \in handled =>
                             MsgOf[i] \in late \/ MsgOf[i] \in expired \cap evicted
                        /\ <<"command", i>> \in handled /\ <<"command", j>> \in handled => MsgOf[i] \in expired
    BY DEF HandledOnce
  <2>2. Twins(i, j)
    BY <2>1 DEF Twins
  <2>3. <<"agent", i>> \in handled /\ <<"agent", j>> \in handled =>
          MsgOf[i] \in late \/ MsgOf[i] \in expired \cap evicted
    BY <2>1, <2>2 DEF BotInv, Once
  <2>4. ASSUME <<"command", i>> \in handled, <<"command", j>> \in handled PROVE MsgOf[i] \in expired
    <3>1. call[i] = "accepted" /\ call[j] = "accepted"
      BY <2>1, <2>4, SeenAccepted DEF Nodes, BotInv
    <3>2. QED
      BY <2>1, <2>2, <3>1 DEF BotInv, Claims, Holds
  <2>5. QED
    BY <2>3, <2>4
<1>2. QED
  BY <1>1, BotInvariant, PTL

(* A refused event leaves neither a claim nor a trace in the chain. *)
THEOREM BotRefusal == Spec => []RefusalLeavesNothing
<1>1. BotInv => RefusalLeavesNothing
  <2>1. SUFFICES ASSUME BotInv PROVE RefusalLeavesNothing
    OBVIOUS
  <2>2. \A m \in claimed : \E i \in Items : MsgOf[i] = m /\ call[i] \in {"claimed", "failing", "accepted"}
    BY <2>1 DEF BotInv, Claims, Holds
  <2>3. ASSUME NEW i \in Items, call[i] \in {"failing", "refused"}
        PROVE  i \notin ToSet(admitted[ChatOf[i]]) /\ \A n \in Nodes : <<n, i>> \notin handled
    <3>1. call[i] # "accepted"
      BY <2>3
    <3>2. i \notin ToSet(admitted[ChatOf[i]])
      BY <2>1, <3>1 DEF BotInv, Admissions
    <3>3. \A n \in Nodes : <<n, i>> \notin handled
      BY <2>1, <3>1, SeenAccepted DEF BotInv
    <3>4. QED
      BY <3>2, <3>3
  <2>4. QED
    BY <2>2, <2>3 DEF RefusalLeavesNothing
<1>2. QED
  BY <1>1, BotInvariant, PTL

(* AcceptEvent and Run use the chain in no other way than the orchestrator on its own allows:
   every behaviour of the bot is one of the chain. *)
THEOREM BotIsFlow == Spec => FlowSpec
<1>1. Init => FlowInit
  BY DEF Init
<1>2. BotInv /\ [Next]_vars => [FlowNext]_flowVars
  <2>1. SUFFICES ASSUME BotInv, [Next]_vars PROVE FlowNext \/ UNCHANGED flowVars
    BY DEF flowVars
  <2>2. CASE \E i \in Items : Calls(i)
    <3>1. PICK i \in Items : Calls(i)
      BY <2>2
    <3>2. CASE Accept(i)
      BY <2>1, <3>2, AcceptIsFresh DEF FlowNext
    <3>3. CASE Enter(i) \/ Disown(i) \/ Claim(i) \/ Fail(i) \/ Forget(i)
      BY <3>3 DEF Enter, Disown, Claim, Fail, Forget
    <3>4. QED
      BY <3>1, <3>2, <3>3 DEF Calls
  <2>3. CASE \E m \in Messages : Expire(m)
    BY <2>3 DEF Expire
  <2>4. CASE \E n \in Nodes, k \in Chats : Chain(n, k)
    BY <2>1, <2>4, ChainStep DEF FlowNext
  <2>5. CASE ContextDone \/ Deadline
    BY <2>5 DEF ContextDone, Deadline
  <2>6. CASE Shutdown
    <3>1. CASE \E n \in Nodes : ReadPending(n) \/ ReadActive(n)
      BY <3>1 DEF ReadPending, ReadActive
    <3>2. CASE \E n \in Nodes : CloseNodeBuffer(n)
      BY <3>2 DEF CloseNodeBuffer, FlowNext
    <3>3. CASE \E n \in Nodes : CloseNodePool(n)
      <4>1. PICK n \in Nodes : run.at = "pools" /\ ClosePool(n)
        BY <3>3 DEF CloseNodePool
      <4>2. bufDown = Nodes
        BY <2>1, <4>1 DEF BotInv, Ending
      <4>3. QED
        BY <4>1, <4>2 DEF FlowNext
    <3>4. CASE RaiseClosed \/ Return
      BY <3>4 DEF RaiseClosed, Return
    <3>5. QED
      BY <2>6, <3>1, <3>2, <3>3, <3>4 DEF Shutdown
  <2>7. CASE UNCHANGED vars
    BY <2>7 DEF vars
  <2>8. QED
    BY <2>1, <2>2, <2>3, <2>4, <2>5, <2>6, <2>7 DEF Next
<1>3. QED
  BY <1>1, <1>2, BotInvariant, PTL DEF Spec, FlowSpec

-----------------------------------------------------------------------------
(* Waiting for room, and the contract of a node *)

(* What the goroutine of node n that holds chat k, or a free one, is not kept from doing: a
   send waits for room unless the buffer is closed, everything else goes on by itself. *)
CanMove(n, k) ==
  LET h == hand[n][k] IN
  \/ h.at = "free" /\ queue[n][k] # <<>> /\ n \notin poolDown /\ Active(n) < Concurrency[n]
  \/ h.at = "drain" /\ queue[n][k] # <<>>
  \/ h.at \in {"handle", "more"}
  \/ h.at = "send" /\ (Head(h.hops).to \in bufDown \/ HasRoom(Head(h.hops).to, k))

(* Full buffers never make the nodes wait for one another in a circle: as long as the pools are
   up and something is on its way, some goroutine can go on (orchestrator.send puts with the
   context of Run, so nothing else ends a wait for room). *)
NeverStuck ==
  poolDown = {} /\ (\E k \in Chats : Line(k) # <<>>) => \E n \in Nodes, k \in Chats : CanMove(n, k)

(* A goroutine that is about to take a batch finds one, and a batch it has taken is not empty. *)
Ready ==
  \A n \in Nodes, k \in Chats :
    /\ hand[n][k].at = "drain" => queue[n][k] # <<>>
    /\ hand[n][k].at = "handle" => hand[n][k].batch # <<>>

ChainInv == FlowInv /\ Ready

(* Only the goroutine that holds a chat takes from its queue. *)
LEMMA ReadyKept ==
  ASSUME FlowInv, Ready, NEW n \in Nodes, NEW k \in Chats, NEW h \in HandRecords, HandFits(n, h), SetHand(n, k, h),
         \A m \in Nodes, j \in Chats : (m = n /\ j = k) \/ queue[m][j] = <<>> \/ queue'[m][j] # <<>>,
         h.at = "drain" => queue'[n][k] # <<>>, h.at = "handle" => h.batch # <<>>
  PROVE  Ready'
<1>1. \A m \in Nodes, j \in Chats : hand'[m][j] = IF m = n /\ j = k THEN h ELSE hand[m][j]
  BY HandSet DEF FlowInv
<1>2. QED
  BY <1>1 DEF Ready

LEMMA PickReady == ASSUME FlowInv, Ready, NEW n \in Nodes, NEW k \in Chats, Pick(n, k) PROVE Ready'
<1>1. PICK h \in HandRecords : h = [FreeHand EXCEPT !.at = "drain"] /\ h.at = "drain" /\ HandFits(n, h)
  BY DrainHand
<1>2. SetHand(n, k, h) /\ queue' = queue /\ queue[n][k] # <<>>
  BY <1>1 DEF Pick
<1>3. QED
  BY <1>1, <1>2, ReadyKept

LEMMA ReleaseReady == ASSUME FlowInv, Ready, NEW n \in Nodes, NEW k \in Chats, Release(n, k) PROVE Ready'
<1>1. FreeHand \in HandRecords /\ FreeHand.at = "free" /\ HandFits(n, FreeHand)
  BY DEF FreeHand, HandRecords, HandFits
<1>2. SetHand(n, k, FreeHand) /\ queue' = queue
  BY DEF Release
<1>. HIDE DEF FreeHand
<1>3. QED
  BY <1>1, <1>2, ReadyKept

LEMMA CollectReady == ASSUME FlowInv, Ready, NEW n \in Nodes, NEW k \in Chats, Collect(n, k) PROVE Ready'
<1>1. PICK p \in Seq(Items) : p = queue[n][k]
  BY DEF FlowInv, FlowTyping
<1>2. PICK c \in 1..MaxBatch : /\ c <= Len(p)
                              /\ QueueIs(n, k, SubSeq(p, c + 1, Len(p)))
                              /\ SetHand(n, k, [FreeHand EXCEPT !.at = "handle", !.batch = SubSeq(p, 1, c)])
  BY <1>1 DEF Collect, QueueIs
<1>3. c \in 1..Len(p)
  BY <1>1, <1>2, OrchestratorAssumption DEF OrchestratorAssumption
<1>4. PICK b \in Seq(Items) : b = SubSeq(p, 1, c) /\ b # <<>>
  <2>1. PICK b \in Seq(Items) : b = SubSeq(p, 1, c)
    BY <1>3, FirstOnes
  <2>2. Len(b) = c /\ c # 0
    BY <1>3, <2>1
  <2>3. b # <<>>
    BY <2>2
  <2>4. QED
    BY <2>1, <2>3
<1>5. PICK q \in Seq(Items) : q = SubSeq(p, c + 1, Len(p)) /\ QueueIs(n, k, q)
  BY <1>2, <1>3, FirstOnesGone
<1>6. PICK h \in HandRecords : SetHand(n, k, h) /\ HandFits(n, h) /\ h.at = "handle" /\ h.batch = b
  BY <1>2, <1>4, BatchHand
<1>7. \A m \in Nodes, j \in Chats : queue'[m][j] = IF m = n /\ j = k THEN q ELSE queue[m][j]
  <2>1. FlowTyping /\ QueueIs(n, k, q)
    BY <1>5 DEF FlowInv
  <2>2. QED
    BY <2>1, QueueSet
<1>8. QED
  BY <1>4, <1>6, <1>7, ReadyKept

(* A chain whose queues only grow, in a step that ends in the record h *)
LEMMA SendReady == ASSUME FlowInv, Ready, NEW n \in Nodes, NEW k \in Chats, Send(n, k) PROVE Ready'
<1>1. PICK hops \in Seq(Hops), h \in HandRecords :
           /\ hops = hand[n][k].hops /\ hops # <<>> /\ HandFits(n, h) /\ SetHand(n, k, h)
           /\ h.at \in {"more", "send"} /\ h.hops = Tail(hops)
           /\ Head(hops).to \in Nodes /\ Slot[Head(hops).to] = Slot[n] - 2 /\ Head(hops).item \in Items
  BY HopDoneFacts DEF Send
<1>2. PICK to \in Nodes, i \in Items : to = Head(hops).to /\ i = Head(hops).item
  BY <1>1
<1>3. PICK p \in Seq(Items) : p = queue[to][k]
  BY DEF FlowInv, FlowTyping
<1>4. PICK q \in Seq(Items) : q = Append(p, i) /\ q # <<>>
  <2>1. PICK q \in Seq(Items) : q = Append(p, i) /\ Len(q) = Len(p) + 1 /\ ToSet(q) = ToSet(p) \cup {i}
    BY OneAppended
  <2>2. Len(q) # 0
    BY <2>1, LenProperties
  <2>3. q # <<>>
    BY <2>2
  <2>4. QED
    BY <2>1, <2>3
<1>5. QueueIs(to, k, q)
  BY <1>1, <1>2, <1>3, <1>4 DEF Send, QueueIs
<1>6. \A m \in Nodes, j \in Chats : queue'[m][j] = IF m = to /\ j = k THEN q ELSE queue[m][j]
  BY <1>5, QueueSet DEF FlowInv
<1>7. /\ h.at # "drain" /\ h.at # "handle"
      /\ \A m \in Nodes, j \in Chats : (m = n /\ j = k) \/ queue[m][j] = <<>> \/ queue'[m][j] # <<>>
  BY <1>1, <1>4, <1>6
<1>8. HandFits(n, h) /\ SetHand(n, k, h)
  BY <1>1
<1>9. QED
  BY <1>7, <1>8, ReadyKept

LEMMA SendClosedReady == ASSUME FlowInv, Ready, NEW n \in Nodes, NEW k \in Chats, SendClosed(n, k) PROVE Ready'
<1>1. PICK hops \in Seq(Hops), h \in HandRecords :
           HandFits(n, h) /\ SetHand(n, k, h) /\ h.at \in {"more", "send"}
  BY HopDoneFacts DEF SendClosed
<1>2. queue' = queue
  BY DEF SendClosed
<1>3. QED
  BY <1>1, <1>2, ReadyKept

LEMMA HandleReady ==
  ASSUME FlowInv, Ready, NEW n \in Nodes, NEW k \in Chats,
         NEW answer \in [ToSet(hand[n][k].batch) -> Answers[n]], Handle(n, k, answer)
  PROVE  Ready'
<1>1. PICK h \in HandRecords : HandFits(n, h) /\ SetHand(n, k, h) /\ h.at \in {"more", "send"}
  BY HandleFacts
<1>2. queue' = queue
  BY DEF Handle
<1>3. QED
  BY <1>1, <1>2, ReadyKept

LEMMA AdmitReady == ASSUME FlowInv, Ready, NEW i \in Items, Admit(i) PROVE Ready'
<1>1. PICK k \in Chats : k = ChatOf[i]
  BY OrchestratorAssumption DEF OrchestratorAssumption
<1>2. PICK p \in Seq(Items) : p = queue["sync"][k] /\ "sync" \in Nodes
  BY DEF FlowInv, FlowTyping, Nodes
<1>3. PICK q \in Seq(Items) : q = Append(p, i) /\ q # <<>>
  <2>1. PICK q \in Seq(Items) : q = Append(p, i) /\ Len(q) = Len(p) + 1 /\ ToSet(q) = ToSet(p) \cup {i}
    BY OneAppended
  <2>2. Len(q) # 0
    BY <2>1, LenProperties
  <2>3. q # <<>>
    BY <2>2
  <2>4. QED
    BY <2>1, <2>3
<1>4. QueueIs("sync", k, q) /\ hand' = hand
  BY <1>1, <1>2, <1>3 DEF Admit, QueueIs
<1>5. \A m \in Nodes, j \in Chats : queue'[m][j] = IF m = "sync" /\ j = k THEN q ELSE queue[m][j]
  BY <1>2, <1>4, QueueSet DEF FlowInv
<1>6. QED
  BY <1>3, <1>4, <1>5 DEF Ready

LEMMA ChainInvariant == FlowSpec => []ChainInv
<1>1. FlowInit => Ready
  BY DEF FlowInit, Ready, FreeHand
<1>2. FlowInv /\ Ready /\ [FlowNext]_flowVars => Ready'
  <2>1. SUFFICES ASSUME FlowInv, Ready, [FlowNext]_flowVars PROVE Ready'
    OBVIOUS
  <2>2. CASE \E i \in Items : Fresh(i) /\ Admit(i)
    BY <2>1, <2>2, AdmitReady
  <2>3. CASE \E n \in Nodes, k \in Chats : NodeStep(n, k)
    BY <2>1, <2>3, PickReady, CollectReady, SendReady, SendClosedReady, ReleaseReady, HandleReady DEF NodeStep
  <2>4. CASE \E n \in Nodes : CloseBuffer(n) \/ (bufDown = Nodes /\ ClosePool(n))
    BY <2>1, <2>4 DEF CloseBuffer, ClosePool, Ready
  <2>5. CASE UNCHANGED flowVars
    BY <2>1, <2>5 DEF flowVars, Ready
  <2>6. QED
    BY <2>1, <2>2, <2>3, <2>4, <2>5 DEF FlowNext
<1>3. QED
  BY <1>1, <1>2, FlowInvariant, PTL DEF FlowSpec, ChainInv

-----------------------------------------------------------------------------
(* No circle of full buffers *)

Busy(n) == \E k \in Chats : hand[n][k].at # "free" \/ queue[n][k] # <<>>

LEMMA IdleHasRoom ==
  ASSUME FlowInv, NEW n \in Nodes, ~ Busy(n), NEW k \in Chats
  PROVE  HasRoom(n, k)
<1>1. \A j \in Chats : queue[n][j] = <<>>
  BY DEF Busy
<1>2. Buffered(n) = {}
  BY <1>1 DEF Buffered, ToSet
<1>3. Total(n) = 0
  BY <1>2, FS_EmptySet DEF Total
<1>4. Len(queue[n][k]) = 0
  BY <1>1
<1>5. QED
  BY <1>3, <1>4, OrchestratorAssumption DEF HasRoom, OrchestratorAssumption

LEMMA LastBusyMoves ==
  ASSUME ChainInv, poolDown = {}, NEW n \in Nodes, Busy(n),
         \A m \in Nodes : Slot[m] = Slot[n] - 2 => ~ Busy(m)
  PROVE  \E k \in Chats : CanMove(n, k)
<1>1. CASE \A k \in Chats : hand[n][k].at = "free"
  <2>1. PICK k \in Chats : queue[n][k] # <<>>
    BY <1>1 DEF Busy
  <2>2. Held(n) = {}
    BY <1>1 DEF Held
  <2>3. Active(n) = 0 /\ Concurrency[n] \in Nat \ {0}
    BY <2>2, FS_EmptySet, OrchestratorAssumption DEF Active, OrchestratorAssumption
  <2>4. QED
    BY <1>1, <2>1, <2>3 DEF CanMove
<1>2. CASE \E k \in Chats : hand[n][k].at # "free"
  <2>1. PICK k \in Chats : hand[n][k].at # "free"
    BY <1>2
  <2>2. PICK h \in HandRecords : h = hand[n][k] /\ HandFits(n, h)
    <3>. HIDE DEF HandRecords
    <3>1. QED
      BY DEF ChainInv, FlowInv, FlowTyping
  <2>3. h.at \in {"drain", "handle", "send", "more"} /\ h.hops \in Seq(Hops)
    BY <2>1, <2>2 DEF HandRecords
  <2>4. CASE h.at = "drain"
    BY <2>2, <2>4 DEF CanMove, ChainInv, Ready
  <2>5. CASE h.at \in {"handle", "more"}
    BY <2>2, <2>5 DEF CanMove
  <2>6. CASE h.at = "send"
    <3>1. h.hops # <<>> /\ \A x \in DOMAIN h.hops : Slot[h.hops[x].to] = Slot[n] - 2
      BY <2>2, <2>6 DEF HandFits
    <3>2. Head(h.hops) \in Hops /\ 1 \in DOMAIN h.hops /\ Head(h.hops) = h.hops[1]
      BY <2>3, <3>1, HopFacts
    <3>3. PICK m \in Nodes : m = Head(h.hops).to /\ Slot[m] = Slot[n] - 2
      BY <3>1, <3>2 DEF Hops
    <3>4. HasRoom(m, k)
      BY <3>3, IdleHasRoom DEF ChainInv
    <3>5. QED
      BY <2>2, <2>6, <3>3, <3>4 DEF CanMove
  <2>7. QED
    BY <2>3, <2>4, <2>5, <2>6
<1>3. QED
  BY <1>1, <1>2

LEMMA NothingOnLine ==
  ASSUME FlowInv, \A n \in Nodes : ~ Busy(n), NEW k \in Chats
  PROVE  Line(k) = <<>>
<1>1. \A n \in Nodes : queue[n][k] = <<>> /\ hand[n][k].batch = <<>> /\ hand[n][k].hops = <<>>
  BY DEF Busy, FlowInv, FlowTyping, HandFits
<1>2. \A n \in Nodes : InHand(n, k) = <<>>
  BY <1>1 DEF InHand
<1>3. QED
  BY <1>1, <1>2 DEF Line, Nodes

(* With all pools up the chain never comes to a halt over full buffers, whatever the capacities
   and the sizes of the pools are: the last node that has work finds room in the next one. *)
THEOREM FlowNeverStuck == FlowSpec => []NeverStuck
<1>1. ChainInv => NeverStuck
  <2>1. SUFFICES ASSUME ChainInv, poolDown = {}, \E k \in Chats : Line(k) # <<>>
                 PROVE  \E n \in Nodes, k \in Chats : CanMove(n, k)
    BY DEF NeverStuck
  <2>2. \E n \in Nodes : Busy(n)
    BY <2>1, NothingOnLine DEF ChainInv
  <2>3. PICK n \in Nodes : Busy(n) /\ \A m \in Nodes : Slot[m] < Slot[n] => ~ Busy(m)
    <3>1. Nodes = {"sync", "command", "assets", "agent"}
      BY DEF Nodes
    <3>2. Slot["agent"] = 1 /\ Slot["assets"] = 3 /\ Slot["command"] = 5 /\ Slot["sync"] = 7
      BY DEF Slot
    <3>3. QED
      BY <2>2, <3>1, <3>2
  <2>4. \A m \in Nodes : Slot[m] = Slot[n] - 2 => Slot[m] < Slot[n]
    BY SlotNames DEF Slots
  <2>5. QED
    BY <2>1, <2>3, <2>4, LastBusyMoves
<1>2. QED
  BY <1>1, ChainInvariant, PTL

-----------------------------------------------------------------------------
(* A node of the chain and the contract of a pool *)

(* What node n promises the handler of its domain: the contract that the module Consumer is
   shown to keep on its own. *)
Node(n) == INSTANCE SerialPartitions WITH
  Keys <- Chats, KeyOf <- ChatOf, waiting <- queue[n],
  batch <- [k \in Chats |-> hand[n][k].batch], failed <- [k \in Chats |-> {}],
  phase <- [k \in Chats |-> IF hand[n][k].at = "handle" THEN "collecting" ELSE "free"]

(* The hands of node n as the contract sees them, and the same after a step *)
Batches(n) == [k \in Chats |-> hand[n][k].batch]
Phases(n) == [k \in Chats |-> IF hand[n][k].at = "handle" THEN "collecting" ELSE "free"]

(* What is on its way in a chat belongs to that chat. *)
LEMMA OnItsWay ==
  ASSUME FlowInv, NEW n \in Nodes, NEW k \in Chats
  PROVE  \A x \in DOMAIN InHand(n, k) : ChatOf[InHand(n, k)[x]] = k
<1>1. Known(admitted[k], Segments(k)) /\ \A i \in ToSet(admitted[k]) : ChatOf[i] = k
  BY DEF FlowInv, ChatsFine, ChatFine, Belong
<1>2. Segments(k)[Slot[n]] = InHand(n, k) /\ Slot[n] \in Slots
  BY SegmentOf, SlotNames
<1>3. QED
  BY <1>1, <1>2 DEF Known

(* A step of one goroutine at its own node, and at any other. *)
LEMMA HandsSeen ==
  ASSUME FlowInv, NEW n \in Nodes, NEW k \in Chats, NEW h \in HandRecords, HandFits(n, h), SetHand(n, k, h),
         NEW m \in Nodes
  PROVE  /\ Batches(m)' = IF m = n THEN [Batches(m) EXCEPT ![k] = h.batch] ELSE Batches(m)
         /\ Phases(m)' = IF m = n THEN [Phases(m) EXCEPT ![k] = IF h.at = "handle" THEN "collecting" ELSE "free"]
                         ELSE Phases(m)
<1>1. \A j \in Chats : hand'[m][j] = IF m = n /\ j = k THEN h ELSE hand[m][j]
  BY HandSet DEF FlowInv
<1>2. CASE m = n
  BY <1>1, <1>2 DEF Batches, Phases
<1>3. CASE m # n
  BY <1>1, <1>3 DEF Batches, Phases
<1>4. QED
  BY <1>2, <1>3

(* A goroutine whose hand is neither before nor after the step with a batch shows the contract nothing. *)
LEMMA HandUnseen ==
  ASSUME FlowInv, NEW n \in Nodes, NEW k \in Chats, NEW h \in HandRecords, HandFits(n, h), SetHand(n, k, h),
         hand[n][k].at # "handle", h.at # "handle", NEW m \in Nodes
  PROVE  Batches(m)' = Batches(m) /\ Phases(m)' = Phases(m)
<1>1. \A j \in Chats : hand'[m][j] = IF m = n /\ j = k THEN h ELSE hand[m][j]
  BY HandSet DEF FlowInv
<1>2. hand[n][k].batch = <<>> /\ h.batch = <<>>
  <2>1. PICK g \in HandRecords : g = hand[n][k] /\ HandFits(n, g)
    <3>. HIDE DEF HandRecords
    <3>1. QED
      BY DEF FlowInv, FlowTyping
  <2>2. g.at \in {"free", "drain", "send", "more"} /\ h.at \in {"free", "drain", "send", "more"}
    BY <2>1 DEF HandRecords
  <2>3. QED
    BY <2>1, <2>2 DEF HandFits
<1>3. \A j \in Chats : /\ hand'[m][j].batch = hand[m][j].batch
                       /\ hand'[m][j].at = "handle" <=> hand[m][j].at = "handle"
  BY <1>1, <1>2
<1>4. Batches(m)' = Batches(m)
  BY <1>3 DEF Batches
<1>5. Phases(m)' = Phases(m)
  BY <1>3 DEF Phases
<1>6. QED
  BY <1>4, <1>5

(* The step of a node as the contract has it *)
Seen(m) == Node(m)!Next \/ UNCHANGED <<queue[m], Batches(m), Phases(m)>>

LEMMA QuietSeen ==
  ASSUME NEW m \in Nodes, queue'[m] = queue[m], Batches(m)' = Batches(m), Phases(m)' = Phases(m)
  PROVE  Seen(m)
  BY DEF Seen

(* An item comes in. *)
LEMMA AcceptSeen ==
  ASSUME FlowTyping, NEW n \in Nodes, NEW k \in Chats, NEW i \in Items, ChatOf[i] = k,
         QueueIs(n, k, Append(queue[n][k], i)), NEW m \in Nodes,
         Batches(m)' = Batches(m), Phases(m)' = Phases(m)
  PROVE  Seen(m)
<1>1. queue \in [Nodes -> [Chats -> Seq(Items)]] /\ queue' = [queue EXCEPT ![n][k] = Append(queue[n][k], i)]
  BY DEF FlowTyping, QueueIs
<1>2. CASE m = n
  <2>1. queue'[m] = [queue[m] EXCEPT ![k] = Append(queue[m][k], i)]
    BY <1>1, <1>2
  <2>2. Node(m)!Accept(i)
    BY <2>1 DEF Node!Accept, Batches, Phases
  <2>3. QED
    BY <2>2 DEF Seen, Node!Next
<1>3. CASE m # n
  <2>1. queue'[m] = queue[m]
    BY <1>1, <1>3
  <2>2. QED
    BY <2>1, QuietSeen
<1>4. QED
  BY <1>2, <1>3

LEMMA AdmitSeen == ASSUME FlowInv, NEW i \in Items, Admit(i), NEW m \in Nodes PROVE Seen(m)
<1>1. PICK k \in Chats : k = ChatOf[i]
  BY OrchestratorAssumption DEF OrchestratorAssumption
<1>2. QueueIs("sync", k, Append(queue["sync"][k], i)) /\ hand' = hand /\ "sync" \in Nodes
  BY <1>1 DEF Admit, QueueIs, Nodes
<1>3. Batches(m)' = Batches(m) /\ Phases(m)' = Phases(m)
  BY <1>2 DEF Batches, Phases
<1>4. FlowTyping /\ ChatOf[i] = k
  BY <1>1 DEF FlowInv
<1>5. QED
  BY <1>2, <1>3, <1>4, AcceptSeen

LEMMA PickSeen ==
  ASSUME FlowInv, NEW n \in Nodes, NEW k \in Chats, Pick(n, k), NEW m \in Nodes PROVE Seen(m)
<1>1. PICK h \in HandRecords : h = [FreeHand EXCEPT !.at = "drain"] /\ h.at = "drain" /\ HandFits(n, h)
  BY DrainHand
<1>2. SetHand(n, k, h) /\ queue' = queue /\ hand[n][k].at = "free"
  BY <1>1 DEF Pick
<1>3. Batches(m)' = Batches(m) /\ Phases(m)' = Phases(m)
  BY <1>1, <1>2, HandUnseen
<1>4. QED
  BY <1>2, <1>3, QuietSeen

LEMMA ReleaseSeen ==
  ASSUME FlowInv, NEW n \in Nodes, NEW k \in Chats, Release(n, k), NEW m \in Nodes PROVE Seen(m)
<1>1. FreeHand \in HandRecords /\ FreeHand.at = "free" /\ HandFits(n, FreeHand)
  BY DEF FreeHand, HandRecords, HandFits
<1>2. SetHand(n, k, FreeHand) /\ queue' = queue /\ hand[n][k].at = "more"
  BY DEF Release
<1>. HIDE DEF FreeHand
<1>3. Batches(m)' = Batches(m) /\ Phases(m)' = Phases(m)
  BY <1>1, <1>2, HandUnseen
<1>4. QED
  BY <1>2, <1>3, QuietSeen

LEMMA SendClosedSeen ==
  ASSUME FlowInv, NEW n \in Nodes, NEW k \in Chats, SendClosed(n, k), NEW m \in Nodes PROVE Seen(m)
<1>1. PICK hops \in Seq(Hops), h \in HandRecords :
           HandFits(n, h) /\ SetHand(n, k, h) /\ h.at \in {"more", "send"}
  BY HopDoneFacts DEF SendClosed
<1>2. queue' = queue /\ hand[n][k].at = "send" /\ h.at # "handle"
  BY <1>1 DEF SendClosed
<1>3. Batches(m)' = Batches(m) /\ Phases(m)' = Phases(m)
  BY <1>1, <1>2, HandUnseen
<1>4. QED
  BY <1>2, <1>3, QuietSeen

LEMMA SendSeen ==
  ASSUME FlowInv, NEW n \in Nodes, NEW k \in Chats, Send(n, k), NEW m \in Nodes PROVE Seen(m)
<1>1. PICK hops \in Seq(Hops), h \in HandRecords :
           /\ hops = hand[n][k].hops /\ hops # <<>> /\ HandFits(n, h) /\ SetHand(n, k, h)
           /\ h.at \in {"more", "send"} /\ h.hops = Tail(hops)
           /\ Head(hops).to \in Nodes /\ Slot[Head(hops).to] = Slot[n] - 2 /\ Head(hops).item \in Items
  BY HopDoneFacts DEF Send
<1>2. PICK to \in Nodes, i \in Items : to = Head(hops).to /\ i = Head(hops).item
  BY <1>1
<1>3. QueueIs(to, k, Append(queue[to][k], i)) /\ hand[n][k].at = "send" /\ h.at # "handle"
  BY <1>1, <1>2 DEF Send, QueueIs
<1>4. HandFits(n, h) /\ SetHand(n, k, h)
  BY <1>1
<1>5. Batches(m)' = Batches(m) /\ Phases(m)' = Phases(m)
  BY <1>3, <1>4, HandUnseen
<1>6. ChatOf[i] = k
  <2>1. InHand(n, k) = ItemsOf(hops)
    BY <1>1, <1>3, InHandIs DEF FlowInv, FlowTyping
  <2>2. 1 \in DOMAIN ItemsOf(hops) /\ ItemsOf(hops)[1] = i
    BY <1>1, <1>2, HopFacts, ItemsOfHops
  <2>3. QED
    BY <2>1, <2>2, OnItsWay
<1>7. FlowTyping
  BY DEF FlowInv
<1>8. QED
  BY <1>3, <1>5, <1>6, <1>7, AcceptSeen

LEMMA CollectSeen ==
  ASSUME FlowInv, NEW n \in Nodes, NEW k \in Chats, Collect(n, k), NEW m \in Nodes PROVE Seen(m)
<1>1. PICK p \in Seq(Items) : p = queue[n][k]
  BY DEF FlowInv, FlowTyping
<1>2. PICK c \in 1..MaxBatch : /\ c <= Len(p)
                              /\ QueueIs(n, k, SubSeq(p, c + 1, Len(p)))
                              /\ SetHand(n, k, [FreeHand EXCEPT !.at = "handle", !.batch = SubSeq(p, 1, c)])
  BY <1>1 DEF Collect, QueueIs
<1>3. c \in 1..Len(p) /\ hand[n][k].at \in {"drain", "more"}
  BY <1>1, <1>2, OrchestratorAssumption DEF OrchestratorAssumption, Collect
<1>4. PICK b \in Seq(Items) : b = SubSeq(p, 1, c)
  BY <1>3, FirstOnes
<1>5. PICK h \in HandRecords : SetHand(n, k, h) /\ HandFits(n, h) /\ h.at = "handle" /\ h.batch = b
  BY <1>2, <1>4, BatchHand
<1>6. queue \in [Nodes -> [Chats -> Seq(Items)]] /\ queue' = [queue EXCEPT ![n][k] = SubSeq(p, c + 1, Len(p))]
  BY <1>2 DEF FlowInv, FlowTyping, QueueIs
<1>7. /\ Batches(m)' = IF m = n THEN [Batches(m) EXCEPT ![k] = b] ELSE Batches(m)
      /\ Phases(m)' = IF m = n THEN [Phases(m) EXCEPT ![k] = "collecting"] ELSE Phases(m)
  BY <1>5, HandsSeen
<1>8. CASE m = n
  <2>1. queue'[m] = [queue[m] EXCEPT ![k] = SubSeq(p, c + 1, Len(p))]
    BY <1>6, <1>8
  <2>2. Phases(m)[k] = "free" /\ Batches(m)[k] = <<>>
    BY <1>3, <1>8 DEF Phases, Batches, FlowInv, FlowTyping, HandFits
  <2>3. b = <<>> \o b
    BY <1>4, NothingJoined
  <2>4. Batches(m)' = [Batches(m) EXCEPT ![k] = Batches(m)[k] \o SubSeq(queue[m][k], 1, c)]
    BY <1>1, <1>4, <1>7, <1>8, <2>2, <2>3
  <2>5. Node(m)!Collect(k)
    BY <1>1, <1>3, <1>7, <1>8, <2>1, <2>2, <2>4 DEF Node!Collect, Batches, Phases
  <2>6. QED
    BY <2>5 DEF Seen, Node!Next
<1>9. CASE m # n
  <2>1. queue'[m] = queue[m]
    BY <1>6, <1>9
  <2>2. QED
    BY <1>7, <1>9, <2>1, QuietSeen
<1>10. QED
  BY <1>8, <1>9

LEMMA HandleSeen ==
  ASSUME FlowInv, Ready, NEW n \in Nodes, NEW k \in Chats,
         NEW answer \in [ToSet(hand[n][k].batch) -> Answers[n]], Handle(n, k, answer), NEW m \in Nodes
  PROVE  Seen(m)
<1>1. PICK h \in HandRecords : HandFits(n, h) /\ SetHand(n, k, h) /\ h.at \in {"more", "send"}
  BY HandleFacts
<1>2. hand[n][k].at = "handle" /\ queue' = queue /\ hand[n][k].batch # <<>> /\ h.batch = <<>>
  BY <1>1 DEF Handle, Ready, HandFits
<1>3. /\ Batches(m)' = IF m = n THEN [Batches(m) EXCEPT ![k] = <<>>] ELSE Batches(m)
      /\ Phases(m)' = IF m = n THEN [Phases(m) EXCEPT ![k] = "free"] ELSE Phases(m)
  BY <1>1, <1>2, HandsSeen
<1>4. CASE m = n
  <2>1. Phases(m)[k] = "collecting" /\ Batches(m)[k] = hand[n][k].batch
    BY <1>2, <1>4 DEF Phases, Batches
  <2>2. InHand(n, k) = hand[n][k].batch
    BY <1>2, InHandIs DEF FlowInv, FlowTyping
  <2>3. \A x \in DOMAIN Batches(m)[k] : ChatOf[Batches(m)[k][x]] = k
    BY <2>1, <2>2, OnItsWay
  <2>4. \A i \in Node(m)!Range(Batches(m)[k]) : ChatOf[i] = k
    BY <2>3 DEF Node!Range
  <2>5. /\ Phases(m)[k] = "collecting" /\ Batches(m)[k] # <<>>
        /\ Batches(m)' = [Batches(m) EXCEPT ![k] = <<>>]
        /\ Phases(m)' = [Phases(m) EXCEPT ![k] = "free"] /\ queue'[m] = queue[m]
    BY <1>2, <1>3, <1>4, <2>1
  <2>6. [j \in Chats |-> {}] = [[j \in Chats |-> {}] EXCEPT ![k] = {}]
    OBVIOUS
  <2>7. Node(m)!HandleBatch(k)
    BY <2>4, <2>5, <2>6 DEF Node!HandleBatch, Batches, Phases
  <2>8. QED
    BY <2>7 DEF Seen, Node!Next
<1>5. CASE m # n
  BY <1>2, <1>3, <1>5, QuietSeen
<1>6. QED
  BY <1>4, <1>5

(* Every node of the chain keeps the contract its pool is shown to keep on its own: what the
   other nodes put into its buffer, and when, takes nothing from its batches. *)
THEOREM NodesKeepContract == ASSUME NEW n \in Nodes PROVE FlowSpec => Node(n)!Spec
<1>1. FlowInit => Node(n)!Init
  BY DEF FlowInit, Node!Init, FreeHand
<1>2. ChainInv /\ [FlowNext]_flowVars => [Node(n)!Next]_(Node(n)!vars)
  <2>1. SUFFICES ASSUME ChainInv, [FlowNext]_flowVars PROVE Seen(n)
    BY DEF Seen, Node!vars, Batches, Phases
  <2>2. CASE \E i \in Items : Fresh(i) /\ Admit(i)
    BY <2>1, <2>2, AdmitSeen DEF ChainInv
  <2>3. CASE \E m \in Nodes, k \in Chats : NodeStep(m, k)
    BY <2>1, <2>3, PickSeen, CollectSeen, SendSeen, SendClosedSeen, ReleaseSeen, HandleSeen DEF NodeStep, ChainInv
  <2>4. CASE \E m \in Nodes : CloseBuffer(m) \/ (bufDown = Nodes /\ ClosePool(m))
    BY <2>4 DEF CloseBuffer, ClosePool, Seen, Batches, Phases
  <2>5. CASE UNCHANGED flowVars
    BY <2>5 DEF flowVars, Seen, Batches, Phases
  <2>6. QED
    BY <2>1, <2>2, <2>3, <2>4, <2>5 DEF FlowNext
<1>3. QED
  BY <1>1, <1>2, ChainInvariant, PTL DEF FlowSpec, Node!Spec

-----------------------------------------------------------------------------
(* What the chain promises holds for the bot. *)

(* Redeliveries, refusals and a closing that runs into its deadline leave the order of a chat and
   the account of its messages alone, and never make the chain wait in a circle. *)
THEOREM BotKeepsOrder == Spec => [](ChatOrder /\ NothingVanishes /\ NeverStuck)
  BY BotIsFlow, FlowChatOrder, FlowNothingVanishes, FlowNeverStuck, PTL

-----------------------------------------------------------------------------
(* The bot under the shutdown of the application *)

(* Where an event waits whose text the router node has yet to store: in its buffer or in the
   batch it has in hand. *)
AtRouter(i) ==
  LET k == ChatOf[i] IN i \in ToSet(queue["sync"][k]) \cup ToSet(hand["sync"][k].batch)

(* As long as the database is open, a text that was accepted is in it or its event still waits
   for the router node; what the comment of bot/ingest.go 26-27 says of a drain that fails holds
   of everything else. *)
StoredOrWaiting ==
  DatabaseOpen => \A i \in Items : call[i] = "accepted" => i \in stored \/ AtRouter(i)

(* What has an end went through the router. *)
EndedRouted == ended \cup lost \subseteq Routed

AppInv == BotInv /\ EndedRouted /\ (DatabaseOpen => Routed \subseteq stored)

(* Outside the nodes nothing is handled, ended or lost. *)
LEMMA FatesStay ==
  ASSUME EndedRouted, UNCHANGED fates
  PROVE  EndedRouted'
  BY DEF EndedRouted, Routed, fates

LEMMA NodeEndsRouted ==
  ASSUME BotInv, EndedRouted, NEW n \in Nodes, NEW k \in Chats, NodeStep(n, k)
  PROVE  EndedRouted'
<1>1. CASE Pick(n, k) \/ Collect(n, k) \/ Send(n, k) \/ Release(n, k)
  BY <1>1, FatesStay DEF Pick, Collect, Send, Release
<1>2. CASE SendClosed(n, k)
  <2>1. PICK hops \in Seq(Hops) : hops = hand[n][k].hops /\ hops # <<>> /\ Head(hops).item \in Items
    <3>1. hand[n][k].at = "send" /\ HopDone(n, k)
      BY <1>2 DEF SendClosed
    <3>2. QED
      BY <3>1, HopDoneFacts DEF BotInv
  <2>2. Head(hops) = hops[1] /\ 1 \in DOMAIN hops
    BY <2>1, HopFacts
  <2>3. Head(hops).item \in Routed
    BY <2>1, <2>2 DEF BotInv, SyncFirst, RoutedHand
  <2>4. lost' = lost \cup {Head(hops).item} /\ handled' = handled /\ ended' = ended
    BY <1>2, <2>1 DEF SendClosed
  <2>5. QED
    BY <2>3, <2>4 DEF EndedRouted, Routed
<1>3. CASE \E answer \in [ToSet(hand[n][k].batch) -> Answers[n]] : Handle(n, k, answer)
  <2>1. PICK answer \in [ToSet(hand[n][k].batch) -> Answers[n]] : Handle(n, k, answer)
    BY <1>3
  <2>2. PICK batch \in Seq(Items), onward \in Seq(Items) :
           /\ batch = hand[n][k].batch
           /\ handled' = handled \cup ({n} \X ToSet(batch))
           /\ ended' = ended \cup (ToSet(batch) \ ToSet(onward))
    BY <2>1, HandleFacts DEF BotInv
  <2>3. ToSet(batch) \subseteq Items
    BY SetOfItems
  <2>4. Routed \subseteq Routed' /\ lost' = lost
    BY <2>1, <2>2 DEF Routed, Handle
  <2>5. ToSet(batch) \subseteq Routed'
    <3>1. CASE n = "sync"
      BY <2>2, <2>3, <3>1 DEF Routed
    <3>2. CASE n # "sync"
      BY <2>2, <2>4, <3>2 DEF BotInv, SyncFirst, RoutedHand
    <3>3. QED
      BY <3>1, <3>2
  <2>6. QED
    BY <2>2, <2>4, <2>5 DEF EndedRouted
<1>4. QED
  BY <1>1, <1>2, <1>3 DEF NodeStep

LEMMA BotEndsRouted ==
  ASSUME BotInv, EndedRouted, Next
  PROVE  EndedRouted'
<1>1. CASE \E i \in Items : Calls(i)
  <2>1. PICK i \in Items : Calls(i)
    BY <1>1
  <2>2. CASE Accept(i)
    BY <2>2, FatesStay DEF Accept, Admit
  <2>3. CASE Enter(i) \/ Disown(i) \/ Claim(i) \/ Fail(i) \/ Forget(i)
    BY <2>3, FatesStay DEF Enter, Disown, Claim, Fail, Forget, flowVars
  <2>4. QED
    BY <2>1, <2>2, <2>3 DEF Calls
<1>2. CASE \E m \in Messages : Expire(m)
  BY <1>2, FatesStay DEF Expire, flowVars
<1>3. CASE \E n \in Nodes, k \in Chats : Chain(n, k)
  BY <1>3, ChainStep, NodeEndsRouted
<1>4. CASE ContextDone \/ Deadline
  BY <1>4, FatesStay DEF ContextDone, Deadline, flowVars
<1>5. CASE Shutdown
  <2>1. CASE \E n \in Nodes : ReadPending(n) \/ ReadActive(n)
    BY <2>1, FatesStay DEF ReadPending, ReadActive, flowVars
  <2>2. CASE \E n \in Nodes : CloseNodeBuffer(n) \/ CloseNodePool(n)
    BY <2>2, FatesStay DEF CloseNodeBuffer, CloseNodePool, CloseBuffer, ClosePool
  <2>3. CASE RaiseClosed \/ Return
    BY <2>3, FatesStay DEF RaiseClosed, Return, flowVars
  <2>4. QED
    BY <1>5, <2>1, <2>2, <2>3 DEF Shutdown
<1>6. QED
  BY <1>1, <1>2, <1>3, <1>4, <1>5 DEF Next

(* The bot inside the application takes no step that it would not take on its own. *)
LEMMA BotStepIsNext == BotStep => Next
  BY DEF BotStep, Next, Calls

(* The application takes the bot with it and changes nothing in it: every behaviour of the two
   together is one of the bot, so all that was proved of the bot holds under the shutdown. *)
THEOREM AppIsBot == AppSpec => Spec
<1>1. AppInit => Init
  BY DEF AppInit
<1>2. [AppNext]_appVars => [Next]_vars
  <2>1. BotRuns => Next
    BY BotStepIsNext DEF BotRuns
  <2>2. Signal \/ WebDown \/ CallsAnswered \/ BudgetOver \/ CloseDatabase \/ MainReturns => UNCHANGED vars
    BY DEF Signal, WebDown, CallsAnswered, BudgetOver, CloseDatabase, MainReturns, GoOn
  <2>3. UNCHANGED appVars => UNCHANGED vars
    BY DEF appVars
  <2>4. QED
    BY <2>1, <2>2, <2>3 DEF AppNext
<1>3. QED
  BY <1>1, <1>2, PTL DEF AppSpec, Spec

LEMMA AppInvariant == AppSpec => []AppInv
<1>1. AppInit => EndedRouted /\ (DatabaseOpen => Routed \subseteq stored)
  BY DEF AppInit, Init, FlowInit, EndedRouted, Routed
<1>2. BotInv /\ EndedRouted /\ (DatabaseOpen => Routed \subseteq stored) /\ [AppNext]_appVars
        => EndedRouted' /\ (DatabaseOpen => Routed \subseteq stored)'
  <2>1. SUFFICES ASSUME BotInv, EndedRouted, DatabaseOpen => Routed \subseteq stored, [AppNext]_appVars
                 PROVE  EndedRouted' /\ (DatabaseOpen' => Routed' \subseteq stored')
    OBVIOUS
  <2>2. CASE BotRuns
    <3>1. EndedRouted'
      BY <2>1, <2>2, BotStepIsNext, BotEndsRouted DEF BotRuns
    <3>2. DatabaseOpen' => Routed' \subseteq stored'
      BY <2>2 DEF BotRuns, Routed, DatabaseOpen
    <3>3. QED
      BY <3>1, <3>2
  <2>3. CASE Signal \/ WebDown \/ CallsAnswered \/ BudgetOver \/ CloseDatabase \/ MainReturns
    <3>1. /\ UNCHANGED vars /\ stored' = stored
          /\ DatabaseOpen' => DatabaseOpen
      BY <2>3 DEF Signal, WebDown, CallsAnswered, BudgetOver, CloseDatabase, MainReturns, GoOn, DatabaseOpen
    <3>2. UNCHANGED fates /\ handled' = handled
      BY <3>1 DEF vars, flowVars, fates
    <3>3. Routed' = Routed
      BY <3>2 DEF Routed
    <3>4. QED
      BY <2>1, <3>1, <3>2, <3>3, FatesStay
  <2>4. CASE UNCHANGED appVars
    <3>1. UNCHANGED fates /\ handled' = handled /\ stored' = stored /\ app' = app
      BY <2>4 DEF appVars, vars, flowVars, fates
    <3>2. QED
      BY <2>1, <3>1, FatesStay DEF Routed, DatabaseOpen
  <2>5. QED
    BY <2>1, <2>2, <2>3, <2>4 DEF AppNext
<1>3. QED
  BY <1>1, <1>2, AppIsBot, BotInvariant, PTL DEF AppSpec, AppInv

(* Of the events in a line, those not waiting for the router node have been there. *)
LEMMA LineRouted ==
  ASSUME BotInv, NEW k \in Chats, NEW i \in Items, Stands(Segments(k), i)
  PROVE  i \in ToSet(queue["sync"][k]) \cup ToSet(hand["sync"][k].batch) \cup Routed
<1>1. PICK s \in Slots : \E x \in DOMAIN Segments(k)[s] : Segments(k)[s][x] = i
  BY DEF Stands
<1>2. PICK n \in Nodes : s = Slot[n] \/ s = Slot[n] + 1
  BY SlotNames
<1>3. CASE s = Slot[n] + 1
  <2>1. i \in ToSet(queue[n][k])
    BY <1>1, <1>2, <1>3, SegmentOf DEF ToSet
  <2>2. QED
    BY <2>1 DEF BotInv, SyncFirst
<1>4. CASE s = Slot[n]
  <2>1. PICK h \in HandRecords : h = hand[n][k] /\ HandFits(n, h)
    <3>. HIDE DEF HandRecords
    <3>1. QED
      BY DEF BotInv, FlowInv, FlowTyping
  <2>2. InHand(n, k) = IF h.at = "handle" THEN h.batch ELSE ItemsOf(h.hops)
    BY <2>1, InHandIs
  <2>3. PICK x \in DOMAIN InHand(n, k) : InHand(n, k)[x] = i
    BY <1>1, <1>4, SegmentOf
  <2>4. RoutedHand(n, h, Routed)
    BY <2>1 DEF BotInv, SyncFirst
  <2>5. CASE h.at = "handle"
    <3>1. i \in ToSet(h.batch)
      BY <2>2, <2>3, <2>5 DEF ToSet
    <3>2. QED
      BY <2>1, <2>4, <3>1 DEF RoutedHand
  <2>6. CASE h.at # "handle"
    <3>1. x \in DOMAIN h.hops /\ h.hops[x].item = i
      BY <2>2, <2>3, <2>6 DEF ItemsOf
    <3>2. QED
      BY <2>4, <3>1 DEF RoutedHand
  <2>7. QED
    BY <2>5, <2>6
<1>5. QED
  BY <1>2, <1>3, <1>4

(* Nothing that was accepted is without its text in the database but what waits at the router
   node: what a shutdown can lose (the finding drain_text) is the first node's backlog. *)
THEOREM AppStoredOrWaiting == AppSpec => []StoredOrWaiting
<1>1. AppInv => StoredOrWaiting
  <2>1. SUFFICES ASSUME AppInv, DatabaseOpen, NEW i \in Items, call[i] = "accepted"
                 PROVE  i \in stored \/ AtRouter(i)
    BY DEF StoredOrWaiting
  <2>2. PICK k \in Chats : k = ChatOf[i]
    BY OrchestratorAssumption DEF OrchestratorAssumption
  <2>3. i \in ToSet(admitted[k])
    BY <2>1, <2>2 DEF AppInv, BotInv, Admissions
  <2>4. Stands(Segments(k), i) \/ i \in ended \/ i \in lost
    BY <2>1, <2>3 DEF AppInv, BotInv, FlowInv, ChatsFine, ChatFine
  <2>5. CASE Stands(Segments(k), i)
    BY <2>1, <2>2, <2>5, LineRouted DEF AppInv, AtRouter
  <2>6. CASE i \in ended \/ i \in lost
    BY <2>1, <2>6 DEF AppInv, EndedRouted
  <2>7. QED
    BY <2>4, <2>5, <2>6
<1>2. QED
  BY <1>1, AppInvariant, PTL
=============================================================================

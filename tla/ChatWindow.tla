----------------------------- MODULE ChatWindow -----------------------------
(* What the message cache of a chat promises: the last Cap messages that were *)
(* added, oldest first, none of them twice.                                   *)
EXTENDS Integers, Sequences

CONSTANTS Entry, Cap

VARIABLES window, starts

LastOf(s, n) == SubSeq(s, Len(s) - (IF Len(s) < n THEN Len(s) ELSE n) + 1, Len(s))

Add(e) == /\ \A i \in DOMAIN window : window[i].msg # e.msg
          /\ window' = LastOf(Append(window, e), Cap)
          /\ UNCHANGED starts

(* the process starts again with what the database kept *)
Reload == /\ starts' = starts + 1
          /\ window' \in Seq(Entry) /\ Len(window') <= Cap
          /\ \A i, j \in DOMAIN window' : window'[i].msg = window'[j].msg => i = j

Init == window = <<>> /\ starts = 0
Next == \/ window' # window /\ \E e \in Entry : Add(e)
        \/ Reload
Spec == Init /\ [][Next]_<<window, starts>>
=============================================================================

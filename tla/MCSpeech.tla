------------------------------ MODULE MCSpeech ------------------------------
(* One chat; the first message may come a second time. *)
EXTENDS Speech, TLC
CONSTANTS m1, m2, m3

Script(a, b) == (m1 :> a) @@ (m2 :> b)
Pairs == {Script("start", "plain"), Script("plain", "plain"), Script("mention", "stop")}
Chatter == {[m \in Msgs |-> "plain"]}
=============================================================================

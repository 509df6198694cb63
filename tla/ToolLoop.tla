------------------------------- MODULE ToolLoop -------------------------------
(***************************************************************************)
(* One reply made with tools (speech/mcp_loop.go): the model is asked in     *)
(* rounds, each either its text or calls of tools, whose results and        *)
(* pictures go back to it; then the text is cut into sentences              *)
(* (speech/reply_format.go).  A text is what kind of text it is, a picture   *)
(* a model value.                                                           *)
(***************************************************************************)
EXTENDS Integers, Sequences, FiniteSets, FiniteSetsExt

CONSTANTS
  Pictures,
  Given,        (* the pictures that come with the request                   *)
  MaxRounds,    (* mcp max_tool_rounds                                       *)
  ViewLimit,    (* image_max; 0: no limit                                    *)
  CallsAtOnce,  (* bound: calls in one answer                                *)
  Sentences     (* reply_max_sentences; 0: no cutting                        *)

ASSUME ToolAssumption ==
  /\ IsFiniteSet(Pictures) /\ Given \in Seq(Pictures)
  /\ {MaxRounds, ViewLimit, CallsAtOnce, Sentences} \subseteq Nat

VARIABLES
  tlAt,       (* ask, run, correct, cut, done, failed                        *)
  tlRound,
  tlDue,      (* calls of this round not made yet: the pictures each brings  *)
  tlViewed,   (* viewed                                                      *)
  tlSeen,     (* seenImages                                                  *)
  tlShown,    (* pictures in the messages                                    *)
  tlText,     (* the kind of the last text                                   *)
  tlSaid, tlRewritten   (* sentences handed on; not the draft's own          *)

pictures == <<tlViewed, tlSeen, tlShown>>
said     == <<tlSaid, tlRewritten>>
tlVars   == <<tlAt, tlRound, tlDue, pictures, tlText, said>>

(* the pictures of the first message, as far as the limit goes *)
FirstPictures ==
  LET new == {i \in DOMAIN Given : \A j \in 1..i - 1 : Given[j] # Given[i]}
  IN {Given[i] : i \in {k \in new : ViewLimit = 0 \/ Cardinality({j \in new : j < k}) < ViewLimit}}

ToolInit ==
  /\ tlAt = "ask" /\ tlRound = 1 /\ tlDue = <<>> /\ tlText = "none"
  /\ tlSaid = 0 /\ tlRewritten = FALSE
  /\ tlSeen = FirstPictures /\ tlShown = FirstPictures /\ tlViewed = Cardinality(FirstPictures)

(* mutant: tools are offered for one round more *)
WithdrawnLate == tlRound > MaxRounds + 1

Withdrawn == tlRound > MaxRounds
Kinds     == {"text", "empty", "call", "error"}

-----------------------------------------------------------------------------
(* MutiChatWithTool answers without a call, or with calls when there are no tools any more;
   the text may be empty, or a call written as text *)
AnswerText(kind) ==
  /\ tlAt = "ask" /\ tlText' = kind
  /\ tlAt' = CASE kind = "text" -> "cut" [] kind = "call" -> "correct" [] OTHER -> "failed"
  /\ UNCHANGED <<tlRound, tlDue, pictures, said>>

(* mutant: what comes after the correction is taken as it is *)
CorrectedTrusted(kind) ==
  /\ tlAt = "correct" /\ tlText' = kind
  /\ tlAt' = IF kind \in {"text", "call"} THEN "cut" ELSE "failed"
  /\ UNCHANGED <<tlRound, tlDue, pictures, said>>

(* asked once more, without tools *)
Corrected(kind) ==
  /\ tlAt = "correct" /\ tlText' = kind
  /\ tlAt' = IF kind = "text" THEN "cut" ELSE "failed"
  /\ UNCHANGED <<tlRound, tlDue, pictures, said>>

CallTools(calls) ==
  /\ tlAt = "ask" /\ ~ Withdrawn /\ tlAt' = "run" /\ tlDue' = calls
  /\ UNCHANGED <<tlRound, pictures, tlText, said>>

(* callToolOutcome and what becomes of its pictures: every new one counts as seen, the ones
   there is room for are shown, and are counted if there is a limit; an error brings none and
   is told to the model *)
RunTool ==
  /\ tlAt = "run" /\ tlDue # <<>> /\ tlDue' = Tail(tlDue)
  /\ LET fresh == Head(tlDue) \ tlSeen
         room  == IF ViewLimit = 0 THEN Cardinality(fresh) ELSE Max({ViewLimit - tlViewed, 0})
     IN /\ tlSeen' = tlSeen \cup fresh
        /\ \E shown \in kSubset(Min({room, Cardinality(fresh)}), fresh) :
             /\ tlShown' = tlShown \cup shown
             /\ tlViewed' = tlViewed + IF ViewLimit = 0 THEN 0 ELSE Cardinality(shown)
  /\ UNCHANGED <<tlAt, tlRound, tlText, said>>

NextRound ==
  /\ tlAt = "run" /\ tlDue = <<>> /\ tlAt' = "ask" /\ tlRound' = tlRound + 1
  /\ UNCHANGED <<tlDue, pictures, tlText, said>>

(* rewriteReply.  The draft stays whole when there is no limit, when it is short, and when the
   call that should rewrite it fails or its answer cannot be read *)
Keep ==
  /\ tlAt = "cut" /\ tlAt' = "done" /\ tlSaid' = 1
  /\ UNCHANGED <<tlRound, tlDue, pictures, tlText, tlRewritten>>

(* or n sentences of another answer of the model take its place, whatever they are, those beyond
   the limit in the last one *)
Rewrite(n, kind) ==
  /\ tlAt = "cut" /\ Sentences > 0 /\ tlAt' = "done"
  /\ tlText' = kind /\ tlRewritten' = TRUE /\ tlSaid' = Min({n, Sentences})
  /\ UNCHANGED <<tlRound, tlDue, pictures>>

ToolNext ==
  \/ \E kind \in Kinds : AnswerText(kind) \/ Corrected(kind)
  \/ \E n \in 1..CallsAtOnce : \E calls \in [1..n -> SUBSET Pictures] : CallTools(calls)
  \/ RunTool \/ NextRound
  \/ Keep \/ \E n \in 1..Sentences + 1, kind \in {"text", "call"} : Rewrite(n, kind)

ToolSpec == ToolInit /\ [][ToolNext]_tlVars

-----------------------------------------------------------------------------
(* The variables stay in their sets. *)
ToolTypeOK ==
  /\ tlAt \in {"ask", "run", "correct", "cut", "done", "failed"} /\ tlRound \in 1..MaxRounds + 1
  /\ tlSeen \subseteq Pictures /\ tlText \in Kinds \cup {"none"}

(* However the model answers, a draft that is handed on to the chat is a text, never a call of a
   tool written as text, nothing or an error; what a rewriting call put in its place is not nothing
   either, but whether it is a text nobody looks; there are never more sentences than the limit; and
   the pictures sent to the model over all rounds, the first message's included, are counted exactly
   and stay within the limit there is. *)
ReplyIsClean ==
  /\ tlSaid > 0 => /\ tlText \in (IF tlRewritten THEN {"text", "call"} ELSE {"text"})
                   /\ Sentences > 0 => tlSaid <= Sentences
  /\ ViewLimit > 0 => tlViewed = Cardinality(tlShown) /\ tlViewed <= ViewLimit

(* What the comment on errToolCallReply says of every reply: a call of a tool never goes out as it
   is.  Rewrite breaks it; no run checks it. *)
NoCallIsSaid == tlSaid > 0 => tlText # "call"
=============================================================================

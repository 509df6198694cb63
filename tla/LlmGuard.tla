------------------------------ MODULE LlmGuard ------------------------------
(***************************************************************************)
(* Calls of the language model.  Each passes a rate limit and a circuit     *)
(* breaker (llm/resilient.go); a structured call then tries how much of its *)
(* request the service understands, and what it finds out is kept for all   *)
(* later calls, in two atomics every call reads and swaps (llm/llm.go).     *)
(***************************************************************************)
EXTENDS Integers, FiniteSets, FiniteSetsExt

CONSTANTS
  LlmCallers,
  Burst,         (* rate_limit_burst                                         *)
  Trip,          (* breaker_failures                                         *)
  Formats,       (* formats the service takes: 0 schema, 1 object, 2 none    *)
  TakesKwargs,   (* it takes chat_template_kwargs                            *)
  LlmCalls, LlmFaults   (* bounds: calls; answers that are no answer         *)

ASSUME LlmAssumption ==
  /\ IsFiniteSet(LlmCallers) /\ Formats \subseteq 0..2 /\ 2 \in Formats /\ TakesKwargs \in BOOLEAN
  /\ {Burst, Trip} \subseteq Nat \ {0} /\ {LlmCalls, LlmFaults} \subseteq Nat

VARIABLES
  lgTokens,                           (* limiter                             *)
  lgState, lgAge, lgFails, lgProbing, (* breaker: state, generation, counts  *)
  lgMode, lgPlain,                    (* jsonMode, noThinkingOff             *)
  lgCall,                             (* caller -> its call                  *)
  lgCalls, lgFaults,                  (* calls made; faults so far           *)
  lgMistaken                          (* callers that lost the race for the kwargs
                                         at the last format, which failed their call *)

breaker == <<lgState, lgAge, lgFails, lgProbing>>
learned == <<lgMode, lgPlain>>
blame   == <<lgFaults, lgMistaken>>
lgVars  == <<lgTokens, breaker, learned, lgCall, lgCalls, blame>>

NoCall == [at |-> "idle", json |-> FALSE, age |-> 0, mode |-> 2, kwargs |-> FALSE, out |-> "none"]

LlmInit ==
  /\ lgTokens = Burst
  /\ lgState = "closed" /\ lgAge = 0 /\ lgFails = 0 /\ lgProbing = FALSE
  /\ lgMode = 0 /\ lgPlain = FALSE /\ lgCall = [c \in LlmCallers |-> NoCall]
  /\ lgCalls = 0 /\ lgFaults = 0 /\ lgMistaken = {}

Proceed(c, call) == lgCall' = [lgCall EXCEPT ![c] = call]
Ended(c, out) == Proceed(c, [lgCall[c] EXCEPT !.at = "after", !.out = out])

-----------------------------------------------------------------------------
(* guard; what the breaker does is the library's (external) *)

Refill ==
  /\ lgTokens < Burst /\ lgTokens' = lgTokens + 1
  /\ UNCHANGED <<breaker, learned, lgCall, lgCalls, blame>>

Cooldown ==
  /\ lgState = "open" /\ lgState' = "half" /\ lgAge' = lgAge + 1 /\ lgFails' = 0 /\ lgProbing' = FALSE
  /\ UNCHANGED <<lgTokens, learned, lgCall, lgCalls, blame>>

Admits == lgState = "closed" \/ (lgState = "half" /\ ~ lgProbing)

(* a call without a token is not made; one the breaker refuses has cost its token *)
Guard(c, json) ==
  /\ lgCall[c].at = "idle" /\ lgCalls < LlmCalls /\ lgCalls' = lgCalls + 1
  /\ lgTokens' = Max({lgTokens - 1, 0})
  /\ LET call == [NoCall EXCEPT !.json = json, !.age = lgAge] IN
     IF lgTokens = 0 THEN Proceed(c, [call EXCEPT !.out = "limited"]) /\ UNCHANGED lgProbing
     ELSE IF ~ Admits THEN Proceed(c, [call EXCEPT !.out = "refused"]) /\ UNCHANGED lgProbing
     ELSE /\ Proceed(c, [call EXCEPT !.at = IF json THEN "mode" ELSE "sent"])
          /\ lgProbing' = (lgState = "half")
  /\ UNCHANGED <<lgState, lgAge, lgFails, learned, blame>>

(* an answer that belongs to an earlier state of the breaker does not count, nor does a call
   that was cancelled; whether that one gives the trial's place back is the library's *)
AfterCall(c) ==
  LET call == lgCall[c]
      ok   == call.out = "answer"
      bad  == call.out = "error"
      trip == lgState = "half" \/ lgFails + 1 >= Trip
      become(s) == lgState' = s /\ lgAge' = lgAge + 1 /\ lgFails' = 0 /\ lgProbing' = FALSE
  IN
  /\ call.at = "after" /\ Proceed(c, [call EXCEPT !.at = "idle"])
  /\ \/ call.age # lgAge /\ UNCHANGED breaker
     \/ call.age = lgAge /\ ok /\ lgState = "half" /\ become("closed")
     \/ call.age = lgAge /\ ok /\ lgState = "closed" /\ lgFails' = 0
        /\ UNCHANGED <<lgState, lgAge, lgProbing>>
     \/ call.age = lgAge /\ bad /\ trip /\ become("open")
     \/ call.age = lgAge /\ bad /\ ~ trip /\ lgFails' = lgFails + 1
        /\ UNCHANGED <<lgState, lgAge, lgProbing>>
     \/ call.age = lgAge /\ ~ ok /\ ~ bad /\ lgProbing' \in {lgProbing, FALSE}
        /\ UNCHANGED <<lgState, lgAge, lgFails>>
  /\ UNCHANGED <<lgTokens, learned, lgCalls, blame>>

-----------------------------------------------------------------------------
(* ChatJSON and chatCompletion: two loads, one request *)

LoadMode(c) ==
  /\ lgCall[c].at = "mode" /\ Proceed(c, [lgCall[c] EXCEPT !.at = "kwargs", !.mode = lgMode])
  /\ UNCHANGED <<lgTokens, breaker, learned, lgCalls, blame>>

LoadKwargs(c) ==
  /\ lgCall[c].at = "kwargs" /\ Proceed(c, [lgCall[c] EXCEPT !.at = "sent", !.kwargs = ~ lgPlain])
  /\ UNCHANGED <<lgTokens, breaker, learned, lgCalls, blame>>

KwargsWrong(call) == call.kwargs /\ ~ TakesKwargs
FormatWrong(call) == call.mode \notin Formats

ServiceAnswers(c) ==
  /\ lgCall[c].at = "sent" /\ ~ KwargsWrong(lgCall[c]) /\ ~ FormatWrong(lgCall[c])
  /\ Ended(c, "answer")
  /\ UNCHANGED <<lgTokens, breaker, learned, lgCalls, blame>>

(* a time-out, an error that is not about the request, nothing to choose from *)
ServiceFails(c) ==
  /\ lgCall[c].at = "sent" /\ lgFaults < LlmFaults /\ lgFaults' = lgFaults + 1 /\ Ended(c, "error")
  /\ UNCHANGED <<lgTokens, breaker, learned, lgCalls, lgMistaken>>

(* the process is going down *)
Cancelled(c) ==
  /\ lgCall[c].at = "sent" /\ Ended(c, "cancelled")
  /\ UNCHANGED <<lgTokens, breaker, learned, lgCalls, blame>>

(* mutant: who does not win the swap gives up *)
StepDownOrFail(c) ==
  LET call == lgCall[c] IN
  IF call.mode = 2 \/ lgMode # call.mode THEN Ended(c, "error") /\ UNCHANGED lgMode
  ELSE lgMode' = lgMode + 1 /\ Proceed(c, [call EXCEPT !.at = "mode"])

(* one step down, unless somebody has taken it already; and again *)
StepDown(c) ==
  LET call == lgCall[c] IN
  IF call.mode = 2 THEN Ended(c, "error") /\ UNCHANGED lgMode
  ELSE /\ lgMode' = IF lgMode = call.mode THEN call.mode + 1 ELSE lgMode
       /\ Proceed(c, [call EXCEPT !.at = "mode"])

RejectsFormat(c) ==
  /\ lgCall[c].at = "sent" /\ FormatWrong(lgCall[c]) /\ StepDown(c)
  /\ UNCHANGED <<lgTokens, breaker, lgPlain, lgCalls, blame>>

(* a 400, 404, 422 or 501 about anything else in the request, a prompt too long, a picture it
   cannot read: it is taken for one about the format *)
RejectsRequest(c) ==
  /\ lgCall[c].at = "sent" /\ lgFaults < LlmFaults /\ lgFaults' = lgFaults + 1 /\ StepDown(c)
  /\ UNCHANGED <<lgTokens, breaker, lgPlain, lgCalls, lgMistaken>>

(* the first to hear it leaves the field out from now on; to the others the same
   answer looks like one about the format *)
RejectsKwargs(c) ==
  /\ lgCall[c].at = "sent" /\ KwargsWrong(lgCall[c])
  /\ IF lgPlain
     THEN /\ StepDown(c) /\ UNCHANGED lgPlain
          /\ lgMistaken' = lgMistaken \cup (IF lgCall[c].mode = 2 THEN {c} ELSE {})
     ELSE /\ lgPlain' = TRUE /\ Proceed(c, [lgCall[c] EXCEPT !.at = "mode"])
          /\ UNCHANGED <<lgMode, lgMistaken>>
  /\ UNCHANGED <<lgTokens, breaker, lgCalls, lgFaults>>

-----------------------------------------------------------------------------
LlmNext ==
  \/ Refill \/ Cooldown
  \/ \E c \in LlmCallers :
       \/ \E json \in BOOLEAN : Guard(c, json)
       \/ LoadMode(c) \/ LoadKwargs(c) \/ ServiceAnswers(c) \/ ServiceFails(c) \/ Cancelled(c)
       \/ RejectsFormat(c) \/ RejectsRequest(c) \/ RejectsKwargs(c) \/ AfterCall(c)

LlmSpec == LlmInit /\ [][LlmNext]_lgVars

-----------------------------------------------------------------------------
(* The variables stay in their sets. *)
LlmTypeOK ==
  /\ lgTokens \in 0..Burst /\ lgState \in {"closed", "open", "half"} /\ lgFails \in 0..Trip - 1
  /\ lgMode \in 0..2 /\ lgPlain \in BOOLEAN /\ lgMistaken \subseteq LlmCallers
  /\ \A c \in LlmCallers : lgCall[c].out \in {"none", "answer", "error", "cancelled", "limited", "refused"}

(* What a call fails for, whatever the service takes: without a fault of the service's or of the
   request's, and unless a caller was mistaken, no call fails or is refused; the breaker opens only
   after as many faults and mistakes together as it is set to; and a service that takes the kwargs
   leaves nothing to mistake.  A caller is mistaken once at most: its request went out with the
   kwargs, another call stripped them meanwhile, and there was no format left to step down to. *)
FaultsOnly ==
  /\ lgFaults = 0 /\ lgMistaken = {} => \A c \in LlmCallers : lgCall[c].out \notin {"error", "refused"}
  /\ lgState # "closed" => lgFaults + Cardinality(lgMistaken) >= Trip
  /\ TakesKwargs => lgMistaken = {}

(* What the comment before the swap promises: an answer about chat_template_kwargs is not
   mistaken for one about the format, so a format the service takes is kept.  RejectsKwargs and
   RejectsRequest both break it; no run checks it. *)
FormatKept == lgMode <= Min(Formats)
=============================================================================

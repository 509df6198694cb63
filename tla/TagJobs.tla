------------------------------- MODULE TagJobs -------------------------------
(***************************************************************************)
(* Describing the pictures of a message (assets/tagger.go), the notes of    *)
(* the picture library (state/images.go) and the jobs left for what could   *)
(* not be described in time: a table with leases that the backfillers of    *)
(* several processes work off (assets/jobs.go, state/jobs.go).  Times are   *)
(* ages in ticks; pictures and what they show are model values.             *)
(***************************************************************************)
EXTENDS Integers, Sequences, FiniteSets, SequencesExt, FiniteSetsExt

CONSTANTS
  Assets,          (* the pictures of the message, in order: 1..n            *)
  PicOf,           (* the content of one: two may be the same picture        *)
  Worn,            (* pictures that failed NoteRetries times before          *)
  Workers, NoAsset,
  TagConcurrency,  (* descriptions of one message at a time                  *)
  NoteRetries,     (* image_note_retries                                     *)
  MaxAttempts,     (* backfill_max_attempts                                  *)
  TagBatch,        (* backfill_batch                                         *)
  Work,            (* the longest a job may take                             *)
  ClaimTimeout,    (* backfill_claim_timeout                                 *)
  TagFaults        (* bound: processes that die or are told to end           *)

Pics   == {PicOf[a] : a \in Assets}
MaxAge == ClaimTimeout + TagBatch * Work + 1     \* older makes no difference

ASSUME TagAssumption ==
  /\ IsFiniteSet(Assets) /\ Assets # {} /\ Assets = 1..Cardinality(Assets) /\ NoAsset \notin Assets
  /\ {TagConcurrency, NoteRetries, MaxAttempts, TagBatch, Work, ClaimTimeout} \subseteq Nat \ {0}
  /\ ClaimTimeout > Work /\ TagFaults \in Nat   \* BackfillConfig.ClaimTimeout asks for it

VARIABLES
  tjStep,    (* the tagger: fetch, look, describe, save, done                *)
  tjNext,    (* the asset it fetches or saves next                           *)
  tjPic,     (* what became of an asset so far                               *)
  tjOver,    (* the budget of the message is used up                         *)
  tjNote,    (* image_notes: status and attempts of a picture                *)
  tjJob,     (* asset_tag_jobs: status, attempts, age of the lease           *)
  tjWorker,  (* a backfiller: its list, its job, the ages it works with      *)
  tjEnding,  (* workers whose context is cancelled                           *)
  tjFaults

tjVars == <<tjStep, tjNext, tjPic, tjOver, tjNote, tjJob, tjWorker, tjEnding, tjFaults>>
tagger == <<tjStep, tjNext, tjPic, tjOver>>

Asleep == [at |-> "idle", list |-> <<>>, job |-> NoAsset, since |-> 0, spent |-> 0, res |-> "none"]

TagInit ==
  /\ tjStep = "fetch" /\ tjNext = 1 /\ tjOver = FALSE
  /\ tjPic = [a \in Assets |-> "todo"]
  /\ tjNote = [p \in Pics |-> IF p \in Worn THEN [status |-> "failed", tries |-> NoteRetries]
                               ELSE [status |-> "none", tries |-> 0]]
  /\ tjJob = [a \in Assets |-> [status |-> "none", tries |-> 0, age |-> 0]]
  /\ tjWorker = [w \in Workers |-> Asleep]
  /\ tjEnding = {} /\ tjFaults = 0

-----------------------------------------------------------------------------
(* image_notes: the last writer wins *)

Attempt(p, status) == [tjNote EXCEPT ![p] = [status |-> status, tries |-> Min({@.tries + 1, NoteRetries})]]   \* more makes no difference

(* describeImage: a picture that cannot be decoded, described or understood
   counts as an attempt *)
Describe(p, ok) == tjNote' = Attempt(p, IF ok THEN "ok" ELSE "failed")

-----------------------------------------------------------------------------
(* TagURLs and persistDeferred *)

BudgetOver ==
  /\ ~ tjOver /\ tjStep \in {"fetch", "look", "describe"} /\ tjOver' = TRUE
  /\ UNCHANGED <<tjStep, tjNext, tjPic, tjNote, tjJob, tjWorker, tjEnding, tjFaults>>

(* a download; none is tried once the budget is over *)
Fetch(ok) ==
  /\ tjStep = "fetch"
  /\ tjOver => ~ ok
  /\ tjPic' = [tjPic EXCEPT ![tjNext] = IF ok THEN "have" ELSE IF tjOver THEN "deferred" ELSE "failed"]
  /\ IF tjNext < Cardinality(Assets) THEN tjNext' = tjNext + 1 /\ UNCHANGED tjStep
     ELSE tjNext' = 1 /\ tjStep' = "look"
  /\ UNCHANGED <<tjOver, tjNote, tjJob, tjWorker, tjEnding, tjFaults>>

(* what the library knows already; a picture tried often enough is left *)
LookUp ==
  /\ tjStep = "look" /\ tjStep' = "describe"
  /\ tjPic' = [a \in Assets |->
       LET note == tjNote[PicOf[a]] IN
       IF tjPic[a] # "have" THEN tjPic[a]
       ELSE IF note.status = "ok" THEN "ok"
       ELSE IF note.status = "none" \/ note.tries < NoteRetries THEN "have" ELSE "worn"]
  /\ UNCHANGED <<tjNext, tjOver, tjNote, tjJob, tjWorker, tjEnding, tjFaults>>

SameAs(a) == {b \in Assets : PicOf[b] = PicOf[a] /\ tjPic[b] = tjPic[a]}
Busy      == {PicOf[a] : a \in {b \in Assets : tjPic[b] = "busy"}}
Become(set, what) == [a \in Assets |-> IF a \in set THEN what ELSE tjPic[a]]

(* one goroutine per picture, TagConcurrency of them at a time *)
BeginNote(a) ==
  /\ tjStep = "describe" /\ tjPic[a] = "have"
  /\ Cardinality(Busy) < TagConcurrency
  /\ tjPic' = Become(SameAs(a), "busy")
  /\ UNCHANGED <<tjStep, tjNext, tjOver, tjNote, tjJob, tjWorker, tjEnding, tjFaults>>

(* mutant: a picture that did not get its turn is not written down *)
OutOfTimeForgets(a) ==
  /\ tjStep = "describe" /\ tjPic[a] = "have" /\ tjOver
  /\ tjPic' = Become(SameAs(a), "ok")
  /\ UNCHANGED <<tjStep, tjNext, tjOver, tjNote, tjJob, tjWorker, tjEnding, tjFaults>>

OutOfTime(a) ==
  /\ tjStep = "describe" /\ tjPic[a] = "have" /\ tjOver
  /\ tjPic' = Become(SameAs(a), "deferred")
  /\ UNCHANGED <<tjStep, tjNext, tjOver, tjNote, tjJob, tjWorker, tjEnding, tjFaults>>

(* with the budget over the call may end without having touched the library *)
Finish(a, ok) ==
  /\ tjStep = "describe" /\ tjPic[a] = "busy"
  /\ tjPic' = Become(SameAs(a), IF ok THEN "ok" ELSE IF tjOver THEN "deferred" ELSE "failed")
  /\ \/ Describe(PicOf[a], ok)
     \/ ~ ok /\ tjOver /\ UNCHANGED tjNote
  /\ UNCHANGED <<tjStep, tjNext, tjOver, tjJob, tjWorker, tjEnding, tjFaults>>

AllTagged ==
  /\ tjStep = "describe" /\ \A a \in Assets : tjPic[a] \notin {"have", "busy"}
  /\ tjStep' = "save"
  /\ UNCHANGED <<tjNext, tjPic, tjOver, tjNote, tjJob, tjWorker, tjEnding, tjFaults>>

Owed == {a \in Assets : tjPic[a] \in {"deferred", "failed", "worn"}}

(* SaveAssetTagJob, one job at a time; a worn out picture takes its attempts along *)
SaveOwed ==
  /\ tjStep = "save"
  /\ tjJob' = IF tjNext \notin Owed THEN tjJob
              ELSE [tjJob EXCEPT ![tjNext] =
                     [status |-> IF tjPic[tjNext] = "deferred" THEN "pending" ELSE "failed",
                      tries |-> IF tjPic[tjNext] = "worn" THEN tjNote[PicOf[tjNext]].tries ELSE 0,
                      age |-> 0]]
  /\ IF tjNext < Cardinality(Assets) THEN tjNext' = tjNext + 1 /\ UNCHANGED tjStep
     ELSE tjStep' = "done" /\ UNCHANGED tjNext
  /\ UNCHANGED <<tjPic, tjOver, tjNote, tjWorker, tjEnding, tjFaults>>

-----------------------------------------------------------------------------
(* The backfillers *)

(* as of the time the round began, "since" ticks ago *)
Claimable(j, since) ==
  /\ tjJob[j].tries < MaxAttempts
  /\ \/ tjJob[j].status \in {"pending", "failed"}
     \/ tjJob[j].status = "running" /\ tjJob[j].age - since > ClaimTimeout

Put(w, rec) == tjWorker' = [tjWorker EXCEPT ![w] = rec]

(* the end of a round: CleanupAssetTagJobs deletes what was finished long ago *)
Cleaned(jobs) ==
  {[j \in Assets |-> IF j \in old THEN [jobs[j] EXCEPT !.status = "purged"] ELSE jobs[j]] :
     old \in SUBSET {j \in Assets : jobs[j].status \in {"done", "missing"}}}

(* the next job of the round, if there is one *)
GoOn(w, me, jobs) ==
  IF me.list = <<>> THEN Put(w, Asleep) /\ tjJob' \in Cleaned(jobs)
  ELSE Put(w, [me EXCEPT !.at = "list", !.job = NoAsset, !.spent = 0, !.res = "none"]) /\ tjJob' = jobs

(* ClaimableAssetTagJobs: a list, in an order that is left open *)
Round(w) ==
  /\ tjWorker[w].at = "idle" /\ w \notin tjEnding
  /\ LET can == {j \in Assets : Claimable(j, 0)} IN
     \E s \in [1..Min({TagBatch, Cardinality(can)}) -> can] :
       IsInjective(s) /\ GoOn(w, [Asleep EXCEPT !.list = s], tjJob)
  /\ UNCHANGED <<tagger, tjNote, tjEnding, tjFaults>>

(* mutant: what was listed is taken without looking again *)
ClaimListed(w) ==
  LET me == tjWorker[w] j == Head(me.list) IN
  /\ me.at = "list" /\ w \notin tjEnding
  /\ tjJob' = [tjJob EXCEPT ![j] = [status |-> "running", tries |-> @.tries + 1, age |-> me.since]]
  /\ Put(w, [me EXCEPT !.at = "fetch", !.job = j, !.list = Tail(@), !.spent = 0])
  /\ UNCHANGED <<tagger, tjNote, tjEnding, tjFaults>>

(* ClaimAssetTagJob: condition and assignment are one statement; the time it
   writes is that of the beginning of the round *)
Claim(w) ==
  LET me == tjWorker[w] j == Head(me.list) IN
  /\ me.at = "list" /\ w \notin tjEnding
  /\ IF Claimable(j, me.since)
     THEN /\ tjJob' = [tjJob EXCEPT ![j] = [status |-> "running", tries |-> @.tries + 1, age |-> me.since]]
          /\ Put(w, [me EXCEPT !.at = "fetch", !.job = j, !.list = Tail(@), !.spent = 0])
     ELSE GoOn(w, [me EXCEPT !.list = Tail(@)], tjJob)
  /\ UNCHANGED <<tagger, tjNote, tjEnding, tjFaults>>

(* cancelled before it starts: nothing is written back *)
LeaveRunning(w) ==
  /\ w \in tjEnding /\ tjWorker[w].at \in {"list", "fetch"}
  /\ Put(w, Asleep)
  /\ UNCHANGED <<tagger, tjNote, tjJob, tjEnding, tjFaults>>

(* TagOne: any failure to fetch, a cancelled context included, is final *)
Refetch(w, ok) ==
  LET me == tjWorker[w] note == tjNote[PicOf[me.job]] IN
  /\ me.at = "fetch"
  /\ w \in tjEnding => ~ ok
  /\ Put(w, IF ~ ok THEN [me EXCEPT !.at = "write", !.res = "missing"]
            ELSE IF note.status = "ok" THEN [me EXCEPT !.at = "write", !.res = "done"]
            ELSE [me EXCEPT !.at = "describe"])
  /\ UNCHANGED <<tagger, tjNote, tjJob, tjEnding, tjFaults>>

Redescribe(w, ok) ==
  LET me == tjWorker[w] IN
  /\ me.at = "describe"
  /\ w \in tjEnding => ~ ok
  /\ Describe(PicOf[me.job], ok)
  /\ Put(w, [me EXCEPT !.at = "write", !.res = IF ok THEN "done" ELSE "failed"])
  /\ UNCHANGED <<tagger, tjJob, tjEnding, tjFaults>>

(* UpdateAssetTagJob: by the key of the job, whoever has it now *)
WriteBack(w) ==
  LET me == tjWorker[w] IN
  /\ me.at = "write"
  /\ GoOn(w, me, [tjJob EXCEPT ![me.job].status = me.res, ![me.job].age = 0])
  /\ UNCHANGED <<tagger, tjNote, tjEnding, tjFaults>>

(* a process dies, or is told to end; either way it starts again *)
Dies(w) ==
  /\ tjFaults < TagFaults /\ tjFaults' = tjFaults + 1
  /\ \/ Put(w, Asleep) /\ UNCHANGED tjEnding
     \/ tjEnding' = tjEnding \cup {w} /\ UNCHANGED tjWorker
  /\ UNCHANGED <<tagger, tjNote, tjJob>>

StartsAgain(w) ==
  /\ w \in tjEnding /\ tjWorker[w].at = "idle" /\ tjEnding' = tjEnding \ {w}
  /\ UNCHANGED <<tagger, tjNote, tjJob, tjWorker, tjFaults>>

Older(age) == Min({age + 1, MaxAge})

(* time passes, for no job longer than a job may take *)
TagTick ==
  /\ \A w \in Workers : tjWorker[w].at \notin {"idle", "list"} => tjWorker[w].spent < Work
  /\ \A w \in Workers : tjWorker[w].at # "list"
  /\ \E j \in Assets : tjJob[j].status = "running" /\ tjJob[j].age < MaxAge
  /\ tjJob' = [j \in Assets |-> IF tjJob[j].status # "running" THEN tjJob[j]
                                ELSE [tjJob[j] EXCEPT !.age = Older(@)]]
  /\ tjWorker' = [w \in Workers |-> IF tjWorker[w].at = "idle" THEN tjWorker[w]
                    ELSE [tjWorker[w] EXCEPT !.since = Older(@), !.spent = Min({@ + 1, Work})]]
  /\ UNCHANGED <<tagger, tjNote, tjEnding, tjFaults>>

TaggerNext ==
  \/ BudgetOver \/ LookUp \/ AllTagged \/ SaveOwed
  \/ \E ok \in BOOLEAN : Fetch(ok)
  \/ \E a \in Assets : BeginNote(a) \/ OutOfTime(a) \/ \E ok \in BOOLEAN : Finish(a, ok)

WorkerNext(w) ==
  \/ Round(w) \/ Claim(w) \/ WriteBack(w) \/ LeaveRunning(w) \/ StartsAgain(w)
  \/ \E ok \in BOOLEAN : Refetch(w, ok) \/ Redescribe(w, ok)

TagNext == TaggerNext \/ TagTick \/ \E w \in Workers : WorkerNext(w) \/ Dies(w)

(* the goroutines run on, time passes *)
TagFair == WF_tjVars(TaggerNext) /\ WF_tjVars(TagTick) /\ \A w \in Workers : WF_tjVars(WorkerNext(w))

TagSpec == TagInit /\ [][TagNext]_tjVars /\ TagFair
-----------------------------------------------------------------------------
TagTypeOK ==
  /\ tjStep \in {"fetch", "look", "describe", "save", "done"} /\ tjNext \in Assets
  /\ tjPic \in [Assets -> {"todo", "have", "busy", "ok", "deferred", "failed", "worn"}]
  /\ tjOver \in BOOLEAN /\ tjEnding \subseteq Workers /\ tjFaults \in 0..TagFaults
  /\ \A p \in Pics : tjNote[p].status \in {"none", "ok", "failed"} /\ tjNote[p].tries \in 0..NoteRetries
  /\ \A a \in Assets :
       /\ tjJob[a].status \in {"none", "pending", "failed", "running", "done", "missing", "purged"}
       /\ tjJob[a].tries \in 0..Max({MaxAttempts, NoteRetries}) /\ tjJob[a].age \in 0..MaxAge
  /\ \A w \in Workers : tjWorker[w].at \in {"idle", "list", "fetch", "describe", "write"}

(* The lease keeps two backfillers off the same job, so that no picture is described twice and no
   late answer is written over a later one (Backfiller.tick, ClaimAssetTagJob).  It does while it
   is as long as the work of a round, TagBatch * Work: tick takes the time once, so the lease of
   the last job of a round begins with the first.  BackfillConfig.ClaimTimeout (jobs.go 57) asks
   only that it be longer than one job; then two have the same job. *)
OneWorkerPerJob ==
  \A v, w \in Workers : v # w /\ tjWorker[v].job = tjWorker[w].job => tjWorker[v].job = NoAsset

(* No picture is lost between the budget, the goroutines and the table: when the
   tagger is through, every one is described or has its job (TagURLs,
   persistDeferred). *)
EveryPictureAccountedFor ==
  tjStep = "done" => \A a \in Assets :
    tjJob[a].status # "none" \/ (tjPic[a] = "ok" /\ tjNote[PicOf[a]].tries > 0)

(* Every job is done, found missing or has used up its attempts in the end,
   whichever process died on it (the lease, Claim, WriteBack). *)
JobsRest ==
  \A a \in Assets :
    tjJob[a].status \in {"none", "done", "missing", "purged"} \/ tjJob[a].tries >= MaxAttempts
=============================================================================

------------------------------ MODULE AwdpFix ------------------------------
(***************************************************************************)
(* The Fix phase of an AWDP run: the tick closes rounds and materialises   *)
(* one official evaluation per round and instance; players patch, reset    *)
(* and test their instance under its advisory lock; evaluations are leased *)
(* to two kinds of worker, the one inside the API (Api) and the pull       *)
(* worker in its own container (Js); a result is scored under a key of     *)
(* (run, round, instance).  In practice the owner may also end the run     *)
(* with ALL Check.  Steps interleave at database and container calls.      *)
(***************************************************************************)
EXTENDS Naturals, FiniteSets

CONSTANTS Boxes,    \* instances of the run
          Api, Js,  \* in-process workers, JudgeServer workers
          Settings  \* the runs to look at, records of
                    \*   practice: gamebox_id is set; rounds: total_rounds;
                    \*   workers: the ones that are up; attempts: eval_max_attempts;
                    \*   resets: the limit of resets; and the bounds
                    \*   crashes (of the API process), errors (docker, script, network)

VARIABLES conf,    \* the settings of this run
          phase,   \* "Fix" or "Ended"
          now,     \* rounds whose cutoff has passed
          round,   \* status and expected_eval_count of awdp_fix_rounds
          eval,    \* awdp_evaluations: status, attempt, worker and lease
          box,     \* container: the service it gives, generation, resets
          applied, \* patches applied at or before the cutoff of their round
          score,   \* score event under the key of (round, instance)
          lock,    \* advisory lock of an instance
          job,     \* what each worker has in hand
          player,  \* the request the players have in progress
          tick,    \* position of the tick
          spent    \* crashes and errors so far

vars == <<conf, phase, now, round, eval, box, applied, score, lock, job, player, tick, spent>>

Workers == Api \cup Js
Rounds == 1..conf.rounds
Keys == Rounds \X Boxes
Terminal == {"patched", "vulnerable", "functional_broken", "service_down", "no_patch",
             "platform_error"}
\* The service of a container: no answer, an answer that is wrong, the right one
\* with the flaw, the right one without it.
Services == {"down", "broken", "weak", "fixed"}

NoEval == [st |-> "none", att |-> 0, by |-> "nobody", lease |-> "no"]
NoJob == [pc |-> "idle", key |-> <<1, CHOOSE b \in Boxes : TRUE>>, att |-> 0, gen |-> 0,
          res |-> "none"]
NoRequest == [pc |-> "idle", box |-> CHOOSE b \in Boxes : TRUE, round |-> 0]

Init ==
    /\ conf \in Settings
    /\ phase = "Fix" /\ now = 0
    /\ round = [r \in Rounds |-> [st |-> "pending", expected |-> 0]]
    /\ eval = [k \in Keys |-> NoEval]
    /\ box = [b \in Boxes |-> [is |-> "weak", gen |-> 1, resets |-> 0]]
    /\ applied = {}
    /\ score = [k \in Keys |-> "none"]
    /\ lock = [b \in Boxes |-> {}]
    /\ job = [w \in Workers |-> NoJob]
    /\ player = NoRequest
    /\ tick = "idle"
    /\ spent = [crashes |-> 0, errors |-> 0]

Unfinished(k) == eval[k].st \in {"pending", "running"}
Acquire(b, who) == lock[b] = {} /\ lock' = [lock EXCEPT ![b] = {who}]
Release(b) == lock' = [lock EXCEPT ![b] = {}]
SpendError == spent.errors < conf.errors /\ spent' = [spent EXCEPT !.errors = @ + 1]
\* The score key is unique: the first event under it stays.
CreateScoreEvent(k, kind) == score' = [score EXCEPT ![k] = IF @ = "none" THEN kind ELSE @]

----------------------------------------------------------------------------
(* The tick *)

Cutoff == /\ now < conf.rounds /\ now' = now + 1
          /\ UNCHANGED <<conf, phase, round, eval, box, applied, score, lock, job, player, tick, spent>>

NextPendingDueRound(r) ==
    /\ r <= now /\ round[r].st = "pending"
    /\ \A q \in 1..(r - 1) : round[q].st # "pending"

\* One transaction: rows that are there already are not counted as expected.
MaterializeRound(r) ==
    LET new == {b \in Boxes : eval[<<r, b>>].st = "none"} IN
    /\ eval' = [k \in Keys |-> IF k[1] = r /\ k[2] \in new
                               THEN [NoEval EXCEPT !.st = "pending"] ELSE eval[k]]
    /\ round' = [round EXCEPT ![r] = [st |-> "evaluating", expected |-> Cardinality(new)]]

TickCutoff ==
    /\ tick = "idle" /\ phase = "Fix"
    /\ \E r \in Rounds : NextPendingDueRound(r) /\ MaterializeRound(r)
    /\ tick' = "advance"
    /\ UNCHANGED <<conf, phase, now, box, applied, score, lock, job, player, spent>>

\* No pending round is left: the run ends, its evaluations are still worked off.
TickAdvance ==
    /\ tick = "advance" /\ tick' = "complete"
    /\ phase' = IF \E r \in Rounds : round[r].st = "pending" THEN phase ELSE "Ended"
    /\ UNCHANGED <<conf, now, round, eval, box, applied, score, lock, job, player, spent>>

Complete(r) ==
    LET rows == {k \in Keys : k[1] = r /\ eval[k].st # "none"} IN
    /\ round[r].st = "evaluating"
    /\ \A k \in rows : ~Unfinished(k)
    /\ IF round[r].expected > 0 THEN Cardinality(rows) = round[r].expected ELSE rows # {}

TickComplete ==
    /\ tick = "complete" \/ (tick = "idle" /\ \E r \in Rounds : Complete(r))
    /\ round' = [r \in Rounds |-> IF Complete(r) THEN [round[r] EXCEPT !.st = "completed"]
                                  ELSE round[r]]
    /\ tick' = "idle"
    /\ UNCHANGED <<conf, phase, now, eval, box, applied, score, lock, job, player, spent>>

----------------------------------------------------------------------------
(* The queue of evaluations: claims, leases, results *)

\* Mutant: expired leases are not looked at.
RecoverNothing == eval

\* Expired leases are taken back first; the last attempt becomes a platform error.
RecoverStaleRunning ==
    [k \in Keys |->
        IF eval[k].st = "running" /\ eval[k].lease = "expired"
        THEN [eval[k] EXCEPT !.by = "nobody", !.lease = "no",
                 !.st = IF eval[k].att >= conf.attempts THEN "platform_error" ELSE "pending"]
        ELSE eval[k]]

ClaimJobs(w) ==
    LET e == RecoverStaleRunning IN
    \/ \E k \in {q \in Keys : e[q].st = "pending"} :
         /\ eval' = [e EXCEPT ![k] = [st |-> "running", att |-> @.att + 1, by |-> w,
                                      lease |-> "fresh"]]
         /\ job' = [job EXCEPT ![w] = [NoJob EXCEPT !.pc = "claimed", !.key = k,
                                                    !.att = e[k].att + 1]]
    \/ (\A q \in Keys : e[q].st # "pending") /\ e # eval /\ eval' = e /\ job' = job

\* running, same worker, same token (one per attempt).
HoldsLease(w) ==
    LET e == eval[job[w].key] IN e.st = "running" /\ e.by = w /\ e.att = job[w].att

FinishWithLease(w, st) ==
    eval' = IF HoldsLease(w) /\ eval[job[w].key].lease # "expired"
            THEN [eval EXCEPT ![job[w].key] = [@ EXCEPT !.st = st, !.by = "nobody", !.lease = "no"]]
            ELSE eval

ReleaseOrFail(w) ==
    eval' = IF HoldsLease(w)
            THEN [eval EXCEPT ![job[w].key] =
                    [@ EXCEPT !.by = "nobody", !.lease = "no",
                              !.st = IF job[w].att >= conf.attempts THEN "platform_error"
                                     ELSE "pending"]]
            ELSE eval

\* Time passes for a lease; only JudgeServer renews it, while it is valid.
LeaseAges(k) ==
    /\ eval[k].st = "running" /\ eval[k].lease # "expired"
    /\ eval' = [eval EXCEPT ![k].lease = IF @ = "fresh" THEN "late" ELSE "expired"]
    /\ UNCHANGED <<conf, phase, now, round, box, applied, score, lock, job, player, tick, spent>>

Heartbeat(w) ==
    /\ w \in Js /\ job[w].pc \in {"claimed", "post"} /\ HoldsLease(w)
    /\ eval[job[w].key].lease = "late"
    /\ eval' = [eval EXCEPT ![job[w].key].lease = "fresh"]
    /\ UNCHANGED <<conf, phase, now, round, box, applied, score, lock, job, player, tick, spent>>

NoPatch(k) == k \notin applied

\* What the scripts meet: check.py passes, exploit.py gets through.
Works(b) == box[b].is \in {"weak", "fixed"}
Weak(b) == box[b].is = "weak"

----------------------------------------------------------------------------
(* The worker inside the API: lock, check, score, then finish *)

RunHealthchecks(b) == box[b].is # "down"

\* In JudgeServer's container or in the process: output that cannot be read
\* counts as a script that failed.
RunScript(passes, readable) == passes /\ readable

\* Healthcheck, judge, exploit: the first that fails decides.
CheckOutcome(b, judge, exploit) ==
    IF ~RunHealthchecks(b) THEN "service_down"
    ELSE IF ~RunScript(Works(b), judge) THEN "functional_broken"
    ELSE IF RunScript(Weak(b), exploit) THEN "vulnerable" ELSE "patched"

WorkerRound(w) ==
    /\ w \in Api \cap conf.workers /\ job[w].pc = "idle" /\ ClaimJobs(w)
    /\ UNCHANGED <<conf, phase, now, round, box, applied, score, lock, player, tick, spent>>

ProcessOfficial(w) ==
    /\ w \in Api /\ job[w].pc = "claimed"
    /\ Acquire(job[w].key[2], w)
    /\ job' = [job EXCEPT ![w].pc = "check"]
    /\ UNCHANGED <<conf, phase, now, round, eval, box, applied, score, player, tick, spent>>

\* No lock within 90 s, or the checks themselves could not be run.
WorkerFails(w) ==
    /\ w \in Api /\ job[w].pc \in {"claimed", "check"}
    /\ SpendError /\ ReleaseOrFail(w)
    /\ job' = [job EXCEPT ![w] = NoJob]
    /\ IF job[w].pc = "check" THEN Release(job[w].key[2]) ELSE lock' = lock
    /\ UNCHANGED <<conf, phase, now, round, box, applied, score, player, tick>>

\* Without a patch in this round nothing is run.
RunChecks(w) ==
    /\ w \in Api /\ job[w].pc = "check"
    /\ \E judge, exploit \in BOOLEAN :
         /\ job' = [job EXCEPT ![w].pc = "score",
                               ![w].res = IF NoPatch(job[w].key) THEN "no_patch"
                                          ELSE CheckOutcome(job[w].key[2], judge, exploit)]
         /\ IF judge /\ exploit THEN UNCHANGED spent ELSE SpendError
    /\ UNCHANGED <<conf, phase, now, round, eval, box, applied, score, lock, player, tick>>

\* The score is committed whether or not the lease still holds.
ScoreOfficial(w) ==
    /\ w \in Api /\ job[w].pc = "score"
    /\ IF job[w].res = "patched" THEN CreateScoreEvent(job[w].key, "fix")
       ELSE IF conf.practice THEN CreateScoreEvent(job[w].key, "penalty") ELSE score' = score
    /\ job' = [job EXCEPT ![w].pc = "finish"]
    /\ UNCHANGED <<conf, phase, now, round, eval, box, applied, lock, player, tick, spent>>

FinishOfficial(w) ==
    /\ w \in Api /\ job[w].pc = "finish"
    /\ FinishWithLease(w, job[w].res)
    /\ Release(job[w].key[2])
    /\ job' = [job EXCEPT ![w] = NoJob]
    /\ UNCHANGED <<conf, phase, now, round, box, applied, score, player, tick, spent>>

----------------------------------------------------------------------------
(* JudgeServer: claims, runs the scripts without the lock, posts the result *)

JsClaim(w) ==
    /\ ClaimJobs(w)
    /\ UNCHANGED <<conf, phase, now, round, box, applied, score, lock, player, tick, spent>>

\* A worker with a free permit asks for jobs, again and again.
PullLoop(w) == w \in Js \cap conf.workers /\ job[w].pc = "idle" /\ JsClaim(w)

\* Without a patch the claim itself settles the evaluation (two commits in
\* practice: the penalty, then the status).
JsNoPatch(w) ==
    /\ w \in Js /\ job[w].pc = "claimed" /\ job[w].gen = 0 /\ NoPatch(job[w].key)
    /\ IF conf.practice THEN CreateScoreEvent(job[w].key, "penalty") ELSE score' = score
    /\ job' = [job EXCEPT ![w].pc = "settle"]
    /\ UNCHANGED <<conf, phase, now, round, eval, box, applied, lock, player, tick, spent>>

JsSettle(w) ==
    /\ w \in Js /\ job[w].pc = "settle"
    /\ FinishWithLease(w, "no_patch") /\ job' = [job EXCEPT ![w] = NoJob]
    /\ UNCHANGED <<conf, phase, now, round, box, applied, score, lock, player, tick, spent>>

\* The payload carries the generation of the container at the claim.
JsPayload(w) ==
    /\ w \in Js /\ job[w].pc = "claimed" /\ job[w].gen = 0 /\ ~NoPatch(job[w].key)
    /\ job' = [job EXCEPT ![w].gen = box[job[w].key[2]].gen]
    /\ UNCHANGED <<conf, phase, now, round, eval, box, applied, score, lock, player, tick, spent>>

HealthcheckAll(b) == box[b].is # "down"

\* A script that cannot be started, times out or prints no result is no failure
\* of the player's.
RunTargetScript(passes, readable) ==
    IF ~readable THEN "unreadable" ELSE IF passes THEN "pass" ELSE "fail"

JobOutcome(b, judge, exploit) ==
    LET j == RunTargetScript(Works(b), judge)
        e == RunTargetScript(Weak(b), exploit) IN
    IF ~HealthcheckAll(b) THEN "service_down"
    ELSE IF j = "unreadable" THEN "platform_error"
    ELSE IF j = "fail" THEN "functional_broken"
    ELSE IF e = "unreadable" THEN "platform_error"
    ELSE IF e = "pass" THEN "vulnerable" ELSE "patched"

RunJob(w) ==
    /\ w \in Js /\ job[w].pc = "claimed" /\ job[w].gen > 0
    /\ \E judge, exploit \in BOOLEAN :
         /\ job' = [job EXCEPT ![w].pc = "post",
                               ![w].res = JobOutcome(job[w].key[2], judge, exploit)]
         /\ IF judge /\ exploit THEN UNCHANGED spent ELSE SpendError
    /\ UNCHANGED <<conf, phase, now, round, eval, box, applied, score, lock, player, tick>>

\* The result is rejected when the container is not the one of the claim; a
\* result that cannot be delivered is given up and the lease runs out.
RecordResult(w) ==
    /\ w \in Js /\ job[w].pc = "post"
    /\ \/ /\ job[w].gen = box[job[w].key[2]].gen /\ UNCHANGED spent
          /\ job' = [job EXCEPT ![w].pc = "accept"]
       \/ /\ job[w].gen # box[job[w].key[2]].gen /\ UNCHANGED spent
          /\ job' = [job EXCEPT ![w] = NoJob]
       \/ SpendError /\ job' = [job EXCEPT ![w] = NoJob]
    /\ UNCHANGED <<conf, phase, now, round, eval, box, applied, score, lock, player, tick>>

\* Mutant: a result is rewarded although the lease was lost.
AcceptAnyway(w) ==
    /\ w \in Js /\ job[w].pc = "accept"
    /\ IF job[w].res = "platform_error" THEN ReleaseOrFail(w) ELSE FinishWithLease(w, job[w].res)
    /\ job' = [job EXCEPT ![w] = IF job[w].res = "patched" THEN [@ EXCEPT !.pc = "reward"] ELSE NoJob]
    /\ UNCHANGED <<conf, phase, now, round, box, applied, score, lock, player, tick, spent>>

AcceptResult(w) ==
    /\ w \in Js /\ job[w].pc = "accept"
    /\ IF job[w].res = "platform_error" THEN ReleaseOrFail(w) ELSE FinishWithLease(w, job[w].res)
    /\ job' = [job EXCEPT ![w] = IF job[w].res = "patched" /\ eval' # eval
                                 THEN [@ EXCEPT !.pc = "reward"] ELSE NoJob]
    /\ UNCHANGED <<conf, phase, now, round, box, applied, score, lock, player, tick, spent>>

\* The status is committed before the score.
RewardResult(w) ==
    /\ w \in Js /\ job[w].pc = "reward"
    /\ CreateScoreEvent(job[w].key, "fix") /\ job' = [job EXCEPT ![w] = NoJob]
    /\ UNCHANGED <<conf, phase, now, round, eval, box, applied, lock, player, tick, spent>>

----------------------------------------------------------------------------
(* Requests of the players, each under the lock of the instance *)

Open == {r \in Rounds : r = now + 1 /\ now < conf.rounds}
NextDueRound(r) == round[r].st # "completed" /\ \A q \in 1..(r - 1) : round[q].st = "completed"

\* Refused while the evaluation of an earlier round has not finished.
ApplyPatch(b, r) ==
    /\ player.pc = "idle" /\ phase = "Fix" /\ r \in Open
    /\ \A q \in Rounds : NextDueRound(q) /\ q # r => ~Unfinished(<<q, b>>)
    /\ Acquire(b, "player")
    /\ player' = [pc |-> "patch", box |-> b, round |-> r]
    /\ UNCHANGED <<conf, phase, now, round, eval, box, applied, score, job, tick, spent>>

\* patch.sh runs in the container, which is then restarted; a script that fails
\* leaves behind whatever it did.
PatchScript ==
    /\ player.pc = "patch"
    /\ \E is \in Services : box' = [box EXCEPT ![player.box].is = is]
    /\ \E pc \in {"record", "failed"} : player' = [player EXCEPT !.pc = pc]
    /\ UNCHANGED <<conf, phase, now, round, eval, applied, score, lock, job, tick, spent>>

\* applied_at counts for the round only up to its cutoff.
FinishApply ==
    /\ player.pc \in {"record", "failed"}
    /\ applied' = IF player.pc = "record" /\ player.round > now THEN
                     applied \cup {<<player.round, player.box>>} ELSE applied
    /\ Release(player.box) /\ player' = NoRequest
    /\ UNCHANGED <<conf, phase, now, round, eval, box, score, job, tick, spent>>

\* A practice run may be reset in any phase and as often as its owner likes.
CheckResetAllowed(b) == conf.practice \/ (phase = "Fix" /\ box[b].resets < conf.resets)

\* Bound: the resets of a practice run too.
ResetInstance(b) ==
    /\ player.pc = "idle" /\ CheckResetAllowed(b) /\ box[b].gen <= conf.resets
    /\ Acquire(b, "player")
    /\ box' = [box EXCEPT ![b].is = "down"]
    /\ player' = [NoRequest EXCEPT !.pc = "reset", !.box = b]
    /\ UNCHANGED <<conf, phase, now, round, eval, applied, score, job, tick, spent>>

\* A reset that fails is not counted.
ResetDone ==
    /\ player.pc = "reset"
    /\ \/ /\ box' = [box EXCEPT ![player.box] =
                       [is |-> "weak", gen |-> @.gen + 1,
                        resets |-> IF conf.practice THEN @.resets ELSE @.resets + 1]]
          /\ UNCHANGED spent
       \/ SpendError /\ UNCHANGED box
    /\ Release(player.box) /\ player' = NoRequest
    /\ UNCHANGED <<conf, phase, now, round, eval, applied, score, job, tick>>

\* Test Check: a row of its own, no lease and no score; it holds the lock.
ManualCheck(b) ==
    /\ player.pc = "idle" /\ phase = "Fix" /\ Acquire(b, "player")
    /\ player' = [NoRequest EXCEPT !.pc = "manual", !.box = b]
    /\ UNCHANGED <<conf, phase, now, round, eval, box, applied, score, job, tick, spent>>

ManualCheckDone ==
    /\ player.pc = "manual" /\ Release(player.box) /\ player' = NoRequest
    /\ UNCHANGED <<conf, phase, now, round, eval, box, applied, score, job, tick, spent>>

\* ALL Check (practice): a container that passes, patched in the first round that
\* is not completed, settles every round from that one on, whatever its evaluation
\* is doing, then ends the run.
AllCheck(b) ==
    /\ conf.practice /\ player.pc = "idle" /\ phase = "Fix" /\ Acquire(b, "player")
    /\ \E r \in Rounds :
         /\ NextDueRound(r)
         /\ player' = [pc |-> IF ~NoPatch(<<r, b>>) /\ CheckOutcome(b, TRUE, TRUE) = "patched"
                              THEN "all" ELSE "manual",
                       box |-> b, round |-> r]
    /\ UNCHANGED <<conf, phase, now, round, eval, box, applied, score, job, tick, spent>>

AllCheckRound ==
    LET k == <<player.round, player.box>> IN
    /\ player.pc = "all"
    /\ eval' = [eval EXCEPT ![k] = [@ EXCEPT !.st = "patched", !.by = "nobody", !.lease = "no"]]
    /\ player' = [player EXCEPT !.pc = "allScore"]
    /\ UNCHANGED <<conf, phase, now, round, box, applied, score, lock, job, tick, spent>>

AllCheckScore ==
    /\ player.pc = "allScore"
    /\ CreateScoreEvent(<<player.round, player.box>>, "fix")
    /\ player' = IF player.round < conf.rounds THEN [player EXCEPT !.pc = "all", !.round = @ + 1]
                 ELSE [player EXCEPT !.pc = "allEnd"]
    /\ UNCHANGED <<conf, phase, now, round, eval, box, applied, lock, job, tick, spent>>

AllCheckEnd ==
    /\ player.pc = "allEnd" /\ phase' = "Ended"
    /\ Release(player.box) /\ player' = NoRequest
    /\ UNCHANGED <<conf, now, round, eval, box, applied, score, job, tick, spent>>

----------------------------------------------------------------------------
\* The API process dies: its threads and locks are gone, JudgeServer goes on.
Crash ==
    /\ spent.crashes < conf.crashes
    /\ spent' = [spent EXCEPT !.crashes = @ + 1]
    /\ job' = [w \in Workers |-> IF w \in Api \/ job[w].pc \in {"settle", "accept", "reward"}
                                 THEN NoJob ELSE job[w]]
    /\ lock' = [b \in Boxes |-> {}]
    /\ player' = NoRequest /\ tick' = "idle"
    /\ UNCHANGED <<conf, phase, now, round, eval, box, applied, score>>

Work(w) ==
    \/ WorkerRound(w) \/ ProcessOfficial(w) \/ WorkerFails(w) \/ RunChecks(w)
    \/ ScoreOfficial(w) \/ FinishOfficial(w)
    \/ PullLoop(w) \/ JsNoPatch(w) \/ JsSettle(w) \/ JsPayload(w) \/ RunJob(w)
    \/ RecordResult(w) \/ AcceptResult(w) \/ RewardResult(w)

\* The handlers: of a competition for the run that is active, of a practice run
\* for its owner, whatever its phase.
UploadPatch(b) == ~conf.practice /\ phase = "Fix" /\ \E r \in Rounds : ApplyPatch(b, r)
UploadTrainingPatch(b) == conf.practice /\ \E r \in Rounds : ApplyPatch(b, r)
ResetMyInstance(b) == ~conf.practice /\ phase = "Fix" /\ ResetInstance(b)
ResetTrainingInstance(b) == conf.practice /\ ResetInstance(b)
TestCheck(b) == ~conf.practice /\ phase = "Fix" /\ ManualCheck(b)
TrainingTestCheck(b) == conf.practice /\ ManualCheck(b)

Tick == TickCutoff \/ TickAdvance \/ TickComplete

Request ==
    \E b \in Boxes :
        \/ UploadPatch(b) \/ ResetMyInstance(b) \/ TestCheck(b)
        \/ UploadTrainingPatch(b) \/ ResetTrainingInstance(b) \/ TrainingTestCheck(b)
        \/ AllCheck(b)

Serve ==
    \/ PatchScript \/ FinishApply \/ ResetDone \/ ManualCheckDone
    \/ AllCheckRound \/ AllCheckScore \/ AllCheckEnd

Next ==
    \/ Cutoff \/ Tick \/ Request \/ Serve \/ Crash
    \/ \E w \in Workers : Work(w) \/ Heartbeat(w)
    \/ \E k \in Keys : LeaseAges(k)

\* Time passes, the cron tasks and JudgeServer's loop run again and again, a
\* request that was accepted is served, a lease nobody renews runs out; a
\* worker that competes for the lock of an instance gets it in the end.
Fairness ==
    /\ WF_vars(Cutoff) /\ WF_vars(Tick) /\ WF_vars(Serve)
    /\ \A w \in Workers : WF_vars(Work(w))
    /\ \A w \in Api : SF_vars(ProcessOfficial(w))
    /\ WF_vars(\E k \in Keys : LeaseAges(k))

Spec == Init /\ [][Next]_vars /\ Fairness

----------------------------------------------------------------------------
TypeOK ==
    /\ phase \in {"Fix", "Ended"} /\ now \in 0..conf.rounds
    /\ \A r \in Rounds : round[r].st \in {"pending", "evaluating", "completed"}
    /\ \A k \in Keys : /\ eval[k].st \in {"none", "pending", "running"} \cup Terminal
                       /\ eval[k].att \in 0..conf.attempts
                       /\ score[k] \in {"none", "fix", "penalty"}

(* A competition scores a fix for a round only where a patch was applied   *)
(* in that very round, at or before its cutoff.                            *)
FixNeedsPatch == ~conf.practice => \A k \in Keys : score[k] = "fix" => k \in applied

(* A patched verdict is on the scoreboard, or the request that recorded it *)
(* is about to score it, unless the process crashed between the two or, in *)
(* practice, a penalty was first under the same key.                       *)
PatchedIsScored ==
    \A k \in Keys : eval[k].st = "patched" =>
        \/ score[k] = "fix" \/ spent.crashes > 0 \/ (conf.practice /\ score[k] = "penalty")
        \/ \E w \in Js : job[w].pc = "reward" /\ job[w].key = k
        \/ player.pc = "allScore" /\ k = <<player.round, player.box>>

(* A verdict and its score agree: a fix is only scored for an evaluation   *)
(* that ends patched, however leases expire and containers are reset while *)
(* the workers are at it.  The worker inside the API scores before it      *)
(* knows that its lease still holds, so this is about JudgeServer's.       *)
ScoredIsPatched ==
    conf.workers \cap Api = {} /\ ~conf.practice =>
        \A k \in Keys : score[k] = "fix" /\ eval[k].st \in Terminal => eval[k].st = "patched"

(* Every round that is being evaluated is completed: leases that run out,  *)
(* lost results and crashes are retried or end in a platform error.        *)
Evaluating == ~conf.practice /\ \E r \in Rounds : round[r].st = "evaluating"

(* The run ends, unless the process died after it materialised the last    *)
(* round and before it wrote the phase.                                    *)
Over == phase = "Ended" \/ spent.crashes > 0
----------------------------------------------------------------------------
(* What every step keeps (the inductive invariant of AwdpProofs) *)

JobPcs == {"idle", "claimed", "check", "score", "finish", "settle", "post", "accept", "reward"}
PlayerPcs == {"idle", "patch", "record", "failed", "reset", "manual", "all", "allScore", "allEnd"}

Types ==
    /\ conf.practice \in BOOLEAN /\ conf.rounds \in Nat \ {0} /\ conf.attempts \in Nat \ {0}
    /\ phase \in {"Fix", "Ended"} /\ now \in 0..conf.rounds
    /\ round \in [Rounds -> [st : {"pending", "evaluating", "completed"}, expected : Nat]]
    /\ eval \in [Keys -> [st : {"none", "pending", "running"} \cup Terminal,
                          att : 0..conf.attempts, by : Workers \cup {"nobody"},
                          lease : {"no", "fresh", "late", "expired"}]]
    /\ box \in [Boxes -> [is : Services, gen : Nat \ {0}, resets : Nat]]
    /\ applied \subseteq Keys
    /\ score \in [Keys -> {"none", "fix", "penalty"}]
    /\ job \in [Workers -> [pc : JobPcs, key : Keys, att : 0..conf.attempts, gen : Nat,
                            res : Terminal \cup {"none"}]]
    /\ player \in [pc : PlayerPcs, box : Boxes, round : 0..conf.rounds]
    /\ spent \in [crashes : Nat, errors : Nat]

\* A pending evaluation has an attempt left.
AttemptsLeft == \A k \in Keys : eval[k].st = "pending" => eval[k].att < conf.attempts

\* A patch and ALL Check are of a round; ALL Check is of practice.
RequestOfRound ==
    /\ player.pc \in {"patch", "record", "failed", "all", "allScore"} => player.round \in Rounds
    /\ player.pc \in {"all", "allScore", "allEnd"} => conf.practice

\* What a worker is about to score was patched in time, and what it finishes as
\* patched has its score event; a rewarded result is on record as patched.
JobsJustified ==
    \A w \in Workers :
        LET k == job[w].key IN
        /\ job[w].pc \in {"score", "finish"} /\ job[w].res = "patched" => k \in applied
        /\ job[w].pc = "finish" /\ job[w].res = "patched" => score[k] # "none"
        /\ job[w].gen > 0 => k \in applied
        /\ job[w].pc \in {"post", "accept", "reward"} => job[w].gen > 0
        /\ job[w].pc = "reward" => eval[k].st = "patched"
        /\ job[w].pc \in {"score", "finish", "post", "accept"} => job[w].res # "none"

\* A worker that is not up has nothing in hand; only practice has penalties.
Idlers == \A w \in Workers \ conf.workers : job[w].pc = "idle"
NoPenalty == ~conf.practice => \A k \in Keys : score[k] # "penalty"

\* Without a worker inside the API the score follows the verdict.
ScoreFollows ==
    conf.workers \cap Api = {} /\ ~conf.practice =>
        \A k \in Keys : score[k] = "fix" => eval[k].st = "patched"

Inductive ==
    /\ Types /\ AttemptsLeft /\ RequestOfRound /\ JobsJustified /\ Idlers /\ NoPenalty
    /\ FixNeedsPatch /\ PatchedIsScored /\ ScoreFollows
=============================================================================

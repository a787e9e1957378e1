----------------------------- MODULE AwdJudge -----------------------------
(***************************************************************************)
(* How the boxes of one judge batch get their verdicts: the judge workers  *)
(* poll for tasks, hold them on a lease they renew by heartbeat, run the   *)
(* check script and deliver a result; the API sweeps what is overdue,      *)
(* scores a Down and finishes the event when the last verdict is in.  The  *)
(* batch is that of the final round, so its last verdict ends the event.   *)
(*                                                                         *)
(* A step of a handler is one committed statement or transaction.  Only    *)
(* claim_tasks runs in a transaction: its writes lock their rows and show  *)
(* up together at the commit.  Every other update is by primary key alone, *)
(* whatever the row has become since it was read.                          *)
(*                                                                         *)
(* Times are what is left of them, as in AwdLifecycle; a handler takes     *)
(* less than a unit of the clock, a check script may take longer.          *)
(***************************************************************************)
EXTENDS Integers, FiniteSets

CONSTANTS
    TaskCount,    \* tasks of the batch, numbered in the order of created_at
    Workers,      \* judge worker processes
    Permits,      \* scripts one worker runs at a time
    Procs,        \* API handlers that may be in flight at once
    MaxAttempts,  \* awd_judge_tasks.max_attempts
    LeaseTTL,     \* LEASE_TTL_SECS
    Deadline,     \* judge timeout + grace, from the end of the round
    ResultTries,  \* RESULT_MAX_ATTEMPTS
    MaxClaims,    \* bound: claims of one task
    MaxPauses, MaxCrashes, MaxDeaths, MaxLosses, MaxBans   \* bounds of a run

ASSUME JudgeConstants ==
    /\ {TaskCount, Permits, MaxAttempts, ResultTries, MaxClaims} \subseteq Nat \ {0}
    /\ {LeaseTTL, Deadline, MaxPauses, MaxCrashes, MaxDeaths, MaxLosses, MaxBans} \subseteq Nat
    /\ "no worker" \notin Workers

VARIABLES
    task,       \* awd_judge_tasks
    exec,       \* the workers' executions, by task and attempt
    proc,       \* the handlers in flight
    ev,         \* awd_events.status
    deadline,   \* time left until deadline_at, the same for all tasks
    timer,      \* the batch's entry in scheduled_tasks
    penalised,  \* tasks with a judge_down row in awd_score_events
    banned,     \* tasks of banned teams
    waived,     \* history: Downs that came in while the event was paused or the team banned
    used        \* pauses, crashes, worker deaths, lost messages and bans so far

vars == <<task, exec, proc, ev, deadline, timer, penalised, banned, waived, used>>

Tasks    == 1..TaskCount
Attempts == 1..MaxClaims
NoWorker == "no worker"

Final    == {"Up", "Down", "JudgeError"}
Outcomes == {"up", "down", "target_timeout", "worker_error"}
NoExec   == [st |-> "none", w |-> NoWorker, out |-> "none", tries |-> 0, stale |-> FALSE]
Idle     == [pc |-> "idle", op |-> "none", w |-> NoWorker, t |-> 0, n |-> 0,
             limit |-> 0, todo |-> {}, retry |-> {}, hit |-> FALSE]

Init ==
    /\ task = [t \in Tasks |-> [st |-> "Pending", w |-> NoWorker, attempt |-> 0, token |-> 0,
                                lease |-> 0, result |-> 0]]
    /\ exec = [t \in Tasks |-> [n \in Attempts |-> NoExec]]
    /\ proc = [p \in Procs |-> Idle]
    /\ ev = "Running"
    /\ deadline = Deadline
    /\ timer = "pending"
    /\ penalised = {} /\ banned = {} /\ waived = {}
    /\ used = [pauses |-> 0, crashes |-> 0, deaths |-> 0, losses |-> 0, bans |-> 0]

---------------------------------------------------------------------------
(* Rows *)

Open(t) == task[t].st \in {"Pending", "Running"}

(* What release_task_to_pending and reclaim_expired_leases clear. *)
Unleased(x) == [x EXCEPT !.w = NoWorker, !.token = 0, !.lease = 0]
Released(x) == [Unleased(x) EXCEPT !.st = "Pending"]
Errored(x)  == [Unleased(x) EXCEPT !.st = "JudgeError"]

(* Mutant: the worker's word is stored as the status. *)
StatusUnmapped(out) == out

(* outcome of a script to JudgeTaskStatus *)
StatusOf(out) ==
    CASE out = "up" -> "Up"
      [] out \in {"down", "target_timeout"} -> "Down"
      [] OTHER -> "JudgeError"

(* The holder of the current lease, before the deadline. *)
Holds(t, n, w) ==
    /\ task[t].st = "Running"
    /\ task[t].w = w
    /\ task[t].attempt = n
    /\ task[t].token = n
    /\ deadline > 0

At(p, pc)   == proc[p].pc = pc
Goto(p, pc) == proc' = [proc EXCEPT ![p].pc = pc]
Busy(w)     == Cardinality({e \in Tasks \X Attempts :
                   exec[e[1]][e[2]].w = w /\ exec[e[1]][e[2]].st \in {"issued", "run", "send", "wait"}})
Spend(what) == used' = [used EXCEPT ![what] = @ + 1]

---------------------------------------------------------------------------
(* judge_claim *)

(* poll_loop asks for as many tasks as it has permits; the request begins  *)
(* with the read of terminalize_past_deadline.                             *)
ClaimSweepRead(p, w) ==
    /\ At(p, "idle") /\ Busy(w) < Permits
    /\ \A q \in Procs : ~(proc[q].op = "claim" /\ proc[q].w = w)
    /\ proc' = [proc EXCEPT ![p] = [Idle EXCEPT !.pc = "sweep", !.op = "claim", !.w = w,
                    !.limit = Permits - Busy(w),
                    !.todo = IF deadline = 0 THEN {t \in Tasks : Open(t)} ELSE {}]]
    /\ UNCHANGED <<task, exec, ev, deadline, timer, penalised, banned, waived, used>>

(* One update of terminalize_past_deadline or terminalize_batch_deadline. *)
SweepWrite(p, t) ==
    /\ At(p, "sweep") /\ t \in proc[p].todo
    /\ task' = [task EXCEPT ![t] = Errored(@)]
    /\ proc' = [proc EXCEPT ![p].todo = @ \ {t}, ![p].hit = TRUE]
    /\ UNCHANGED <<exec, ev, deadline, timer, penalised, banned, waived, used>>

(* Mutant: one attempt too many. *)
RetryableOnceMore(t) == task[t].attempt <= MaxAttempts /\ deadline > 0

(* Whether a row can be retried is decided on what was read. *)
Retryable(t) == task[t].attempt < MaxAttempts /\ deadline > 0

(* Mutant: every running task is reclaimed, whatever its lease. *)
ReclaimReadAll(p) ==
    LET expired == {t \in Tasks : task[t].st = "Running"}
    IN  /\ At(p, "sweep") /\ proc[p].op = "claim" /\ proc[p].todo = {}
        /\ proc' = [proc EXCEPT ![p].pc = "claim", ![p].todo = expired,
                                ![p].retry = {t \in expired : Retryable(t)}]
        /\ UNCHANGED <<task, exec, ev, deadline, timer, penalised, banned, waived, used>>

(* reclaim_expired_leases reads the expired leases. *)
ReclaimRead(p) ==
    LET expired == {t \in Tasks : task[t].st = "Running" /\ task[t].lease = 0}
    IN  /\ At(p, "sweep") /\ proc[p].op = "claim" /\ proc[p].todo = {}
        /\ proc' = [proc EXCEPT ![p].pc = "claim", ![p].todo = expired,
                                ![p].retry = {t \in expired : Retryable(t)}]
        /\ UNCHANGED <<task, exec, ev, deadline, timer, penalised, banned, waived, used>>

(* A claimed row: one more attempt, a new token, a new lease. *)
Claimed(x, w) ==
    [x EXCEPT !.st = "Running", !.w = w, !.attempt = @ + 1, !.token = x.attempt + 1, !.lease = LeaseTTL]

(* The rest of the transaction: the reclaimed rows are written, the oldest *)
(* pending rows are locked and claimed.                                    *)
ClaimCommit(p) ==
    LET w     == proc[p].w
        freed == [t \in Tasks |-> IF t \notin proc[p].todo THEN task[t]
                                  ELSE IF t \in proc[p].retry THEN Released(task[t])
                                  ELSE Errored(task[t])]
        ready == {t \in Tasks : freed[t].st = "Pending"}
        mine  == {t \in ready : Cardinality({u \in ready : u <= t}) <= proc[p].limit}
    IN  /\ At(p, "claim")
        /\ \A t \in mine : freed[t].attempt < MaxClaims
        /\ task' = [t \in Tasks |-> IF t \in mine THEN Claimed(freed[t], w) ELSE freed[t]]
        /\ exec' = [t \in Tasks |-> [n \in Attempts |->
                      IF t \in mine /\ n = freed[t].attempt + 1
                      THEN [NoExec EXCEPT !.st = "issued", !.w = w] ELSE exec[t][n]]]
        /\ Goto(p, IF proc[p].hit \/ proc[p].todo # proc[p].retry THEN "mf_read" ELSE "reply")
        /\ UNCHANGED <<ev, deadline, timer, penalised, banned, waived, used>>

(* The worker starts what it was given. *)
ClaimReply(p) ==
    /\ At(p, "reply") /\ proc[p].op = "claim"
    /\ exec' = [t \in Tasks |-> [n \in Attempts |->
                  IF exec[t][n].st = "issued" /\ exec[t][n].w = proc[p].w
                  THEN [exec[t][n] EXCEPT !.st = "run"] ELSE exec[t][n]]]
    /\ proc' = [proc EXCEPT ![p] = Idle]
    /\ UNCHANGED <<task, ev, deadline, timer, penalised, banned, waived, used>>

(* The answer is lost: the tasks stay claimed and nobody runs them. *)
Orphaned(w) ==
    [t \in Tasks |-> [n \in Attempts |->
        IF exec[t][n].st = "issued" /\ exec[t][n].w = w
        THEN [exec[t][n] EXCEPT !.st = "done"] ELSE exec[t][n]]]

ClaimReplyLost(p) ==
    /\ At(p, "reply") /\ proc[p].op = "claim"
    /\ used.losses < MaxLosses /\ Spend("losses")
    /\ exec' = Orphaned(proc[p].w)
    /\ proc' = [proc EXCEPT ![p] = Idle]
    /\ UNCHANGED <<task, ev, deadline, timer, penalised, banned, waived>>

---------------------------------------------------------------------------
(* judge_heartbeat *)

HeartbeatRead(p, t, n) ==
    /\ At(p, "idle") /\ exec[t][n].st = "run" /\ ~exec[t][n].stale
    /\ Holds(t, n, exec[t][n].w)
    /\ proc' = [proc EXCEPT ![p] = [Idle EXCEPT !.pc = "beat", !.op = "beat", !.t = t, !.n = n]]
    /\ UNCHANGED <<task, exec, ev, deadline, timer, penalised, banned, waived, used>>

(* heartbeat_loop takes a 409 to mean that the task has gone to another. *)
HeartbeatStale(p, t, n) ==
    /\ At(p, "idle") /\ exec[t][n].st = "run" /\ ~exec[t][n].stale
    /\ ~Holds(t, n, exec[t][n].w)
    /\ exec' = [exec EXCEPT ![t][n].stale = TRUE]
    /\ UNCHANGED <<task, proc, ev, deadline, timer, penalised, banned, waived, used>>

HeartbeatWrite(p) ==
    /\ At(p, "beat")
    /\ task' = [task EXCEPT ![proc[p].t].lease = IF LeaseTTL < deadline THEN LeaseTTL ELSE deadline]
    /\ proc' = [proc EXCEPT ![p] = Idle]
    /\ UNCHANGED <<exec, ev, deadline, timer, penalised, banned, waived, used>>

---------------------------------------------------------------------------
(* execute_single_task and deliver_result on the worker *)

(* The script ends; a result whose lease is known to be lost is dropped. *)
ScriptEnds(t, n, out) ==
    /\ exec[t][n].st = "run"
    /\ exec' = [exec EXCEPT ![t][n].st = IF exec[t][n].stale THEN "done" ELSE "send",
                            ![t][n].out = out]
    /\ UNCHANGED <<task, proc, ev, deadline, timer, penalised, banned, waived, used>>

(* A delivery that failed is tried again with the same result_id. *)
Resent(x) == [x EXCEPT !.tries = @ + 1, !.st = IF x.tries + 1 < ResultTries THEN "send" ELSE "done"]

RequestLost(t, n) ==
    /\ exec[t][n].st = "send"
    /\ used.losses < MaxLosses /\ Spend("losses")
    /\ exec' = [exec EXCEPT ![t][n] = Resent(@)]
    /\ UNCHANGED <<task, proc, ev, deadline, timer, penalised, banned, waived>>

(* The worker process dies with everything it was doing. *)
WorkerDies(w) ==
    /\ used.deaths < MaxDeaths /\ Spend("deaths")
    /\ exec' = [t \in Tasks |-> [n \in Attempts |->
                  IF exec[t][n].w = w THEN [exec[t][n] EXCEPT !.st = "done"] ELSE exec[t][n]]]
    /\ UNCHANGED <<task, proc, ev, deadline, timer, penalised, banned, waived>>

---------------------------------------------------------------------------
(* judge_result *)

(* A worker error gives the task back while retries and time remain.  The  *)
(* attempts counted are those of the row, not that of the request.         *)
ResultFind(p, t, n) ==
    /\ At(p, "idle") /\ exec[t][n].st = "send"
    /\ exec' = [exec EXCEPT ![t][n].st = "wait"]
    /\ proc' = [proc EXCEPT ![p] = [Idle EXCEPT !.op = "result", !.t = t, !.n = n,
                    !.pc = IF exec[t][n].out = "worker_error" /\ Retryable(t) THEN "release" ELSE "check"]]
    /\ UNCHANGED <<task, ev, deadline, timer, penalised, banned, waived, used>>

(* release_task_to_pending looks at neither the lease nor the status. *)
ResultRelease(p) ==
    /\ At(p, "release")
    /\ task' = [task EXCEPT ![proc[p].t] = Released(@)]
    /\ Goto(p, "reply")
    /\ UNCHANGED <<exec, ev, deadline, timer, penalised, banned, waived, used>>

OutOf(p) == exec[proc[p].t][proc[p].n].out
(* Mutants: a target timeout is not scored; every verdict is. *)
ScoredExceptTimeout(p) == IF OutOf(p) = "down" THEN "event" ELSE "mf_read"
ScoredAlways(p) == "event"

Scored(p) == IF StatusOf(OutOf(p)) = "Down" THEN "event" ELSE "mf_read"

(* submit_result: a result seen before is taken again, one without the     *)
(* lease is refused, and the worker drops it.                              *)
ResultCheck(p) ==
    LET t == proc[p].t
        n == proc[p].n
    IN  /\ At(p, "check")
        /\ \/ /\ task[t].result = n /\ ~Open(t)
              /\ Goto(p, Scored(p))
              /\ UNCHANGED exec
           \/ /\ ~(task[t].result = n /\ ~Open(t))
              /\ Holds(t, n, exec[t][n].w)
              /\ Goto(p, "write")
              /\ UNCHANGED exec
           \/ /\ ~(task[t].result = n /\ ~Open(t))
              /\ ~Holds(t, n, exec[t][n].w)
              /\ proc' = [proc EXCEPT ![p] = Idle]
              /\ exec' = [exec EXCEPT ![t][n].st = "done"]
        /\ UNCHANGED <<task, ev, deadline, timer, penalised, banned, waived, used>>

(* Mutant: the result_id is not stored. *)
ResultWriteNameless(p) ==
    /\ At(p, "write")
    /\ task' = [task EXCEPT ![proc[p].t] = [Unleased(@) EXCEPT !.st = StatusOf(OutOf(p))]]
    /\ Goto(p, Scored(p))
    /\ UNCHANGED <<exec, ev, deadline, timer, penalised, banned, waived, used>>

ResultWrite(p) ==
    /\ At(p, "write")
    /\ task' = [task EXCEPT ![proc[p].t] =
            [Unleased(@) EXCEPT !.st = StatusOf(OutOf(p)), !.result = proc[p].n]]
    /\ Goto(p, Scored(p))
    /\ UNCHANGED <<exec, ev, deadline, timer, penalised, banned, waived, used>>

(* Only a running event scores, and no team that is banned. *)
ResultEvent(p) ==
    /\ At(p, "event")
    /\ Goto(p, IF ev = "Running" THEN "ban" ELSE "mf_read")
    /\ waived' = IF ev = "Paused" THEN waived \cup {proc[p].t} ELSE waived
    /\ UNCHANGED <<task, exec, ev, deadline, timer, penalised, banned, used>>

ResultBan(p) ==
    /\ At(p, "ban")
    /\ Goto(p, IF proc[p].t \in banned THEN "mf_read" ELSE "score")
    /\ waived' = IF proc[p].t \in banned THEN waived \cup {proc[p].t} ELSE waived
    /\ UNCHANGED <<task, exec, ev, deadline, timer, penalised, banned, used>>

(* create_score_event: the key judge_down(task) is unique. *)
ResultScore(p) ==
    /\ At(p, "score")
    /\ penalised' = penalised \cup {proc[p].t}
    /\ Goto(p, "mf_read")
    /\ UNCHANGED <<task, exec, ev, deadline, timer, banned, waived, used>>

ResultReply(p) ==
    /\ At(p, "reply") /\ proc[p].op = "result"
    /\ exec' = [exec EXCEPT ![proc[p].t][proc[p].n].st = "done"]
    /\ proc' = [proc EXCEPT ![p] = Idle]
    /\ UNCHANGED <<task, ev, deadline, timer, penalised, banned, waived, used>>

ResultReplyLost(p) ==
    /\ At(p, "reply") /\ proc[p].op = "result"
    /\ exec[proc[p].t][proc[p].n].st = "wait"
    /\ used.losses < MaxLosses /\ Spend("losses")
    /\ exec' = [exec EXCEPT ![proc[p].t][proc[p].n] = Resent(@)]
    /\ proc' = [proc EXCEPT ![p] = Idle]
    /\ UNCHANGED <<task, ev, deadline, timer, penalised, banned, waived>>

---------------------------------------------------------------------------
(* The batch deadline and event_service::maybe_finish_event *)

(* Mutant: tasks nobody has claimed are overlooked. *)
DeadlineReadRunning(p) ==
    /\ At(p, "idle") /\ timer = "pending" /\ deadline = 0
    /\ timer' = "running"
    /\ proc' = [proc EXCEPT ![p] = [Idle EXCEPT !.pc = "sweep", !.op = "deadline",
                                                !.todo = {t \in Tasks : task[t].st = "Running"}]]
    /\ UNCHANGED <<task, exec, ev, deadline, penalised, banned, waived, used>>

DeadlineRead(p) ==
    /\ At(p, "idle") /\ timer = "pending" /\ deadline = 0
    /\ timer' = "running"
    /\ proc' = [proc EXCEPT ![p] = [Idle EXCEPT !.pc = "sweep", !.op = "deadline",
                                                !.todo = {t \in Tasks : Open(t)}]]
    /\ UNCHANGED <<task, exec, ev, deadline, penalised, banned, waived, used>>

DeadlineSwept(p) ==
    /\ At(p, "sweep") /\ proc[p].op = "deadline" /\ proc[p].todo = {}
    /\ Goto(p, "mf_read")
    /\ UNCHANGED <<task, exec, ev, deadline, timer, penalised, banned, waived, used>>

DeadlineDone(p) ==
    /\ At(p, "reply") /\ proc[p].op = "deadline"
    /\ timer' = "done"
    /\ proc' = [proc EXCEPT ![p] = Idle]
    /\ UNCHANGED <<task, exec, ev, deadline, penalised, banned, waived, used>>

AllTerminal == \A t \in Tasks : ~Open(t)

(* Mutant: open tasks do not keep the event from finishing. *)
MaybeFinishEager(p) ==
    /\ At(p, "mf_read")
    /\ Goto(p, IF ev = "Running" THEN "mf_cas" ELSE "reply")
    /\ UNCHANGED <<task, exec, ev, deadline, timer, penalised, banned, waived, used>>

MaybeFinishRead(p) ==
    /\ At(p, "mf_read")
    /\ Goto(p, IF ev = "Running" /\ AllTerminal THEN "mf_cas" ELSE "reply")
    /\ UNCHANGED <<task, exec, ev, deadline, timer, penalised, banned, waived, used>>

MaybeFinishCas(p) ==
    /\ At(p, "mf_cas")
    /\ ev' = IF ev = "Running" THEN "Finished" ELSE ev
    /\ Goto(p, "reply")
    /\ UNCHANGED <<task, exec, deadline, timer, penalised, banned, waived, used>>

---------------------------------------------------------------------------
(* Administrators, the process and the clock *)

(* An administrator's request is one more handler: one statement of it     *)
(* matters here.                                                           *)
Attended == \E p \in Procs : At(p, "idle")

PauseEvent ==
    /\ Attended /\ ev = "Running" /\ used.pauses < MaxPauses /\ Spend("pauses")
    /\ ev' = "Paused"
    /\ UNCHANGED <<task, exec, proc, deadline, timer, penalised, banned, waived>>

ResumeEvent ==
    /\ Attended /\ ev = "Paused"
    /\ ev' = "Running"
    /\ UNCHANGED <<task, exec, proc, deadline, timer, penalised, banned, waived, used>>

BanTeam(t) ==
    /\ Attended /\ t \notin banned /\ used.bans < MaxBans /\ Spend("bans")
    /\ banned' = banned \cup {t}
    /\ UNCHANGED <<task, exec, proc, ev, deadline, timer, penalised, waived>>

UnbanTeam(t) ==
    /\ Attended /\ t \in banned
    /\ banned' = banned \ {t}
    /\ UNCHANGED <<task, exec, proc, ev, deadline, timer, penalised, waived, used>>

(* The API process dies and boots.  The workers' requests in flight fail;  *)
(* the boot puts the deadline task back and tries to finish the event.     *)
Restart ==
    /\ used.crashes < MaxCrashes /\ Spend("crashes")
    /\ proc' = [p \in Procs |-> Idle]
    /\ exec' = [t \in Tasks |-> [n \in Attempts |->
                  IF exec[t][n].st = "issued" THEN [exec[t][n] EXCEPT !.st = "done"]
                  ELSE IF exec[t][n].st = "wait" THEN Resent(exec[t][n]) ELSE exec[t][n]]]
    /\ timer' = IF timer = "running" THEN "pending" ELSE timer
    /\ ev' = IF ev = "Running" /\ AllTerminal THEN "Finished" ELSE ev
    /\ UNCHANGED <<task, deadline, penalised, banned, waived>>

Less(x) == IF x > 0 THEN x - 1 ELSE 0

Tick ==
    /\ \A p \in Procs : proc[p] = Idle
    /\ deadline' = Less(deadline)
    /\ task' = [t \in Tasks |-> [task[t] EXCEPT !.lease = Less(@)]]
    /\ UNCHANGED <<exec, proc, ev, timer, penalised, banned, waived, used>>

Handler(p) ==
    \/ \E t \in Tasks : SweepWrite(p, t)
    \/ ReclaimRead(p) \/ ClaimCommit(p) \/ ClaimReply(p) \/ ClaimReplyLost(p)
    \/ HeartbeatWrite(p)
    \/ ResultRelease(p) \/ ResultCheck(p) \/ ResultWrite(p) \/ ResultEvent(p) \/ ResultBan(p)
    \/ ResultScore(p) \/ ResultReply(p) \/ ResultReplyLost(p)
    \/ DeadlineSwept(p) \/ DeadlineDone(p) \/ MaybeFinishRead(p) \/ MaybeFinishCas(p)

Request(p) ==
    \/ \E w \in Workers : ClaimSweepRead(p, w)
    \/ \E t \in Tasks, n \in Attempts :
          HeartbeatRead(p, t, n) \/ HeartbeatStale(p, t, n) \/ ResultFind(p, t, n)

Worker ==
    \/ \E t \in Tasks, n \in Attempts : RequestLost(t, n) \/ \E out \in Outcomes : ScriptEnds(t, n, out)
    \/ \E w \in Workers : WorkerDies(w)

Next ==
    \/ \E p \in Procs : Handler(p) \/ Request(p) \/ DeadlineRead(p)
    \/ Worker
    \/ PauseEvent \/ ResumeEvent \/ Restart
    \/ \E t \in Tasks : BanTeam(t) \/ UnbanTeam(t)
    \/ Tick

Spec == Init /\ [][Next]_vars

(* Handlers in flight go on, the scheduler runs the deadline task, time    *)
(* passes.  No worker has to poll, run or answer, and nobody has to resume. *)
Fairness ==
    /\ SF_vars(Tick)
    /\ \A p \in Procs : WF_vars(Handler(p))
    /\ SF_vars(\E p \in Procs : DeadlineRead(p))

FairSpec == Spec /\ Fairness

---------------------------------------------------------------------------
(* Properties *)

TaskRows == [st : {"Pending", "Running"} \cup Final, w : Workers \cup {NoWorker}, attempt : 0..MaxClaims,
             token : 0..MaxClaims, lease : Nat, result : 0..MaxClaims]
Execs == [st : {"none", "issued", "run", "send", "wait", "done"}, w : Workers \cup {NoWorker},
          out : Outcomes \cup {"none"}, tries : Nat, stale : BOOLEAN]
PCs == {"idle", "sweep", "claim", "beat", "release", "check", "write", "event", "ban", "score",
        "mf_read", "mf_cas", "reply"}
Frames == [pc : PCs, op : {"none", "claim", "beat", "result", "deadline"}, w : Workers \cup {NoWorker},
           t : Tasks \cup {0}, n : Attempts \cup {0}, limit : Int, todo : SUBSET Tasks, retry : SUBSET Tasks,
           hit : BOOLEAN]

(* The rows of the batch, the executions and the handlers keep their types. *)
TypeOK ==
    /\ task \in [Tasks -> TaskRows]
    /\ exec \in [Tasks -> [Attempts -> Execs]]
    /\ proc \in [Procs -> Frames]
    /\ ev \in {"Running", "Paused", "Finished"}
    /\ deadline \in Nat
    /\ timer \in {"pending", "running", "done"}
    /\ penalised \subseteq Tasks /\ banned \subseteq Tasks /\ waived \subseteq Tasks
    /\ used \in [pauses : Nat, crashes : Nat, deaths : Nat, losses : Nat, bans : Nat]

(* Retries do not go beyond max_attempts. *)
AttemptsBounded == \A t \in Tasks : task[t].attempt <= MaxAttempts

\* Once Up, Down or JudgeError, a task never changes.
KeepsVerdicts == \A t \in Tasks : task[t].st \in Final => task'[t].st = task[t].st

\* Only a result of that very attempt ends a lease before it has run out and
\* before the deadline.
HonoursLeases ==
    \A t \in Tasks :
       task[t].st = "Running" /\ task[t].lease > 0 /\ deadline > 0 /\ task'[t].token # task[t].token =>
          \E p \in Procs : proc[p].op = "result" /\ proc[p].t = t /\ proc[p].n = task[t].attempt

\* judge_result that comes late costs nobody anything.
KeepsScores == ev = "Finished" => UNCHANGED penalised

(* Nothing is taken back: a verdict stands, a lease that has not run out   *)
(* is taken from its holder by nobody, and the scores of a finished event  *)
(* do not move, whatever workers repeat, lose or answer too late.          *)
NothingTakenBack == [][KeepsVerdicts /\ HonoursLeases /\ KeepsScores]_vars

(* No verdict is invented: what a task says of its box is what the check   *)
(* of one of its attempts found.                                           *)
VerdictFromWorker ==
    \A t \in Tasks : task[t].st \in {"Up", "Down"} =>
       \E n \in Attempts : n = task[t].result /\ StatusOf(exec[t][n].out) = task[t].st

(* A team pays only for a Down that a worker really found. *)
PenaltyFromWorker ==
    \A t \in penalised : \E n \in Attempts : StatusOf(exec[t][n].out) = "Down"

\* A box whose check ended in JudgeError, or in Up, costs nothing.
PenaltyIsForDown == \A t \in penalised : task[t].st = "Down"

\* Every Down has been paid for, except those that came in during a pause or
\* a ban.
FinishedIsScored ==
    ev = "Finished" => \A t \in Tasks : task[t].st = "Down" => t \in penalised \cup waived

(* The scoreboard agrees with the verdicts: a penalty is for a Down, and   *)
(* when the event is finished no Down is left unpaid.                      *)
ScoresMatchVerdicts == PenaltyIsForDown /\ FinishedIsScored

(* Judging implements JudgeVerdicts: verdicts are given once, penalties    *)
(* follow a Down only and never come during a pause, and a finished event  *)
(* has both settled.                                                       *)
Promise == INSTANCE JudgeVerdicts WITH
    Tasks    <- Tasks,
    Verdicts <- Final,
    Down     <- "Down",
    verdict  <- [t \in Tasks |-> IF Open(t) THEN "open" ELSE task[t].st],
    paid     <- penalised,
    event    <- (CASE ev = "Running" -> "open" [] ev = "Paused" -> "paused" [] ev = "Finished" -> "over")
JudgePromise == Promise!Spec

(* Every task gets a verdict, even if every worker is gone. *)
AllJudged == \A t \in Tasks : <>(task[t].st \in Final)
=============================================================================

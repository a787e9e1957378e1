----------------------------- MODULE TaskEngine -----------------------------
(***************************************************************************)
(* The scheduled_tasks engine: the poll claims due rows (five seconds      *)
(* ahead), a dispatch waits, runs the handler under a timeout and writes   *)
(* the outcome with mark_done from the copy of the row it was given;       *)
(* administrators create, edit, run and delete rows and events replace     *)
(* their planned starts meanwhile; at boot running rows are reset, failed  *)
(* recurring tasks revived and startup tasks dispatched without a claim.   *)
(***************************************************************************)
EXTENDS Naturals, FiniteSets

CONSTANTS Once, Cron, Startup,  \* tasks by trigger_type
          Jobs,                 \* dispatches in flight
          MaxAttempts,          \* max_attempts of every row
          Settings              \* tasks in use, bounds on failures, edits and crashes

VARIABLES conf,   \* the setting in force, chosen once
          row,    \* scheduled_tasks
          job,    \* dispatches: the task, the copy of its attempts, how far it is
          up,     \* the process is up
          failed, \* failed runs of a task since it last succeeded or was replaced
          manual, \* tasks that run_scheduled_task restarted
          stuck,  \* tasks whose handler panicked since the process came up
          spent   \* failures, edits and crashes so far

vars == <<conf, row, job, up, failed, manual, stuck, spent>>

Tasks == Once \cup Cron \cup Startup
NoRow == [st |-> "none", at |-> "never", enabled |-> FALSE, expired |-> FALSE, attempts |-> 0,
          id |-> 0]
\* execute_at: "never" (NULL), "later" or "due" (within five seconds).
Pending(at, id) == [st |-> "pending", at |-> at, enabled |-> TRUE, expired |-> FALSE, attempts |-> 0,
                    id |-> id]
NoJob == [task |-> "none", id |-> 0, pc |-> "none", attempts |-> 0, expired |-> FALSE]

\* seed_startup_tasks, seed_awdp_recurring_tasks: rows that do not exist yet.
Seeded(k) == IF k \in Cron THEN Pending("due", 0) ELSE Pending("never", 0)
Seed(rows) == [k \in Tasks |-> IF k \in conf.tasks \ Once /\ rows[k].st = "none" THEN Seeded(k) ELSE rows[k]]

Init ==
    /\ conf \in Settings
    /\ row = Seed([k \in Tasks |-> NoRow]) /\ job = [j \in Jobs |-> NoJob] /\ up = TRUE
    /\ failed = [k \in Tasks |-> 0] /\ manual = {} /\ stuck = {}
    /\ spent = [fails |-> 0, edits |-> 0, crashes |-> 0]

Count(k) == spent' = [spent EXCEPT ![k] = @ + 1]
Edits == up /\ spent.edits < conf.edits /\ Count("edits")
Free == {j \in Jobs : job[j] = NoJob}
\* Jobs of the row as it is now: a job outlives the row it was claimed from.
JobsOf(k) == {j \in Jobs : job[j].task = k /\ job[j].id = row[k].id}
Dispatched(k) == [task |-> k, id |-> row[k].id, pc |-> "wait", attempts |-> row[k].attempts,
                  expired |-> row[k].expired]

----------------------------------------------------------------------------
(* poll, dispatch, mark_done *)

\* UPDATE ... WHERE id IN (SELECT ... FOR UPDATE SKIP LOCKED LIMIT 20).
FetchAndRun(k) ==
    /\ up /\ row[k].st = "pending" /\ row[k].enabled /\ row[k].at = "due" /\ Free # {}
    /\ row' = [row EXCEPT ![k].st = "running"]
    /\ job' = [job EXCEPT ![CHOOSE j \in Free : TRUE] = Dispatched(k)]
    /\ UNCHANGED <<conf, up, failed, manual, stuck, spent>>

\* Sleeps until execute_at; a task past its expires_at is done without a run.
DispatchWithPrecision(j) ==
    /\ job[j].pc = "wait"
    /\ job' = [job EXCEPT ![j].pc = IF job[j].expired THEN "ok" ELSE "run"]
    /\ UNCHANGED <<conf, row, up, failed, manual, stuck, spent>>

\* The row was deleted, or deleted and created anew under another id.
Gone(j) == row[job[j].task].st = "none" \/ row[job[j].task].id # job[j].id

\* The handler returns, fails or runs into timeout_secs.
RunHandler(j) == LET k == job[j].task IN
    /\ job[j].pc = "run"
    /\ \/ /\ job' = [job EXCEPT ![j].pc = "ok"] /\ UNCHANGED spent
          /\ failed' = IF Gone(j) THEN failed ELSE [failed EXCEPT ![k] = 0]
       \/ /\ spent.fails < conf.fails /\ Count("fails") /\ job' = [job EXCEPT ![j].pc = "error"]
          /\ failed' = IF Gone(j) THEN failed ELSE [failed EXCEPT ![k] = @ + 1]
    /\ UNCHANGED <<conf, row, up, manual, stuck>>

\* A panic ends the spawned dispatch before mark_done: the row stays running.
Panic(j) ==
    /\ job[j].pc = "run" /\ spent.fails < conf.fails /\ Count("fails")
    /\ job' = [job EXCEPT ![j] = NoJob] /\ stuck' = stuck \cup {job[j].task}
    /\ UNCHANGED <<conf, row, up, failed, manual>>

\* Columns that mark_done sets, from the copy the job has; others are kept.
OnError(r, attempts) ==
    IF attempts + 1 < MaxAttempts
    THEN [r EXCEPT !.attempts = attempts + 1, !.st = "pending", !.at = "later"]
    ELSE [r EXCEPT !.attempts = attempts + 1, !.st = "failed"]
\* A recurring task that is not past its end gets its next time.
OnSuccess(r, again) ==
    IF again THEN [r EXCEPT !.attempts = 0, !.st = "pending", !.at = "later"]
    ELSE [r EXCEPT !.attempts = 0, !.st = "completed"]
Outcome(k, ok, attempts, end) ==
    IF ok THEN OnSuccess(row[k], k \in Cron /\ ~end) ELSE OnError(row[k], attempts)

\* A row deleted meanwhile stays deleted.
MarkDone(j) == LET k == job[j].task IN
    /\ job[j].pc \in {"ok", "error"}
    /\ row' = IF Gone(j) THEN row
              ELSE [row EXCEPT ![k] = Outcome(k, job[j].pc = "ok", job[j].attempts, job[j].expired)]
    /\ job' = [job EXCEPT ![j] = NoJob]
    /\ UNCHANGED <<conf, up, failed, manual, stuck, spent>>

----------------------------------------------------------------------------
(* administrators and events *)

Insert(k) ==
    /\ k \in Once \cap conf.tasks /\ row[k].st \notin {"pending", "running"}
    /\ row' = [row EXCEPT ![k] = Pending("later", row[k].id + 1)] /\ failed' = [failed EXCEPT ![k] = 0]
    /\ UNCHANGED <<conf, job, up, manual, stuck>>
CreateScheduledTask(k) == Edits /\ Insert(k)
\* The rows of an AWD event (EventSchedule has what they say).
ScheduleEventStart(k) == Edits /\ Insert(k)
ScheduleAutoPrecheck(k) == Edits /\ Insert(k)

\* The row is locked; one that is running is refused.
Replace(k) ==
    /\ k \in Once /\ row[k].st = "pending"
    /\ row' = [row EXCEPT ![k] = Pending("later", row[k].id)] /\ failed' = [failed EXCEPT ![k] = 0]
    /\ UNCHANGED <<conf, job, up, manual, stuck>>
ReplaceEventStart(k) == Edits /\ Replace(k)
ReplaceAutoPrecheck(k) == Edits /\ Replace(k)

\* cancel_pending_event_lifecycle_schedules, and a planned start set to none.
CancelPending(k) ==
    /\ Edits /\ k \in Once /\ row[k].st = "pending"
    /\ row' = [row EXCEPT ![k] = [NoRow EXCEPT !.id = row[k].id]]
    /\ UNCHANGED <<conf, job, up, failed, manual, stuck>>

\* Only rows that are not protected; seeded rows are.
DeleteScheduledTask(k) ==
    /\ Edits /\ k \in Once /\ row[k].st # "none" /\ row' = [row EXCEPT ![k] = [NoRow EXCEPT !.id = row[k].id]]
    /\ UNCHANGED <<conf, job, up, failed, manual, stuck>>

PatchScheduledTask(k) ==
    /\ Edits /\ row[k].st # "none" /\ row' = [row EXCEPT ![k].enabled = ~@]
    /\ UNCHANGED <<conf, job, up, failed, manual, stuck>>

\* Whatever the status is, running too.
RunScheduledTask(k) ==
    /\ Edits /\ row[k].st # "none" /\ row' = [row EXCEPT ![k].st = "pending", ![k].at = "due"]
    /\ manual' = manual \cup {k} /\ failed' = [failed EXCEPT ![k] = 0]
    /\ UNCHANGED <<conf, job, up, stuck>>

----------------------------------------------------------------------------
(* time and the process *)

Due(k) ==
    /\ row[k].at = "later" /\ row' = [row EXCEPT ![k].at = "due"]
    /\ UNCHANGED <<conf, job, up, failed, manual, stuck, spent>>
Expire(k) ==
    /\ Edits /\ k \in Once /\ row[k].st # "none" /\ ~row[k].expired /\ row[k].at = "due"
    /\ row' = [row EXCEPT ![k].expired = TRUE]
    /\ UNCHANGED <<conf, job, up, failed, manual, stuck>>
Crash ==
    /\ up /\ spent.crashes < conf.crashes /\ Count("crashes") /\ up' = FALSE
    /\ job' = [j \in Jobs |-> NoJob] /\ stuck' = {}
    /\ UNCHANGED <<conf, row, failed, manual>>

\* Mutant: running rows are left as they are.
RecoverNothing(r, k) == r

\* init_and_recover: a running row goes back to pending; a protected cron row
\* that failed for good is revived when it is enabled.
RecoverRecurringTask(r, k) ==
    IF r.st = "running" THEN [r EXCEPT !.st = "pending"]
    ELSE IF r.st = "failed" /\ k \in Cron /\ r.enabled THEN [r EXCEPT !.st = "pending", !.at = "later", !.attempts = 0]
    ELSE r

\* ... and startup tasks are dispatched as they are, claimed or not.
InitAndRecover ==
    /\ ~up /\ up' = TRUE
    /\ row' = [k \in Tasks |-> RecoverRecurringTask(Seed(row)[k], k)]
    /\ failed' = [k \in Tasks |-> IF row[k].st = "failed" /\ row'[k].st = "pending" THEN 0 ELSE failed[k]]
    /\ \E slot \in [Startup -> Jobs] :
         /\ \A k1, k2 \in Startup : k1 # k2 => slot[k1] # slot[k2]
         /\ job' = [j \in Jobs |-> IF \E k \in Startup : slot[k] = j /\ row[k].st # "none" /\ row[k].enabled
                                   THEN LET k == CHOOSE x \in Startup : slot[x] = j IN Dispatched(k)
                                   ELSE NoJob]
    /\ UNCHANGED <<conf, manual, stuck, spent>>

Work(j) == DispatchWithPrecision(j) \/ RunHandler(j) \/ MarkDone(j)
Next ==
    \/ \E k \in Tasks : \/ FetchAndRun(k) \/ CreateScheduledTask(k) \/ ScheduleEventStart(k)
                        \/ ScheduleAutoPrecheck(k) \/ ReplaceEventStart(k) \/ ReplaceAutoPrecheck(k) \/ CancelPending(k)
                        \/ DeleteScheduledTask(k) \/ PatchScheduledTask(k) \/ RunScheduledTask(k)
                        \/ Due(k) \/ Expire(k)
    \/ \E j \in Jobs : Work(j) \/ Panic(j)
    \/ Crash \/ InitAndRecover

\* The poll ticks every five seconds (a wake-up only makes it sooner), jobs
\* are bounded by their timeout, time passes, the process is restarted.
Fairness == /\ \A k \in Tasks : WF_vars(FetchAndRun(k)) /\ WF_vars(Due(k))
            /\ \A j \in Jobs : WF_vars(Work(j))
            /\ WF_vars(InitAndRecover)
Spec == Init /\ [][Next]_vars /\ Fairness

----------------------------------------------------------------------------
TypeOK ==
    /\ conf \in Settings /\ up \in BOOLEAN /\ manual \subseteq Tasks
    /\ \A k \in Tasks : /\ row[k].st \in {"none", "pending", "running", "completed", "failed"}
                        /\ row[k].at \in {"never", "later", "due"} /\ row[k].attempts \in Nat
    /\ \A j \in Jobs : job[j].task \in Tasks \cup {"none"}

(* A task is not run twice at once: a job holds its row as running, unless *)
(* run_scheduled_task restarted it, or it is a startup task, which boot    *)
(* dispatches without a claim.                                             *)
OneJobPerTask ==
    \A k \in Tasks \ (manual \cup Startup) :
        /\ Cardinality(JobsOf(k)) <= 1
        /\ JobsOf(k) # {} /\ row[k].st # "none" => row[k].st = "running"

(* A task fails at most max_attempts times before somebody steps in; a     *)
(* crash between a failure and mark_done leaves that failure uncounted.    *)
AttemptsBounded ==
    \A k \in Tasks \ (manual \cup Startup) : failed[k] <= MaxAttempts + spent.crashes

(* A planned task that stays enabled is carried out, expires or fails for  *)
(* good, through crashes and edits, unless its handler panics: that one    *)
(* waits for the next restart.                                             *)
Settled(k) == row[k].st \in {"none", "completed", "failed"} \/ ~row[k].enabled \/ k \in stuck

(* A recurring task runs again and again until it failed max_attempts      *)
(* times, panics or is disabled; a restart of the process revives it.      *)
Recurs(k) == (\E j \in JobsOf(k) : job[j].pc = "run") \/ row[k].st = "failed" \/ ~row[k].enabled \/ k \in stuck
Recurring(k) == k \in conf.tasks => Recurs(k)
----------------------------------------------------------------------------
(* What every step keeps *)

States == {"none", "pending", "running", "completed", "failed"}
Types ==
    /\ conf \in Settings /\ up \in BOOLEAN /\ manual \subseteq Tasks /\ stuck \subseteq Tasks \cup {"none"}
    /\ row \in [Tasks -> [st : States, at : {"never", "later", "due"}, enabled : BOOLEAN,
                          expired : BOOLEAN, attempts : Nat, id : Nat]]
    /\ job \in [Jobs -> [task : Tasks \cup {"none"}, id : Nat, pc : {"none", "wait", "run", "ok", "error"},
                         attempts : Nat, expired : BOOLEAN]]
    /\ failed \in [Tasks -> Nat] /\ spent \in [fails : Nat, edits : Nat, crashes : Nat]

\* Jobs are of this process, of a task, and not of a row that is still to come.
JobsKnown ==
    /\ \A j \in Jobs : job[j].pc # "none" => up /\ job[j].task \in Tasks
    /\ \A j \in Jobs : job[j].task \in Tasks => job[j].id <= row[job[j].task].id

\* Rows that are seeded stay; recurring tasks have no end.
SeededStays ==
    /\ \A k \in Tasks \ Once : row[k].st = "none" => k \notin conf.tasks
    /\ \A k \in Cron : ~row[k].expired /\ \A j \in Jobs : job[j].task = k => ~job[j].expired

\* A job holds its row.
Watched == Tasks \ (manual \cup Startup)
Single(k) ==
    /\ \A i, j \in JobsOf(k) : i = j
    /\ JobsOf(k) # {} /\ row[k].st # "none" => row[k].st = "running"

\* It has the attempts of its row, and its failure is the only one that is not
\* counted there, but for those lost to a crash.
Erred(k) == \E j \in JobsOf(k) : job[j].pc = "error"
Counted(k) ==
    /\ failed[k] <= MaxAttempts + spent.crashes
    /\ row[k].st \in {"pending", "running"} => row[k].attempts < MaxAttempts
    /\ row[k].st \in {"pending", "running"} =>
          failed[k] <= row[k].attempts + spent.crashes + (IF Erred(k) THEN 1 ELSE 0)
    /\ \A j \in JobsOf(k) : row[k].st # "none" =>
          /\ job[j].attempts = row[k].attempts
          /\ job[j].pc = "ok" => job[j].expired \/ failed[k] = 0

Inductive == Types /\ JobsKnown /\ SeededStays /\ \A k \in Watched : Single(k) /\ Counted(k)
=============================================================================

---------------------------- MODULE EventSchedule ---------------------------
(***************************************************************************)
(* When an AWD event starts.  Administrators create the event, configure   *)
(* it with or without a planned start, move its start and end, and start   *)
(* it by hand; two rows of scheduled_tasks follow them, the planned start  *)
(* and the automatic precheck Lead before the effective start.  The engine *)
(* claims those rows Ahead of their time and runs them from its own copy.  *)
(* Every change of the times is one transaction under the lock of the      *)
(* events row; a precheck takes a while, and the clock and the others go   *)
(* on meanwhile.                                                           *)
(***************************************************************************)
EXTENDS Integers

CONSTANTS Horizon,      \* the clock runs from 0 to here
          Lead,         \* one hour: the precheck comes this long before the start
          Grace,        \* six hours: a planned start is tried for this long
          Ahead,        \* five seconds: rows are claimed this long before their time
          Backoff,      \* thirty seconds: a failed row is due again after this long, times attempts
          MaxAttempts,
          Plans         \* what is asked for (windows, starts) and how often things happen

VARIABLES plan, now,
          event,     \* events: start_time and end_time
          status,    \* awd_events: its status, "none" without a row
          task,      \* scheduled_tasks: the planned start and the precheck
          job,       \* the engine's copies of claimed rows
          hand,      \* requests under way: a start that has still to cancel the rows, a precheck
          switched,  \* rows an operator edited at some time
          spent

vars == <<plan, now, event, status, task, job, hand, switched, spent>>

Keys == {"start", "precheck"}
Times == 0 .. Horizon
None == -1   \* no planned start: the event is started by hand
\* Rows that completed or failed for good are "none": nothing looks at them.
NoTask == [st |-> "none", at |-> 0, expires |-> 0, enabled |-> TRUE, attempts |-> 0]
NoJob == [pc |-> "none", at |-> 0, expires |-> 0, attempts |-> 0]
Pending(at, expires) == [NoTask EXCEPT !.st = "pending", !.at = at, !.expires = expires]

Init ==
    /\ plan \in Plans /\ now = 0 /\ event = [start |-> None, end |-> None] /\ status = "none"
    /\ task = [k \in Keys |-> NoTask] /\ job = [k \in Keys |-> NoJob]
    /\ hand = {} /\ switched = {}
    /\ spent = [edits |-> 0, fails |-> 0, restarts |-> 0, switches |-> 0, checks |-> 0]

Spend(what) == spent[what] < plan[what] /\ spent' = [spent EXCEPT ![what] = @ + 1]

-----------------------------------------------------------------------------
(* The two rows *)

\* automatic_precheck_at: None when the start is less than Lead away.
AutomaticPrecheckAt(start) == IF start - Lead >= now THEN start - Lead ELSE None

\* replace_auto_precheck_schedule, and schedule_auto_precheck where there is
\* no row: the row is moved, deleted or created; one that is running refuses.
PrecheckRunnable == task["precheck"].st # "running"
PrecheckFor(start) ==
    IF AutomaticPrecheckAt(start) = None THEN NoTask ELSE Pending(AutomaticPrecheckAt(start), start)

\* replace_event_start_schedule, schedule_event_start.
StartRunnable == task["start"].st # "running"
StartFor(planned) == IF planned = None THEN NoTask ELSE Pending(planned, planned + Grace)

\* find_event_start_schedule: the row that is active and enabled.
FindEventStartSchedule ==
    IF task["start"].st \in {"pending", "running"} /\ task["start"].enabled THEN task["start"].at ELSE None
EffectiveStart(planned, start) == IF planned = None THEN start ELSE planned

-----------------------------------------------------------------------------
(* Requests of administrators *)

CreateEvent(s, e) ==
    /\ event.start = None /\ s < e
    /\ event' = [start |-> s, end |-> e]
    /\ UNCHANGED <<plan, now, status, task, job, hand, switched, spent>>

\* AwdEventConfigPatch::validate and the check against the end of the event.
ValidPlan(planned) == planned # None => planned > now /\ planned < event.end

CreateAwdEvent(planned) ==
    /\ event.start # None /\ status = "none" /\ ValidPlan(planned)
    /\ status' = "Configuring"
    /\ task' = [k \in Keys |-> IF k = "start" THEN StartFor(planned)
                               ELSE PrecheckFor(EffectiveStart(planned, event.start))]
    /\ UNCHANGED <<plan, now, event, job, hand, switched, spent>>

AssertConfigEditable ==
    status \in {"Configuring", "Deployed", "Verified", "StartBlocked", "VerificationFailed"}
\* Another runtime parameter: what was verified no longer counts.
RuntimeChanged ==
    /\ Spend("edits") /\ AssertConfigEditable /\ status # "Configuring" /\ status' = "Configuring"
    /\ UNCHANGED <<plan, now, event, task, job, hand, switched>>
\* configure_awd_event with planned_start_at or clear_planned_start.
UpdateEventConfig(planned) ==
    /\ Spend("edits") /\ AssertConfigEditable /\ ValidPlan(planned) /\ PrecheckRunnable /\ StartRunnable
    /\ task' = [k \in Keys |-> IF k = "start" THEN StartFor(planned)
                               ELSE PrecheckFor(EffectiveStart(planned, event.start))]
    /\ UNCHANGED <<plan, now, event, status, job, hand, switched>>

\* patch_event with a start or an end, checked against the planned start.
PatchEvent(s, e) ==
    /\ event.start # None /\ Spend("edits") /\ <<s, e>> # <<event.start, event.end>> /\ s < e
    /\ event' = [start |-> s, end |-> e]
    /\ IF status = "none" THEN UNCHANGED task
       ELSE LET planned == FindEventStartSchedule IN
            /\ planned # None => planned < e
            /\ PrecheckRunnable
            /\ task' = [task EXCEPT !["precheck"] = PrecheckFor(EffectiveStart(planned, s))]
    /\ UNCHANGED <<plan, now, status, job, hand, switched>>

\* start_awd_event: the start, then in a second statement the rows nobody
\* claimed.  A configuration that changed since its precheck blocks the start.
StartByHand ==
    /\ status = "Verified" /\ "start" \notin hand
    /\ \/ status' = "Running" /\ hand' = hand \cup {"start"} /\ UNCHANGED spent
       \/ status' = "StartBlocked" /\ Spend("fails") /\ UNCHANGED hand
    /\ UNCHANGED <<plan, now, event, task, job, switched>>
CancelPending ==
    /\ "start" \in hand /\ hand' = hand \ {"start"}
    /\ task' = [k \in Keys |-> IF task[k].st = "pending" THEN NoTask ELSE task[k]]
    /\ UNCHANGED <<plan, now, event, status, job, switched, spent>>

\* patch_scheduled_task on one of the rows, which are protected from deletion
\* only: an operator switches it on or off, or moves it.
PatchScheduledTask(k) ==
    /\ task[k].st # "none" /\ Spend("switches") /\ switched' = switched \cup {k}
    /\ \/ task' = [task EXCEPT ![k].enabled = ~@]
       \/ \E at \in plan.starts : task' = [task EXCEPT ![k].at = at]
    /\ UNCHANGED <<plan, now, event, status, job, hand>>

\* The containers of a configured event are up (AwdPreparation has the steps).
Deployed ==
    /\ status = "Configuring" /\ status' = "Deployed"
    /\ UNCHANGED <<plan, now, event, task, job, hand, switched, spent>>

-----------------------------------------------------------------------------
(* The engine and the two handlers *)

Claim(k) ==
    /\ job[k] = NoJob /\ task[k].st = "pending" /\ task[k].enabled /\ task[k].at <= now + Ahead
    /\ task' = [task EXCEPT ![k].st = "running"]
    /\ job' = [job EXCEPT ![k] = [pc |-> "wait", at |-> task[k].at, expires |-> task[k].expires,
                                  attempts |-> task[k].attempts]]
    /\ UNCHANGED <<plan, now, event, status, hand, switched, spent>>

\* dispatch_with_precision: sleeps until the time of its copy.
Wake(k) ==
    /\ job[k].pc = "wait" /\ now >= job[k].at
    /\ job' = [job EXCEPT ![k].pc = IF job[k].expires < now THEN "ok" ELSE "run"]
    /\ UNCHANGED <<plan, now, event, status, task, hand, switched, spent>>

Ends(k, how) == job' = [job EXCEPT ![k].pc = how]
Fails(k, statuses) == Spend("fails") /\ Ends(k, "error") /\ status' \in statuses

\* run_precheck: Prechecking first, the verdict later, and only if the event is
\* still in Prechecking.  A second run may join the first and find its verdict.
Configurable == status \in {"Configuring", "Deployed", "Prechecking", "Verified", "StartBlocked",
                            "VerificationFailed"}
Verdict(passed) ==
    status' = IF status # "Prechecking" THEN status ELSE IF passed THEN "Verified" ELSE "VerificationFailed"
Accepted(passed) == ~passed \/ status = "Prechecking"

\* AwdAutoPrecheckHandler: skipped once the event runs.  Errors and the timeout
\* of the engine leave the status as it is.
AutoPrecheck ==
    /\ job["precheck"].pc = "run"
    /\ \/ status = "Running" /\ Ends("precheck", "ok") /\ UNCHANGED <<status, spent>>
       \/ Configurable /\ status' = "Prechecking" /\ Ends("precheck", "checking") /\ UNCHANGED spent
       \/ Configurable /\ Fails("precheck", {status})
    /\ UNCHANGED <<plan, now, event, task, hand, switched>>
AutoPrecheckEnds ==
    /\ job["precheck"].pc = "checking"
    /\ \/ \E passed \in BOOLEAN :
            Verdict(passed) /\ Ends("precheck", IF Accepted(passed) THEN "ok" ELSE "error") /\ UNCHANGED spent
       \/ Fails("precheck", {status})
    /\ UNCHANGED <<plan, now, event, task, hand, switched>>
\* The same by an administrator.
PrecheckByHand ==
    /\ "check" \notin hand /\ Configurable /\ Spend("checks")
    /\ status' = "Prechecking" /\ hand' = hand \cup {"check"}
    /\ UNCHANGED <<plan, now, event, task, job, switched>>
PrecheckByHandEnds ==
    /\ "check" \in hand /\ hand' = hand \ {"check"}
    /\ \E passed \in BOOLEAN : Verdict(passed)
    /\ UNCHANGED <<plan, now, event, task, job, switched, spent>>

\* AwdEventStartHandler: skipped likewise; an event that is not verified is an
\* error.  A start that fails was refused, blocked, or cut off after it had
\* made the event Running.
EventStart ==
    /\ job["start"].pc = "run"
    /\ \/ status \in {"Running", "Verified"} /\ status' = "Running" /\ Ends("start", "ok") /\ UNCHANGED spent
       \/ status \notin {"Running", "Verified"} /\ Ends("start", "error") /\ UNCHANGED <<status, spent>>
       \/ status = "Verified" /\ Fails("start", {"Verified", "StartBlocked", "Running"})
    /\ UNCHANGED <<plan, now, event, task, hand, switched>>

\* mark_done: a row that failed is due again later, until its attempts are used up.
MarkDone(k) ==
    /\ job[k].pc \in {"ok", "error"} /\ job' = [job EXCEPT ![k] = NoJob]
    /\ task' = [task EXCEPT ![k] =
         IF job[k].pc = "error" /\ job[k].attempts + 1 < MaxAttempts
         THEN [@ EXCEPT !.st = "pending", !.at = now + Backoff * (job[k].attempts + 1),
                        !.attempts = job[k].attempts + 1]
         ELSE NoTask]
    /\ UNCHANGED <<plan, now, event, status, hand, switched, spent>>

\* The process dies and comes back: init_and_recover resets running rows.
Restart ==
    /\ Spend("restarts") /\ job' = [k \in Keys |-> NoJob] /\ hand' = {}
    /\ task' = [k \in Keys |-> IF task[k].st = "running" THEN [task[k] EXCEPT !.st = "pending"] ELSE task[k]]
    /\ UNCHANGED <<plan, now, event, status, switched>>

Tick ==
    /\ now < Horizon /\ now' = now + 1
    /\ UNCHANGED <<plan, event, status, task, job, hand, switched, spent>>

Next ==
    \/ \E w \in plan.windows : CreateEvent(w[1], w[2]) \/ PatchEvent(w[1], w[2])
    \/ \E planned \in plan.starts \cup {None} : CreateAwdEvent(planned) \/ UpdateEventConfig(planned)
    \/ RuntimeChanged \/ Deployed \/ StartByHand \/ CancelPending
    \/ \E k \in Keys : PatchScheduledTask(k) \/ Claim(k) \/ Wake(k) \/ MarkDone(k)
    \/ AutoPrecheck \/ AutoPrecheckEnds \/ PrecheckByHand \/ PrecheckByHandEnds
    \/ EventStart \/ Restart \/ Tick

Spec == Init /\ [][Next]_vars

-----------------------------------------------------------------------------
TypeOK ==
    /\ plan \in Plans /\ now \in Times /\ event.start \in Times \cup {None}
    /\ status \in {"none", "Configuring", "Deployed", "Prechecking", "Verified", "StartBlocked",
                   "VerificationFailed", "Running"}
    /\ \A k \in Keys : task[k].st \in {"none", "pending", "running"} /\ task[k].attempts < MaxAttempts

\* Until an operator edited one of the rows, which find_event_start_schedule
\* then overlooks, and before the first attempt failed, which moves the row.
Untouched(k) == task[k].st # "none" /\ task[k].attempts = 0 /\ switched = {}

\* While a planned start is ahead, its precheck is planned Lead before it and
\* lapses at the start, however the plan and the event's times were changed.
PrecheckPrecedesStart ==
    Untouched("start") /\ task["start"].at - Lead > now + Ahead =>
        task["precheck"] = Pending(task["start"].at - Lead, task["start"].at)

\* A planned start lies before the end of its event, whichever was set last.
StartBeforeEnd == Untouched("start") => task["start"].at < event.end

\* The engine starts an event only at the time that its row shows then: a plan
\* changed in the five seconds after the claim is refused, not overtaken.
StartsAsShown ==
    status' = "Running" /\ status # "Running" /\ job'["start"] # job["start"] =>
        task["start"].st = "running" /\ (switched = {} => now >= task["start"].at)

\* A precheck that ends late, of the engine or of an administrator, takes
\* nothing back from an event that was started meanwhile.
StartedStays == status = "Running" => status' = "Running"
=============================================================================

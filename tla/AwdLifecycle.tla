--------------------------- MODULE AwdLifecycle ---------------------------
(***************************************************************************)
(* The competition clock of one AWD event: start, Hardening, the rounds of *)
(* the Attack phase, pause and resume, final settlement, and the recovery  *)
(* that runs when the API process boots.                                   *)
(*                                                                         *)
(* The state is what the database holds (the awd_events row, awd_rounds,   *)
(* the judge batches and the scheduled_tasks of the event) plus the        *)
(* handlers in flight.  A step is one committed statement or transaction,  *)
(* so what another handler may do between a read and the write that relies *)
(* on it is an interleaving of this model.                                 *)
(*                                                                         *)
(* A timestamp is kept as the time left until it, never below zero: the    *)
(* code only asks whether a deadline has passed and how much is left of    *)
(* it, cut off at zero.  Time passes (Tick) only between handlers: a       *)
(* handler takes less than one unit of the clock.                          *)
(***************************************************************************)
EXTENDS Integers, FiniteSets

CONSTANTS
    RoundCount,      \* awd_events.round_count
    RoundDuration,   \* awd_events.round_duration_secs
    JudgeGrace,      \* judge_default_timeout_secs + judge_grace_period_secs
    Boxes,           \* the (team, event gamebox) pairs the judge checks
    Procs,           \* names of handlers in flight
    Slots,           \* rows scheduled_tasks may hold for the event
    Copies,          \* judge batches one round may get
    Window,          \* the engine fetches tasks due within this window
    MaxTries,        \* scheduled_tasks.max_attempts
    RetryDelay,      \* the back-off before a failed task runs again
    Setups,          \* the events considered, with what may happen to them
    p1, p2           \* two of Procs, for the setups at the end

ASSUME LifecycleConstants ==
    /\ RoundCount \in Nat \ {0}
    /\ RoundDuration \in Nat \ {0}
    /\ JudgeGrace \in Nat
    /\ Window \in Nat
    /\ MaxTries \in Nat \ {0}
    /\ RetryDelay \in Nat
    /\ Setups \subseteq [procs : SUBSET Procs, hardening : Nat, pauses : Nat, crashes : Nat,
                         faults : Nat, timeouts : Nat, total : Nat]
    /\ 0 \notin Slots

VARIABLES
    ev,       \* the awd_events row
    round,    \* awd_rounds by round number
    batch,    \* awd_judge_batches and their tasks, by round and copy
    tasks,    \* scheduled_tasks, by slot
    proc,     \* the handlers in flight
    up,       \* the API process is running
    used,     \* the setup, and its pauses, crashes, network faults and timeouts so far
    hardened, \* history: Hardening time the players have had
    played    \* history: by round, active time the players have had

vars == <<ev, round, batch, tasks, proc, up, used, hardened, played>>

(* What the setup says: compute_timing's hardening_duration_secs (0 = none), *)
(* and the bounds of the run, the last on all that goes wrong together.    *)
Hardening    == used.of.hardening
MaxPauses    == used.of.pauses
MaxCrashes   == used.of.crashes
MaxNetFaults == used.of.faults
MaxTimeouts  == used.of.timeouts
MaxFaults    == used.of.total

Rounds   == 1..RoundCount
NoTime   == -1
Statuses == {"Verified", "Running", "Paused", "NetworkError", "Finished"}
Phases   == {"Hardening", "Attack", "Pause"}
Keys     == {"HardeningEnd", "RoundEnd", "BatchDeadline"}
Time     == Nat \cup {NoTime}

Free    == [key |-> "free", n |-> 0, k |-> 0, at |-> 0, st |-> "free", tries |-> 0]
NoRound == [status |-> "none", endAt |-> 0, remaining |-> NoTime]
NoBatch == [st |-> "none", made |-> {}, open |-> {}, deadline |-> 0]
Idle    == [pc |-> "idle", op |-> "none", n |-> 0, m |-> 0, k |-> 0, t |-> 0,
            seen |-> "none", rem |-> 0, todo |-> {}]

Init ==
    /\ ev = [status |-> "Verified", phase |-> "Hardening", pausedPhase |-> "none",
             pauseRemaining |-> 0, hardeningEndsAt |-> NoTime]
    /\ round = [n \in Rounds |-> NoRound]
    /\ batch = [n \in Rounds |-> [k \in Copies |-> NoBatch]]
    /\ tasks = [s \in Slots |-> Free]
    /\ proc = [p \in Procs |-> Idle]
    /\ up = TRUE
    /\ \E c \in Setups :
          used = [of |-> c, pauses |-> 0, crashes |-> 0, faults |-> 0, timeouts |-> 0]
    /\ hardened = 0
    /\ played = [n \in Rounds |-> 0]

(* A bound of the run: something may still go wrong. *)
FaultsLeft == used.crashes + used.faults + used.timeouts < MaxFaults

---------------------------------------------------------------------------
(* scheduled_tasks *)

HasRoom(ts) == \E s \in Slots : ts[s] = Free

(* A pending one-shot task is inserted. *)
Put(ts, key, n, k, at) ==
    [ts EXCEPT ![CHOOSE s \in Slots : ts[s] = Free] =
        [key |-> key, n |-> n, k |-> k, at |-> at, st |-> "pending", tries |-> 0]]

Pending(ts, key) == \E s \in Slots : ts[s].key = key /\ ts[s].st = "pending"

(* mark_done on an error: back to pending after the back-off, or failed. *)
Retried(x) ==
    IF x.tries + 1 < MaxTries
    THEN [x EXCEPT !.st = "pending", !.at = RetryDelay * (x.tries + 1), !.tries = @ + 1]
    ELSE Free

Left(x) == IF x > 0 THEN x - 1 ELSE x

(* The handler of p returns Ok: its task, if it has one, is completed. *)
Return(p) ==
    /\ proc' = [proc EXCEPT ![p] = Idle]
    /\ tasks' = [s \in Slots |-> IF s = proc[p].t THEN Free ELSE tasks[s]]

(* The handler of p returns Err. *)
Throw(p) ==
    /\ proc' = [proc EXCEPT ![p] = Idle]
    /\ tasks' = [s \in Slots |-> IF s = proc[p].t THEN Retried(tasks[s]) ELSE tasks[s]]

At(p, pc)   == up /\ proc[p].pc = pc
Available(p) == At(p, "idle") /\ p \in used.of.procs
Goto(p, pc) == proc' = [proc EXCEPT ![p].pc = pc]
Call(op, pc) == [Idle EXCEPT !.op = op, !.pc = pc]

(* fetch_and_run: a pending task due within the window is locked to run. *)
Fetch(s) ==
    /\ up
    /\ tasks[s].st = "pending" /\ tasks[s].at <= Window
    /\ tasks' = [tasks EXCEPT ![s].st = "running"]
    /\ UNCHANGED <<ev, round, batch, proc, up, used, hardened, played>>

Entry == [HardeningEnd |-> "he_read", RoundEnd |-> "re_guard", BatchDeadline |-> "bd_term"]

(* dispatch_with_precision: the fetched task runs once its time has come. *)
Dispatch(p, s) ==
    /\ Available(p)
    /\ tasks[s].st = "running" /\ tasks[s].at = 0
    /\ \A q \in Procs : proc[q].t # s
    /\ proc' = [proc EXCEPT ![p] =
            [Call(tasks[s].key, Entry[tasks[s].key]) EXCEPT
                !.t = s, !.n = tasks[s].n, !.k = tasks[s].k]]
    /\ UNCHANGED <<ev, round, batch, tasks, up, used, hardened, played>>

(* The engine's timeout drops the handler at an await point. *)
Timeout(p) ==
    /\ up /\ proc[p].t # 0
    /\ used.timeouts < MaxTimeouts /\ FaultsLeft
    /\ used' = [used EXCEPT !.timeouts = @ + 1]
    /\ Throw(p)
    /\ UNCHANGED <<ev, round, batch, up, hardened, played>>

---------------------------------------------------------------------------
(* round_service::start_round for round proc[p].m *)

(* What the caller of start_round does with its result. *)
AfterStart(p, ok) ==
    IF proc[p].op = "RoundEnd" THEN Goto(p, "deadline") /\ UNCHANGED tasks
    ELSE IF ok THEN Return(p) ELSE Throw(p)

StartRoundRead(p) ==
    /\ At(p, "sr_read")
    /\ IF ev.status # "Running" \/ ev.phase # "Attack" THEN AfterStart(p, FALSE)
       ELSE IF round[proc[p].m].status # "none" THEN AfterStart(p, TRUE)
       ELSE Goto(p, "sr_insert") /\ UNCHANGED tasks
    /\ UNCHANGED <<ev, round, batch, up, used, hardened, played>>

(* Both unique indexes of awd_rounds stand against a second insert. *)
Insertable(n) == round[n].status = "none" /\ \A m \in Rounds : round[m].status # "active"

NewRound == [status |-> "active", endAt |-> RoundDuration, remaining |-> NoTime]

StartRoundInsert(p) ==
    LET n  == proc[p].m
        ts == Put(tasks, "RoundEnd", n, 0, RoundDuration)
    IN  /\ At(p, "sr_insert")
        /\ Insertable(n) /\ HasRoom(tasks)
        /\ round' = [round EXCEPT ![n] = NewRound]
        /\ IF proc[p].op = "RoundEnd"
           THEN tasks' = ts /\ Goto(p, "deadline")
           ELSE /\ tasks' = [s \in Slots |-> IF s = proc[p].t THEN Free ELSE ts[s]]
                /\ proc' = [proc EXCEPT ![p] = Idle]
        /\ UNCHANGED <<ev, batch, up, used, hardened, played>>

StartRoundClash(p) ==
    /\ At(p, "sr_insert")
    /\ ~Insertable(proc[p].m)
    /\ AfterStart(p, FALSE)
    /\ UNCHANGED <<ev, round, batch, up, used, hardened, played>>

---------------------------------------------------------------------------
(* event_service::start_event on a verified event *)

StartEvent(p) ==
    /\ Available(p) /\ ev.status = "Verified"
    /\ IF Hardening > 0
       THEN /\ ev' = [ev EXCEPT !.status = "Running", !.phase = "Hardening",
                                !.hardeningEndsAt = Hardening]
            /\ proc' = [proc EXCEPT ![p] =
                    [Call("start", "schedule_hardening") EXCEPT !.rem = Hardening]]
       ELSE /\ ev' = [ev EXCEPT !.status = "Running", !.phase = "Attack"]
            /\ proc' = [proc EXCEPT ![p] = [Call("start", "sr_read") EXCEPT !.m = 1]]
    /\ UNCHANGED <<round, batch, tasks, up, used, hardened, played>>

(* The HardeningEnd task is inserted after the status is committed; the    *)
(* caller of resume_event goes on to its network reconcile.                *)
ScheduleHardening(p) ==
    /\ At(p, "schedule_hardening") /\ HasRoom(tasks)
    /\ tasks' = Put(tasks, "HardeningEnd", 0, 0, proc[p].rem)
    /\ IF proc[p].op = "resumeHardening" THEN Goto(p, "un_net") ELSE proc' = [proc EXCEPT ![p] = Idle]
    /\ UNCHANGED <<ev, round, batch, up, used, hardened, played>>

---------------------------------------------------------------------------
(* scheduler::handle_hardening_end *)

InHardening == ev.status = "Running" /\ ev.phase = "Hardening"

HardeningEndRead(p) ==
    /\ At(p, "he_read")
    /\ IF InHardening /\ ev.hardeningEndsAt <= 0
       THEN Goto(p, "he_check") /\ UNCHANGED tasks
       ELSE Return(p)
    /\ UNCHANGED <<ev, round, batch, up, used, hardened, played>>

(* The second look, inside the transaction but without a row lock. *)
HardeningEndCheck(p) ==
    /\ At(p, "he_check")
    /\ IF InHardening THEN Goto(p, "he_phase") /\ UNCHANGED tasks ELSE Return(p)
    /\ UNCHANGED <<ev, round, batch, up, used, hardened, played>>

(* update_phase looks at the phase of the row it locks, never at its status. *)
HardeningEndPhase(p) ==
    /\ At(p, "he_phase")
    /\ ev' = [ev EXCEPT !.phase = "Attack", !.hardeningEndsAt = NoTime]
    /\ proc' = [proc EXCEPT ![p].pc = "sr_read", ![p].m = 1]
    /\ UNCHANGED <<round, batch, tasks, up, used, hardened, played>>

---------------------------------------------------------------------------
(* AwdRoundEndHandler::run and round_service::end_round *)

RoundEndGuard(p) ==
    /\ At(p, "re_guard")
    /\ IF ev.status = "NetworkError" THEN Return(p) ELSE Goto(p, "re_read") /\ UNCHANGED tasks
    /\ UNCHANGED <<ev, round, batch, up, used, hardened, played>>

EndRoundRead(p) ==
    /\ At(p, "re_read")
    /\ IF round[proc[p].n].status = "active"
       THEN Goto(p, "re_write") /\ UNCHANGED tasks
       ELSE Return(p)
    /\ UNCHANGED <<ev, round, batch, up, used, hardened, played>>

(* update_round_status writes by id, whatever the row holds by now. *)
EndRoundWrite(p) ==
    /\ At(p, "re_write")
    /\ round' = [round EXCEPT ![proc[p].n].status = "completed"]
    /\ Goto(p, "mk_batch")
    /\ UNCHANGED <<ev, batch, tasks, up, used, hardened, played>>

(* judge_service::create_batch: the batch row first, then one insert a box. *)
CreateBatch(p) ==
    LET n == proc[p].n
    IN  /\ At(p, "mk_batch")
        /\ \E k \in Copies :
              /\ batch[n][k] = NoBatch
              /\ \A j \in Copies : j < k => batch[n][j] # NoBatch
              /\ batch' = [batch EXCEPT ![n][k] = [NoBatch EXCEPT !.st = "running", !.deadline = JudgeGrace]]
              /\ proc' = [proc EXCEPT ![p].pc = "mk_task", ![p].k = k, ![p].todo = Boxes]
        /\ UNCHANGED <<ev, round, tasks, up, used, hardened, played>>

(* A banned team gets no task, a resetting instance a skipped one. *)
CreateTask(p, b, kind) ==
    LET n == proc[p].n
        k == proc[p].k
    IN  /\ At(p, "mk_task") /\ b \in proc[p].todo
        /\ batch' = [batch EXCEPT
               ![n][k].made = IF kind = "banned" THEN @ ELSE @ \cup {b},
               ![n][k].open = IF kind = "pending" THEN @ \cup {b} ELSE @]
        /\ proc' = [proc EXCEPT ![p].todo = @ \ {b}]
        /\ UNCHANGED <<ev, round, tasks, up, used, hardened, played>>

(* After the last insert: the next round, or the attempt to finish. *)
CreateBatchDone(p) ==
    /\ At(p, "mk_task") /\ proc[p].todo = {}
    /\ IF proc[p].n >= RoundCount
       THEN Goto(p, "mf_read")
       ELSE proc' = [proc EXCEPT ![p].pc = "sr_read", ![p].m = proc[p].n + 1]
    /\ UNCHANGED <<ev, round, batch, tasks, up, used, hardened, played>>

(* Mutant: no deadline is scheduled for the batch. *)
ScheduleNoDeadline(p) ==
    /\ At(p, "deadline")
    /\ Return(p)
    /\ UNCHANGED <<ev, round, batch, up, used, hardened, played>>

(* max_task_deadline finds a deadline only in a batch that has a task. *)
ScheduleDeadline(p) ==
    LET b == batch[proc[p].n][proc[p].k]
    IN  /\ At(p, "deadline") /\ HasRoom(tasks)
        /\ proc' = [proc EXCEPT ![p] = Idle]
        /\ LET ts == IF b.made = {} THEN tasks
                     ELSE Put(tasks, "BatchDeadline", proc[p].n, proc[p].k, b.deadline)
           IN  tasks' = [s \in Slots |-> IF s = proc[p].t THEN Free ELSE ts[s]]
        /\ UNCHANGED <<ev, round, batch, up, used, hardened, played>>

---------------------------------------------------------------------------
(* Judge results and event_service::maybe_finish_event *)

(* A judge task reaches a terminal state through the internal judge API,   *)
(* and the request goes on to maybe_finish_event.                          *)
JudgeTerminal(p, n, k, b) ==
    /\ Available(p) /\ b \in batch[n][k].open
    /\ batch' = [batch EXCEPT ![n][k].open = @ \ {b}]
    /\ proc' = [proc EXCEPT ![p] = Call("judge", "mf_read")]
    /\ UNCHANGED <<ev, round, tasks, up, used, hardened, played>>

(* AwdJudgeBatchDeadlineHandler: terminalize, maybe_complete_batch. *)
BatchDeadline(p) ==
    LET n == proc[p].n
        k == proc[p].k
        left == IF batch[n][k].deadline = 0 THEN {} ELSE batch[n][k].open
    IN  /\ At(p, "bd_term")
        /\ batch' = [batch EXCEPT ![n][k].open = left,
                                  ![n][k].st = IF left = {} THEN "completed" ELSE @]
        /\ Goto(p, "mf_read")
        /\ UNCHANGED <<ev, round, tasks, up, used, hardened, played>>

Existing == {n \in Rounds : round[n].status # "none"}

(* Mutants: find_active_round overlooks paused rounds; it takes any round. *)
LiveActive == {n \in Rounds : round[n].status = "active"}
LiveAny    == {n \in Rounds : round[n].status # "none"}

(* Mutant: the judge tasks are not waited for. *)
AllTerminalUnseen == TRUE

Live     == {n \in Rounds : round[n].status \in {"active", "paused"}}
Latest   == CHOOSE n \in Existing : \A m \in Existing : m <= n
AllTerminal == \A n \in Rounds, k \in Copies : batch[n][k].open = {}

FinalSettlement ==
    /\ ev.status = "Running" /\ ev.phase = "Attack"
    /\ Existing # {} /\ Latest = RoundCount /\ round[Latest].status = "completed"

(* The caller of maybe_finish_event ignores its result. *)
AfterFinish(p) ==
    IF proc[p].op = "RoundEnd" THEN Goto(p, "deadline") /\ UNCHANGED tasks ELSE Return(p)

(* What the first reads see of the event and the rounds stays true until   *)
(* the tasks are read, or makes the compare-and-set below fail.            *)
MaybeFinishRead(p) ==
    /\ At(p, "mf_read")
    /\ IF FinalSettlement /\ AllTerminal
       THEN Goto(p, "mf_cas") /\ UNCHANGED tasks
       ELSE AfterFinish(p)
    /\ UNCHANGED <<ev, round, batch, up, used, hardened, played>>

MaybeFinishCas(p) ==
    /\ At(p, "mf_cas")
    /\ ev' = IF ev.status = "Running" THEN [ev EXCEPT !.status = "Finished"] ELSE ev
    /\ AfterFinish(p)
    /\ UNCHANGED <<round, batch, up, used, hardened, played>>

(* An administrator asks for the same check. *)
FinishEvent(p) ==
    /\ Available(p) /\ FinalSettlement
    /\ proc' = [proc EXCEPT ![p] = Call("finish", "mf_read")]
    /\ UNCHANGED <<ev, round, batch, tasks, up, used, hardened, played>>

---------------------------------------------------------------------------
(* event_service::pause_event *)

(* Mutant: the time left is not cut off at zero. *)
Signed(x) == x

NonNeg(x) == IF x < 0 THEN 0 ELSE x

(* pending HardeningEnd tasks are deleted, running ones are not *)
Cancelled(ts) ==
    [s \in Slots |-> IF ts[s].key = "HardeningEnd" /\ ts[s].st = "pending" THEN Free ELSE ts[s]]

PauseRead(p) ==
    /\ Available(p) /\ ev.status = "Running" /\ used.pauses < MaxPauses
    /\ used' = [used EXCEPT !.pauses = @ + 1]
    /\ proc' = [proc EXCEPT ![p] =
            [Call("pause", IF ev.phase = "Hardening" THEN "pa_cancel" ELSE "pa_find") EXCEPT
                !.seen = ev.phase, !.rem = NonNeg(ev.hardeningEndsAt)]]
    /\ UNCHANGED <<ev, round, batch, tasks, up, hardened, played>>

PauseCancel(p) ==
    /\ At(p, "pa_cancel")
    /\ tasks' = Cancelled(tasks)
    /\ Goto(p, "pa_cas")
    /\ UNCHANGED <<ev, round, batch, up, used, hardened, played>>

PauseFind(p) ==
    /\ At(p, "pa_find")
    /\ \/ /\ Live = {}
          /\ proc' = [proc EXCEPT ![p].pc = "pa_cas", ![p].rem = 0]
       \/ \E n \in Live :
             proc' = [proc EXCEPT ![p].pc = "pa_round", ![p].n = n, ![p].rem = round[n].endAt]
    /\ UNCHANGED <<ev, round, batch, tasks, up, used, hardened, played>>

(* Mutant: the time left is saved, the round goes on. *)
PauseRoundRunning(p) ==
    /\ At(p, "pa_round")
    /\ round' = [round EXCEPT ![proc[p].n].remaining = proc[p].rem]
    /\ Goto(p, "pa_cas")
    /\ UNCHANGED <<ev, batch, tasks, up, used, hardened, played>>

(* pause_round writes by id, whatever the row holds by now. *)
PauseRound(p) ==
    /\ At(p, "pa_round")
    /\ round' = [round EXCEPT ![proc[p].n].status = "paused", ![proc[p].n].remaining = proc[p].rem]
    /\ Goto(p, "pa_cas")
    /\ UNCHANGED <<ev, batch, tasks, up, used, hardened, played>>

PauseCas(p) ==
    /\ At(p, "pa_cas")
    /\ IF ev.status = "Running"
       THEN /\ ev' = [status |-> "Paused", phase |-> "Pause", pausedPhase |-> proc[p].seen,
                      pauseRemaining |-> proc[p].rem, hardeningEndsAt |-> NoTime]
            /\ Goto(p, "pa_net")
       ELSE proc' = [proc EXCEPT ![p] = Idle] /\ UNCHANGED ev
    /\ UNCHANGED <<round, batch, tasks, up, used, hardened, played>>

(* The network reconcile that ends a pause or a resume fails: the event is *)
(* frozen in NetworkError unless its status has moved on.                  *)
NetFault(p, from) ==
    /\ used.faults < MaxNetFaults /\ FaultsLeft
    /\ used' = [used EXCEPT !.faults = @ + 1]
    /\ ev' = IF ev.status = from THEN [ev EXCEPT !.status = "NetworkError"] ELSE ev
    /\ proc' = [proc EXCEPT ![p] = Idle]
    /\ UNCHANGED <<round, batch, tasks, up, hardened, played>>

PauseNetFault(p) == At(p, "pa_net") /\ NetFault(p, "Paused")

PauseNet(p) ==
    /\ At(p, "pa_net")
    /\ proc' = [proc EXCEPT ![p] = Idle]
    /\ UNCHANGED <<ev, round, batch, tasks, up, used, hardened, played>>

---------------------------------------------------------------------------
(* event_service::resume_event *)

ResumeRead(p) ==
    /\ Available(p) /\ ev.status \in {"Paused", "NetworkError"}
    /\ ev.pausedPhase \in {"none", "Hardening", "Attack"}
    /\ proc' = [proc EXCEPT ![p] =
            [(IF ev.pausedPhase = "Attack" THEN Call("resumeAttack", "un_find")
                                          ELSE Call("resumeHardening", "un_hard"))
              EXCEPT !.seen = ev.status, !.rem = ev.pauseRemaining]]
    /\ UNCHANGED <<ev, round, batch, tasks, up, used, hardened, played>>

(* Back to Hardening with the time that was left of it, if any. *)
ResumeHardening(p) ==
    /\ At(p, "un_hard")
    /\ IF ev.status = proc[p].seen
       THEN /\ ev' = [ev EXCEPT !.status = "Running", !.phase = "Hardening", !.pauseRemaining = 0,
                                !.hardeningEndsAt = IF proc[p].rem > 0 THEN proc[p].rem ELSE NoTime]
            /\ Goto(p, IF proc[p].rem > 0 THEN "schedule_hardening" ELSE "un_phase")
       ELSE proc' = [proc EXCEPT ![p] = Idle] /\ UNCHANGED ev
    /\ UNCHANGED <<round, batch, tasks, up, used, hardened, played>>

(* Nothing was left of Hardening: the phase moves on, no round is started. *)
ResumePhase(p) ==
    /\ At(p, "un_phase")
    /\ ev' = [ev EXCEPT !.phase = "Attack", !.hardeningEndsAt = NoTime]
    /\ Goto(p, "un_net")
    /\ UNCHANGED <<round, batch, tasks, up, used, hardened, played>>

ResumeFind(p) ==
    /\ At(p, "un_find")
    /\ \/ Live = {} /\ Goto(p, "un_cas")
       \/ \E n \in Live :
             proc' = [proc EXCEPT ![p].pc = "un_round", ![p].n = n,
                        ![p].rem = IF round[n].remaining = NoTime THEN RoundDuration
                                   ELSE round[n].remaining]
    /\ UNCHANGED <<ev, round, batch, tasks, up, used, hardened, played>>

(* The index allows one active round: the update fails when it would make two. *)
ResumeRound(p) ==
    LET n == proc[p].n
    IN  /\ At(p, "un_round")
        /\ IF \E m \in Rounds \ {n} : round[m].status = "active"
           THEN proc' = [proc EXCEPT ![p] = Idle] /\ UNCHANGED round
           ELSE /\ round' = [round EXCEPT ![n] =
                        [status |-> "active", endAt |-> proc[p].rem, remaining |-> NoTime]]
                /\ Goto(p, "un_cas")
        /\ UNCHANGED <<ev, batch, tasks, up, used, hardened, played>>

ResumeCas(p) ==
    /\ At(p, "un_cas")
    /\ IF ev.status = proc[p].seen
       THEN /\ ev' = [ev EXCEPT !.status = "Running", !.phase = "Attack", !.pauseRemaining = 0]
            /\ Goto(p, "un_net")
       ELSE proc' = [proc EXCEPT ![p] = Idle] /\ UNCHANGED ev
    /\ UNCHANGED <<round, batch, tasks, up, used, hardened, played>>

ResumeNetFault(p) == At(p, "un_net") /\ NetFault(p, "Running")

(* Only a resume into Attack goes on to restore the round's timer. *)
ResumeNet(p) ==
    /\ At(p, "un_net")
    /\ IF proc[p].op = "resumeAttack" THEN Goto(p, "un_restore") ELSE proc' = [proc EXCEPT ![p] = Idle]
    /\ UNCHANGED <<ev, round, batch, tasks, up, used, hardened, played>>

---------------------------------------------------------------------------
(* round_service::restore_round_scheduling *)

(* restore_round_end_task: no new task while any RoundEnd is pending. *)
RestoredRoundEnd(ts, n) ==
    IF round[n].status = "active" /\ ~Pending(ts, "RoundEnd")
    THEN Put(ts, "RoundEnd", n, 0, round[n].endAt) ELSE ts

(* recover_round_gap: the round to start when none is live. *)
GapRound == IF Existing = {} THEN 1 ELSE Latest + 1

Gap == Live = {} /\ ev.status = "Running" /\ ev.phase = "Attack" /\ GapRound \in Rounds

ResumeRestore(p) ==
    /\ At(p, "un_restore") /\ HasRoom(tasks)
    /\ \/ \E n \in Live : /\ tasks' = RestoredRoundEnd(tasks, n)
                          /\ proc' = [proc EXCEPT ![p] = Idle]
       \/ /\ Live = {}
          /\ proc' = [proc EXCEPT ![p] =
                IF Gap THEN [@ EXCEPT !.pc = "sr_read", !.m = GapRound] ELSE Idle]
          /\ UNCHANGED tasks
    /\ UNCHANGED <<ev, round, batch, up, used, hardened, played>>

---------------------------------------------------------------------------
(* The process dies and boots; the clock *)

Crash ==
    /\ up /\ used.crashes < MaxCrashes /\ FaultsLeft
    /\ up' = FALSE
    /\ used' = [used EXCEPT !.crashes = @ + 1]
    /\ proc' = [p \in Procs |-> Idle]
    /\ UNCHANGED <<ev, round, batch, tasks, hardened, played>>

(* init_and_recover: what was running when the process died is pending again. *)
Requeued(ts) == [s \in Slots |-> IF ts[s].st = "running" THEN [ts[s] EXCEPT !.st = "pending"] ELSE ts[s]]

(* restore_batch_deadlines: the unfinished batches, in an unspecified      *)
(* order; once any deadline of the event is pending no other is added.     *)
Unfinished == {b \in Rounds \X Copies : batch[b[1]][b[2]].st = "running"}
DeadlineOf(b) == IF batch[b[1]][b[2]].made = {} THEN 0 ELSE batch[b[1]][b[2]].deadline

(* recover_event, then the scheduler's own recovery.  Nothing else runs    *)
(* before both are done.                                                   *)
BootRecover ==
    LET t1 == IF InHardening /\ ev.hardeningEndsAt # NoTime /\ ~Pending(tasks, "HardeningEnd")
              THEN Put(tasks, "HardeningEnd", 0, 0, ev.hardeningEndsAt) ELSE tasks
        Deadlines(t2) ==
            IF Unfinished = {} \/ Pending(t2, "BatchDeadline") THEN {t2}
            ELSE {Put(t2, "BatchDeadline", b[1], b[2], DeadlineOf(b)) : b \in Unfinished}
    IN  /\ ~up /\ ev.status \in {"Verified", "Running", "Paused"}
        /\ Cardinality({s \in Slots : tasks[s] = Free}) >= 3
        /\ up' = TRUE
        /\ \E t2 \in IF Gap THEN {Put(t1, "RoundEnd", GapRound, 0, RoundDuration)}
                     ELSE IF Live = {} THEN {t1}
                     ELSE {RestoredRoundEnd(t1, n) : n \in Live} :
              \E t3 \in Deadlines(t2) : tasks' = Requeued(t3)
        /\ round' = IF Gap THEN [round EXCEPT ![GapRound] = NewRound] ELSE round
        /\ ev' = IF Live = {} /\ FinalSettlement /\ AllTerminal
                 THEN [ev EXCEPT !.status = "Finished"] ELSE ev
        /\ UNCHANGED <<batch, proc, used, hardened, played>>

(* The event's recovery fails at its network reconcile, or the event is    *)
(* not one recover_all looks at: only the scheduler recovers.              *)
BootOnly ==
    /\ ~up
    /\ \/ ev.status \in {"NetworkError", "Finished"} /\ UNCHANGED used
       \/ /\ used.faults < MaxNetFaults /\ FaultsLeft
          /\ used' = [used EXCEPT !.faults = @ + 1]
    /\ up' = TRUE
    /\ tasks' = Requeued(tasks)
    /\ UNCHANGED <<ev, round, batch, proc, hardened, played>>

Tick ==
    /\ \A p \in Procs : proc[p] = Idle
    /\ ev' = [ev EXCEPT !.hardeningEndsAt = Left(@)]
    /\ round' = [n \in Rounds |-> [round[n] EXCEPT !.endAt = Left(@)]]
    /\ batch' = [n \in Rounds |-> [k \in Copies |-> [batch[n][k] EXCEPT !.deadline = Left(@)]]]
    /\ tasks' = [s \in Slots |-> [tasks[s] EXCEPT !.at = Left(@)]]
    /\ hardened' = IF InHardening /\ hardened < Hardening THEN hardened + 1 ELSE hardened
    /\ played' = [n \in Rounds |->
            IF ev.status = "Running" /\ round[n].status = "active" /\ played[n] < RoundDuration
            THEN played[n] + 1 ELSE played[n]]
    /\ UNCHANGED <<proc, up, used>>

Handler(p) ==
    \/ StartRoundRead(p) \/ StartRoundInsert(p) \/ StartRoundClash(p)
    \/ ScheduleHardening(p)
    \/ HardeningEndRead(p) \/ HardeningEndCheck(p) \/ HardeningEndPhase(p)
    \/ RoundEndGuard(p) \/ EndRoundRead(p) \/ EndRoundWrite(p)
    \/ CreateBatch(p) \/ CreateBatchDone(p) \/ ScheduleDeadline(p)
    \/ \E b \in Boxes, kind \in {"pending", "skipped", "banned"} : CreateTask(p, b, kind)
    \/ BatchDeadline(p) \/ MaybeFinishRead(p) \/ MaybeFinishCas(p)
    \/ PauseCancel(p) \/ PauseFind(p) \/ PauseRound(p) \/ PauseCas(p)
    \/ PauseNet(p) \/ PauseNetFault(p)
    \/ ResumeHardening(p) \/ ResumePhase(p) \/ ResumeFind(p) \/ ResumeRound(p)
    \/ ResumeCas(p) \/ ResumeNet(p) \/ ResumeNetFault(p) \/ ResumeRestore(p)

Request(p) ==
    \/ StartEvent(p) \/ PauseRead(p) \/ ResumeRead(p) \/ FinishEvent(p)
    \/ \E n \in Rounds, k \in Copies, b \in Boxes : JudgeTerminal(p, n, k, b)

Next ==
    \/ \E p \in Procs : Handler(p) \/ Request(p) \/ Timeout(p)
    \/ \E p \in Procs, s \in Slots : Dispatch(p, s)
    \/ \E s \in Slots : Fetch(s)
    \/ Crash \/ BootRecover \/ BootOnly \/ Tick

Spec == Init /\ [][Next]_vars

(* Handlers that have begun go on, the engine keeps polling, a process     *)
(* that died is restarted, and time passes.  Nobody has to press a button, *)
(* apart from the one that starts the event, and no judge worker has to    *)
(* answer.                                                                 *)
Fairness ==
    /\ SF_vars(Tick) /\ WF_vars(BootRecover) /\ WF_vars(BootOnly)
    /\ \A p \in Procs : WF_vars(Handler(p)) /\ WF_vars(StartEvent(p))
    /\ \A s \in Slots : WF_vars(Fetch(s)) /\ SF_vars(\E p \in Procs : Dispatch(p, s))

FairSpec == Spec /\ Fairness

---------------------------------------------------------------------------
(* Properties *)

TaskRows ==
    {Free} \cup [key : Keys, n : 0..RoundCount, k : Copies \cup {0}, at : Nat,
                 st : {"pending", "running"}, tries : Nat]
RoundRows ==
    [status : {"none", "active", "paused", "completed"}, endAt : Nat, remaining : Time]
BatchRows ==
    [st : {"none", "running", "completed"}, made : SUBSET Boxes, open : SUBSET Boxes, deadline : Nat]
PCs == {"idle", "sr_read", "sr_insert", "schedule_hardening", "he_read", "he_check", "he_phase",
        "re_guard", "re_read", "re_write", "mk_batch", "mk_task", "deadline", "bd_term",
        "mf_read", "mf_cas", "pa_cancel", "pa_find", "pa_round", "pa_cas", "pa_net",
        "un_hard", "un_phase", "un_find", "un_round", "un_cas", "un_net", "un_restore"}
Ops == {"none", "start", "judge", "finish", "pause", "resumeAttack", "resumeHardening"} \cup Keys

EventRows ==
    [status : Statuses, phase : Phases, pausedPhase : Phases \cup {"none"},
     pauseRemaining : Nat, hardeningEndsAt : Time]
Frames ==
    [pc : PCs, op : Ops, n : 0..RoundCount, m : 0..RoundCount, k : Copies \cup {0},
     t : Slots \cup {0}, seen : Statuses \cup Phases \cup {"none"}, rem : Nat, todo : SUBSET Boxes]

(* The rows, the task queue and the handlers keep their types. *)
TypeOK ==
    /\ ev \in EventRows
    /\ round \in [Rounds -> RoundRows]
    /\ batch \in [Rounds -> [Copies -> BatchRows]]
    /\ tasks \in [Slots -> TaskRows]
    /\ proc \in [Procs -> Frames]
    /\ up \in BOOLEAN
    /\ used \in [of : Setups, pauses : 0..MaxPauses, crashes : 0..MaxCrashes, faults : 0..MaxNetFaults,
                 timeouts : 0..MaxTimeouts]
    /\ hardened \in 0..Hardening
    /\ played \in [Rounds -> 0..RoundDuration]

(* Handlers do not overlap. *)
Serial    == \A p, q \in used.of.procs : p = q
Faultless == used.crashes + used.faults + used.timeouts = 0
(* pause_round and resume_round write a round by its id, whatever its row  *)
(* holds by then, so what is said of the order of rounds takes that nobody *)
(* has paused the event yet, or that handlers do not overlap.              *)
Orderly   == Serial \/ used.pauses = 0

(* Rounds happen one after the other: a round exists only once the round   *)
(* before it is completed, so at most one round is live at any time.       *)
RoundsInOrder ==
    Orderly => /\ \A n \in Existing : n > 1 => round[n - 1].status = "completed"
               /\ Cardinality(Live) <= 1

(* A round that ended is never reopened by a later pause, resume or boot. *)
KeepsCompleted ==
    Orderly => \A n \in Rounds : round[n].status = "completed" => round'[n].status = "completed"
CompletedStays == [][KeepsCompleted]_vars

(* Each box is checked once a round: a round never gets a second batch.    *)
OneBatchPerRound ==
    \A n \in Rounds : Cardinality({k \in Copies : batch[n][k] # NoBatch}) <= 1

(* Hardening happens at most once: no round is there to go back from.      *)
HardeningOnce == InHardening => Existing = {}

(* The players have had all of Hardening when the event enters Attack.     *)
HardenedInFull == ev.phase = "Attack" => hardened = Hardening

(* A completed round gave the players all of its active time.              *)
RoundPlayedInFull ==
    \A n \in Rounds : round[n].status = "completed" => played[n] = RoundDuration

(* All the tasks of a batch of round n were created and are terminal.      *)
Judged(n) ==
    \E k \in Copies : /\ batch[n][k] # NoBatch /\ batch[n][k].open = {}
                      /\ \A p \in Procs : ~(proc[p].pc = "mk_task" /\ proc[p].n = n /\ proc[p].k = k)

(* Finished means every round was judged and no judgement is outstanding.  *)
FinishedIsSettled == ev.status = "Finished" => \A n \in Rounds : Judged(n)

Resuming == \E p \in Procs : proc[p].pc \in {"un_round", "un_cas"}

(* While the event is paused, and nobody is resuming it, no round runs.    *)
PausedFreezesRounds ==
    ev.status = "Paused" /\ ~Resuming => \A n \in Rounds : round[n].status # "active"

(* A paused event is in the pause phase, so that nothing is open to players. *)
PausedPhase == ev.status = "Paused" => ev.phase = "Pause"

(* A pause freezes the match and takes nothing from it: no round runs and  *)
(* the event is closed to the players while it is paused, Hardening lasts  *)
(* its full time however often it is interrupted, and does not come back.  *)
(* This is about handlers that do not overlap; all but the last also takes *)
(* that nothing went wrong so far.                                         *)
PauseFreezes ==
    Serial => /\ HardeningOnce
              /\ Faultless => PausedFreezesRounds /\ PausedPhase /\ HardenedInFull

(* Rounds are settled: when nobody paused, overlap, crashes and timeouts   *)
(* take no time from a round; a round gets one judge batch when handlers   *)
(* do not overlap; and the event is finished only when every round was     *)
(* judged, as long as nothing went wrong.                                  *)
RoundsSettled ==
    /\ used.pauses = 0 => RoundPlayedInFull
    /\ Serial => OneBatchPerRound
    /\ Serial /\ Faultless => FinishedIsSettled

\* A crash may lose the deadline task that a batch waits for.
EventFinishes == ev.status = "Running" ~> (ev.status = "Finished" \/ used.crashes > 0)

Stalled ==
    /\ ev.status = "Running" /\ ev.phase = "Attack" /\ Live = {}
    /\ \E n \in Rounds : round[n].status = "none"

RoundsGoOn == Stalled ~> (Live # {} \/ ev.status # "Running")

(* The match goes on by itself: a started event reaches Finished, even if  *)
(* no judge worker ever answers, and in Attack, when no round runs and     *)
(* rounds are left, the next one starts, also after a crash anywhere.      *)
MatchGoesOn == EventFinishes /\ RoundsGoOn
----------------------------------------------------------------------------
(* Setups: small events for TLC, each with the handlers that may be in     *)
(* flight and the number of pauses, crashes, network faults and timeouts.  *)

Quiet == [procs |-> {p1}, hardening |-> 1, pauses |-> 0, crashes |-> 0, faults |-> 0,
          timeouts |-> 0, total |-> 0]

\* One handler at a time: a pause, and a crash or a network fault.
WithFault == [Quiet EXCEPT !.pauses = 1, !.crashes = 1, !.faults = 1, !.total = 1]
\* One handler at a time: a crash, and a network fault when the process boots.
WithBootFault == [WithFault EXCEPT !.pauses = 0, !.total = 2]
\* One handler at a time: two pauses and a longer Hardening.
WithPauses == [Quiet EXCEPT !.hardening = 2, !.pauses = 2]
\* Two handlers at once: a crash or an engine timeout.
WithOverlap == [Quiet EXCEPT !.procs = {p1, p2}, !.crashes = 1, !.timeouts = 1, !.total = 1]
\* One handler at a time: a crash.
WithCrash == [Quiet EXCEPT !.crashes = 1, !.total = 1]
\* One handler at a time: a pause.
WithPause == [Quiet EXCEPT !.pauses = 1]

SafeSetups  == {WithFault, WithBootFault, WithPauses, WithOverlap}
LiveSetups  == {WithCrash}
PauseSetups == {WithPause}
=============================================================================

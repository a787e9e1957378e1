------------------------ MODULE AwdLifecycleProofs ------------------------
(***************************************************************************)
(* Proofs about AwdLifecycle, for any number of rounds, handlers, judge    *)
(* batches, tasks, pauses, crashes, network faults and engine timeouts:    *)
(* its types, the order of the rounds, that a round once completed stays   *)
(* so, what overlap, crashes and timeouts may not take from a round, one   *)
(* judge batch a round, a settled finish, and what a pause freezes.        *)
(*                                                                         *)
(* The invariant comes in layers.  Each says what the frame of a handler   *)
(* still knows of the rows at its next statement, since the checks a       *)
(* handler made are several statements behind the write that rests on      *)
(* them.                                                                   *)
(***************************************************************************)
EXTENDS AwdLifecycle, FiniteSetTheorems, WellFoundedInduction, TLAPS

Starting == {"sr_read", "sr_insert"}
Ending   == {"re_guard", "re_read", "re_write"}
Making   == {"mk_batch", "mk_task"}
Closing  == {"mf_read", "mf_cas"}
Pausing  == {"pa_cancel", "pa_find", "pa_round", "pa_cas", "pa_net"}
Resumes  == {"un_hard", "un_phase", "un_find", "un_round", "un_cas", "un_net", "un_restore"}

(***************************************************************************)
(* Layer 1.  Types, and what the ids in tasks and frames refer to.         *)
(***************************************************************************)
TaskIds(x) ==
    /\ x.key = "RoundEnd" => x.n \in Rounds
    /\ x.key = "BatchDeadline" => x.n \in Rounds /\ x.k \in Copies

\* The handler of a round's end has made the batch whose deadline it is to schedule.
HasBatch(x) ==
    \/ x.pc \in {"mk_task", "deadline", "bd_term"}
    \/ x.pc \in Starting \cup Closing /\ x.op = "RoundEnd"

FrameIds(x) ==
    /\ x.pc \in Starting => x.m \in Rounds
    /\ x.pc \in Ending \cup Making \cup {"pa_round", "un_round"} => x.n \in Rounds
    /\ HasBatch(x) => x.n \in Rounds /\ x.k \in Copies
    /\ x.pc \in Pausing \ {"pa_net"} => x.seen \in Phases
    /\ x.pc \in {"he_read", "he_check", "he_phase"} \cup Resumes => x.op # "RoundEnd"
    /\ x.pc = "idle" => x = Idle

\* A handler that runs a task holds it, and holds it alone.
TasksHeld ==
    /\ \A p \in Procs : proc[p].t # 0 => tasks[proc[p].t].st = "running"
    /\ \A p, q \in Procs : proc[p].t # 0 /\ proc[p].t = proc[q].t => p = q

TypeInv ==
    /\ TypeOK
    /\ TasksHeld
    /\ ~up => \A p \in Procs : proc[p] = Idle
    /\ \A s \in Slots : TaskIds(tasks[s])
    /\ \A p \in Procs : FrameIds(proc[p])

(***************************************************************************)
(* Layer 2.  The order of the rounds.                                      *)
(***************************************************************************)
\* Only the handlers of the setup run, and none while the process is down.
BusyOnly ==
    /\ \A p \in Procs : proc[p] # Idle => p \in used.of.procs
    /\ ~up => used.crashes > 0

\* Before the first pause there is nothing to resume.
Unpaused ==
    used.pauses = 0 =>
       /\ ev.status \notin {"Paused", "NetworkError"}
       /\ \A n \in Rounds : round[n].status # "paused"
       /\ \A p \in Procs : /\ proc[p].pc \notin Pausing \cup Resumes
                           /\ proc[p].op # "resumeHardening"

Before(n) == \A j \in Rounds : j < n => round[j].status = "completed"

\* What a handler knows of the rounds.
FrameOrder(x) ==
    /\ x.pc \in Starting => Before(x.m)
    /\ x.pc = "re_write" => round[x.n].status # "none"
    /\ x.pc \in Making => round[x.n].status = "completed"
    /\ x.pc \in {"pa_round", "un_round"} => round[x.n].status \in {"active", "paused"}
    /\ x.pc = "mf_cas" => \A n \in Rounds : round[n].status = "completed"

InOrder ==
    /\ \A n \in Rounds : round[n].status # "none" => Before(n)
    /\ \A p \in Procs : FrameOrder(proc[p])

OrderInv == BusyOnly /\ Unpaused /\ (Orderly => InOrder)

(***************************************************************************)
(* Layer 3.  The clock of a round, before the first pause.                 *)
(***************************************************************************)
Over(n) == round[n].status # "none" /\ played[n] = RoundDuration

\* A round's clock, and the task that ends the round no sooner.
RoundClock(n) ==
    /\ round[n].status = "none" => played[n] = 0
    /\ round[n].status = "active" => ev.status = "Running" /\ played[n] + round[n].endAt = RoundDuration
    /\ round[n].status = "completed" => played[n] = RoundDuration

EndTask(x) ==
    x.key = "RoundEnd" =>
       round[x.n].status # "none" /\ played[x.n] + x.at >= RoundDuration

\* A round's end is handled when the round is over; no round starts before the event did.
FrameClock(x) ==
    /\ x.pc = "sr_insert" => ev.status # "Verified"
    /\ x.pc \in Ending => Over(x.n)
    /\ x.t # 0 /\ tasks[x.t].key = "RoundEnd" => Over(tasks[x.t].n)

ClockInv ==
    used.pauses = 0 => /\ ev.status = "Finished" => \A n \in Rounds : round[n].status = "completed"
                       /\ \A n \in Rounds : RoundClock(n)
                       /\ \A s \in Slots : EndTask(tasks[s])
                       /\ \A p \in Procs : FrameClock(proc[p])

(***************************************************************************)
(* Layer 4.  Judge batches, when handlers do not overlap.                  *)
(***************************************************************************)
Made(n, k) == batch[n][k].st # "none"

\* A round is ended and gets its batch in one go.
FrameBatch(x) ==
    /\ x.pc = "re_write" => round[x.n].status = "active"
    /\ x.pc = "mk_batch" => \A k \in Copies : ~Made(x.n, k)

BatchInv ==
    /\ \A n \in Rounds, k \in Copies : ~Made(n, k) => batch[n][k] = NoBatch
    /\ \A s \in Slots : tasks[s].key = "BatchDeadline" => Made(tasks[s].n, tasks[s].k)
    /\ \A p \in Procs : HasBatch(proc[p]) => Made(proc[p].n, proc[p].k)
    /\ Serial => /\ \A n \in Rounds, j, k \in Copies : Made(n, j) /\ Made(n, k) => j = k
                 /\ \A n \in Rounds : round[n].status # "completed" => \A k \in Copies : ~Made(n, k)
                 /\ \A p \in Procs : FrameBatch(proc[p])

(***************************************************************************)
(* Layer 5.  The finish, when handlers do not overlap and nothing failed.  *)
(***************************************************************************)
\* A completed round has a batch, or is about to get it.
Batched(n) == \/ \E k \in Copies : Made(n, k)
              \/ \E p \in Procs : proc[p].pc = "mk_batch" /\ proc[p].n = n

\* Every round is over and has a batch that is settled.
Settled == \A n \in Rounds : /\ round[n].status = "completed"
                             /\ \E k \in Copies : Made(n, k) /\ batch[n][k].open = {}

FinishInv ==
    Serial /\ Faultless =>
       /\ \A n \in Rounds : round[n].status = "completed" => Batched(n)
       /\ \A p \in Procs : proc[p].pc = "mf_cas" => Settled
       /\ ev.status = "Finished" => Settled /\ \A p \in Procs : proc[p].pc \notin {"re_write"} \cup Making

(***************************************************************************)
(* Layer 6.  Pause and Hardening, when handlers do not overlap.            *)
(***************************************************************************)
Fresh    == \A n \in Rounds : round[n].status = "none"
Inactive == \A n \in Rounds : round[n].status # "active"

FramePause(x) ==
    /\ x.pc = "sr_insert" => ev.status = "Running" /\ ev.phase = "Attack"
    /\ x.pc = "schedule_hardening" => Fresh /\ InHardening
    /\ x.pc \in {"he_check", "he_phase"} => InHardening
    /\ x.pc \in {"pa_cancel", "pa_find", "pa_round", "pa_cas"} =>
          /\ ev.status = "Running" /\ ev.phase = x.seen
          /\ x.pc = "pa_cancel" => x.seen = "Hardening"
          /\ x.pc \in {"pa_find", "pa_round"} => x.seen # "Hardening"
    /\ x.pc = "pa_cas" => Inactive
    /\ x.pc = "un_hard" => Fresh /\ ev.pausedPhase # "Attack"
    /\ x.pc = "un_phase" => Fresh /\ InHardening
    /\ x.pc \in {"un_hard", "un_find", "un_round", "un_cas"} =>
          x.seen = ev.status /\ ev.status \in {"Paused", "NetworkError"}
    /\ x.pc = "un_net" => ev.status = "Running" /\ (ev.pausedPhase # "Attack" => Fresh)

\* Hardening, and what a pause keeps of it.
PauseInv ==
    Serial =>
       /\ ev.status = "Verified" \/ InHardening => Fresh
       /\ ev.status = "Running" => ev.phase \in {"Hardening", "Attack"}
       /\ ev.status = "Paused" => ev.phase = "Pause"
       /\ ev.status \in {"Paused", "NetworkError"} /\ ev.pausedPhase # "Attack" => Fresh
       /\ \A p \in Procs : FramePause(proc[p])

\* Hardening time is counted down, or kept for the resume.
FrameHardening(x) ==
    /\ x.pc \in {"he_check", "he_phase", "un_phase"} => hardened = Hardening
    /\ x.pc \in {"pa_cancel", "pa_cas"} /\ x.seen = "Hardening" => hardened + x.rem = Hardening
    /\ x.pc = "un_hard" => hardened + x.rem = Hardening
    /\ x.pc \in {"un_find", "un_round", "un_cas"} => hardened = Hardening

HardeningInv ==
    Serial /\ Faultless =>
       /\ ev.status # "NetworkError"
       /\ ev.status = "Verified" => hardened = 0 /\ ev.phase = "Hardening"
       /\ ev.phase = "Attack" => hardened = Hardening
       /\ InHardening => \/ ev.hardeningEndsAt >= 0 /\ hardened + ev.hardeningEndsAt = Hardening
                         \/ \E p \in Procs : proc[p].pc = "un_phase"
       /\ ev.status = "Paused" =>
             /\ ev.pausedPhase \in {"Hardening", "Attack"}
             /\ ev.pausedPhase = "Hardening" => hardened + ev.pauseRemaining = Hardening
             /\ ev.pausedPhase = "Attack" => hardened = Hardening
             /\ Inactive \/ \E p \in Procs : proc[p].pc = "un_cas"
       /\ \A p \in Procs : FrameHardening(proc[p])
---------------------------------------------------------------------------
(* Layer 1: types *)

\* A set of positive numbers below a bound has a largest one.
LEMMA MaxExists ==
  ASSUME NEW N \in Nat, NEW S \in SUBSET (1..N), S # {}
  PROVE  \E n \in S : \A m \in S : m <= n
  <1> DEFINE T == {i \in Nat : i <= N /\ N - i \in S}
  <1>1. T \subseteq Nat OBVIOUS
  <1>2. T # {}
    <2>1. PICK n \in S : TRUE OBVIOUS
    <2>2. N - n \in T /\ N - (N - n) = n OBVIOUS
    <2> QED BY <2>2
  <1>3. PICK x \in T : \A y \in T : ~(<<y, x>> \in OpToRel(<, Nat))
    <2> HIDE DEF T
    <2> QED BY <1>1, <1>2, WFMin, NatLessThanWellFounded
  <1>4. \A y \in T : ~(y < x) BY <1>3 DEF OpToRel
  <1>5. N - x \in S OBVIOUS
  <1>6. ASSUME NEW m \in S PROVE m <= N - x
    <2>1. N - m \in T BY <1>5
    <2> QED BY <1>4, <2>1
  <1> QED BY <1>5, <1>6

LEMMA IdleTyped == Idle \in Frames /\ FrameIds(Idle) /\ Idle.pc = "idle" /\ Idle.t = 0
  <1>1. 0 \in 0..RoundCount BY LifecycleConstants
  <1> QED BY <1>1 DEF Idle, Frames, FrameIds, HasBatch, PCs, Ops, Starting, Ending, Making, Closing, Pausing, Resumes

LEMMA FreeTyped == Free \in TaskRows /\ TaskIds(Free)
  BY DEF Free, TaskRows, TaskIds

\* Where a task is put, and what else stays.
LEMMA PutRows ==
  ASSUME NEW ts \in [Slots -> TaskRows], \A s \in Slots : TaskIds(ts[s]),
         NEW key \in Keys, NEW n \in 0..RoundCount, NEW k \in Copies \cup {0}, NEW at \in Nat,
         key = "RoundEnd" => n \in Rounds,
         key = "BatchDeadline" => n \in Rounds /\ k \in Copies
  PROVE  /\ Put(ts, key, n, k, at) \in [Slots -> TaskRows]
         /\ \A s \in Slots : TaskIds(Put(ts, key, n, k, at)[s])
  <1> DEFINE x == [key |-> key, n |-> n, k |-> k, at |-> at, st |-> "pending", tries |-> 0]
  <1> DEFINE c == CHOOSE s \in Slots : ts[s] = Free
  <1>1. x \in TaskRows /\ TaskIds(x) BY DEF TaskRows, TaskIds
  <1>2. Put(ts, key, n, k, at) = [ts EXCEPT ![c] = x] BY DEF Put
  <1> HIDE DEF x, c
  <1> QED BY <1>1, <1>2

\* A task is put where no other one is.
LEMMA PutAt ==
  ASSUME NEW ts \in [Slots -> TaskRows], HasRoom(ts), NEW key, NEW n, NEW k, NEW at
  PROVE  \E c \in Slots :
            /\ ts[c] = Free
            /\ Put(ts, key, n, k, at) =
                 [ts EXCEPT ![c] = [key |-> key, n |-> n, k |-> k, at |-> at, st |-> "pending", tries |-> 0]]
  <1> DEFINE c == CHOOSE s \in Slots : ts[s] = Free
  <1>1. c \in Slots /\ ts[c] = Free BY DEF HasRoom
  <1>2. Put(ts, key, n, k, at) =
          [ts EXCEPT ![c] = [key |-> key, n |-> n, k |-> k, at |-> at, st |-> "pending", tries |-> 0]]
    BY DEF Put
  <1> HIDE DEF c
  <1> QED BY <1>1, <1>2

LEMMA PutHolds ==
  ASSUME NEW ts \in [Slots -> TaskRows], HasRoom(ts), NEW key, NEW n, NEW k, NEW at,
         NEW s \in Slots, ts[s].st = "running"
  PROVE  Put(ts, key, n, k, at)[s] = ts[s]
  BY PutAt DEF Free

LEMMA RetriedTyped ==
  ASSUME NEW x \in TaskRows, TaskIds(x), x.st = "running"
  PROVE  Retried(x) \in TaskRows /\ TaskIds(Retried(x))
  <1>1. x # Free BY DEF Free
  <1>2. x.tries + 1 \in Nat BY <1>1 DEF TaskRows
  <1>3. RetryDelay * (x.tries + 1) \in Nat BY <1>2, LifecycleConstants
  <1> QED BY <1>1, <1>2, <1>3, FreeTyped DEF Retried, TaskRows, TaskIds

---------------------------------------------------------------------------
(* Frames: what a step of one handler does to the handlers *)

\* The handler of p goes on with frame x, with the same task or without one.
Moves(p, x) ==
    /\ proc' = [proc EXCEPT ![p] = x]
    /\ x \in Frames /\ FrameIds(x)
    /\ x.t \in {0, proc[p].t}

LEMMA MoveTyped ==
  ASSUME TypeInv, NEW p \in Procs, NEW x, Moves(p, x)
  PROVE  /\ proc' \in [Procs -> Frames]
         /\ (\A q \in Procs : FrameIds(proc[q]))'
         /\ proc'[p] = x
         /\ \A q \in Procs : q # p => proc'[q] = proc[q]
  BY DEF TypeInv, TypeOK, Moves

LEMMA StopMoves ==
  ASSUME NEW p \in Procs, proc' = [proc EXCEPT ![p] = Idle]
  PROVE  Moves(p, Idle)
  BY IdleTyped DEF Moves

\* The tasks of the other handlers stay, and the rows keep their types.
TasksKeep(p) ==
    /\ tasks' \in [Slots -> TaskRows]
    /\ \A s \in Slots : TaskIds(tasks'[s])
    /\ \A s \in Slots : tasks[s].st = "running" /\ s # proc[p].t => tasks'[s] = tasks[s]

LEMMA ReturnTasks ==
  ASSUME TypeInv, NEW p \in Procs, Return(p)
  PROVE  TasksKeep(p)
  BY FreeTyped DEF TypeInv, TypeOK, Return, TasksKeep

LEMMA ThrowTasks ==
  ASSUME TypeInv, NEW p \in Procs, Throw(p)
  PROVE  TasksKeep(p)
  <1>1. \A s \in Slots : s = proc[p].t => Retried(tasks[s]) \in TaskRows /\ TaskIds(Retried(tasks[s]))
    <2> SUFFICES ASSUME NEW s \in Slots, s = proc[p].t
                 PROVE  Retried(tasks[s]) \in TaskRows /\ TaskIds(Retried(tasks[s]))
      OBVIOUS
    <2>1. s # 0 BY LifecycleConstants
    <2>2. tasks[s] \in TaskRows /\ TaskIds(tasks[s]) /\ tasks[s].st = "running"
      BY <2>1 DEF TypeInv, TypeOK, TasksHeld
    <2> QED BY <2>2, RetriedTyped
  <1> QED BY <1>1 DEF TypeInv, TypeOK, Throw, TasksKeep

LEMMA SameTasks ==
  ASSUME TypeInv, NEW p \in Procs, UNCHANGED tasks
  PROVE  TasksKeep(p)
  BY DEF TypeInv, TypeOK, TasksKeep

UsedOK ==
    used \in [of : Setups, pauses : 0..MaxPauses, crashes : 0..MaxCrashes, faults : 0..MaxNetFaults,
              timeouts : 0..MaxTimeouts]

\* What a step has to leave typed besides the handlers and the tasks.
RowsTyped ==
    /\ up /\ UNCHANGED <<up, hardened, played>>
    /\ UsedOK' /\ used'.of = used.of
    /\ ev' \in EventRows /\ round' \in [Rounds -> RoundRows] /\ batch' \in [Rounds -> [Copies -> BatchRows]]

LEMMA SameUsed == ASSUME TypeInv, UNCHANGED used PROVE UsedOK' /\ used'.of = used.of
  BY DEF TypeInv, TypeOK, UsedOK, MaxPauses, MaxCrashes, MaxNetFaults, MaxTimeouts

LEMMA UsedTyped ==
  ASSUME TypeInv
  PROVE  /\ used.of \in Setups
         /\ MaxPauses \in Nat /\ MaxCrashes \in Nat /\ MaxNetFaults \in Nat /\ MaxTimeouts \in Nat
         /\ Hardening \in Nat
         /\ used.pauses \in Nat /\ used.crashes \in Nat /\ used.faults \in Nat /\ used.timeouts \in Nat
  <1>1. used.of \in Setups BY DEF TypeInv, TypeOK
  <1>2. /\ MaxPauses \in Nat /\ MaxCrashes \in Nat /\ MaxNetFaults \in Nat /\ MaxTimeouts \in Nat
        /\ Hardening \in Nat
    BY <1>1, LifecycleConstants DEF MaxPauses, MaxCrashes, MaxNetFaults, MaxTimeouts, Hardening
  <1>3. /\ used.pauses \in 0..MaxPauses /\ used.crashes \in 0..MaxCrashes
        /\ used.faults \in 0..MaxNetFaults /\ used.timeouts \in 0..MaxTimeouts
    BY DEF TypeInv, TypeOK
  <1> QED BY <1>1, <1>2, <1>3

\* One more of what may happen.
LEMMA SpendTyped ==
  ASSUME TypeInv,
         \/ used.pauses < MaxPauses /\ used' = [used EXCEPT !.pauses = @ + 1]
         \/ used.crashes < MaxCrashes /\ used' = [used EXCEPT !.crashes = @ + 1]
         \/ used.faults < MaxNetFaults /\ used' = [used EXCEPT !.faults = @ + 1]
         \/ used.timeouts < MaxTimeouts /\ used' = [used EXCEPT !.timeouts = @ + 1]
  PROVE  UsedOK' /\ used'.of = used.of
  <1>1. UsedOK BY DEF TypeInv, TypeOK, UsedOK
  <1>2. used'.of = used.of BY <1>1 DEF UsedOK
  <1>3. MaxPauses' = MaxPauses /\ MaxCrashes' = MaxCrashes /\ MaxNetFaults' = MaxNetFaults /\ MaxTimeouts' = MaxTimeouts
    BY <1>2 DEF MaxPauses, MaxCrashes, MaxNetFaults, MaxTimeouts
  <1>4. used' \in [of : Setups, pauses : 0..MaxPauses, crashes : 0..MaxCrashes, faults : 0..MaxNetFaults,
                   timeouts : 0..MaxTimeouts]
    BY <1>1, UsedTyped DEF UsedOK
  <1> QED BY <1>2, <1>3, <1>4 DEF UsedOK

\* A step of the handler of p keeps the types.
LEMMA StepTyped ==
  ASSUME TypeInv, NEW p \in Procs, NEW x, Moves(p, x), TasksKeep(p),
         x.t # 0 => tasks'[x.t] = tasks[x.t], RowsTyped
  PROVE  TypeInv'
  <1>1. proc' \in [Procs -> Frames] /\ (\A q \in Procs : FrameIds(proc[q]))'
    BY MoveTyped
  <1>2. proc'[p] = x /\ \A q \in Procs : q # p => proc'[q] = proc[q] BY MoveTyped
  <1>3. TypeOK'
    <2>1. Hardening' = Hardening BY DEF RowsTyped, Hardening
    <2> QED BY <1>1, <2>1 DEF TypeInv, TypeOK, TasksKeep, RowsTyped, UsedOK
  <1>4. \A q \in Procs : proc[q].t \in Slots \cup {0} BY DEF TypeInv, TypeOK, Frames
  <1>5. \A q \in Procs : proc[q].t # 0 => proc[q].t \in Slots /\ tasks[proc[q].t].st = "running"
    BY <1>4 DEF TypeInv, TasksHeld
  <1>6. x.t # 0 => x.t = proc[p].t BY DEF Moves
  <1>7. \A q \in Procs : q # p /\ proc[q].t # 0 => proc[q].t # proc[p].t BY DEF TypeInv, TasksHeld
  <1>8. \A q \in Procs : q # p /\ proc[q].t # 0 => tasks'[proc[q].t] = tasks[proc[q].t]
    BY <1>5, <1>7 DEF TasksKeep
  <1>9. TasksHeld'
    <2>1. \A q \in Procs : proc'[q].t # 0 => proc'[q].t = proc[q].t BY <1>2, <1>6
    <2>2. \A q \in Procs : proc'[q].t # 0 => tasks'[proc'[q].t].st = "running"
      BY <2>1, <1>2, <1>5, <1>8
    <2>3. \A q, r \in Procs : proc'[q].t # 0 /\ proc'[q].t = proc'[r].t => q = r
      BY <2>1 DEF TypeInv, TasksHeld
    <2> QED BY <2>2, <2>3 DEF TasksHeld
  <1> QED BY <1>1, <1>3, <1>9 DEF TypeInv, TasksKeep, RowsTyped

LEMMA StopTyped ==
  ASSUME TypeInv, NEW p \in Procs, proc' = [proc EXCEPT ![p] = Idle], TasksKeep(p), RowsTyped
  PROVE  TypeInv'
  BY StopMoves, IdleTyped, StepTyped

LEMMA ReturnTyped ==
  ASSUME TypeInv, NEW p \in Procs, Return(p), RowsTyped
  PROVE  TypeInv'
  BY ReturnTasks, StopTyped DEF Return

LEMMA ThrowTyped ==
  ASSUME TypeInv, NEW p \in Procs, Throw(p), RowsTyped
  PROVE  TypeInv'
  BY ThrowTasks, StopTyped DEF Throw

LEMMA MovesTyped ==
  ASSUME TypeInv, NEW p \in Procs, NEW x, Moves(p, x), UNCHANGED tasks, RowsTyped
  PROVE  TypeInv'
  BY SameTasks, StepTyped

\* The rows are typed before the step.
LEMMA SameRows ==
  ASSUME TypeInv, NEW p \in Procs, up, UNCHANGED <<ev, round, batch, up, used, hardened, played>>
  PROVE  RowsTyped
  BY SameUsed DEF RowsTyped, TypeInv, TypeOK

LEMMA OwnFrame ==
  ASSUME TypeInv, NEW p \in Procs
  PROVE  proc[p] \in Frames /\ FrameIds(proc[p])
  BY DEF TypeInv, TypeOK

\* A frame with another program counter keeps the rest.
LEMMA Jumped ==
  ASSUME NEW x \in Frames, NEW pc \in PCs
  PROVE  LET y == [x EXCEPT !.pc = pc]
         IN  /\ y \in Frames /\ y.pc = pc /\ y.op = x.op /\ y.n = x.n /\ y.m = x.m /\ y.k = x.k
             /\ y.t = x.t /\ y.seen = x.seen /\ y.rem = x.rem /\ y.todo = x.todo
  BY DEF Frames

\* Where a handler may jump to without setting anything else.
Flow(x, pc) ==
    \/ x.pc = "sr_read" /\ pc = "sr_insert"
    \/ x.pc \in Starting \cup Closing /\ x.op = "RoundEnd" /\ pc = "deadline"
    \/ x.pc \in {"he_read", "he_check"} /\ pc \in {"he_check", "he_phase"}
    \/ x.pc \in Ending /\ pc \in Ending \cup {"mk_batch"}
    \/ x.pc \in {"mk_task", "bd_term"} \cup Closing /\ pc \in Closing
    \/ x.pc \in Pausing \ {"pa_net"} /\ pc \in {"pa_cas", "pa_net"}
    \/ x.pc \in Resumes /\ pc \in ({"schedule_hardening"} \cup Resumes) \ {"un_round"}
    \/ x.op = "resumeHardening" /\ pc = "un_net"

LEMMA FlowIds ==
  ASSUME NEW x \in Frames, FrameIds(x), NEW pc, Flow(x, pc)
  PROVE  pc \in PCs /\ FrameIds([x EXCEPT !.pc = pc])
  <1>1. pc \in PCs BY DEF Flow, PCs, Ending, Closing, Resumes
  <1>2. LET y == [x EXCEPT !.pc = pc]
        IN  y.pc = pc /\ y.op = x.op /\ y.n = x.n /\ y.k = x.k /\ y.seen = x.seen
    BY <1>1, Jumped
  <1> QED BY <1>1, <1>2 DEF Flow, FrameIds, HasBatch, Starting, Ending, Making, Closing, Pausing, Resumes

LEMMA GotoMoves ==
  ASSUME TypeInv, NEW p \in Procs, NEW pc, Goto(p, pc), Flow(proc[p], pc)
  PROVE  Moves(p, [proc[p] EXCEPT !.pc = pc])
  <1>1. proc[p] \in Frames /\ FrameIds(proc[p]) BY OwnFrame
  <1>2. pc \in PCs /\ FrameIds([proc[p] EXCEPT !.pc = pc]) BY <1>1, FlowIds
  <1>3. [proc[p] EXCEPT !.pc = pc] \in Frames /\ [proc[p] EXCEPT !.pc = pc].t = proc[p].t
    BY <1>1, <1>2, Jumped
  <1>4. proc' = [proc EXCEPT ![p] = [proc[p] EXCEPT !.pc = pc]] BY DEF Goto
  <1> QED BY <1>2, <1>3, <1>4 DEF Moves

LEMMA GotoTyped ==
  ASSUME TypeInv, NEW p \in Procs, NEW pc, Goto(p, pc), Flow(proc[p], pc), UNCHANGED tasks, RowsTyped
  PROVE  TypeInv'
  BY GotoMoves, MovesTyped

---------------------------------------------------------------------------
(* Layer 1: one lemma a handler, one step an action *)

LEMMA AfterStartTyped ==
  ASSUME TypeInv, NEW p \in Procs, NEW ok \in BOOLEAN, proc[p].pc \in Starting, AfterStart(p, ok), RowsTyped
  PROVE  TypeInv'
  <1>1. CASE proc[p].op = "RoundEnd"
    <2>1. Flow(proc[p], "deadline") BY <1>1 DEF Flow, Starting, Ending, Closing, Pausing, Resumes
    <2> QED BY <1>1, <2>1, GotoTyped DEF AfterStart, PCs
  <1>2. CASE proc[p].op # "RoundEnd"
    BY <1>2, ReturnTyped, ThrowTyped DEF AfterStart
  <1> QED BY <1>1, <1>2

LEMMA PutKeeps ==
  ASSUME TypeInv, HasRoom(tasks), NEW key \in Keys, NEW n \in 0..RoundCount, NEW k \in Copies \cup {0},
         NEW at \in Nat, key = "RoundEnd" => n \in Rounds,
         key = "BatchDeadline" => n \in Rounds /\ k \in Copies
  PROVE  /\ Put(tasks, key, n, k, at) \in [Slots -> TaskRows]
         /\ \A s \in Slots : TaskIds(Put(tasks, key, n, k, at)[s])
         /\ \A s \in Slots : tasks[s].st = "running" => Put(tasks, key, n, k, at)[s] = tasks[s]
  <1>1. tasks \in [Slots -> TaskRows] /\ \A s \in Slots : TaskIds(tasks[s]) BY DEF TypeInv, TypeOK
  <1>2. /\ Put(tasks, key, n, k, at) \in [Slots -> TaskRows]
        /\ \A s \in Slots : TaskIds(Put(tasks, key, n, k, at)[s])
    BY <1>1, PutRows
  <1>3. \A s \in Slots : tasks[s].st = "running" => Put(tasks, key, n, k, at)[s] = tasks[s]
    BY <1>1, PutHolds
  <1> QED BY <1>2, <1>3

\* The task of a handler is there as long as the handler runs.
LEMMA OwnTask ==
  ASSUME TypeInv, NEW p \in Procs, proc[p].t # 0
  PROVE  proc[p].t \in Slots /\ tasks[proc[p].t].st = "running"
  BY DEF TypeInv, TypeOK, TasksHeld, Frames

\* A task is put, and the handler goes on or ends.
LEMMA PutTyped ==
  ASSUME TypeInv, NEW p \in Procs, HasRoom(tasks), NEW key \in Keys, NEW n \in 0..RoundCount,
         NEW k \in Copies \cup {0}, NEW at \in Nat, key = "RoundEnd" => n \in Rounds,
         key = "BatchDeadline" => n \in Rounds /\ k \in Copies,
         tasks' = Put(tasks, key, n, k, at), NEW x, Moves(p, x), RowsTyped
  PROVE  TypeInv'
  <1>1. TasksKeep(p) BY PutKeeps DEF TasksKeep
  <1>2. x.t # 0 => tasks'[x.t] = tasks[x.t] BY PutKeeps, OwnTask DEF Moves
  <1> QED BY <1>1, <1>2, StepTyped

LEMMA PutReturnTyped ==
  ASSUME TypeInv, NEW p \in Procs, NEW ts \in [Slots -> TaskRows], \A s \in Slots : TaskIds(ts[s]),
         \A s \in Slots : tasks[s].st = "running" => ts[s] = tasks[s],
         tasks' = [s \in Slots |-> IF s = proc[p].t THEN Free ELSE ts[s]],
         proc' = [proc EXCEPT ![p] = Idle], RowsTyped
  PROVE  TypeInv'
  <1>1. TasksKeep(p) BY FreeTyped DEF TasksKeep
  <1> QED BY <1>1, StopTyped

LEMMA StartRoundTyped ==
  ASSUME TypeInv, NEW p \in Procs,
         StartRoundRead(p) \/ StartRoundInsert(p) \/ StartRoundClash(p)
  PROVE  TypeInv'
  <1> USE DEF At
  <1>1. CASE StartRoundRead(p)
    <2>1. RowsTyped BY <1>1, SameRows DEF StartRoundRead
    <2>2. CASE AfterStart(p, FALSE) \/ AfterStart(p, TRUE)
      BY <1>1, <2>1, <2>2, AfterStartTyped DEF StartRoundRead, Starting
    <2>3. CASE Goto(p, "sr_insert") /\ UNCHANGED tasks
      <3>1. Flow(proc[p], "sr_insert") BY <1>1 DEF StartRoundRead, Flow, Starting, Ending, Closing, Pausing, Resumes
      <3> QED BY <2>1, <2>3, <3>1, GotoTyped DEF PCs
    <2> QED BY <1>1, <2>2, <2>3 DEF StartRoundRead
  <1>2. CASE StartRoundInsert(p)
    <2> DEFINE n == proc[p].m
    <2> DEFINE ts == Put(tasks, "RoundEnd", n, 0, RoundDuration)
    <2>1. n \in Rounds BY <1>2, OwnFrame DEF StartRoundInsert, FrameIds, Starting
    <2>2. RowsTyped
      <3>1. NewRound \in RoundRows BY LifecycleConstants DEF NewRound, RoundRows, Time
      <3>2. round' \in [Rounds -> RoundRows] BY <1>2, <3>1 DEF StartRoundInsert, TypeInv, TypeOK
      <3> QED BY <1>2, <3>2, SameUsed DEF StartRoundInsert, RowsTyped, TypeInv, TypeOK
    <2>3. n \in 0..RoundCount /\ RoundDuration \in Nat /\ "RoundEnd" \in Keys
      BY <2>1, LifecycleConstants DEF Rounds, Keys
    <2>4. CASE proc[p].op = "RoundEnd"
      <3>1. Flow(proc[p], "deadline") BY <1>2, <2>4 DEF StartRoundInsert, Flow, Starting, Ending, Closing, Pausing, Resumes
      <3>2. Moves(p, [proc[p] EXCEPT !.pc = "deadline"])
        BY <1>2, <2>4, <3>1, GotoMoves DEF StartRoundInsert, PCs
      <3> QED BY <1>2, <2>1, <2>2, <2>3, <2>4, <3>2, PutTyped DEF StartRoundInsert
    <2>5. CASE proc[p].op # "RoundEnd"
      <3>1. /\ ts \in [Slots -> TaskRows] /\ \A s \in Slots : TaskIds(ts[s])
            /\ \A s \in Slots : tasks[s].st = "running" => ts[s] = tasks[s]
        <4>1. HasRoom(tasks) BY <1>2 DEF StartRoundInsert
        <4>2. 0 \in Copies \cup {0} /\ "RoundEnd" # "BatchDeadline" OBVIOUS
        <4> HIDE DEF n
        <4> QED BY <2>1, <2>3, <4>1, <4>2, PutKeeps
      <3> QED BY <1>2, <2>2, <2>5, <3>1, PutReturnTyped DEF StartRoundInsert
    <2> QED BY <2>4, <2>5
  <1>3. CASE StartRoundClash(p)
    BY <1>3, SameRows, AfterStartTyped DEF StartRoundClash, Starting
  <1> QED BY <1>1, <1>2, <1>3

\* A request starts a handler in a frame of its own.
LEMMA CallTyped ==
  ASSUME NEW op \in Ops, NEW pc \in PCs
  PROVE  LET x == Call(op, pc)
         IN  x \in Frames /\ x.pc = pc /\ x.op = op /\ x.t = 0 /\ x.n = 0 /\ x.m = 0
  <1>1. Idle \in Frames /\ Idle.t = 0 /\ Idle.n = 0 /\ Idle.m = 0 BY IdleTyped DEF Idle
  <1> QED BY <1>1 DEF Call, Frames

LEMMA StartEventTyped ==
  ASSUME TypeInv, NEW p \in Procs, StartEvent(p)
  PROVE  TypeInv'
  <1>1. Hardening \in Nat BY LifecycleConstants DEF TypeInv, TypeOK, Hardening
  <1>2. 1 \in Rounds /\ 1 \in 0..RoundCount BY LifecycleConstants DEF Rounds
  <1>3. RowsTyped
    BY ZenonT(60), <1>1, SameUsed DEF StartEvent, Available, At, RowsTyped, TypeInv, TypeOK, EventRows, Statuses, Phases, Time
  <1>4. UNCHANGED tasks BY DEF StartEvent
  <1>5. CASE Hardening > 0
    <2> DEFINE x == [Call("start", "schedule_hardening") EXCEPT !.rem = Hardening]
    <2>1. x \in Frames /\ x.pc = "schedule_hardening" /\ x.t = 0
      BY <1>1, CallTyped DEF Frames, Ops, PCs
    <2>2. FrameIds(x) BY <2>1 DEF FrameIds, HasBatch, Starting, Ending, Making, Closing, Pausing, Resumes
    <2>3. Moves(p, x) BY <1>5, <2>1, <2>2 DEF StartEvent, Moves
    <2> QED BY <1>3, <1>4, <2>3, MovesTyped
  <1>6. CASE ~(Hardening > 0)
    <2> DEFINE x == [Call("start", "sr_read") EXCEPT !.m = 1]
    <2>1. x \in Frames /\ x.pc = "sr_read" /\ x.t = 0 /\ x.m = 1 /\ x.op = "start"
      BY SMTT(30), <1>2, CallTyped DEF Frames, Ops, PCs
    <2>2. FrameIds(x) BY <1>2, <2>1 DEF FrameIds, HasBatch, Starting, Ending, Making, Closing, Pausing, Resumes
    <2>3. Moves(p, x) BY <1>6, <2>1, <2>2 DEF StartEvent, Moves
    <2> QED BY <1>3, <1>4, <2>3, MovesTyped
  <1> QED BY <1>5, <1>6

LEMMA ScheduleHardeningTyped ==
  ASSUME TypeInv, NEW p \in Procs, ScheduleHardening(p)
  PROVE  TypeInv'
  <1>1. RowsTyped BY SameRows DEF ScheduleHardening, At
  <1>2. 0 \in 0..RoundCount /\ 0 \in Copies \cup {0} /\ proc[p].rem \in Nat /\ "HardeningEnd" \in Keys
    BY OwnFrame, LifecycleConstants DEF Frames, Keys
  <1>3. \E x : Moves(p, x)
    <2>1. CASE proc[p].op = "resumeHardening"
      <3>1. Flow(proc[p], "un_net") BY <2>1 DEF Flow, Starting, Ending, Closing, Pausing, Resumes
      <3> QED BY <2>1, <3>1, GotoMoves DEF ScheduleHardening, PCs
    <2>2. CASE proc[p].op # "resumeHardening"
      BY <2>2, StopMoves DEF ScheduleHardening
    <2> QED BY <2>1, <2>2
  <1>4. HasRoom(tasks) /\ tasks' = Put(tasks, "HardeningEnd", 0, 0, proc[p].rem) BY DEF ScheduleHardening
  <1> QED BY <1>1, <1>2, <1>3, <1>4, PutTyped

LEMMA HardeningEndTyped ==
  ASSUME TypeInv, NEW p \in Procs,
         HardeningEndRead(p) \/ HardeningEndCheck(p) \/ HardeningEndPhase(p)
  PROVE  TypeInv'
  <1> USE DEF At
  <1>1. CASE HardeningEndRead(p)
    <2>1. RowsTyped BY <1>1, SameRows DEF HardeningEndRead
    <2>2. Flow(proc[p], "he_check") BY <1>1 DEF HardeningEndRead, Flow, Starting, Ending, Closing, Pausing, Resumes
    <2> QED BY <1>1, <2>1, <2>2, GotoTyped, ReturnTyped DEF HardeningEndRead, PCs
  <1>2. CASE HardeningEndCheck(p)
    <2>1. RowsTyped BY <1>2, SameRows DEF HardeningEndCheck
    <2>2. Flow(proc[p], "he_phase") BY <1>2 DEF HardeningEndCheck, Flow, Starting, Ending, Closing, Pausing, Resumes
    <2> QED BY <1>2, <2>1, <2>2, GotoTyped, ReturnTyped DEF HardeningEndCheck, PCs
  <1>3. CASE HardeningEndPhase(p)
    <2> DEFINE x == [proc[p] EXCEPT !.pc = "sr_read", !.m = 1]
    <2>1. RowsTyped
      BY <1>3, SameUsed DEF HardeningEndPhase, RowsTyped, TypeInv, TypeOK, EventRows, Phases, Time, NoTime
    <2>2. 1 \in Rounds /\ 1 \in 0..RoundCount BY LifecycleConstants DEF Rounds
    <2>3. x \in Frames /\ x.pc = "sr_read" /\ x.m = 1 /\ x.t = proc[p].t /\ x.op = proc[p].op
          /\ x.n = proc[p].n /\ x.k = proc[p].k
      BY ZenonT(60), <2>2, OwnFrame DEF Frames, PCs
    <2>4. FrameIds(x)
      BY <1>3, <2>2, <2>3, OwnFrame DEF HardeningEndPhase, FrameIds, HasBatch, Starting, Ending, Making, Closing, Pausing, Resumes, PCs
    <2>5. Moves(p, x) BY <1>3, <2>3, <2>4 DEF HardeningEndPhase, Moves
    <2> QED BY <1>3, <2>1, <2>5, MovesTyped DEF HardeningEndPhase
  <1> QED BY <1>1, <1>2, <1>3

LEMMA RoundEndTyped ==
  ASSUME TypeInv, NEW p \in Procs,
         RoundEndGuard(p) \/ EndRoundRead(p) \/ EndRoundWrite(p)
  PROVE  TypeInv'
  <1> USE DEF At
  <1>1. CASE RoundEndGuard(p)
    <2>1. RowsTyped BY <1>1, SameRows DEF RoundEndGuard
    <2>2. Flow(proc[p], "re_read") BY <1>1 DEF RoundEndGuard, Flow, Starting, Ending, Closing, Pausing, Resumes
    <2> QED BY <1>1, <2>1, <2>2, GotoTyped, ReturnTyped DEF RoundEndGuard, PCs
  <1>2. CASE EndRoundRead(p)
    <2>1. RowsTyped BY <1>2, SameRows DEF EndRoundRead
    <2>2. Flow(proc[p], "re_write") BY <1>2 DEF EndRoundRead, Flow, Starting, Ending, Closing, Pausing, Resumes
    <2> QED BY <1>2, <2>1, <2>2, GotoTyped, ReturnTyped DEF EndRoundRead, PCs
  <1>3. CASE EndRoundWrite(p)
    <2>1. RowsTyped
      <3>1. round' \in [Rounds -> RoundRows] BY ZenonT(60), <1>3 DEF EndRoundWrite, TypeInv, TypeOK, RoundRows
      <3> QED BY <1>3, <3>1, SameUsed DEF EndRoundWrite, RowsTyped, TypeInv, TypeOK
    <2>2. Flow(proc[p], "mk_batch") BY <1>3 DEF EndRoundWrite, Flow, Starting, Ending, Closing, Pausing, Resumes
    <2> QED BY <1>3, <2>1, <2>2, GotoTyped DEF EndRoundWrite, PCs
  <1> QED BY <1>1, <1>2, <1>3

\* A batch row is changed.
LEMMA BatchTyped ==
  ASSUME TypeInv, NEW n, NEW k, NEW x \in BatchRows
  PROVE  [batch EXCEPT ![n][k] = x] \in [Rounds -> [Copies -> BatchRows]]
  BY DEF TypeInv, TypeOK

LEMMA BatchRow ==
  ASSUME TypeInv, NEW n \in Rounds, NEW k \in Copies
  PROVE  batch[n][k] \in BatchRows
  BY DEF TypeInv, TypeOK

LEMMA CreateBatchTyped ==
  ASSUME TypeInv, NEW p \in Procs, CreateBatch(p) \/ CreateBatchDone(p)
  PROVE  TypeInv'
  <1> USE DEF At
  <1>1. CASE CreateBatch(p)
    <2> DEFINE n == proc[p].n
    <2>1. PICK k \in Copies :
             /\ batch' = [batch EXCEPT ![n][k] = [NoBatch EXCEPT !.st = "running", !.deadline = JudgeGrace]]
             /\ proc' = [proc EXCEPT ![p].pc = "mk_task", ![p].k = k, ![p].todo = Boxes]
      BY <1>1 DEF CreateBatch
    <2> DEFINE x == [proc[p] EXCEPT !.pc = "mk_task", !.k = k, !.todo = Boxes]
    <2>2. [NoBatch EXCEPT !.st = "running", !.deadline = JudgeGrace] \in BatchRows
      BY LifecycleConstants DEF NoBatch, BatchRows
    <2>3. RowsTyped BY <1>1, <2>1, <2>2, BatchTyped, SameUsed DEF CreateBatch, RowsTyped, TypeInv, TypeOK
    <2>4. x \in Frames /\ x.pc = "mk_task" /\ x.n = n /\ x.k = k /\ x.t = proc[p].t
      BY ZenonT(60), OwnFrame DEF Frames, PCs
    <2>5. FrameIds(x) BY <1>1, <2>4, OwnFrame DEF CreateBatch, FrameIds, HasBatch, Starting, Ending, Making, Closing, Pausing, Resumes, PCs
    <2>6. Moves(p, x) BY <2>1, <2>4, <2>5 DEF Moves
    <2> QED BY <1>1, <2>3, <2>6, MovesTyped DEF CreateBatch
  <1>2. CASE CreateBatchDone(p)
    <2>1. RowsTyped BY <1>2, SameRows DEF CreateBatchDone
    <2>2. proc[p].n \in Rounds BY <1>2, OwnFrame DEF CreateBatchDone, FrameIds, Making
    <2>3. CASE proc[p].n >= RoundCount
      <3>1. Flow(proc[p], "mf_read") BY <1>2 DEF CreateBatchDone, Flow, Starting, Ending, Closing, Pausing, Resumes
      <3> QED BY <1>2, <2>1, <2>3, <3>1, GotoTyped DEF CreateBatchDone, PCs
    <2>4. CASE ~(proc[p].n >= RoundCount)
      <3> DEFINE x == [proc[p] EXCEPT !.pc = "sr_read", !.m = proc[p].n + 1]
      <3>1. proc[p].n + 1 \in Rounds /\ proc[p].n + 1 \in 0..RoundCount
        BY <2>2, <2>4, LifecycleConstants DEF Rounds
      <3>2. /\ x \in Frames /\ x.pc = "sr_read" /\ x.m = proc[p].n + 1
            /\ x.n = proc[p].n /\ x.k = proc[p].k /\ x.t = proc[p].t
        BY ZenonT(60), <3>1, OwnFrame DEF Frames, PCs
      <3>3. FrameIds(x) BY <1>2, <3>1, <3>2, OwnFrame DEF CreateBatchDone, FrameIds, HasBatch, Starting, Ending, Making, Closing, Pausing, Resumes, PCs
      <3>4. Moves(p, x) BY <1>2, <2>4, <3>2, <3>3 DEF CreateBatchDone, Moves
      <3> QED BY <1>2, <2>1, <3>4, MovesTyped DEF CreateBatchDone
    <2> QED BY <2>3, <2>4
  <1> QED BY <1>1, <1>2

LEMMA CreateTaskTyped ==
  ASSUME TypeInv, NEW p \in Procs, NEW b \in Boxes, NEW kind \in {"pending", "skipped", "banned"},
         CreateTask(p, b, kind)
  PROVE  TypeInv'
  <1> DEFINE n == proc[p].n
  <1> DEFINE k == proc[p].k
  <1> DEFINE x == [proc[p] EXCEPT !.todo = @ \ {b}]
  <1>1. n \in Rounds /\ k \in Copies BY OwnFrame DEF CreateTask, At, FrameIds, HasBatch
  <1>2. batch[n][k] \in BatchRows BY <1>1, BatchRow
  <1>3. batch' \in [Rounds -> [Copies -> BatchRows]]
    <2> DEFINE y == [batch[n][k] EXCEPT !.made = IF kind = "banned" THEN @ ELSE @ \cup {b},
                                        !.open = IF kind = "pending" THEN @ \cup {b} ELSE @]
    <2>1. y \in BatchRows BY <1>2 DEF BatchRows
    <2>2. batch' = [batch EXCEPT ![n][k] = y] BY ZenonT(60), <1>1, <1>2 DEF CreateTask, TypeInv, TypeOK, BatchRows
    <2> QED BY <2>1, <2>2, BatchTyped
  <1>4. RowsTyped BY <1>3, SameUsed DEF CreateTask, At, RowsTyped, TypeInv, TypeOK
  <1>5. x \in Frames /\ x.pc = "mk_task" /\ x.n = n /\ x.k = k /\ x.t = proc[p].t
    BY OwnFrame DEF CreateTask, At, Frames
  <1>6. FrameIds(x) BY <1>1, <1>5 DEF FrameIds, HasBatch, Starting, Ending, Making, Closing, Pausing, Resumes, PCs
  <1>7. Moves(p, x) BY <1>5, <1>6 DEF CreateTask, Moves
  <1> QED BY <1>4, <1>7, MovesTyped DEF CreateTask

LEMMA ScheduleDeadlineTyped ==
  ASSUME TypeInv, NEW p \in Procs, ScheduleDeadline(p)
  PROVE  TypeInv'
  <1> DEFINE n == proc[p].n
  <1> DEFINE k == proc[p].k
  <1> DEFINE ts == IF batch[n][k].made = {} THEN tasks
                   ELSE Put(tasks, "BatchDeadline", n, k, batch[n][k].deadline)
  <1>1. n \in Rounds /\ n \in 0..RoundCount /\ k \in Copies
    BY OwnFrame DEF ScheduleDeadline, At, FrameIds, HasBatch, Frames
  <1>2. batch[n][k].deadline \in Nat /\ "BatchDeadline" \in Keys BY <1>1, BatchRow DEF BatchRows, Keys
  <1>3. RowsTyped BY SameRows DEF ScheduleDeadline, At
  <1>4. /\ ts \in [Slots -> TaskRows] /\ \A s \in Slots : TaskIds(ts[s])
        /\ \A s \in Slots : tasks[s].st = "running" => ts[s] = tasks[s]
    <2>1. CASE batch[n][k].made = {} BY <2>1 DEF TypeInv, TypeOK
    <2>2. CASE batch[n][k].made # {} BY ZenonT(60), <1>1, <1>2, <2>2, PutKeeps DEF ScheduleDeadline
    <2> QED BY <2>1, <2>2
  <1>5. /\ tasks' = [s \in Slots |-> IF s = proc[p].t THEN Free ELSE ts[s]]
        /\ proc' = [proc EXCEPT ![p] = Idle]
    BY DEF ScheduleDeadline
  <1> HIDE DEF ts
  <1> QED BY <1>3, <1>4, <1>5, PutReturnTyped

LEMMA AfterFinishTyped ==
  ASSUME TypeInv, NEW p \in Procs, proc[p].pc \in Closing, AfterFinish(p), RowsTyped
  PROVE  TypeInv'
  <1>1. CASE proc[p].op = "RoundEnd"
    <2>1. Flow(proc[p], "deadline") BY <1>1 DEF Flow
    <2> QED BY <1>1, <2>1, GotoTyped DEF AfterFinish
  <1>2. CASE proc[p].op # "RoundEnd"
    BY <1>2, ReturnTyped DEF AfterFinish
  <1> QED BY <1>1, <1>2

LEMMA MaybeFinishTyped ==
  ASSUME TypeInv, NEW p \in Procs, MaybeFinishRead(p) \/ MaybeFinishCas(p)
  PROVE  TypeInv'
  <1>1. CASE MaybeFinishRead(p)
    <2>1. RowsTyped BY <1>1, SameRows DEF MaybeFinishRead, At
    <2>2. proc[p].pc \in Closing /\ Flow(proc[p], "mf_cas")
      BY <1>1 DEF MaybeFinishRead, At, Flow, Closing
    <2> QED BY <1>1, <2>1, <2>2, AfterFinishTyped, GotoTyped DEF MaybeFinishRead
  <1>2. CASE MaybeFinishCas(p)
    <2>1. RowsTyped BY <1>2, SameUsed DEF MaybeFinishCas, At, RowsTyped, TypeInv, TypeOK, EventRows, Statuses
    <2> QED BY <1>2, <2>1, AfterFinishTyped DEF MaybeFinishCas, At, Closing
  <1> QED BY <1>1, <1>2

LEMMA JudgeTyped ==
  ASSUME TypeInv, NEW p \in Procs, NEW n \in Rounds, NEW k \in Copies, NEW b \in Boxes,
         JudgeTerminal(p, n, k, b)
  PROVE  TypeInv'
  <1> DEFINE x == Call("judge", "mf_read")
  <1>1. x \in Frames /\ x.pc = "mf_read" /\ x.op = "judge" /\ x.t = 0 BY CallTyped DEF Ops, PCs
  <1>2. FrameIds(x) BY <1>1 DEF FrameIds, HasBatch, Starting, Ending, Making, Closing, Pausing, Resumes
  <1>3. Moves(p, x) BY <1>1, <1>2 DEF JudgeTerminal, Moves
  <1>4. batch[n][k] \in BatchRows BY BatchRow
  <1>5. batch' \in [Rounds -> [Copies -> BatchRows]]
    <2>1. [batch[n][k] EXCEPT !.open = @ \ {b}] \in BatchRows BY <1>4 DEF BatchRows
    <2>2. batch' = [batch EXCEPT ![n][k] = [batch[n][k] EXCEPT !.open = @ \ {b}]] BY DEF JudgeTerminal
    <2> QED BY <2>1, <2>2, BatchTyped
  <1>6. RowsTyped BY <1>5, SameUsed DEF JudgeTerminal, Available, At, RowsTyped, TypeInv, TypeOK
  <1> QED BY <1>3, <1>6, MovesTyped DEF JudgeTerminal

LEMMA FinishEventTyped ==
  ASSUME TypeInv, NEW p \in Procs, FinishEvent(p)
  PROVE  TypeInv'
  <1> DEFINE x == Call("finish", "mf_read")
  <1>1. x \in Frames /\ x.pc = "mf_read" /\ x.op = "finish" /\ x.t = 0 BY CallTyped DEF Ops, PCs
  <1>2. FrameIds(x) BY <1>1 DEF FrameIds, HasBatch, Starting, Ending, Making, Closing, Pausing, Resumes
  <1>3. Moves(p, x) BY <1>1, <1>2 DEF FinishEvent, Moves
  <1>4. RowsTyped BY SameRows DEF FinishEvent, Available, At
  <1> QED BY <1>3, <1>4, MovesTyped DEF FinishEvent

LEMMA BatchDeadlineTyped ==
  ASSUME TypeInv, NEW p \in Procs, BatchDeadline(p)
  PROVE  TypeInv'
  <1> DEFINE n == proc[p].n
  <1> DEFINE k == proc[p].k
  <1> DEFINE left == IF batch[n][k].deadline = 0 THEN {} ELSE batch[n][k].open
  <1>1. n \in Rounds /\ k \in Copies BY OwnFrame DEF BatchDeadline, At, FrameIds, HasBatch
  <1>2. batch[n][k] \in BatchRows BY <1>1, BatchRow
  <1>3. left \in SUBSET Boxes BY <1>2 DEF BatchRows
  <1>4. batch' \in [Rounds -> [Copies -> BatchRows]]
    <2> HIDE DEF left
    <2> DEFINE y == [batch[n][k] EXCEPT !.open = left, !.st = IF left = {} THEN "completed" ELSE @]
    <2>1. y \in BatchRows BY <1>2, <1>3 DEF BatchRows
    <2>2. batch' = [batch EXCEPT ![n][k].open = left, ![n][k].st = IF left = {} THEN "completed" ELSE @]
      BY DEF BatchDeadline, left
    <2>3. batch' = [batch EXCEPT ![n][k] = y] BY <1>1, <1>2, <2>2 DEF TypeInv, TypeOK, BatchRows
    <2> QED BY <2>1, <2>3, BatchTyped
  <1>5. RowsTyped BY <1>4, SameUsed DEF BatchDeadline, At, RowsTyped, TypeInv, TypeOK
  <1>6. Flow(proc[p], "mf_read") BY DEF BatchDeadline, At, Flow, Closing
  <1> QED BY <1>5, <1>6, GotoTyped DEF BatchDeadline

---------------------------------------------------------------------------
(* Pause and resume *)

LEMMA LiveRows ==
  ASSUME TypeInv, NEW n \in Live
  PROVE  n \in Rounds /\ n \in 0..RoundCount /\ round[n] \in RoundRows /\ round[n].endAt \in Nat
  <1>1. n \in Rounds BY DEF Live
  <1>2. round[n] \in RoundRows BY <1>1 DEF TypeInv, TypeOK
  <1> QED BY <1>1, <1>2, LifecycleConstants DEF Rounds, RoundRows

LEMMA PauseReadTyped ==
  ASSUME TypeInv, NEW p \in Procs, PauseRead(p)
  PROVE  TypeInv'
  <1> DEFINE pc == IF ev.phase = "Hardening" THEN "pa_cancel" ELSE "pa_find"
  <1> DEFINE x == [Call("pause", pc) EXCEPT !.seen = ev.phase, !.rem = NonNeg(ev.hardeningEndsAt)]
  <1>1. ev \in EventRows BY DEF TypeInv, TypeOK
  <1>2. ev.phase \in Phases /\ NonNeg(ev.hardeningEndsAt) \in Nat
    BY <1>1 DEF EventRows, NonNeg, Time, NoTime
  <1>3. pc \in PCs /\ pc \in {"pa_cancel", "pa_find"} BY DEF PCs
  <1>4. proc' = [proc EXCEPT ![p] = x] BY DEF PauseRead
  <1> HIDE DEF pc
  <1>5. Call("pause", pc) \in Frames /\ Call("pause", pc).pc = pc /\ Call("pause", pc).t = 0
    BY <1>3, CallTyped DEF Ops
  <1>6. x \in Frames /\ x.pc = pc /\ x.seen = ev.phase /\ x.t = 0
    BY <1>2, <1>5 DEF Frames
  <1>7. FrameIds(x) BY <1>2, <1>3, <1>6 DEF FrameIds, HasBatch, Starting, Ending, Making, Closing, Pausing, Resumes
  <1>8. Moves(p, x) BY <1>4, <1>6, <1>7 DEF Moves
  <1>9. UsedOK' /\ used'.of = used.of BY SpendTyped DEF PauseRead
  <1>10. RowsTyped BY <1>9 DEF RowsTyped, PauseRead, Available, At, TypeInv, TypeOK
  <1> QED BY <1>8, <1>10, MovesTyped DEF PauseRead

LEMMA PauseTyped ==
  ASSUME TypeInv, NEW p \in Procs, PauseCancel(p) \/ PauseFind(p) \/ PauseRound(p) \/ PauseCas(p)
  PROVE  TypeInv'
  <1> USE DEF At
  <1>1. CASE PauseCancel(p)
    <2>1. RowsTyped BY <1>1, SameRows DEF PauseCancel
    <2>2. Moves(p, [proc[p] EXCEPT !.pc = "pa_cas"])
      <3>1. Flow(proc[p], "pa_cas") BY <1>1 DEF PauseCancel, Flow, Pausing
      <3> QED BY <1>1, <3>1, GotoMoves DEF PauseCancel
    <2>3. /\ tasks' \in [Slots -> TaskRows] /\ \A s \in Slots : TaskIds(tasks'[s])
          /\ \A s \in Slots : tasks[s].st = "running" => tasks'[s] = tasks[s]
      BY <1>1, FreeTyped DEF PauseCancel, Cancelled, TypeInv, TypeOK
    <2>4. TasksKeep(p) BY <2>3 DEF TasksKeep
    <2>5. \A x : Moves(p, x) /\ x.t # 0 => tasks'[x.t] = tasks[x.t] BY <2>3, OwnTask DEF Moves
    <2> QED BY <2>1, <2>2, <2>4, <2>5, StepTyped
  <1>2. CASE PauseFind(p)
    <2>1. RowsTyped BY <1>2, SameRows DEF PauseFind
    <2>2. proc[p] \in Frames /\ proc[p].seen \in Phases
      BY <1>2, OwnFrame DEF PauseFind, FrameIds, Pausing
    <2>3. CASE proc' = [proc EXCEPT ![p].pc = "pa_cas", ![p].rem = 0]
      <3> DEFINE x == [proc[p] EXCEPT !.pc = "pa_cas", !.rem = 0]
      <3>1. x \in Frames /\ x.pc = "pa_cas" /\ x.seen = proc[p].seen /\ x.t = proc[p].t
        BY <2>2 DEF Frames, PCs
      <3>2. FrameIds(x)
        BY <2>2, <3>1 DEF FrameIds, HasBatch, Starting, Ending, Making, Closing, Pausing, Resumes
      <3>3. Moves(p, x) BY <2>3, <3>1, <3>2 DEF Moves
      <3> QED BY <1>2, <2>1, <3>3, MovesTyped DEF PauseFind
    <2>4. CASE \E n \in Live :
                  proc' = [proc EXCEPT ![p].pc = "pa_round", ![p].n = n, ![p].rem = round[n].endAt]
      <3>1. PICK n \in Live :
                  proc' = [proc EXCEPT ![p].pc = "pa_round", ![p].n = n, ![p].rem = round[n].endAt]
        BY <2>4
      <3> DEFINE x == [proc[p] EXCEPT !.pc = "pa_round", !.n = n, !.rem = round[n].endAt]
      <3>2. n \in Rounds /\ n \in 0..RoundCount /\ round[n].endAt \in Nat BY LiveRows
      <3>3. x \in Frames /\ x.pc = "pa_round" /\ x.n = n /\ x.seen = proc[p].seen /\ x.t = proc[p].t
        BY <2>2, <3>2 DEF Frames, PCs
      <3>4. FrameIds(x)
        BY <2>2, <3>2, <3>3 DEF FrameIds, HasBatch, Starting, Ending, Making, Closing, Pausing, Resumes
      <3>5. Moves(p, x) BY <3>1, <3>3, <3>4 DEF Moves
      <3> QED BY <1>2, <2>1, <3>5, MovesTyped DEF PauseFind
    <2> QED BY <1>2, <2>3, <2>4 DEF PauseFind
  <1>3. CASE PauseRound(p)
    <2>1. proc[p].rem \in Time BY OwnFrame DEF Frames, Time
    <2>2. round' \in [Rounds -> RoundRows]
      BY ZenonT(60), <1>3, <2>1 DEF PauseRound, TypeInv, TypeOK, RoundRows
    <2>3. RowsTyped BY <1>3, <2>2, SameUsed DEF PauseRound, RowsTyped, TypeInv, TypeOK
    <2>4. Flow(proc[p], "pa_cas") BY <1>3 DEF PauseRound, Flow, Pausing
    <2> QED BY <1>3, <2>3, <2>4, GotoTyped DEF PauseRound
  <1>4. CASE PauseCas(p)
    <2>1. proc[p].seen \in Phases /\ proc[p].rem \in Nat
      BY <1>4, OwnFrame DEF PauseCas, FrameIds, Pausing, Frames
    <2>2. ev' \in EventRows
      BY <1>4, <2>1 DEF PauseCas, EventRows, Statuses, Phases, Time, NoTime, TypeInv, TypeOK
    <2>3. RowsTyped BY <1>4, <2>2, SameUsed DEF PauseCas, RowsTyped, TypeInv, TypeOK
    <2>4. UNCHANGED tasks BY <1>4 DEF PauseCas
    <2>5. Flow(proc[p], "pa_net") BY <1>4 DEF PauseCas, Flow, Pausing
    <2> QED BY <1>4, <2>3, <2>4, <2>5, GotoTyped, StopTyped, SameTasks DEF PauseCas
  <1> QED BY <1>1, <1>2, <1>3, <1>4

LEMMA NetFaultTyped ==
  ASSUME TypeInv, NEW p \in Procs, NEW from, up, NetFault(p, from)
  PROVE  TypeInv'
  <1>1. UsedOK' /\ used'.of = used.of BY SpendTyped DEF NetFault
  <1>2. ev' \in EventRows BY DEF NetFault, TypeInv, TypeOK, EventRows, Statuses
  <1>3. RowsTyped BY <1>1, <1>2 DEF NetFault, RowsTyped, TypeInv, TypeOK
  <1> QED BY <1>3, StopTyped, SameTasks DEF NetFault

LEMMA ResumeReadTyped ==
  ASSUME TypeInv, NEW p \in Procs, ResumeRead(p)
  PROVE  TypeInv'
  <1> DEFINE c == IF ev.pausedPhase = "Attack" THEN Call("resumeAttack", "un_find")
                  ELSE Call("resumeHardening", "un_hard")
  <1> DEFINE x == [c EXCEPT !.seen = ev.status, !.rem = ev.pauseRemaining]
  <1>1. ev.status \in Statuses /\ ev.pauseRemaining \in Nat BY DEF TypeInv, TypeOK, EventRows
  <1>2. c \in Frames /\ c.pc \in {"un_find", "un_hard"} /\ c.op # "RoundEnd" /\ c.t = 0
    BY CallTyped DEF Ops, PCs
  <1>3. proc' = [proc EXCEPT ![p] = x] BY DEF ResumeRead
  <1> HIDE DEF c
  <1>4. x \in Frames /\ x.pc = c.pc /\ x.op = c.op /\ x.t = 0 BY <1>1, <1>2 DEF Frames
  <1>5. FrameIds(x)
    BY <1>2, <1>4 DEF FrameIds, HasBatch, Starting, Ending, Making, Closing, Pausing, Resumes
  <1>6. Moves(p, x) BY <1>3, <1>4, <1>5 DEF Moves
  <1>7. RowsTyped BY SameRows DEF ResumeRead, Available, At
  <1> QED BY <1>6, <1>7, MovesTyped DEF ResumeRead

LEMMA ResumeTyped ==
  ASSUME TypeInv, NEW p \in Procs,
         \/ ResumeHardening(p) \/ ResumePhase(p) \/ ResumeFind(p) \/ ResumeRound(p)
         \/ ResumeCas(p) \/ ResumeNet(p)
  PROVE  TypeInv'
  <1> USE DEF At
  <1>1. CASE ResumeHardening(p)
    <2>1. proc[p].rem \in Nat BY OwnFrame DEF Frames
    <2>2. ev' \in EventRows
      <3> DEFINE at == IF proc[p].rem > 0 THEN proc[p].rem ELSE NoTime
      <3>1. ev \in EventRows BY DEF TypeInv, TypeOK
      <3>2. at \in Time BY <2>1 DEF Time
      <3> DEFINE x == [ev EXCEPT !.status = "Running", !.phase = "Hardening", !.pauseRemaining = 0,
                                 !.hardeningEndsAt = at]
      <3>3. x \in EventRows
        <4> HIDE DEF at
        <4> QED BY <3>1, <3>2 DEF EventRows, Statuses, Phases
      <3>4. ev' = x \/ ev' = ev BY <1>1 DEF ResumeHardening
      <3> HIDE DEF x
      <3> QED BY <3>1, <3>3, <3>4
    <2>3. RowsTyped BY <1>1, <2>2, SameUsed DEF ResumeHardening, RowsTyped, TypeInv, TypeOK
    <2>4. UNCHANGED tasks BY <1>1 DEF ResumeHardening
    <2>5. Flow(proc[p], "schedule_hardening") /\ Flow(proc[p], "un_phase")
      BY <1>1 DEF ResumeHardening, Flow, Resumes
    <2> QED BY <1>1, <2>3, <2>4, <2>5, GotoTyped, StopTyped, SameTasks DEF ResumeHardening
  <1>2. CASE ResumePhase(p)
    <2>1. ev' \in EventRows BY <1>2 DEF ResumePhase, EventRows, Phases, Time, NoTime, TypeInv, TypeOK
    <2>2. RowsTyped BY <1>2, <2>1, SameUsed DEF ResumePhase, RowsTyped, TypeInv, TypeOK
    <2>3. Flow(proc[p], "un_net") BY <1>2 DEF ResumePhase, Flow, Resumes
    <2> QED BY <1>2, <2>2, <2>3, GotoTyped DEF ResumePhase
  <1>3. CASE ResumeFind(p)
    <2>1. RowsTyped BY <1>3, SameRows DEF ResumeFind
    <2>2. CASE Goto(p, "un_cas")
      <3>1. Flow(proc[p], "un_cas") BY <1>3 DEF ResumeFind, Flow, Resumes
      <3> QED BY <1>3, <2>1, <2>2, <3>1, GotoTyped DEF ResumeFind
    <2>3. CASE ~Goto(p, "un_cas")
      <3>1. PICK n \in Live :
               proc' = [proc EXCEPT ![p].pc = "un_round", ![p].n = n,
                          ![p].rem = IF round[n].remaining = NoTime THEN RoundDuration
                                     ELSE round[n].remaining]
        BY <1>3, <2>3 DEF ResumeFind
      <3> DEFINE rem == IF round[n].remaining = NoTime THEN RoundDuration ELSE round[n].remaining
      <3> DEFINE x == [proc[p] EXCEPT !.pc = "un_round", !.n = n, !.rem = rem]
      <3>2. n \in Rounds /\ n \in 0..RoundCount /\ round[n] \in RoundRows BY LiveRows
      <3>3. rem \in Nat BY <3>2, LifecycleConstants DEF RoundRows, Time, NoTime
      <3>4. proc[p] \in Frames /\ proc[p].op # "RoundEnd"
        BY <1>3, OwnFrame DEF ResumeFind, FrameIds, Resumes
      <3>5. proc' = [proc EXCEPT ![p] = x] BY <3>1
      <3> HIDE DEF rem
      <3>6. x \in Frames /\ x.pc = "un_round" /\ x.n = n /\ x.op = proc[p].op /\ x.t = proc[p].t
        BY <3>2, <3>3, <3>4 DEF Frames, PCs
      <3>7. FrameIds(x)
        BY <3>2, <3>4, <3>6 DEF FrameIds, HasBatch, Starting, Ending, Making, Closing, Pausing, Resumes
      <3>8. Moves(p, x) BY <3>5, <3>6, <3>7 DEF Moves
      <3> QED BY <1>3, <2>1, <3>8, MovesTyped DEF ResumeFind
    <2> QED BY <2>2, <2>3
  <1>4. CASE ResumeRound(p)
    <2>1. [status |-> "active", endAt |-> proc[p].rem, remaining |-> NoTime] \in RoundRows
      BY OwnFrame DEF Frames, RoundRows, Time
    <2>2. round' \in [Rounds -> RoundRows] BY <1>4, <2>1 DEF ResumeRound, TypeInv, TypeOK
    <2>3. RowsTyped BY <1>4, <2>2, SameUsed DEF ResumeRound, RowsTyped, TypeInv, TypeOK
    <2>4. UNCHANGED tasks BY <1>4 DEF ResumeRound
    <2>5. Flow(proc[p], "un_cas") BY <1>4 DEF ResumeRound, Flow, Resumes
    <2> QED BY <1>4, <2>3, <2>4, <2>5, GotoTyped, StopTyped, SameTasks DEF ResumeRound
  <1>5. CASE ResumeCas(p)
    <2>1. ev' \in EventRows
      <3>1. ev \in EventRows BY DEF TypeInv, TypeOK
      <3>2. [ev EXCEPT !.status = "Running", !.phase = "Attack", !.pauseRemaining = 0] \in EventRows
        BY <3>1 DEF EventRows, Statuses, Phases
      <3> QED BY <1>5, <3>1, <3>2 DEF ResumeCas
    <2>2. RowsTyped BY <1>5, <2>1, SameUsed DEF ResumeCas, RowsTyped, TypeInv, TypeOK
    <2>3. UNCHANGED tasks BY <1>5 DEF ResumeCas
    <2>4. Flow(proc[p], "un_net") BY <1>5 DEF ResumeCas, Flow, Resumes
    <2> QED BY <1>5, <2>2, <2>3, <2>4, GotoTyped, StopTyped, SameTasks DEF ResumeCas
  <1>6. CASE ResumeNet(p)
    <2>1. RowsTyped BY <1>6, SameRows DEF ResumeNet
    <2>2. UNCHANGED tasks BY <1>6 DEF ResumeNet
    <2>3. Flow(proc[p], "un_restore") BY <1>6 DEF ResumeNet, Flow, Resumes
    <2> QED BY <1>6, <2>1, <2>2, <2>3, GotoTyped, StopTyped, SameTasks DEF ResumeNet
  <1> QED BY <1>1, <1>2, <1>3, <1>4, <1>5, <1>6

\* The last of the existing rounds.
LEMMA LatestIs ==
  ASSUME TypeInv, Existing # {}
  PROVE  Latest \in Existing /\ \A m \in Existing : m <= Latest
  <1>1. Existing \in SUBSET (1..RoundCount) BY DEF Existing, Rounds
  <1>2. \E n \in Existing : \A m \in Existing : m <= n BY <1>1, MaxExists, LifecycleConstants
  <1> QED BY <1>2 DEF Latest

LEMMA RestoredKeeps ==
  ASSUME TypeInv, NEW n \in Live, NEW ts \in [Slots -> TaskRows], \A s \in Slots : TaskIds(ts[s])
  PROVE  /\ RestoredRoundEnd(ts, n) \in [Slots -> TaskRows]
         /\ \A s \in Slots : TaskIds(RestoredRoundEnd(ts, n)[s])
         /\ HasRoom(ts) => \A s \in Slots : ts[s].st = "running" => RestoredRoundEnd(ts, n)[s] = ts[s]
  <1>1. n \in Rounds /\ n \in 0..RoundCount /\ round[n].endAt \in Nat /\ "RoundEnd" \in Keys
    BY LiveRows DEF Keys
  <1>2. /\ Put(ts, "RoundEnd", n, 0, round[n].endAt) \in [Slots -> TaskRows]
        /\ \A s \in Slots : TaskIds(Put(ts, "RoundEnd", n, 0, round[n].endAt)[s])
    BY <1>1, PutRows
  <1>3. HasRoom(ts) => \A s \in Slots : ts[s].st = "running" => Put(ts, "RoundEnd", n, 0, round[n].endAt)[s] = ts[s]
    BY PutHolds
  <1>4. RestoredRoundEnd(ts, n) \in {ts, Put(ts, "RoundEnd", n, 0, round[n].endAt)}
    BY DEF RestoredRoundEnd
  <1> QED BY <1>2, <1>3, <1>4

LEMMA ResumeRestoreTyped ==
  ASSUME TypeInv, NEW p \in Procs, ResumeRestore(p)
  PROVE  TypeInv'
  <1>1. RowsTyped BY SameRows DEF ResumeRestore, At
  <1>2. CASE \E n \in Live : tasks' = RestoredRoundEnd(tasks, n) /\ proc' = [proc EXCEPT ![p] = Idle]
    <2>1. TasksKeep(p) BY <1>2, RestoredKeeps DEF ResumeRestore, TasksKeep, TypeInv, TypeOK
    <2> QED BY <1>1, <1>2, <2>1, StopTyped
  <1>3. CASE Live = {} /\ ~Gap
    BY <1>1, <1>3, StopTyped, SameTasks DEF ResumeRestore
  <1>4. CASE Live = {} /\ Gap
    <2> DEFINE x == [proc[p] EXCEPT !.pc = "sr_read", !.m = GapRound]
    <2>1. GapRound \in Rounds /\ GapRound \in 0..RoundCount BY <1>4, LifecycleConstants DEF Gap, Rounds
    <2>2. proc[p] \in Frames /\ proc[p].op # "RoundEnd"
      BY OwnFrame DEF ResumeRestore, At, FrameIds, Resumes
    <2>3. x \in Frames /\ x.pc = "sr_read" /\ x.m = GapRound /\ x.op = proc[p].op /\ x.t = proc[p].t
      BY <2>1, <2>2 DEF Frames, PCs
    <2>4. FrameIds(x)
      BY <2>1, <2>2, <2>3 DEF FrameIds, HasBatch, Starting, Ending, Making, Closing, Pausing, Resumes
    <2>5. proc' = [proc EXCEPT ![p] = x] /\ UNCHANGED tasks BY <1>4 DEF ResumeRestore
    <2>6. Moves(p, x) BY <2>3, <2>4, <2>5 DEF Moves
    <2> QED BY <1>1, <2>5, <2>6, MovesTyped
  <1> QED BY <1>2, <1>3, <1>4 DEF ResumeRestore

---------------------------------------------------------------------------
(* The engine, crashes and the clock *)

LEMMA FetchTyped ==
  ASSUME TypeInv, NEW s \in Slots, Fetch(s)
  PROVE  TypeInv'
  <1>1. tasks[s] \in TaskRows /\ tasks[s] # Free /\ TaskIds(tasks[s])
    BY DEF Fetch, TypeInv, TypeOK, Free
  <1> DEFINE x == [tasks[s] EXCEPT !.st = "running"]
  <1>2. x \in TaskRows /\ TaskIds(x) /\ x.st = "running" BY <1>1 DEF TaskRows, TaskIds
  <1>3. tasks' = [tasks EXCEPT ![s] = x] BY DEF Fetch
  <1> HIDE DEF x
  <1>4. tasks' \in [Slots -> TaskRows] /\ \A r \in Slots : TaskIds(tasks'[r])
    BY <1>2, <1>3 DEF TypeInv, TypeOK
  <1>5. \A r \in Slots : tasks[r].st = "running" => tasks'[r].st = "running"
    BY <1>2, <1>3 DEF TypeInv, TypeOK
  <1>6. UNCHANGED <<ev, round, batch, proc, up, used, hardened, played>> BY DEF Fetch
  <1>7. TypeOK' BY <1>4, <1>6, SameUsed DEF TypeInv, TypeOK, UsedOK, Hardening
  <1>8. TasksHeld' BY <1>5, <1>6, OwnTask DEF TypeInv, TasksHeld
  <1> QED BY <1>4, <1>6, <1>7, <1>8 DEF TypeInv

LEMMA DispatchTyped ==
  ASSUME TypeInv, NEW p \in Procs, NEW s \in Slots, Dispatch(p, s)
  PROVE  TypeInv'
  <1> DEFINE key == tasks[s].key
  <1> DEFINE c == Call(key, Entry[key])
  <1> DEFINE x == [c EXCEPT !.t = s, !.n = tasks[s].n, !.k = tasks[s].k]
  <1>1. tasks[s] \in TaskRows /\ tasks[s] # Free /\ TaskIds(tasks[s]) /\ tasks[s].st = "running"
    BY DEF Dispatch, TypeInv, TypeOK, Free
  <1>2. key \in Keys /\ tasks[s].n \in 0..RoundCount /\ tasks[s].k \in Copies \cup {0} BY <1>1 DEF TaskRows
  <1>3. /\ key = "HardeningEnd" => Entry[key] = "he_read"
        /\ key = "RoundEnd" => Entry[key] = "re_guard"
        /\ key = "BatchDeadline" => Entry[key] = "bd_term"
    BY <1>2 DEF Entry, Keys
  <1>4. c \in Frames /\ c.pc = Entry[key] /\ c.op = key
    BY SMTT(30), <1>2, <1>3, CallTyped DEF Keys, Ops, PCs
  <1>5. proc' = [proc EXCEPT ![p] = x] BY DEF Dispatch
  <1> HIDE DEF c
  <1>6. x \in Frames /\ x.pc = Entry[key] /\ x.op = key /\ x.t = s /\ x.n = tasks[s].n /\ x.k = tasks[s].k
    BY <1>2, <1>4 DEF Frames
  <1>7. FrameIds(x)
    BY <1>1, <1>2, <1>3, <1>6 DEF FrameIds, TaskIds, Keys, HasBatch, Starting, Ending, Making, Closing, Pausing, Resumes
  <1>8. proc' \in [Procs -> Frames] /\ proc'[p] = x /\ \A q \in Procs : q # p => proc'[q] = proc[q]
    BY <1>5, <1>6 DEF TypeInv, TypeOK
  <1>9. UNCHANGED <<ev, round, batch, tasks, up, used, hardened, played>> /\ up
    BY DEF Dispatch, Available, At
  <1>10. TypeOK' BY <1>8, <1>9, SameUsed DEF TypeInv, TypeOK, UsedOK, Hardening
  <1>11. TasksHeld'
    <2>1. \A q \in Procs : proc[q].t # s BY DEF Dispatch
    <2>2. \A q \in Procs : proc'[q].t # 0 => tasks'[proc'[q].t].st = "running"
      BY ZenonT(60), <1>1, <1>6, <1>8, <1>9 DEF TypeInv, TasksHeld
    <2>3. \A q, r \in Procs : proc'[q].t # 0 /\ proc'[q].t = proc'[r].t => q = r
      <3>1. \A q, r \in Procs : proc[q].t # 0 /\ proc[q].t = proc[r].t => q = r BY DEF TypeInv, TasksHeld
      <3>2. \A q \in Procs : proc'[q].t = IF q = p THEN s ELSE proc[q].t BY <1>6, <1>8
      <3> QED BY <2>1, <3>1, <3>2
    <2> QED BY <2>2, <2>3 DEF TasksHeld
  <1>12. \A q \in Procs : FrameIds(proc'[q]) BY <1>7, <1>8 DEF TypeInv
  <1> QED BY <1>9, <1>10, <1>11, <1>12 DEF TypeInv

LEMMA TimeoutTyped ==
  ASSUME TypeInv, NEW p \in Procs, Timeout(p)
  PROVE  TypeInv'
  <1>1. UsedOK' /\ used'.of = used.of BY SpendTyped DEF Timeout
  <1>2. RowsTyped BY <1>1 DEF Timeout, RowsTyped, TypeInv, TypeOK
  <1> QED BY <1>2, ThrowTyped DEF Timeout

LEMMA CrashTyped ==
  ASSUME TypeInv, Crash
  PROVE  TypeInv'
  <1>1. UsedOK' /\ used'.of = used.of BY SpendTyped DEF Crash
  <1>2. Hardening' = Hardening BY <1>1 DEF Hardening
  <1>3. proc' \in [Procs -> Frames] /\ \A p \in Procs : proc'[p] = Idle BY IdleTyped DEF Crash
  <1>4. UNCHANGED <<ev, round, batch, tasks, hardened, played>> /\ up' = FALSE BY DEF Crash
  <1>5. TypeOK' BY <1>1, <1>2, <1>3, <1>4 DEF TypeInv, TypeOK, UsedOK
  <1>6. TasksHeld' BY <1>3, IdleTyped DEF TasksHeld
  <1> QED BY <1>3, <1>4, <1>5, <1>6, IdleTyped DEF TypeInv

LEMMA RequeuedTyped ==
  ASSUME NEW ts \in [Slots -> TaskRows], \A s \in Slots : TaskIds(ts[s])
  PROVE  Requeued(ts) \in [Slots -> TaskRows] /\ \A s \in Slots : TaskIds(Requeued(ts)[s])
  <1>1. \A s \in Slots : ts[s].st = "running" =>
           [ts[s] EXCEPT !.st = "pending"] \in TaskRows /\ TaskIds([ts[s] EXCEPT !.st = "pending"])
    BY DEF TaskRows, TaskIds, Free
  <1> QED BY <1>1 DEF Requeued

\* Handlers are idle when the process is down, so they hold no task.
LEMMA DownTyped ==
  ASSUME TypeInv, ~up, UNCHANGED <<proc, batch, hardened, played>>, up' = TRUE,
         UsedOK', used'.of = used.of, ev' \in EventRows, round' \in [Rounds -> RoundRows],
         tasks' \in [Slots -> TaskRows], \A s \in Slots : TaskIds(tasks'[s])
  PROVE  TypeInv'
  <1>1. \A p \in Procs : proc'[p] = Idle BY DEF TypeInv
  <1>2. Hardening' = Hardening BY DEF Hardening
  <1>3. TypeOK' BY <1>2 DEF TypeInv, TypeOK, UsedOK
  <1>4. TasksHeld' BY <1>1, IdleTyped DEF TasksHeld
  <1>5. \A p \in Procs : FrameIds(proc'[p]) BY <1>1, IdleTyped
  <1> QED BY <1>3, <1>4, <1>5 DEF TypeInv

BootHardening == IF InHardening /\ ev.hardeningEndsAt # NoTime /\ ~Pending(tasks, "HardeningEnd")
                 THEN Put(tasks, "HardeningEnd", 0, 0, ev.hardeningEndsAt) ELSE tasks
BootRounds(t1) == IF Gap THEN {Put(t1, "RoundEnd", GapRound, 0, RoundDuration)}
                  ELSE IF Live = {} THEN {t1}
                  ELSE {RestoredRoundEnd(t1, n) : n \in Live}
BootDeadlines(t2) == IF Unfinished = {} \/ Pending(t2, "BatchDeadline") THEN {t2}
                     ELSE {Put(t2, "BatchDeadline", b[1], b[2], DeadlineOf(b)) : b \in Unfinished}

\* The three steps of a recovery, one after the other.
LEMMA BootSteps ==
  ASSUME BootRecover
  PROVE  \E t2 \in BootRounds(BootHardening) : \E t3 \in BootDeadlines(t2) : tasks' = Requeued(t3)
  BY DEF BootRecover, BootHardening, BootRounds, BootDeadlines

LEMMA GapTyped ==
  ASSUME TypeInv, Gap
  PROVE  /\ GapRound \in Rounds /\ GapRound \in 0..RoundCount
         /\ NewRound \in RoundRows /\ RoundDuration \in Nat
  BY LifecycleConstants DEF Gap, Rounds, NewRound, RoundRows, Time

LEMMA BootTasksTyped ==
  ASSUME TypeInv, NEW t2 \in BootRounds(BootHardening), NEW t3 \in BootDeadlines(t2)
  PROVE  /\ BootHardening \in [Slots -> TaskRows] /\ t2 \in [Slots -> TaskRows]
         /\ t3 \in [Slots -> TaskRows] /\ \A s \in Slots : TaskIds(t3[s])
  <1> DEFINE Good(ts) == ts \in [Slots -> TaskRows] /\ \A s \in Slots : TaskIds(ts[s])
  <1>1. Good(tasks) BY DEF TypeInv, TypeOK
  <1>2. Good(BootHardening)
    <2>1. CASE ev.hardeningEndsAt # NoTime
      <3>1. ev.hardeningEndsAt \in Nat BY <2>1 DEF TypeInv, TypeOK, EventRows, Time, NoTime
      <3>2. 0 \in 0..RoundCount /\ "HardeningEnd" \in Keys BY LifecycleConstants DEF Keys
      <3>3. Good(Put(tasks, "HardeningEnd", 0, 0, ev.hardeningEndsAt)) BY <1>1, <3>1, <3>2, PutRows
      <3> QED BY <1>1, <3>3 DEF BootHardening
    <2>2. CASE ev.hardeningEndsAt = NoTime BY <1>1, <2>2 DEF BootHardening
    <2> QED BY <2>1, <2>2
  <1>3. Good(t2)
    <2>1. CASE Gap
      <3>1. "RoundEnd" \in Keys BY DEF Keys
      <3>2. Good(Put(BootHardening, "RoundEnd", GapRound, 0, RoundDuration)) BY <1>2, <2>1, <3>1, GapTyped, PutRows
      <3> QED BY <2>1, <3>2 DEF BootRounds
    <2>2. CASE ~Gap /\ Live = {} BY <1>2, <2>2 DEF BootRounds
    <2>3. CASE ~Gap /\ Live # {}
      <3>1. PICK n \in Live : t2 = RestoredRoundEnd(BootHardening, n) BY <2>3 DEF BootRounds
      <3> QED BY <1>2, <3>1, RestoredKeeps
    <2> QED BY <2>1, <2>2, <2>3
  <1>4. CASE t3 = t2 BY <1>2, <1>3, <1>4
  <1>5. CASE t3 # t2
    <2>1. PICK b \in Unfinished : t3 = Put(t2, "BatchDeadline", b[1], b[2], DeadlineOf(b))
      BY <1>5 DEF BootDeadlines
    <2>2. b[1] \in Rounds /\ b[2] \in Copies BY DEF Unfinished
    <2>3. batch[b[1]][b[2]] \in BatchRows BY <2>2, BatchRow
    <2>4. DeadlineOf(b) \in Nat BY <2>3 DEF DeadlineOf, BatchRows
    <2>5. b[1] \in 0..RoundCount /\ "BatchDeadline" \in Keys BY <2>2, LifecycleConstants DEF Rounds, Keys
    <2>6. Good(t3) BY <1>3, <2>1, <2>2, <2>4, <2>5, PutRows
    <2> QED BY <1>2, <1>3, <2>6
  <1> QED BY <1>4, <1>5

LEMMA BootTyped ==
  ASSUME TypeInv, BootRecover \/ BootOnly
  PROVE  TypeInv'
  <1>1. CASE BootRecover
    <2>1. tasks' \in [Slots -> TaskRows] /\ \A s \in Slots : TaskIds(tasks'[s])
      BY <1>1, BootSteps, BootTasksTyped, RequeuedTyped
    <2>2. round' \in [Rounds -> RoundRows] BY <1>1, GapTyped DEF BootRecover, TypeInv, TypeOK
    <2>3. ev' \in EventRows BY <1>1 DEF BootRecover, TypeInv, TypeOK, EventRows, Statuses
    <2>4. UNCHANGED <<proc, batch, used, hardened, played>> /\ ~up /\ up' = TRUE BY <1>1 DEF BootRecover
    <2> QED BY <2>1, <2>2, <2>3, <2>4, SameUsed, DownTyped
  <1>2. CASE BootOnly
    <2>1. tasks' \in [Slots -> TaskRows] /\ \A s \in Slots : TaskIds(tasks'[s])
      BY <1>2, RequeuedTyped DEF BootOnly, TypeInv, TypeOK
    <2>2. UsedOK' /\ used'.of = used.of BY <1>2, SameUsed, SpendTyped DEF BootOnly
    <2>3. UNCHANGED <<ev, round, batch, proc, hardened, played>> /\ ~up /\ up' = TRUE BY <1>2 DEF BootOnly
    <2>4. ev' \in EventRows /\ round' \in [Rounds -> RoundRows] BY <2>3 DEF TypeInv, TypeOK
    <2> QED BY <2>1, <2>2, <2>3, <2>4, DownTyped
  <1> QED BY <1>1, <1>2

LEMMA LeftTyped == \A x \in Time : Left(x) \in Time /\ (x \in Nat => Left(x) \in Nat)
  BY DEF Left, Time, NoTime

LEMMA TickTyped ==
  ASSUME TypeInv, Tick
  PROVE  TypeInv'
  <1>1. UNCHANGED <<proc, up, used>> BY DEF Tick
  <1>2. ev' \in EventRows BY LeftTyped DEF Tick, TypeInv, TypeOK, EventRows
  <1>3. round' \in [Rounds -> RoundRows] BY ZenonT(60), LeftTyped DEF Tick, TypeInv, TypeOK, RoundRows, Time
  <1>4. batch' \in [Rounds -> [Copies -> BatchRows]]
    <2>1. ASSUME NEW n \in Rounds, NEW k \in Copies
          PROVE  [batch[n][k] EXCEPT !.deadline = Left(@)] \in BatchRows
      BY BatchRow, LeftTyped DEF BatchRows, Time
    <2> QED BY <2>1 DEF Tick
  <1>5. ASSUME NEW s \in Slots
        PROVE  tasks'[s] \in TaskRows /\ TaskIds(tasks'[s]) /\ tasks'[s].st = tasks[s].st
    <2>1. tasks[s] \in TaskRows /\ TaskIds(tasks[s]) BY DEF TypeInv, TypeOK
    <2>2. tasks'[s] = [tasks[s] EXCEPT !.at = Left(@)] BY DEF Tick
    <2>3. CASE tasks[s] = Free
      <3>1. Left(0) = 0 BY DEF Left
      <3>2. tasks'[s] = Free BY <2>2, <2>3, <3>1 DEF Free
      <3> QED BY <2>3, <3>2, FreeTyped
    <2>4. CASE tasks[s] # Free
      <3>1. Left(tasks[s].at) \in Nat BY <2>1, <2>4, LeftTyped DEF TaskRows, Time
      <3> QED BY <2>1, <2>2, <2>4, <3>1 DEF TaskRows, TaskIds
    <2> QED BY <2>3, <2>4
  <1>6. tasks' \in [Slots -> TaskRows] BY <1>5 DEF Tick
  <1>7. hardened' \in 0..Hardening /\ Hardening' = Hardening
    <2>1. hardened \in 0..Hardening /\ Hardening \in Nat BY UsedTyped DEF TypeInv, TypeOK
    <2>2. hardened' = (IF InHardening /\ hardened < Hardening THEN hardened + 1 ELSE hardened) BY DEF Tick
    <2> QED BY <1>1, <2>1, <2>2 DEF Hardening
  <1>8. played' \in [Rounds -> 0..RoundDuration]
    <2>1. \A n \in Rounds : played[n] \in 0..RoundDuration BY DEF TypeInv, TypeOK
    <2> QED BY <2>1, LifecycleConstants DEF Tick
  <1>9. TypeOK' BY <1>1, <1>2, <1>3, <1>4, <1>6, <1>7, <1>8, SameUsed DEF TypeInv, TypeOK, UsedOK
  <1>10. TasksHeld' BY <1>1, <1>5, OwnTask DEF TypeInv, TasksHeld
  <1> QED BY <1>1, <1>5, <1>9, <1>10 DEF TypeInv

---------------------------------------------------------------------------
LEMMA InitTyped == Init => TypeInv
  <1> SUFFICES ASSUME Init PROVE TypeInv OBVIOUS
  <1>1. PICK c \in Setups : used = [of |-> c, pauses |-> 0, crashes |-> 0, faults |-> 0, timeouts |-> 0]
    BY DEF Init
  <1>2. UsedOK /\ 0 \in 0..Hardening
    BY <1>1, LifecycleConstants DEF UsedOK, MaxPauses, MaxCrashes, MaxNetFaults, MaxTimeouts, Hardening
  <1>3. ev \in EventRows BY DEF Init, EventRows, Statuses, Phases, Time, NoTime
  <1>4. round \in [Rounds -> RoundRows] BY DEF Init, NoRound, RoundRows, Time
  <1>5. batch \in [Rounds -> [Copies -> BatchRows]] BY DEF Init, NoBatch, BatchRows
  <1>6. played \in [Rounds -> 0..RoundDuration] BY LifecycleConstants DEF Init
  <1>7. proc \in [Procs -> Frames] /\ \A p \in Procs : proc[p] = Idle BY IdleTyped DEF Init
  <1>8. tasks \in [Slots -> TaskRows] /\ \A s \in Slots : tasks[s] = Free BY FreeTyped DEF Init
  <1>9. TypeOK BY <1>2, <1>3, <1>4, <1>5, <1>6, <1>7, <1>8 DEF Init, TypeOK, UsedOK
  <1>10. TasksHeld BY <1>7, IdleTyped DEF TasksHeld
  <1> QED BY <1>7, <1>8, <1>9, <1>10, IdleTyped, FreeTyped DEF TypeInv

LEMMA TypeStep == TypeInv /\ [Next]_vars => TypeInv'
  <1> SUFFICES ASSUME TypeInv, [Next]_vars PROVE TypeInv' OBVIOUS
  <1>1. CASE UNCHANGED vars
    BY <1>1 DEF vars, TypeInv, TypeOK, TasksHeld, MaxPauses, MaxCrashes, MaxNetFaults, MaxTimeouts, Hardening
  <1>2. ASSUME NEW p \in Procs, Handler(p) PROVE TypeInv'
    <2>1. CASE PauseNet(p)
      BY <2>1, SameRows, SameTasks, StopTyped DEF PauseNet, At
    <2>2. CASE PauseNetFault(p) \/ ResumeNetFault(p)
      BY <2>2, NetFaultTyped DEF PauseNetFault, ResumeNetFault, At
    <2> QED BY <1>2, <2>1, <2>2, StartRoundTyped, ScheduleHardeningTyped, HardeningEndTyped, RoundEndTyped,
               CreateBatchTyped, CreateTaskTyped, ScheduleDeadlineTyped, BatchDeadlineTyped, MaybeFinishTyped,
               PauseTyped, ResumeTyped, ResumeRestoreTyped DEF Handler
  <1>3. ASSUME NEW p \in Procs, Request(p) PROVE TypeInv'
    BY <1>3, StartEventTyped, PauseReadTyped, ResumeReadTyped, FinishEventTyped, JudgeTyped DEF Request
  <1> QED BY <1>1, <1>2, <1>3, TimeoutTyped, DispatchTyped, FetchTyped, CrashTyped, BootTyped, TickTyped DEF Next

(* The rows, the task queue and the handlers keep their types, whatever    *)
(* handlers overlap and whatever fails: in particular a handler that fails *)
(* or times out finds its task still running, and puts it back as pending. *)
THEOREM TypeCorrect == Spec => []TypeOK
  <1>1. TypeInv => TypeOK BY DEF TypeInv
  <1> QED BY <1>1, InitTyped, TypeStep, PTL DEF Spec

---------------------------------------------------------------------------
(* What the steps of one handler have in common *)

Acts(p) == Handler(p) \/ Request(p) \/ Timeout(p) \/ \E s \in Slots : Dispatch(p, s)

\* Only p moves, and p is busy already or one of the handlers of the setup.
LEMMA OneActs ==
  ASSUME TypeInv, NEW p \in Procs, Acts(p)
  PROVE  /\ \A q \in Procs : q # p => proc'[q] = proc[q]
         /\ up /\ up' = up
         /\ proc[p] # Idle \/ p \in used.of.procs
         /\ hardened' = hardened /\ played' = played
  <1>1. proc \in [Procs -> Frames] BY DEF TypeInv, TypeOK
  <1>2. \A q \in Procs : proc[q].pc # "idle" => proc[q] # Idle BY IdleTyped
  <1> USE DEF Goto, At
  <1>3. CASE StartRoundRead(p) \/ StartRoundInsert(p) \/ StartRoundClash(p)
    BY <1>1, <1>2, <1>3 DEF StartRoundRead, StartRoundInsert, StartRoundClash, AfterStart, Return, Throw
  <1>4. CASE StartEvent(p) \/ ScheduleHardening(p) \/ HardeningEndRead(p) \/ HardeningEndCheck(p) \/ HardeningEndPhase(p)
    BY <1>1, <1>2, <1>4
       DEF StartEvent, Available, ScheduleHardening, HardeningEndRead, HardeningEndCheck, HardeningEndPhase, Return
  <1>5. CASE RoundEndGuard(p) \/ EndRoundRead(p) \/ EndRoundWrite(p) \/ CreateBatchDone(p)
    BY <1>1, <1>2, <1>5 DEF RoundEndGuard, EndRoundRead, EndRoundWrite, CreateBatchDone, Return
  <1>6. CASE CreateBatch(p) \/ ScheduleDeadline(p) \/ BatchDeadline(p)
    BY <1>1, <1>2, <1>6 DEF CreateBatch, ScheduleDeadline, BatchDeadline
  <1>7. CASE \E b \in Boxes, kind \in {"pending", "skipped", "banned"} : CreateTask(p, b, kind)
    BY <1>1, <1>2, <1>7 DEF CreateTask
  <1>8. CASE MaybeFinishRead(p) \/ MaybeFinishCas(p) \/ FinishEvent(p)
    BY <1>1, <1>2, <1>8 DEF MaybeFinishRead, MaybeFinishCas, FinishEvent, Available, AfterFinish, Return
  <1>9. CASE PauseRead(p) \/ PauseCancel(p) \/ PauseFind(p) \/ PauseRound(p) \/ PauseCas(p) \/ PauseNet(p)
    BY <1>1, <1>2, <1>9 DEF PauseRead, Available, PauseCancel, PauseFind, PauseRound, PauseCas, PauseNet
  <1>10. CASE ResumeRead(p) \/ ResumeHardening(p) \/ ResumePhase(p) \/ ResumeFind(p)
    BY <1>1, <1>2, <1>10 DEF ResumeRead, Available, ResumeHardening, ResumePhase, ResumeFind
  <1>11. CASE ResumeRound(p) \/ ResumeCas(p) \/ ResumeNet(p) \/ ResumeRestore(p)
    BY <1>1, <1>2, <1>11 DEF ResumeRound, ResumeCas, ResumeNet, ResumeRestore
  <1>12. CASE PauseNetFault(p) \/ ResumeNetFault(p)
    BY <1>1, <1>2, <1>12 DEF PauseNetFault, ResumeNetFault, NetFault
  <1>13. CASE \E n \in Rounds, k \in Copies, b \in Boxes : JudgeTerminal(p, n, k, b)
    BY <1>1, <1>13 DEF JudgeTerminal, Available
  <1>14. CASE Timeout(p)
    <2>1. Idle.t = 0 BY IdleTyped
    <2> QED BY <1>1, <1>14, <2>1 DEF Timeout, Throw
  <1>15. CASE \E s \in Slots : Dispatch(p, s)
    BY <1>1, <1>15 DEF Dispatch, Available
  <1> QED BY <1>3, <1>4, <1>5, <1>6, <1>7, <1>8, <1>9, <1>10, <1>11, <1>12, <1>13, <1>14, <1>15
          DEF Acts, Handler, Request

\* Where the handler of p is after the step: it jumped, it ended, or it took on another frame.
Goes(p, pc) ==
    /\ proc'[p].pc = pc /\ proc'[p].op = proc[p].op /\ proc'[p].n = proc[p].n /\ proc'[p].m = proc[p].m
    /\ proc'[p].k = proc[p].k /\ proc'[p].t = proc[p].t /\ proc'[p].seen = proc[p].seen
    /\ proc'[p].rem = proc[p].rem /\ proc'[p].todo = proc[p].todo
Stops(p) == proc'[p] = Idle

LEMMA GotoGoes == ASSUME TypeInv, NEW p \in Procs, NEW pc, Goto(p, pc) PROVE Goes(p, pc)
  <1>1. proc \in [Procs -> Frames] BY DEF TypeInv, TypeOK
  <1> QED BY <1>1 DEF Goto, Goes, Frames

LEMMA StopStops == ASSUME TypeInv, NEW p \in Procs, proc' = [proc EXCEPT ![p] = Idle] PROVE Stops(p)
  <1>1. proc \in [Procs -> Frames] BY DEF TypeInv, TypeOK
  <1> QED BY <1>1 DEF Stops

LEMMA EndsStop ==
  ASSUME TypeInv, NEW p \in Procs, Return(p) \/ Throw(p)
  PROVE  Stops(p)
  BY StopStops DEF Return, Throw

LEMMA AfterEnds ==
  ASSUME TypeInv, NEW p \in Procs, AfterStart(p, TRUE) \/ AfterStart(p, FALSE) \/ AfterFinish(p)
  PROVE  \/ proc[p].op = "RoundEnd" /\ Goes(p, "deadline") /\ UNCHANGED tasks
         \/ Stops(p)
  <1>1. CASE proc[p].op = "RoundEnd"
    BY <1>1, GotoGoes DEF AfterStart, AfterFinish
  <1>2. CASE proc[p].op # "RoundEnd"
    BY <1>2, EndsStop DEF AfterStart, AfterFinish
  <1> QED BY <1>1, <1>2

LEMMA CallIs ==
  ASSUME NEW op \in Ops, NEW pc \in PCs
  PROVE  Call(op, pc).pc = pc /\ Call(op, pc).op = op /\ Call(op, pc).t = 0
  BY CallTyped

LEMMA FrameIs ==
  ASSUME TypeInv, NEW p \in Procs, NEW x, proc' = [proc EXCEPT ![p] = x]
  PROVE  proc'[p] = x
  BY DEF TypeInv, TypeOK

\* The frames that are more than a jump, field by field.
LEMMA StartEventIs ==
  ASSUME TypeInv, NEW p \in Procs, StartEvent(p)
  PROVE  /\ proc'[p].op = "start" /\ proc'[p].t = 0
         /\ Hardening > 0 => proc'[p].pc = "schedule_hardening" /\ proc'[p].rem = Hardening
         /\ ~(Hardening > 0) => proc'[p].pc = "sr_read" /\ proc'[p].m = 1
  <1>1. Hardening \in Nat BY LifecycleConstants DEF TypeInv, TypeOK, Hardening
  <1>2. CASE Hardening > 0
    <2> DEFINE x == [Call("start", "schedule_hardening") EXCEPT !.rem = Hardening]
    <2>1. x.op = "start" /\ x.pc = "schedule_hardening" /\ x.t = 0 /\ x.rem = Hardening
      BY <1>1, CallTyped DEF Frames, Ops, PCs
    <2>2. proc'[p] = x BY <1>2, FrameIs DEF StartEvent
    <2> QED BY <1>2, <2>1, <2>2
  <1>3. CASE ~(Hardening > 0)
    <2> DEFINE x == [Call("start", "sr_read") EXCEPT !.m = 1]
    <2>1. x.op = "start" /\ x.pc = "sr_read" /\ x.t = 0 /\ x.m = 1
      BY CallTyped DEF Frames, Ops, PCs
    <2>2. proc'[p] = x BY <1>3, FrameIs DEF StartEvent
    <2> QED BY <1>3, <2>1, <2>2
  <1> QED BY <1>2, <1>3

\* The insert of a task leaves its handler where it was.
LEMMA TaskInsertStays ==
  ASSUME TypeInv, NEW p \in Procs,
         \E b \in Boxes, kind \in {"pending", "skipped", "banned"} : CreateTask(p, b, kind)
  PROVE  /\ proc[p].pc = "mk_task" /\ proc'[p].pc = "mk_task" /\ proc'[p].op = proc[p].op
         /\ proc'[p].n = proc[p].n /\ proc'[p].k = proc[p].k
  <1>1. PICK b \in Boxes, kind \in {"pending", "skipped", "banned"} : CreateTask(p, b, kind) OBVIOUS
  <1> DEFINE x == [proc[p] EXCEPT !.todo = @ \ {b}]
  <1>2. x.pc = proc[p].pc /\ x.op = proc[p].op /\ x.n = proc[p].n /\ x.k = proc[p].k BY OwnFrame DEF Frames
  <1>3. proc' = [proc EXCEPT ![p] = x] /\ proc[p].pc = "mk_task" BY <1>1 DEF CreateTask, At
  <1> HIDE DEF x
  <1> QED BY <1>2, <1>3 DEF TypeInv, TypeOK

LEMMA CreateBatchDoneIs ==
  ASSUME TypeInv, NEW p \in Procs, CreateBatchDone(p)
  PROVE  /\ proc'[p].op = proc[p].op /\ proc'[p].t = proc[p].t
         /\ proc'[p].n = proc[p].n /\ proc'[p].k = proc[p].k
         /\ \/ proc'[p].pc = "mf_read" /\ proc[p].n >= RoundCount
            \/ proc'[p].pc = "sr_read" /\ proc'[p].m = proc[p].n + 1 /\ ~(proc[p].n >= RoundCount)
  <1>1. proc[p] \in Frames BY OwnFrame
  <1>2. CASE proc[p].n >= RoundCount BY <1>2, GotoGoes DEF CreateBatchDone, Goes
  <1>3. CASE ~(proc[p].n >= RoundCount)
    <2> DEFINE x == [proc[p] EXCEPT !.pc = "sr_read", !.m = proc[p].n + 1]
    <2>1. /\ x.pc = "sr_read" /\ x.m = proc[p].n + 1 /\ x.op = proc[p].op /\ x.t = proc[p].t
          /\ x.n = proc[p].n /\ x.k = proc[p].k
      BY <1>1 DEF Frames
    <2>2. proc' = [proc EXCEPT ![p] = x] BY <1>3 DEF CreateBatchDone
    <2>3. proc'[p] = x BY <2>2, FrameIs
    <2> QED BY <1>3, <2>1, <2>3
  <1> QED BY <1>2, <1>3

LEMMA DispatchIs ==
  ASSUME TypeInv, NEW p \in Procs, NEW s \in Slots, Dispatch(p, s)
  PROVE  /\ tasks[s].key \in Keys /\ proc'[p].op = tasks[s].key /\ proc'[p].t = s
         /\ proc'[p].n = tasks[s].n /\ proc'[p].k = tasks[s].k
         /\ tasks[s].key = "HardeningEnd" => proc'[p].pc = "he_read"
         /\ tasks[s].key = "RoundEnd" => proc'[p].pc = "re_guard"
         /\ tasks[s].key = "BatchDeadline" => proc'[p].pc = "bd_term"
         /\ proc'[p].pc \in {"he_read", "re_guard", "bd_term"}
  <1> DEFINE c == Call(tasks[s].key, Entry[tasks[s].key])
  <1> DEFINE x == [c EXCEPT !.t = s, !.n = tasks[s].n, !.k = tasks[s].k]
  <1>1. tasks[s].key \in Keys BY DEF Dispatch, TypeInv, TypeOK, TaskRows, Free
  <1>2. /\ tasks[s].key = "HardeningEnd" => Entry[tasks[s].key] = "he_read"
        /\ tasks[s].key = "RoundEnd" => Entry[tasks[s].key] = "re_guard"
        /\ tasks[s].key = "BatchDeadline" => Entry[tasks[s].key] = "bd_term"
    BY DEF Entry
  <1>3. Entry[tasks[s].key] \in {"he_read", "re_guard", "bd_term"} BY <1>1, <1>2 DEF Keys
  <1>4. c \in Frames /\ c.pc = Entry[tasks[s].key] /\ c.op = tasks[s].key
    <2>1. tasks[s].key \in Ops BY <1>1 DEF Ops
    <2>2. Entry[tasks[s].key] \in PCs BY <1>3 DEF PCs
    <2> QED BY <2>1, <2>2, CallTyped
  <1>5. proc' = [proc EXCEPT ![p] = x] BY DEF Dispatch
  <1>6. proc'[p] = x BY <1>5, FrameIs
  <1> HIDE DEF c
  <1>7. x.pc = c.pc /\ x.op = c.op /\ x.t = s /\ x.n = tasks[s].n /\ x.k = tasks[s].k BY <1>4 DEF Frames
  <1> QED BY <1>1, <1>2, <1>3, <1>4, <1>6, <1>7

LEMMA PauseReadIs ==
  ASSUME TypeInv, NEW p \in Procs, PauseRead(p)
  PROVE  /\ proc'[p].pc = (IF ev.phase = "Hardening" THEN "pa_cancel" ELSE "pa_find")
         /\ proc'[p].op = "pause" /\ proc'[p].t = 0
         /\ proc'[p].seen = ev.phase /\ proc'[p].rem = NonNeg(ev.hardeningEndsAt)
  <1> DEFINE pc == IF ev.phase = "Hardening" THEN "pa_cancel" ELSE "pa_find"
  <1> DEFINE x == [Call("pause", pc) EXCEPT !.seen = ev.phase, !.rem = NonNeg(ev.hardeningEndsAt)]
  <1>1. pc \in PCs BY DEF PCs
  <1>2. proc' = [proc EXCEPT ![p] = x] BY DEF PauseRead
  <1>3. proc'[p] = x BY <1>2, FrameIs
  <1> HIDE DEF pc
  <1>4. /\ Call("pause", pc) \in Frames /\ Call("pause", pc).pc = pc /\ Call("pause", pc).t = 0
        /\ Call("pause", pc).op = "pause"
    BY <1>1, CallTyped DEF Ops
  <1>5. x.pc = pc /\ x.op = "pause" /\ x.t = 0 /\ x.seen = ev.phase /\ x.rem = NonNeg(ev.hardeningEndsAt)
    BY <1>4 DEF Frames
  <1> QED BY <1>3, <1>5 DEF pc

LEMMA PauseFindIs ==
  ASSUME TypeInv, NEW p \in Procs, PauseFind(p)
  PROVE  /\ proc'[p].op = proc[p].op /\ proc'[p].t = proc[p].t /\ proc'[p].seen = proc[p].seen
         /\ \/ Live = {} /\ proc'[p].pc = "pa_cas" /\ proc'[p].rem = 0
            \/ proc'[p].pc = "pa_round" /\ proc'[p].n \in Live
  <1>1. proc[p] \in Frames BY OwnFrame
  <1>2. CASE Live = {} /\ proc' = [proc EXCEPT ![p].pc = "pa_cas", ![p].rem = 0]
    <2> DEFINE x == [proc[p] EXCEPT !.pc = "pa_cas", !.rem = 0]
    <2>1. x.pc = "pa_cas" /\ x.rem = 0 /\ x.op = proc[p].op /\ x.t = proc[p].t /\ x.seen = proc[p].seen
      BY <1>1 DEF Frames
    <2>2. proc' = [proc EXCEPT ![p] = x] BY <1>2
    <2>3. proc'[p] = x BY <2>2, FrameIs
    <2> QED BY <1>2, <2>1, <2>3
  <1>3. ASSUME NEW n \in Live,
               proc' = [proc EXCEPT ![p].pc = "pa_round", ![p].n = n, ![p].rem = round[n].endAt]
        PROVE  /\ proc'[p].op = proc[p].op /\ proc'[p].t = proc[p].t /\ proc'[p].seen = proc[p].seen
               /\ proc'[p].pc = "pa_round" /\ proc'[p].n = n
    <2> DEFINE x == [proc[p] EXCEPT !.pc = "pa_round", !.n = n, !.rem = round[n].endAt]
    <2>1. x.pc = "pa_round" /\ x.n = n /\ x.op = proc[p].op /\ x.t = proc[p].t /\ x.seen = proc[p].seen
      BY <1>1 DEF Frames
    <2>2. proc' = [proc EXCEPT ![p] = x] BY <1>3
    <2>3. proc'[p] = x BY <2>2, FrameIs
    <2> QED BY <2>1, <2>3
  <1> QED BY <1>2, <1>3 DEF PauseFind

LEMMA ResumeReadIs ==
  ASSUME TypeInv, NEW p \in Procs, ResumeRead(p)
  PROVE  /\ proc'[p].t = 0 /\ proc'[p].seen = ev.status /\ proc'[p].rem = ev.pauseRemaining
         /\ ev.pausedPhase = "Attack" => proc'[p].pc = "un_find" /\ proc'[p].op = "resumeAttack"
         /\ ev.pausedPhase # "Attack" => proc'[p].pc = "un_hard" /\ proc'[p].op = "resumeHardening"
  <1> DEFINE c == IF ev.pausedPhase = "Attack" THEN Call("resumeAttack", "un_find")
                  ELSE Call("resumeHardening", "un_hard")
  <1> DEFINE x == [c EXCEPT !.seen = ev.status, !.rem = ev.pauseRemaining]
  <1>1. proc' = [proc EXCEPT ![p] = x] BY DEF ResumeRead
  <1>2. proc'[p] = x BY <1>1, FrameIs
  <1>3. /\ c \in Frames /\ c.t = 0
        /\ ev.pausedPhase = "Attack" => c.pc = "un_find" /\ c.op = "resumeAttack"
        /\ ev.pausedPhase # "Attack" => c.pc = "un_hard" /\ c.op = "resumeHardening"
    BY CallTyped DEF Ops, PCs
  <1> HIDE DEF c
  <1>4. x.pc = c.pc /\ x.op = c.op /\ x.t = c.t /\ x.seen = ev.status /\ x.rem = ev.pauseRemaining
    BY <1>3 DEF Frames
  <1> QED BY <1>2, <1>3, <1>4

LEMMA ResumeFindIs ==
  ASSUME TypeInv, NEW p \in Procs, ResumeFind(p)
  PROVE  /\ proc'[p].op = proc[p].op /\ proc'[p].t = proc[p].t /\ proc'[p].seen = proc[p].seen
         /\ \/ Live = {} /\ proc'[p].pc = "un_cas"
            \/ proc'[p].pc = "un_round" /\ proc'[p].n \in Live
  <1>1. proc[p] \in Frames BY OwnFrame
  <1>2. CASE Live = {} /\ Goto(p, "un_cas") BY <1>2, GotoGoes DEF Goes
  <1>3. ASSUME NEW n \in Live, NEW r, proc' = [proc EXCEPT ![p].pc = "un_round", ![p].n = n, ![p].rem = r]
        PROVE  /\ proc'[p].op = proc[p].op /\ proc'[p].t = proc[p].t /\ proc'[p].seen = proc[p].seen
               /\ proc'[p].pc = "un_round" /\ proc'[p].n = n
    <2> DEFINE x == [proc[p] EXCEPT !.pc = "un_round", !.n = n, !.rem = r]
    <2>1. x.pc = "un_round" /\ x.n = n /\ x.op = proc[p].op /\ x.t = proc[p].t /\ x.seen = proc[p].seen
      BY <1>1 DEF Frames
    <2>2. proc' = [proc EXCEPT ![p] = x] BY <1>3
    <2>3. proc'[p] = x BY <2>2, FrameIs
    <2> QED BY <2>1, <2>3
  <1> QED BY <1>2, <1>3 DEF ResumeFind

LEMMA ResumeRestoreIs ==
  ASSUME TypeInv, NEW p \in Procs, ResumeRestore(p)
  PROVE  \/ Stops(p)
         \/ /\ Live = {} /\ Gap /\ UNCHANGED tasks
            /\ proc'[p].pc = "sr_read" /\ proc'[p].m = GapRound
            /\ proc'[p].op = proc[p].op /\ proc'[p].t = proc[p].t
  <1>1. proc[p] \in Frames BY OwnFrame
  <1>2. CASE Live = {} /\ Gap /\ UNCHANGED tasks /\ proc' = [proc EXCEPT ![p] = [@ EXCEPT !.pc = "sr_read", !.m = GapRound]]
    <2> DEFINE x == [proc[p] EXCEPT !.pc = "sr_read", !.m = GapRound]
    <2>1. x.pc = "sr_read" /\ x.m = GapRound /\ x.op = proc[p].op /\ x.t = proc[p].t
      BY <1>1 DEF Frames
    <2>2. proc' = [proc EXCEPT ![p] = x] BY <1>2
    <2>3. proc'[p] = x BY <2>2, FrameIs
    <2> QED BY <1>2, <2>1, <2>3
  <1>3. CASE ~Stops(p)
    BY <1>2, <1>3, StopStops DEF ResumeRestore
  <1> QED BY <1>3

\* Nothing that happened is undone, and the setup stays.
LEMMA UsedGrows ==
  ASSUME TypeInv, [Next]_vars
  PROVE  /\ used'.of = used.of /\ used.pauses <= used'.pauses /\ used.crashes <= used'.crashes
         /\ used.faults <= used'.faults /\ used.timeouts <= used'.timeouts
         /\ used' = used \/ used.pauses < used'.pauses
                         \/ used'.crashes + used'.faults + used'.timeouts > 0
  <1> DEFINE P == /\ used'.of = used.of /\ used.pauses <= used'.pauses /\ used.crashes <= used'.crashes
                  /\ used.faults <= used'.faults /\ used.timeouts <= used'.timeouts
                  /\ used' = used \/ used.pauses < used'.pauses
                                  \/ used'.crashes + used'.faults + used'.timeouts > 0
  <1>1. UsedOK BY DEF TypeInv, TypeOK, UsedOK
  <1>2. /\ used.pauses \in Nat /\ used.crashes \in Nat /\ used.faults \in Nat /\ used.timeouts \in Nat
    BY UsedTyped
  <1>3. CASE UNCHANGED used BY <1>2, <1>3
  <1>4. CASE \/ used' = [used EXCEPT !.pauses = @ + 1] \/ used' = [used EXCEPT !.crashes = @ + 1]
             \/ used' = [used EXCEPT !.faults = @ + 1] \/ used' = [used EXCEPT !.timeouts = @ + 1]
    BY <1>1, <1>2, <1>4 DEF UsedOK
  <1> HIDE DEF P
  <1>5. ASSUME NEW p \in Procs, Handler(p) PROVE P
    <2>1. CASE PauseNetFault(p) \/ ResumeNetFault(p)
      BY <1>4, <2>1 DEF PauseNetFault, ResumeNetFault, NetFault, P
    <2>2. CASE UNCHANGED used BY <1>3, <2>2 DEF P
    <2> QED BY <1>5, <2>1, <2>2
        DEF Handler, StartRoundRead, StartRoundInsert, StartRoundClash, ScheduleHardening, HardeningEndRead,
            HardeningEndCheck, HardeningEndPhase, RoundEndGuard, EndRoundRead, EndRoundWrite, CreateBatch,
            CreateBatchDone, ScheduleDeadline, CreateTask, BatchDeadline, MaybeFinishRead, MaybeFinishCas,
            PauseCancel, PauseFind, PauseRound, PauseCas, PauseNet, ResumeHardening, ResumePhase, ResumeFind,
            ResumeRound, ResumeCas, ResumeNet, ResumeRestore
  <1>6. ASSUME NEW p \in Procs, Request(p) PROVE P
    BY <1>3, <1>4, <1>6 DEF P, Request, StartEvent, PauseRead, ResumeRead, FinishEvent, JudgeTerminal
  <1>7. ASSUME NEW p \in Procs, Timeout(p) PROVE P BY <1>4, <1>7 DEF P, Timeout
  <1>8. ASSUME NEW p \in Procs, NEW s \in Slots, Dispatch(p, s) PROVE P BY <1>3, <1>8 DEF P, Dispatch
  <1>9. ASSUME NEW s \in Slots, Fetch(s) PROVE P BY <1>3, <1>9 DEF P, Fetch
  <1>10. CASE Crash \/ BootRecover \/ BootOnly \/ Tick
    BY <1>3, <1>4, <1>10 DEF P, Crash, BootRecover, BootOnly, Tick
  <1>11. CASE UNCHANGED vars BY <1>3, <1>11 DEF P, vars
  <1> QED BY <1>5, <1>6, <1>7, <1>8, <1>9, <1>10, <1>11 DEF Next, P

---------------------------------------------------------------------------
(* Layer 2: the order of the rounds *)

LEMMA BusyStep == TypeInv /\ BusyOnly /\ [Next]_vars => BusyOnly'
  <1> SUFFICES ASSUME TypeInv, BusyOnly, [Next]_vars PROVE BusyOnly' OBVIOUS
  <1>1. used'.of = used.of BY UsedGrows
  <1>2. ASSUME NEW p \in Procs, Acts(p) PROVE BusyOnly'
    BY <1>1, <1>2, OneActs DEF BusyOnly
  <1>3. ASSUME NEW s \in Slots, Fetch(s) PROVE BusyOnly' BY <1>3 DEF Fetch, BusyOnly
  <1>4. CASE Crash
    <2>1. used'.crashes > 0 BY <1>4, UsedTyped DEF Crash, TypeInv, TypeOK
    <2> QED BY <1>4, <2>1 DEF Crash, BusyOnly
  <1>5. CASE BootRecover \/ BootOnly BY <1>1, <1>5 DEF BootRecover, BootOnly, BusyOnly
  <1>6. CASE Tick BY <1>6 DEF Tick, BusyOnly
  <1>7. CASE UNCHANGED vars BY <1>7 DEF vars, BusyOnly
  <1> QED BY <1>2, <1>3, <1>4, <1>5, <1>6, <1>7 DEF Next, Acts

\* Before the first pause a handler is nowhere in a pause or a resume.
LEMMA UnpausedActs ==
  ASSUME TypeInv, Unpaused, NEW p \in Procs, Acts(p), used.pauses = 0, used'.pauses = 0
  PROVE  /\ ev'.status \notin {"Paused", "NetworkError"}
         /\ \A n \in Rounds : round'[n].status # "paused"
         /\ proc'[p].pc \notin Pausing \cup Resumes /\ proc'[p].op # "resumeHardening"
  <1> DEFINE P == /\ ev'.status \notin {"Paused", "NetworkError"}
                  /\ \A n \in Rounds : round'[n].status # "paused"
                  /\ proc'[p].pc \notin Pausing \cup Resumes /\ proc'[p].op # "resumeHardening"
  <1>1. /\ ev.status \notin {"Paused", "NetworkError"}
        /\ \A n \in Rounds : round[n].status # "paused"
        /\ proc[p].pc \notin Pausing \cup Resumes /\ proc[p].op # "resumeHardening"
    BY DEF Unpaused
  <1>2. Idle.pc = "idle" /\ Idle.op = "none" BY DEF Idle
  <1>3. ev \in EventRows /\ round \in [Rounds -> RoundRows] /\ proc \in [Procs -> Frames]
    BY DEF TypeInv, TypeOK
  <1>4. ASSUME NEW pc, Goes(p, pc) \/ Stops(p), pc \notin Pausing \cup Resumes
        PROVE  proc'[p].pc \notin Pausing \cup Resumes /\ proc'[p].op # "resumeHardening"
    BY <1>1, <1>2, <1>4 DEF Goes, Stops, Pausing, Resumes
  <1>5. CASE StartRoundRead(p) \/ StartRoundInsert(p) \/ StartRoundClash(p)
    <2>1. Goes(p, "sr_insert") \/ Goes(p, "deadline") \/ Stops(p)
      BY <1>5, AfterEnds, GotoGoes, StopStops DEF StartRoundRead, StartRoundInsert, StartRoundClash
    <2>2. ev' = ev /\ \A n \in Rounds : round'[n].status # "paused"
      <3>1. round' = round \/ round' = [round EXCEPT ![proc[p].m] = NewRound]
        BY <1>5 DEF StartRoundRead, StartRoundInsert, StartRoundClash
      <3>2. NewRound.status = "active" BY DEF NewRound
      <3> QED BY <1>1, <1>3, <1>5, <3>1, <3>2 DEF StartRoundRead, StartRoundInsert, StartRoundClash
    <2> QED BY <1>1, <1>4, <2>1, <2>2 DEF Pausing, Resumes
  <1>6. CASE StartEvent(p)
    <2>1. ev'.status = "Running" BY <1>3, <1>6 DEF StartEvent, EventRows
    <2>2. proc'[p].pc \in {"schedule_hardening", "sr_read"} /\ proc'[p].op = "start"
      BY <1>3, <1>6, CallTyped DEF StartEvent, Frames, Ops, PCs
    <2> QED BY <1>1, <1>6, <2>1, <2>2 DEF StartEvent, Pausing, Resumes
  <1>7. CASE ScheduleHardening(p)
    <2>1. Stops(p) BY <1>1, <1>7, StopStops DEF ScheduleHardening
    <2> QED BY <1>1, <1>2, <1>7, <2>1 DEF ScheduleHardening, Stops, Pausing, Resumes
  <1>8. CASE HardeningEndRead(p) \/ HardeningEndCheck(p) \/ RoundEndGuard(p) \/ EndRoundRead(p)
    <2>1. Goes(p, "he_check") \/ Goes(p, "he_phase") \/ Goes(p, "re_read") \/ Goes(p, "re_write") \/ Stops(p)
      BY <1>8, EndsStop, GotoGoes DEF HardeningEndRead, HardeningEndCheck, RoundEndGuard, EndRoundRead
    <2> QED BY <1>1, <1>4, <1>8, <2>1
            DEF HardeningEndRead, HardeningEndCheck, RoundEndGuard, EndRoundRead, Pausing, Resumes
  <1>9. CASE HardeningEndPhase(p)
    <2>1. ev'.status = ev.status BY <1>3, <1>9 DEF HardeningEndPhase, EventRows
    <2>2. proc'[p].pc = "sr_read" /\ proc'[p].op = proc[p].op BY <1>3, <1>9 DEF HardeningEndPhase, Frames
    <2> QED BY <1>1, <1>9, <2>1, <2>2 DEF HardeningEndPhase, Pausing, Resumes
  <1>10. CASE EndRoundWrite(p)
    <2>1. Goes(p, "mk_batch") BY <1>10, GotoGoes DEF EndRoundWrite
    <2>2. \A n \in Rounds : round'[n].status # "paused" BY <1>1, <1>3, <1>10 DEF EndRoundWrite, RoundRows
    <2> QED BY <1>1, <1>4, <1>10, <2>1, <2>2 DEF EndRoundWrite, Pausing, Resumes
  <1>11. CASE CreateBatch(p) \/ CreateBatchDone(p) \/ \E b \in Boxes, kind \in {"pending", "skipped", "banned"} : CreateTask(p, b, kind)
    <2>1. proc'[p].pc \in {"mk_task", "mf_read", "sr_read"} /\ proc'[p].op = proc[p].op
      <3>1. CASE CreateBatch(p) BY <1>3, <3>1 DEF CreateBatch, Frames
      <3>2. CASE CreateBatchDone(p) BY <1>3, <3>2 DEF CreateBatchDone, Goto, Frames
      <3>3. CASE \E b \in Boxes, kind \in {"pending", "skipped", "banned"} : CreateTask(p, b, kind)
        BY <3>3, TaskInsertStays
      <3> QED BY <1>11, <3>1, <3>2, <3>3
    <2> QED BY <1>1, <1>11, <2>1 DEF CreateBatch, CreateBatchDone, CreateTask, Pausing, Resumes
  <1>12. CASE ScheduleDeadline(p) \/ BatchDeadline(p)
    <2>1. Goes(p, "mf_read") \/ Stops(p) BY <1>12, GotoGoes, StopStops DEF ScheduleDeadline, BatchDeadline
    <2> QED BY <1>1, <1>4, <1>12, <2>1 DEF ScheduleDeadline, BatchDeadline, Pausing, Resumes
  <1>13. CASE MaybeFinishRead(p) \/ MaybeFinishCas(p)
    <2>1. Goes(p, "mf_cas") \/ Goes(p, "deadline") \/ Stops(p)
      BY <1>13, AfterEnds, GotoGoes DEF MaybeFinishRead, MaybeFinishCas
    <2>2. ev' = ev \/ ev'.status = "Finished" BY <1>3, <1>13 DEF MaybeFinishRead, MaybeFinishCas, EventRows
    <2> QED BY <1>1, <1>4, <1>13, <2>1, <2>2 DEF MaybeFinishRead, MaybeFinishCas, Pausing, Resumes
  <1>14. CASE FinishEvent(p) \/ \E n \in Rounds, k \in Copies, b \in Boxes : JudgeTerminal(p, n, k, b)
    <2>1. proc'[p].pc = "mf_read" /\ proc'[p].op \in {"finish", "judge"}
      BY <1>3, <1>14, CallIs DEF FinishEvent, JudgeTerminal, Ops, PCs
    <2> QED BY <1>1, <1>14, <2>1 DEF FinishEvent, JudgeTerminal, Pausing, Resumes
  <1>15. CASE Timeout(p)
    <2>1. Stops(p) BY <1>15, EndsStop DEF Timeout
    <2> QED BY <1>1, <1>2, <1>15, <2>1 DEF Timeout, Stops, Pausing, Resumes
  <1>16. CASE \E s \in Slots : Dispatch(p, s)
    <2>1. PICK s \in Slots : Dispatch(p, s) BY <1>16
    <2>2. tasks[s].key \in Keys BY <2>1 DEF Dispatch, TypeInv, TypeOK, TaskRows, Free
    <2>3. Entry[tasks[s].key] \in {"he_read", "re_guard", "bd_term"} BY <2>2 DEF Keys, Entry
    <2>4. proc'[p].pc \in {"he_read", "re_guard", "bd_term"} /\ proc'[p].op \in Keys
      BY <1>3, <2>1, <2>2, <2>3, CallTyped DEF Dispatch, Ops, PCs, Frames
    <2> QED BY <1>1, <2>1, <2>4 DEF Dispatch, Keys, Pausing, Resumes
  <1>17. ~PauseRead(p)
    BY UsedTyped DEF PauseRead, TypeInv, TypeOK
  <1>18. ~ResumeRead(p) BY <1>1 DEF ResumeRead
  <1>19. /\ ~PauseCancel(p) /\ ~PauseFind(p) /\ ~PauseRound(p) /\ ~PauseCas(p) /\ ~PauseNet(p) /\ ~PauseNetFault(p)
         /\ ~ResumeHardening(p) /\ ~ResumePhase(p) /\ ~ResumeFind(p) /\ ~ResumeRound(p) /\ ~ResumeCas(p)
         /\ ~ResumeNet(p) /\ ~ResumeNetFault(p) /\ ~ResumeRestore(p)
    BY <1>1 DEF PauseCancel, PauseFind, PauseRound, PauseCas, PauseNet, PauseNetFault, ResumeHardening,
                ResumePhase, ResumeFind, ResumeRound, ResumeCas, ResumeNet, ResumeNetFault, ResumeRestore,
                At, Pausing, Resumes
  <1> QED BY <1>5, <1>6, <1>7, <1>8, <1>9, <1>10, <1>11, <1>12, <1>13, <1>14, <1>15, <1>16, <1>17, <1>18, <1>19
          DEF Acts, Handler, Request

LEMMA UnpausedStep == TypeInv /\ Unpaused /\ [Next]_vars => Unpaused'
  <1> SUFFICES ASSUME TypeInv, Unpaused, [Next]_vars, used'.pauses = 0 PROVE Unpaused' BY DEF Unpaused
  <1>1. used.pauses = 0
    <2>1. used.pauses <= used'.pauses /\ used.pauses \in Nat BY UsedGrows, UsedTyped
    <2> QED BY <2>1
  <1>2. ASSUME NEW p \in Procs, Acts(p) PROVE Unpaused'
    BY <1>1, <1>2, UnpausedActs, OneActs DEF Unpaused
  <1>3. ASSUME NEW s \in Slots, Fetch(s) PROVE Unpaused' BY <1>3 DEF Fetch, Unpaused
  <1>4. CASE Crash BY <1>1, <1>4, IdleTyped DEF Crash, Unpaused, Idle, Pausing, Resumes
  <1>5. CASE BootRecover
    <2>1. ev' = ev \/ ev'.status = "Finished" BY <1>5 DEF BootRecover, TypeInv, TypeOK, EventRows
    <2>2. round' = round \/ round' = [round EXCEPT ![GapRound] = NewRound] BY <1>5 DEF BootRecover
    <2>3. NewRound.status = "active" BY DEF NewRound
    <2>4. \A n \in Rounds : round'[n].status # "paused"
      BY <1>1, <2>2, <2>3 DEF Unpaused, TypeInv, TypeOK
    <2> QED BY <1>1, <1>5, <2>1, <2>4 DEF BootRecover, Unpaused
  <1>6. CASE BootOnly BY <1>1, <1>6 DEF BootOnly, Unpaused
  <1>7. CASE Tick
    <2>1. ev'.status = ev.status BY <1>7 DEF Tick, TypeInv, TypeOK, EventRows
    <2>2. \A n \in Rounds : round'[n].status = round[n].status BY <1>7 DEF Tick, TypeInv, TypeOK, RoundRows
    <2> QED BY <1>1, <1>7, <2>1, <2>2 DEF Tick, Unpaused
  <1>8. CASE UNCHANGED vars BY <1>8 DEF vars, Unpaused
  <1> QED BY <1>2, <1>3, <1>4, <1>5, <1>6, <1>7, <1>8 DEF Next, Acts

---------------------------------------------------------------------------
\* Rounds only go on: what is completed stays so, what exists goes on existing.
Advances ==
    \A n \in Rounds : /\ round[n].status = "completed" => round'[n].status = "completed"
                      /\ round[n].status # "none" => round'[n].status # "none"

\* A round starts when all before it are completed.
StartsInTurn == \A n \in Rounds : round[n].status = "none" /\ round'[n].status # "none" => Before(n)

LEMMA SameAdvances ==
  ASSUME \A n \in Rounds : round'[n].status = round[n].status
  PROVE  Advances /\ StartsInTurn
  BY DEF Advances, StartsInTurn

\* When rounds only go on, what was before a round is still before it.
LEMMA BeforeStays ==
  ASSUME Advances, NEW n, Before(n)
  PROVE  \A j \in Rounds : j < n => round'[j].status = "completed"
  BY DEF Advances, Before

\* When handlers do not overlap, no other one is busy.
LEMMA OthersIdle ==
  ASSUME BusyOnly, Serial, NEW p \in Procs, NEW q \in Procs, q # p, proc[p] # Idle \/ p \in used.of.procs
  PROVE  proc[q] = Idle
  BY DEF BusyOnly, Serial

\* What the other handlers know of the rounds stays true.
LEMMA OthersOrder ==
  ASSUME TypeInv, OrderInv, Orderly, Advances, NEW p \in Procs, NEW q \in Procs, q # p,
         proc[p] # Idle \/ p \in used.of.procs, proc'[q] = proc[q]
  PROVE  FrameOrder(proc[q])'
  <1>1. FrameOrder(proc[q]) BY DEF OrderInv, InOrder
  <1>2. CASE Serial
    <2>1. proc[q] = Idle BY <1>2, OthersIdle DEF OrderInv
    <2> QED BY <2>1, IdleTyped DEF FrameOrder, Starting, Making
  <1>3. CASE used.pauses = 0
    <2>1. proc[q].pc \notin Pausing \cup Resumes BY <1>3 DEF OrderInv, Unpaused
    <2>2. proc[q] \in Frames /\ FrameIds(proc[q]) BY OwnFrame
    <2>3. proc[q].pc \in Starting => Before(proc[q].m)' BY <1>1, BeforeStays DEF FrameOrder, Before
    <2>4. proc[q].pc = "re_write" => round'[proc[q].n].status # "none"
      BY <1>1, <2>2 DEF FrameOrder, FrameIds, Advances, Ending
    <2>5. proc[q].pc \in Making => round'[proc[q].n].status = "completed"
      BY <1>1, <2>2 DEF FrameOrder, FrameIds, Advances, Making
    <2>6. proc[q].pc = "mf_cas" => \A n \in Rounds : round'[n].status = "completed"
      BY <1>1 DEF FrameOrder, Advances
    <2> QED BY <2>1, <2>3, <2>4, <2>5, <2>6 DEF FrameOrder, Pausing, Resumes
  <1> QED BY <1>2, <1>3 DEF Orderly

\* It is enough to look at the handler that moves.
LEMMA OrderKept ==
  ASSUME TypeInv, OrderInv, Orderly, NEW p \in Procs, Acts(p), Advances, StartsInTurn, FrameOrder(proc[p])'
  PROVE  InOrder'
  <1>1. \A q \in Procs : FrameOrder(proc[q])' BY OthersOrder, OneActs
  <1>2. \A n \in Rounds : round'[n].status # "none" => Before(n)'
    <2> SUFFICES ASSUME NEW n \in Rounds, round'[n].status # "none" PROVE Before(n)' OBVIOUS
    <2>1. Before(n) BY DEF OrderInv, InOrder, StartsInTurn
    <2> QED BY <2>1, BeforeStays DEF Before
  <1> QED BY <1>1, <1>2 DEF InOrder

\* Nothing is asked of a handler elsewhere.
LEMMA FreeOrder ==
  ASSUME NEW p, proc'[p].pc \notin Starting \cup Making \cup {"re_write", "pa_round", "un_round", "mf_cas"}
  PROVE  FrameOrder(proc[p])'
  BY DEF FrameOrder

LEMMA StopOrder == ASSUME NEW p, Stops(p) PROVE FrameOrder(proc[p])'
  BY IdleTyped DEF Stops, FrameOrder, Starting, Making

\* When no round is live, every round before the next one is completed.
LEMMA GapInTurn ==
  ASSUME TypeInv, \A n \in Rounds : round[n].status # "none" => Before(n), Live = {}, GapRound \in Rounds
  PROVE  Before(GapRound)
  <1>1. CASE Existing = {}
    BY <1>1 DEF GapRound, Before, Rounds
  <1>2. CASE Existing # {}
    <2>1. Latest \in Existing /\ GapRound = Latest + 1 BY <1>2, LatestIs DEF GapRound
    <2>2. Latest \in Rounds /\ round[Latest].status # "none" BY <2>1 DEF Existing
    <2>3. round[Latest].status = "completed"
      <3>1. round[Latest] \in RoundRows BY <2>2 DEF TypeInv, TypeOK
      <3> QED BY <2>2, <3>1 DEF Live, RoundRows
    <2>4. Before(Latest) BY <2>2
    <2> QED BY <2>1, <2>2, <2>3, <2>4 DEF Before, Rounds
  <1> QED BY <1>1, <1>2

\* The last round is completed only when all are.
LEMMA SettlementIsLast ==
  ASSUME TypeInv, \A n \in Rounds : round[n].status # "none" => Before(n), FinalSettlement
  PROVE  \A n \in Rounds : round[n].status = "completed"
  <1>1. RoundCount \in Rounds /\ round[RoundCount].status = "completed"
    BY LifecycleConstants DEF FinalSettlement, Rounds
  <1>2. Before(RoundCount) BY <1>1
  <1> QED BY <1>1, <1>2, LifecycleConstants DEF Before, Rounds

\* A round that is written keeps what it was to the others.
LEMMA WriteAdvances ==
  ASSUME TypeInv, NEW n, NEW x, round' = [round EXCEPT ![n] = x],
         n \in Rounds => \/ round[n].status = "none" /\ Before(n)
                         \/ round[n].status # "none" /\ x.status = "completed"
                         \/ round[n].status \in {"active", "paused"} /\ x.status # "none"
  PROVE  Advances /\ StartsInTurn
  <1>1. \A m \in Rounds : round'[m] = IF m = n THEN x ELSE round[m] BY DEF TypeInv, TypeOK
  <1> QED BY <1>1 DEF Advances, StartsInTurn

LEMMA OrderActs ==
  ASSUME TypeInv, OrderInv, Orderly, NEW p \in Procs, Acts(p)
  PROVE  FrameOrder(proc[p])' /\ Advances /\ StartsInTurn
  <1> DEFINE P == FrameOrder(proc[p])' /\ Advances /\ StartsInTurn
  <1>1. FrameOrder(proc[p]) /\ \A n \in Rounds : round[n].status # "none" => Before(n) BY DEF OrderInv, InOrder
  <1>2. proc \in [Procs -> Frames] /\ FrameIds(proc[p]) BY DEF TypeInv, TypeOK
  <1>3. CASE UNCHANGED round /\ (Stops(p) \/ \E pc : Goes(p, pc) /\ pc \notin Starting \cup Making \cup
                                    {"re_write", "pa_round", "un_round", "mf_cas"})
    BY <1>3, SameAdvances, FreeOrder, StopOrder DEF Goes
  <1> HIDE DEF P
  <1> USE DEF Starting, Making
  <1>4. CASE StartRoundRead(p)
    <2>1. CASE Goes(p, "sr_insert")
      BY <1>1, <1>4, <2>1, SameAdvances DEF StartRoundRead, At, Goes, FrameOrder, Before, P
    <2>2. Goes(p, "sr_insert") \/ Goes(p, "deadline") \/ Stops(p)
      BY <1>4, AfterEnds, GotoGoes DEF StartRoundRead
    <2> QED BY <1>3, <1>4, <2>1, <2>2 DEF StartRoundRead, P
  <1>5. CASE StartRoundInsert(p)
    <2>1. Goes(p, "deadline") \/ Stops(p) BY <1>5, GotoGoes, StopStops DEF StartRoundInsert
    <2>2. round[proc[p].m].status = "none" /\ Before(proc[p].m) /\ round' = [round EXCEPT ![proc[p].m] = NewRound]
      BY <1>1, <1>5 DEF StartRoundInsert, At, Insertable, FrameOrder
    <2> QED BY <2>1, <2>2, WriteAdvances, FreeOrder, StopOrder DEF Goes, P
  <1>6. CASE StartRoundClash(p)
    <2>1. Goes(p, "deadline") \/ Stops(p) BY <1>6, AfterEnds DEF StartRoundClash
    <2> QED BY <1>3, <1>6, <2>1 DEF StartRoundClash, P
  <1>7. CASE StartEvent(p)
    <2>1. proc'[p].pc = "schedule_hardening" \/ (proc'[p].pc = "sr_read" /\ proc'[p].m = 1)
      BY <1>7, StartEventIs
    <2>2. FrameOrder(proc[p])' BY <2>1 DEF FrameOrder, Before, Rounds
    <2> QED BY <1>7, <2>2, SameAdvances DEF StartEvent, P
  <1>8. CASE ScheduleHardening(p)
    BY <1>3, <1>8, GotoGoes, StopStops DEF ScheduleHardening, P
  <1>9. CASE HardeningEndRead(p) \/ HardeningEndCheck(p) \/ RoundEndGuard(p)
    BY <1>3, <1>9, GotoGoes, EndsStop DEF HardeningEndRead, HardeningEndCheck, RoundEndGuard, P
  <1>10. CASE HardeningEndPhase(p)
    <2>1. proc'[p].pc = "sr_read" /\ proc'[p].m = 1 BY <1>2, <1>10 DEF HardeningEndPhase, Frames
    <2>2. FrameOrder(proc[p])' BY <2>1 DEF FrameOrder, Before, Rounds
    <2> QED BY <1>10, <2>2, SameAdvances DEF HardeningEndPhase, P
  <1>11. CASE EndRoundRead(p)
    <2>1. CASE Stops(p) BY <1>3, <1>11, <2>1 DEF EndRoundRead, P
    <2>2. CASE ~Stops(p)
      <3>1. round[proc[p].n].status = "active" /\ Goes(p, "re_write")
        BY <1>11, <2>2, EndsStop, GotoGoes DEF EndRoundRead
      <3>2. FrameOrder(proc[p])' BY <1>11, <3>1 DEF EndRoundRead, FrameOrder, Goes
      <3> QED BY <1>11, <3>2, SameAdvances DEF EndRoundRead, P
    <2> QED BY <2>1, <2>2
  <1>12. CASE EndRoundWrite(p)
    <2> DEFINE n == proc[p].n
    <2>1. n \in Rounds /\ round[n].status # "none" BY <1>1, <1>2, <1>12 DEF EndRoundWrite, At, FrameOrder, FrameIds, Ending
    <2>2. round' = [round EXCEPT ![n] = [round[n] EXCEPT !.status = "completed"]] BY <1>12 DEF EndRoundWrite
    <2>3. [round[n] EXCEPT !.status = "completed"].status = "completed" BY <2>1 DEF TypeInv, TypeOK, RoundRows
    <2>4. round'[n].status = "completed" BY <2>1, <2>2, <2>3 DEF TypeInv, TypeOK
    <2>5. Goes(p, "mk_batch") BY <1>12, GotoGoes DEF EndRoundWrite
    <2>6. FrameOrder(proc[p])' BY <2>4, <2>5 DEF FrameOrder, Goes
    <2> QED BY <2>1, <2>2, <2>3, <2>6, WriteAdvances DEF P
  <1>13. CASE CreateBatch(p)
    <2>1. proc'[p].pc = "mk_task" /\ proc'[p].n = proc[p].n BY <1>2, <1>13 DEF CreateBatch, Frames
    <2>2. FrameOrder(proc[p])' BY <1>1, <1>13, <2>1 DEF CreateBatch, At, FrameOrder
    <2> QED BY <1>13, <2>2, SameAdvances DEF CreateBatch, P
  <1>14. CASE CreateBatchDone(p)
    <2> DEFINE n == proc[p].n
    <2>1. n \in Rounds /\ round[n].status = "completed" /\ Before(n)
      BY <1>1, <1>2, <1>14 DEF CreateBatchDone, At, FrameOrder, FrameIds
    <2>2. proc'[p].pc = "mf_read" \/ (proc'[p].pc = "sr_read" /\ proc'[p].m = n + 1)
      BY <1>14, CreateBatchDoneIs
    <2>3. Before(n + 1) BY <2>1 DEF Before, Rounds
    <2>4. FrameOrder(proc[p])' BY <1>14, <2>2, <2>3 DEF CreateBatchDone, FrameOrder, Before
    <2> QED BY <1>14, <2>4, SameAdvances DEF CreateBatchDone, P
  <1>15. CASE \E b \in Boxes, kind \in {"pending", "skipped", "banned"} : CreateTask(p, b, kind)
    <2>1. proc'[p].pc = "mk_task" /\ proc'[p].n = proc[p].n /\ proc[p].pc = "mk_task" /\ UNCHANGED round
      BY <1>15, TaskInsertStays DEF CreateTask, At
    <2>2. FrameOrder(proc[p])' BY <1>1, <2>1 DEF FrameOrder
    <2> QED BY <2>1, <2>2, SameAdvances DEF P
  <1>16. CASE ScheduleDeadline(p) \/ BatchDeadline(p)
    <2>1. Goes(p, "mf_read") \/ Stops(p) BY <1>16, GotoGoes, StopStops DEF ScheduleDeadline, BatchDeadline
    <2>2. UNCHANGED round BY <1>16 DEF ScheduleDeadline, BatchDeadline
    <2> QED BY <1>3, <2>1, <2>2 DEF P
  <1>17. CASE MaybeFinishRead(p)
    <2>1. CASE Goes(p, "deadline") \/ Stops(p) BY <1>3, <1>17, <2>1 DEF MaybeFinishRead, P
    <2>2. CASE ~(Goes(p, "deadline") \/ Stops(p))
      <3>1. FinalSettlement /\ Goes(p, "mf_cas") BY <1>17, <2>2, AfterEnds, GotoGoes DEF MaybeFinishRead
      <3>2. FrameOrder(proc[p])' BY <1>1, <1>17, <3>1, SettlementIsLast DEF MaybeFinishRead, FrameOrder, Goes
      <3> QED BY <1>17, <3>2, SameAdvances DEF MaybeFinishRead, P
    <2> QED BY <2>1, <2>2
  <1>18. CASE MaybeFinishCas(p)
    <2>1. Goes(p, "deadline") \/ Stops(p) BY <1>18, AfterEnds DEF MaybeFinishCas
    <2> QED BY <1>3, <1>18, <2>1 DEF MaybeFinishCas, P
  <1>19. CASE FinishEvent(p) \/ \E n \in Rounds, k \in Copies, b \in Boxes : JudgeTerminal(p, n, k, b)
    <2>1. proc'[p].pc = "mf_read" /\ UNCHANGED round BY <1>2, <1>19, CallIs DEF FinishEvent, JudgeTerminal, Ops, PCs
    <2> QED BY <2>1, FreeOrder, SameAdvances DEF P
  <1>20. CASE Timeout(p) BY <1>3, <1>20, EndsStop DEF Timeout, P
  <1>21. CASE \E s \in Slots : Dispatch(p, s)
    <2>1. PICK s \in Slots : Dispatch(p, s) BY <1>21
    <2>2. proc'[p].pc \in {"he_read", "re_guard", "bd_term"} BY <2>1, DispatchIs
    <2> QED BY <2>1, <2>2, SameAdvances, FreeOrder DEF Dispatch, P
  <1>22. CASE PauseRead(p) \/ ResumeRead(p)
    <2>1. proc'[p].pc \in {"pa_cancel", "pa_find", "un_hard", "un_find"} /\ UNCHANGED round
      <3>1. CASE PauseRead(p) BY <3>1, PauseReadIs DEF PauseRead
      <3>2. CASE ResumeRead(p) BY <3>2, ResumeReadIs DEF ResumeRead
      <3> QED BY <1>22, <3>1, <3>2
    <2> QED BY <2>1, SameAdvances, FreeOrder DEF P
  <1>23. CASE PauseCancel(p) \/ PauseCas(p) \/ PauseNet(p)
    BY <1>3, <1>23, GotoGoes, StopStops DEF PauseCancel, PauseCas, PauseNet, P
  <1>24. CASE PauseFind(p)
    <2>1. proc'[p].pc = "pa_cas" \/ (proc'[p].pc = "pa_round" /\ proc'[p].n \in Live)
      BY <1>24, PauseFindIs
    <2>2. FrameOrder(proc[p])' BY <1>24, <2>1 DEF PauseFind, FrameOrder, Live
    <2> QED BY <1>24, <2>2, SameAdvances DEF PauseFind, P
  <1>25. CASE PauseRound(p)
    <2> DEFINE n == proc[p].n
    <2> DEFINE x == [round[n] EXCEPT !.status = "paused", !.remaining = proc[p].rem]
    <2>1. n \in Rounds /\ round[n].status \in {"active", "paused"} BY <1>1, <1>2, <1>25 DEF PauseRound, At, FrameOrder, FrameIds
    <2>2. round' = [round EXCEPT ![n] = x] BY <1>25 DEF PauseRound
    <2>3. x.status = "paused" BY <2>1 DEF TypeInv, TypeOK, RoundRows
    <2>4. Goes(p, "pa_cas") BY <1>25, GotoGoes DEF PauseRound
    <2> QED BY <2>1, <2>2, <2>3, <2>4, WriteAdvances, FreeOrder DEF Goes, P
  <1>26. CASE PauseNetFault(p) \/ ResumeNetFault(p)
    BY <1>3, <1>26, StopStops DEF PauseNetFault, ResumeNetFault, NetFault, P
  <1>27. CASE ResumeHardening(p) \/ ResumePhase(p) \/ ResumeCas(p) \/ ResumeNet(p)
    BY <1>3, <1>27, GotoGoes, StopStops DEF ResumeHardening, ResumePhase, ResumeCas, ResumeNet, P
  <1>28. CASE ResumeFind(p)
    <2>1. proc'[p].pc = "un_cas" \/ (proc'[p].pc = "un_round" /\ proc'[p].n \in Live)
      BY <1>28, ResumeFindIs
    <2>2. FrameOrder(proc[p])' BY <1>28, <2>1 DEF ResumeFind, FrameOrder, Live
    <2> QED BY <1>28, <2>2, SameAdvances DEF ResumeFind, P
  <1>29. CASE ResumeRound(p)
    <2> DEFINE n == proc[p].n
    <2> DEFINE x == [status |-> "active", endAt |-> proc[p].rem, remaining |-> NoTime]
    <2>1. n \in Rounds /\ round[n].status \in {"active", "paused"} BY <1>1, <1>2, <1>29 DEF ResumeRound, At, FrameOrder, FrameIds
    <2>2. CASE UNCHANGED round /\ Stops(p) BY <1>3, <2>2 DEF P
    <2>3. CASE round' = [round EXCEPT ![n] = x] /\ Goes(p, "un_cas")
      BY <2>1, <2>3, WriteAdvances, FreeOrder DEF Goes, P
    <2> QED BY <1>29, <2>2, <2>3, GotoGoes, StopStops DEF ResumeRound
  <1>30. CASE ResumeRestore(p)
    <2>1. CASE Stops(p) BY <1>3, <1>30, <2>1 DEF ResumeRestore, P
    <2>2. CASE ~Stops(p)
      <3>1. Live = {} /\ Gap /\ proc'[p].pc = "sr_read" /\ proc'[p].m = GapRound
        BY <1>30, <2>2, ResumeRestoreIs
      <3>2. Before(GapRound) BY <1>1, <3>1, GapInTurn DEF Gap
      <3>3. FrameOrder(proc[p])' BY <1>30, <3>1, <3>2 DEF ResumeRestore, FrameOrder, Before
      <3> QED BY <1>30, <3>3, SameAdvances DEF ResumeRestore, P
    <2> QED BY <2>1, <2>2
  <1> QED BY <1>4, <1>5, <1>6, <1>7, <1>8, <1>9, <1>10, <1>11, <1>12, <1>13, <1>14, <1>15, <1>16, <1>17, <1>18,
             <1>19, <1>20, <1>21, <1>22, <1>23, <1>24, <1>25, <1>26, <1>27, <1>28, <1>29, <1>30
          DEF Acts, Handler, Request, P

\* A step that no handler takes, as far as the rounds go.
LEMMA OrderRest ==
  ASSUME TypeInv, OrderInv, Orderly, BootRecover \/ BootOnly \/ Crash \/ Tick \/ UNCHANGED vars \/ \E s \in Slots : Fetch(s)
  PROVE  Advances /\ StartsInTurn
  <1>1. CASE BootRecover
    <2>1. CASE Gap
      <3>1. round' = [round EXCEPT ![GapRound] = NewRound] BY <1>1, <2>1 DEF BootRecover
      <3>2. GapRound \in Rounds /\ Live = {} BY <2>1 DEF Gap
      <3>3. Before(GapRound) BY <3>2, GapInTurn DEF OrderInv, InOrder
      <3>4. round[GapRound].status = "none"
        <4>1. CASE Existing = {} BY <3>2, <4>1 DEF Existing
        <4>2. CASE Existing # {}
          <5>1. \A m \in Existing : m <= Latest BY <4>2, LatestIs
          <5>2. GapRound = Latest + 1 /\ Latest \in Existing BY <4>2, LatestIs DEF GapRound
          <5>3. GapRound \notin Existing BY <5>1, <5>2 DEF Existing, Rounds
          <5> QED BY <3>2, <5>3 DEF Existing
        <4> QED BY <4>1, <4>2
      <3> QED BY <3>1, <3>3, <3>4, WriteAdvances
    <2>2. CASE ~Gap BY <1>1, <2>2, SameAdvances DEF BootRecover
    <2> QED BY <2>1, <2>2
  <1>2. CASE Tick
    <2>1. \A n \in Rounds : round'[n].status = round[n].status BY <1>2 DEF Tick, TypeInv, TypeOK, RoundRows
    <2> QED BY <2>1, SameAdvances
  <1>3. CASE UNCHANGED round BY <1>3, SameAdvances
  <1> QED BY <1>1, <1>2, <1>3 DEF BootOnly, Crash, Fetch, vars

\* The handlers keep what they know when no handler acts.
LEMMA OrderFrames ==
  ASSUME TypeInv, OrderInv, Orderly, Advances, StartsInTurn,
         \/ \A q \in Procs : proc'[q] = Idle
         \/ UNCHANGED <<proc, round>>
  PROVE  InOrder'
  <1>1. \A q \in Procs : FrameOrder(proc[q])'
    <2>1. CASE \A q \in Procs : proc'[q] = Idle
      BY <2>1, IdleTyped DEF FrameOrder, Starting, Making
    <2>2. CASE UNCHANGED <<proc, round>> BY <2>2 DEF OrderInv, InOrder, FrameOrder, Before
    <2> QED BY <2>1, <2>2
  <1>2. \A n \in Rounds : round'[n].status # "none" => Before(n)'
    <2> SUFFICES ASSUME NEW n \in Rounds, round'[n].status # "none" PROVE Before(n)' OBVIOUS
    <2>1. Before(n) BY DEF OrderInv, InOrder, StartsInTurn
    <2> QED BY <2>1, BeforeStays DEF Before
  <1> QED BY <1>1, <1>2 DEF InOrder

LEMMA OrderlyGoesBack == TypeInv /\ [Next]_vars /\ Orderly' => Orderly
  <1> SUFFICES ASSUME TypeInv, [Next]_vars, Orderly' PROVE Orderly OBVIOUS
  <1>1. used'.of = used.of /\ used.pauses <= used'.pauses BY UsedGrows
  <1>2. used.pauses \in Nat BY UsedTyped
  <1> QED BY <1>1, <1>2 DEF Orderly, Serial

\* In an orderly run, every step lets the rounds go on and starts them in turn.
LEMMA OrderSteps ==
  ASSUME TypeInv, OrderInv, Orderly, [Next]_vars
  PROVE  Advances /\ StartsInTurn
  BY OrderActs, OrderRest DEF Next, Acts

LEMMA OrderStep == TypeInv /\ OrderInv /\ [Next]_vars => OrderInv'
  <1> SUFFICES ASSUME TypeInv, OrderInv, [Next]_vars PROVE OrderInv' OBVIOUS
  <1>1. BusyOnly' BY BusyStep DEF OrderInv
  <1>2. Unpaused' BY UnpausedStep DEF OrderInv
  <1>3. ASSUME Orderly' PROVE InOrder'
    <2>1. Orderly BY <1>3, OrderlyGoesBack
    <2>2. Advances /\ StartsInTurn BY <2>1, OrderSteps
    <2>3. ASSUME NEW p \in Procs, Acts(p) PROVE InOrder' BY <2>1, <2>2, <2>3, OrderActs, OrderKept
    <2>4. CASE Crash
      <3>1. \A q \in Procs : proc'[q] = Idle BY <2>4 DEF Crash
      <3> QED BY <2>1, <2>2, <3>1, OrderFrames
    <2>5. CASE BootRecover
      <3>1. \A q \in Procs : proc'[q] = Idle BY <2>5 DEF BootRecover, TypeInv
      <3> QED BY <2>1, <2>2, <3>1, OrderFrames
    <2>6. CASE Tick
      <3>1. \A q \in Procs : proc'[q] = Idle BY <2>6 DEF Tick
      <3> QED BY <2>1, <2>2, <3>1, OrderFrames
    <2>7. CASE UNCHANGED <<proc, round>> BY <2>1, <2>2, <2>7, OrderFrames
    <2>8. BootOnly \/ UNCHANGED vars \/ (\E s \in Slots : Fetch(s)) => UNCHANGED <<proc, round>>
      BY DEF BootOnly, vars, Fetch
    <2> QED BY <2>3, <2>4, <2>5, <2>6, <2>7, <2>8 DEF Next, Acts
  <1> QED BY <1>1, <1>2, <1>3 DEF OrderInv

LEMMA InitOrder == Init => OrderInv
  <1> SUFFICES ASSUME Init PROVE OrderInv OBVIOUS
  <1>1. /\ \A p \in Procs : proc[p] = Idle
        /\ \A n \in Rounds : round[n].status = "none"
        /\ up /\ ev.status = "Verified"
    BY DEF Init, NoRound
  <1>2. Idle.pc = "idle" /\ Idle.op = "none" BY DEF Idle
  <1>3. BusyOnly BY <1>1 DEF BusyOnly
  <1>4. Unpaused BY <1>1, <1>2 DEF Unpaused, Pausing, Resumes
  <1>5. InOrder BY <1>1, <1>2 DEF InOrder, FrameOrder, Starting, Making
  <1> QED BY <1>3, <1>4, <1>5 DEF OrderInv

LEMMA LiveIsOne ==
  ASSUME TypeInv, \A n \in Rounds : round[n].status # "none" => Before(n)
  PROVE  \A m, n \in Live : m = n
  <1> SUFFICES ASSUME NEW m \in Live, NEW n \in Live, m < n PROVE FALSE BY DEF Live, Rounds
  <1> QED BY DEF Live, Before

LEMMA AtMostOne == ASSUME NEW S, \A x, y \in S : x = y PROVE Cardinality(S) <= 1
  <1>1. CASE S = {} BY <1>1, FS_EmptySet
  <1>2. CASE S # {}
    <2>1. PICK x \in S : TRUE BY <1>2
    <2>2. S = {x} BY <2>1
    <2>3. Cardinality({x}) = 1 BY FS_Singleton
    <2> QED BY <2>2, <2>3
  <1> QED BY <1>1, <1>2

LEMMA OneLive == TypeInv /\ OrderInv => RoundsInOrder
  <1> SUFFICES ASSUME TypeInv, OrderInv, Orderly
               PROVE  /\ \A n \in Existing : n > 1 => round[n - 1].status = "completed"
                      /\ Cardinality(Live) <= 1
    BY DEF RoundsInOrder
  <1>1. \A n \in Rounds : round[n].status # "none" => Before(n) BY DEF OrderInv, InOrder
  <1>2. \A n \in Existing : n > 1 => round[n - 1].status = "completed"
    BY <1>1, LifecycleConstants DEF Existing, Rounds, Before
  <1>3. \A m, n \in Live : m = n BY <1>1, LiveIsOne
  <1>4. Cardinality(Live) <= 1 BY <1>3, AtMostOne
  <1> QED BY <1>2, <1>4

\* Rounds happen one after the other and at most one is live, through overlapping
\* handlers, crashes, boots, timeouts and retries until somebody pauses, and through
\* any pauses and resumes while handlers do not overlap: start_round, end_round and
\* recover_round_gap start a round only after its predecessor ended.
THEOREM RoundsKeepOrder == Spec => []RoundsInOrder
  <1> QED BY InitTyped, TypeStep, InitOrder, OrderStep, OneLive, PTL DEF Spec

\* A completed round is never reopened by a pause, a resume, a boot or a late handler.
THEOREM CompletedRoundsStay == Spec => CompletedStays
  <1>1. TypeInv /\ OrderInv /\ [Next]_vars => [KeepsCompleted]_vars
    BY OrderSteps DEF KeepsCompleted, Advances
  <1> QED BY <1>1, InitTyped, TypeStep, InitOrder, OrderStep, PTL DEF Spec, CompletedStays

---------------------------------------------------------------------------
(* What the steps of one handler do to the tasks *)

Row(key, n, k, at) == [key |-> key, n |-> n, k |-> k, at |-> at, st |-> "pending", tries |-> 0]

LEMMA RowIs ==
  ASSUME NEW key, NEW n, NEW k, NEW at
  PROVE  /\ Row(key, n, k, at).key = key /\ Row(key, n, k, at).n = n
         /\ Row(key, n, k, at).k = k /\ Row(key, n, k, at).at = at
  BY DEF Row

\* The rows that the handler of p may insert.
Adds(p, x) ==
    \/ x.key = "HardeningEnd"
    \/ StartRoundInsert(p) /\ x = Row("RoundEnd", proc[p].m, 0, RoundDuration)
    \/ /\ ScheduleDeadline(p)
       /\ x = Row("BatchDeadline", proc[p].n, proc[p].k, batch[proc[p].n][proc[p].k].deadline)
    \/ /\ ResumeRestore(p)
       /\ \E n \in Live : round[n].status = "active" /\ x = Row("RoundEnd", n, 0, round[n].endAt)

TaskStep(p, s) ==
    \/ tasks'[s] = tasks[s]
    \/ tasks'[s] = Free
    \/ s = proc[p].t /\ tasks'[s] = Retried(tasks[s])
    \/ Adds(p, tasks'[s])

\* Tasks in the hands of other handlers stay; the handler of p keeps its own, or ends.
TasksStep(p) ==
    /\ \A s \in Slots : TaskStep(p, s)
    /\ \A s \in Slots : tasks[s].st = "running" /\ s # proc[p].t => tasks'[s] = tasks[s]
    /\ proc'[p].t = 0 \/ (proc'[p].t = proc[p].t /\ tasks'[proc[p].t] = tasks[proc[p].t])

LEMMA PutEither ==
  ASSUME NEW ts \in [Slots -> TaskRows], NEW key, NEW n, NEW k, NEW at, NEW s \in Slots
  PROVE  Put(ts, key, n, k, at)[s] = ts[s] \/ Put(ts, key, n, k, at)[s] = Row(key, n, k, at)
  <1> DEFINE c == CHOOSE r \in Slots : ts[r] = Free
  <1>1. Put(ts, key, n, k, at) = [ts EXCEPT ![c] = Row(key, n, k, at)] BY DEF Put, Row
  <1> HIDE DEF c
  <1> QED BY <1>1

LEMMA SameTasksStep ==
  ASSUME TypeInv, NEW p \in Procs, UNCHANGED tasks, proc'[p].t = 0 \/ proc'[p].t = proc[p].t
  PROVE  TasksStep(p)
  BY DEF TasksStep, TaskStep

LEMMA JumpTasksStep ==
  ASSUME TypeInv, NEW p \in Procs, UNCHANGED tasks, Stops(p) \/ \E pc : Goes(p, pc)
  PROVE  TasksStep(p)
  BY SameTasksStep, IdleTyped DEF Goes, Stops

LEMMA EndTasksStep ==
  ASSUME TypeInv, NEW p \in Procs, Return(p) \/ Throw(p)
  PROVE  TasksStep(p)
  <1>1. proc'[p].t = 0 BY EndsStop, IdleTyped DEF Stops
  <1>2. CASE Return(p)
    <2>1. \A s \in Slots : tasks'[s] = IF s = proc[p].t THEN Free ELSE tasks[s] BY <1>2 DEF Return
    <2> QED BY <1>1, <2>1 DEF TasksStep, TaskStep
  <1>3. CASE Throw(p)
    <2>1. \A s \in Slots : tasks'[s] = IF s = proc[p].t THEN Retried(tasks[s]) ELSE tasks[s] BY <1>3 DEF Throw
    <2> QED BY <1>1, <2>1 DEF TasksStep, TaskStep
  <1> QED BY <1>2, <1>3

LEMMA AfterTasksStep ==
  ASSUME TypeInv, NEW p \in Procs, AfterStart(p, TRUE) \/ AfterStart(p, FALSE) \/ AfterFinish(p)
  PROVE  TasksStep(p)
  <1>1. CASE proc[p].op = "RoundEnd"
    BY <1>1, GotoGoes, JumpTasksStep DEF AfterStart, AfterFinish
  <1>2. CASE proc[p].op # "RoundEnd"
    BY <1>2, EndTasksStep DEF AfterStart, AfterFinish
  <1> QED BY <1>1, <1>2

LEMMA TasksActs ==
  ASSUME TypeInv, NEW p \in Procs, Acts(p), \A s \in Slots : ~Dispatch(p, s)
  PROVE  TasksStep(p)
  <1>1. proc \in [Procs -> Frames] /\ tasks \in [Slots -> TaskRows] BY DEF TypeInv, TypeOK
  <1>2. CASE StartRoundRead(p) \/ StartRoundClash(p)
    BY <1>2, AfterTasksStep, JumpTasksStep, GotoGoes DEF StartRoundRead, StartRoundClash
  <1>3. CASE StartRoundInsert(p)
    <2> DEFINE ts == Put(tasks, "RoundEnd", proc[p].m, 0, RoundDuration)
    <2>1. \A s \in Slots : ts[s] = tasks[s] \/ Adds(p, ts[s]) BY <1>1, <1>3, PutEither DEF Adds
    <2>2. HasRoom(tasks) BY <1>3 DEF StartRoundInsert
    <2>3. \A s \in Slots : tasks[s].st = "running" => ts[s] = tasks[s] BY <1>1, <2>2, PutHolds
    <2>4. proc[p].t # 0 => ts[proc[p].t] = tasks[proc[p].t] BY <2>3, OwnTask
    <2>5. CASE tasks' = ts /\ Goes(p, "deadline")
      <3> HIDE DEF ts
      <3> QED BY <2>1, <2>3, <2>4, <2>5 DEF TasksStep, TaskStep, Goes
    <2>6. CASE tasks' = [s \in Slots |-> IF s = proc[p].t THEN Free ELSE ts[s]] /\ Stops(p)
      <3> HIDE DEF ts
      <3>1. \A s \in Slots : tasks'[s] = IF s = proc[p].t THEN Free ELSE ts[s] BY <2>6
      <3> QED BY <2>1, <2>3, <2>6, <3>1, IdleTyped DEF TasksStep, TaskStep, Stops
    <2> QED BY <1>3, <2>5, <2>6, GotoGoes, StopStops DEF StartRoundInsert
  <1>4. CASE ScheduleHardening(p)
    <2> DEFINE ts == Put(tasks, "HardeningEnd", 0, 0, proc[p].rem)
    <2>1. \A s \in Slots : ts[s] = tasks[s] \/ Adds(p, ts[s])
      <3>1. Row("HardeningEnd", 0, 0, proc[p].rem).key = "HardeningEnd" BY DEF Row
      <3> QED BY <1>1, <3>1, PutEither DEF Adds
    <2>2. HasRoom(tasks) BY <1>4 DEF ScheduleHardening
    <2>3. \A s \in Slots : tasks[s].st = "running" => ts[s] = tasks[s] BY <1>1, <2>2, PutHolds
    <2>4. proc[p].t # 0 => ts[proc[p].t] = tasks[proc[p].t] BY <2>3, OwnTask
    <2>5. tasks' = ts /\ (Goes(p, "un_net") \/ Stops(p)) BY <1>4, GotoGoes, StopStops DEF ScheduleHardening
    <2> HIDE DEF ts
    <2> QED BY <2>1, <2>3, <2>4, <2>5, IdleTyped DEF TasksStep, TaskStep, Goes, Stops
  <1>5. CASE ScheduleDeadline(p)
    <2> DEFINE b == batch[proc[p].n][proc[p].k]
    <2> DEFINE ta == Put(tasks, "BatchDeadline", proc[p].n, proc[p].k, b.deadline)
    <2> DEFINE ts == IF b.made = {} THEN tasks ELSE ta
    <2>1. \A s \in Slots : ts[s] = tasks[s] \/ Adds(p, ts[s])
      <3>1. \A s \in Slots : ta[s] = tasks[s] \/ Adds(p, ta[s]) BY <1>1, <1>5, PutEither DEF Adds
      <3> HIDE DEF ta
      <3> QED BY <3>1
    <2>2. HasRoom(tasks) BY <1>5 DEF ScheduleDeadline
    <2>3. \A s \in Slots : tasks[s].st = "running" => ts[s] = tasks[s] BY <1>1, <2>2, PutHolds
    <2>4. tasks' = [s \in Slots |-> IF s = proc[p].t THEN Free ELSE ts[s]] /\ Stops(p)
      BY <1>5, StopStops DEF ScheduleDeadline
    <2> HIDE DEF ts
    <2>5. \A s \in Slots : tasks'[s] = IF s = proc[p].t THEN Free ELSE ts[s] BY <2>4
    <2> QED BY <2>1, <2>3, <2>4, <2>5, IdleTyped DEF TasksStep, TaskStep, Stops
  <1>6. CASE HardeningEndRead(p) \/ HardeningEndCheck(p) \/ RoundEndGuard(p) \/ EndRoundRead(p)
    BY <1>6, EndTasksStep, JumpTasksStep, GotoGoes
       DEF HardeningEndRead, HardeningEndCheck, RoundEndGuard, EndRoundRead
  <1>7. CASE HardeningEndPhase(p)
    <2>1. proc'[p].t = proc[p].t BY <1>1, <1>7 DEF HardeningEndPhase, Frames
    <2> QED BY <1>7, <2>1, SameTasksStep DEF HardeningEndPhase
  <1>8. CASE EndRoundWrite(p) \/ BatchDeadline(p)
    BY <1>8, JumpTasksStep, GotoGoes DEF EndRoundWrite, BatchDeadline
  <1>9. CASE CreateBatch(p) \/ \E b \in Boxes, kind \in {"pending", "skipped", "banned"} : CreateTask(p, b, kind)
    <2>1. proc'[p].t = proc[p].t
      <3>1. CASE CreateBatch(p) BY <1>1, <3>1 DEF CreateBatch, Frames
      <3>2. CASE \E b \in Boxes, kind \in {"pending", "skipped", "banned"} : CreateTask(p, b, kind)
        BY <1>1, <3>2 DEF CreateTask, Frames
      <3> QED BY <1>9, <3>1, <3>2
    <2> QED BY <1>9, <2>1, SameTasksStep DEF CreateBatch, CreateTask
  <1>10. CASE CreateBatchDone(p) BY <1>10, SameTasksStep, CreateBatchDoneIs DEF CreateBatchDone
  <1>11. CASE MaybeFinishRead(p) \/ MaybeFinishCas(p)
    BY <1>11, AfterTasksStep, JumpTasksStep, GotoGoes DEF MaybeFinishRead, MaybeFinishCas
  <1>12. CASE FinishEvent(p) \/ \E n \in Rounds, k \in Copies, b \in Boxes : JudgeTerminal(p, n, k, b)
    <2>1. proc'[p].t = 0 /\ UNCHANGED tasks BY <1>1, <1>12, CallIs DEF FinishEvent, JudgeTerminal, Ops, PCs
    <2> QED BY <2>1, SameTasksStep
  <1>13. CASE StartEvent(p) BY <1>13, StartEventIs, SameTasksStep DEF StartEvent
  <1>14. CASE Timeout(p) BY <1>14, EndTasksStep DEF Timeout
  <1>15. CASE PauseRead(p) BY <1>15, PauseReadIs, SameTasksStep DEF PauseRead
  <1>16. CASE ResumeRead(p) BY <1>16, ResumeReadIs, SameTasksStep DEF ResumeRead
  <1>17. CASE PauseCancel(p)
    <2>1. Goes(p, "pa_cas") BY <1>17, GotoGoes DEF PauseCancel
    <2>2. \A s \in Slots : tasks'[s] = IF tasks[s].key = "HardeningEnd" /\ tasks[s].st = "pending" THEN Free ELSE tasks[s]
      BY <1>17 DEF PauseCancel, Cancelled
    <2>3. proc[p].t # 0 => tasks'[proc[p].t] = tasks[proc[p].t] BY <2>2, OwnTask
    <2> QED BY <2>1, <2>2, <2>3 DEF TasksStep, TaskStep, Goes
  <1>18. CASE PauseFind(p) BY <1>18, PauseFindIs, SameTasksStep DEF PauseFind
  <1>19. CASE PauseRound(p) \/ PauseCas(p) \/ PauseNet(p)
    BY <1>19, JumpTasksStep, GotoGoes, StopStops DEF PauseRound, PauseCas, PauseNet
  <1>20. CASE PauseNetFault(p) \/ ResumeNetFault(p)
    BY <1>20, JumpTasksStep, StopStops DEF PauseNetFault, ResumeNetFault, NetFault
  <1>21. CASE ResumeHardening(p) \/ ResumePhase(p) \/ ResumeRound(p) \/ ResumeCas(p) \/ ResumeNet(p)
    BY <1>21, JumpTasksStep, GotoGoes, StopStops
       DEF ResumeHardening, ResumePhase, ResumeRound, ResumeCas, ResumeNet
  <1>22. CASE ResumeFind(p) BY <1>22, ResumeFindIs, SameTasksStep DEF ResumeFind
  <1>23. CASE ResumeRestore(p)
    <2>1. CASE UNCHANGED tasks BY <1>23, <2>1, ResumeRestoreIs, SameTasksStep, IdleTyped DEF Stops
    <2>2. CASE ~UNCHANGED tasks
      <3>1. PICK n \in Live : tasks' = RestoredRoundEnd(tasks, n) /\ proc' = [proc EXCEPT ![p] = Idle]
        BY <1>23, <2>2 DEF ResumeRestore
      <3> DEFINE ts == Put(tasks, "RoundEnd", n, 0, round[n].endAt)
      <3>2. round[n].status = "active" /\ tasks' = ts BY <2>2, <3>1 DEF RestoredRoundEnd
      <3>3. \A s \in Slots : ts[s] = tasks[s] \/ Adds(p, ts[s]) BY <1>1, <1>23, <3>2, PutEither DEF Adds
      <3>4. HasRoom(tasks) BY <1>23 DEF ResumeRestore
      <3>5. \A s \in Slots : tasks[s].st = "running" => ts[s] = tasks[s] BY <1>1, <3>4, PutHolds
      <3> HIDE DEF ts
      <3> QED BY <3>1, <3>2, <3>3, <3>5, StopStops, IdleTyped DEF TasksStep, TaskStep, Stops
    <2> QED BY <2>1, <2>2
  <1> QED BY <1>2, <1>3, <1>4, <1>5, <1>6, <1>7, <1>8, <1>9, <1>10, <1>11, <1>12, <1>13, <1>14, <1>15, <1>16,
             <1>17, <1>18, <1>19, <1>20, <1>21, <1>22, <1>23
          DEF Acts, Handler, Request

---------------------------------------------------------------------------
(* Who writes the rows, and which step brings a handler to a statement *)

Writes(p) ==
    /\ \/ ev' = ev
       \/ StartEvent(p) \/ HardeningEndPhase(p) \/ MaybeFinishCas(p) \/ PauseCas(p) \/ PauseNetFault(p)
       \/ ResumeNetFault(p) \/ ResumeHardening(p) \/ ResumePhase(p) \/ ResumeCas(p)
    /\ round' = round \/ StartRoundInsert(p) \/ EndRoundWrite(p) \/ PauseRound(p) \/ ResumeRound(p)
    /\ \/ batch' = batch \/ CreateBatch(p) \/ BatchDeadline(p)
       \/ \E b \in Boxes, kind \in {"pending", "skipped", "banned"} : CreateTask(p, b, kind)
       \/ \E n \in Rounds, k \in Copies, b \in Boxes : JudgeTerminal(p, n, k, b)
    /\ used' = used \/ PauseRead(p) \/ PauseNetFault(p) \/ ResumeNetFault(p) \/ Timeout(p)

LEMMA ActsWrite == ASSUME NEW p \in Procs, Acts(p) PROVE Writes(p)
  <1>1. CASE StartRoundRead(p) \/ StartRoundInsert(p) \/ StartRoundClash(p) \/ ScheduleHardening(p)
    BY <1>1 DEF Writes, StartRoundRead, StartRoundInsert, StartRoundClash, ScheduleHardening
  <1>2. CASE HardeningEndRead(p) \/ HardeningEndCheck(p) \/ HardeningEndPhase(p) \/ RoundEndGuard(p)
    BY <1>2 DEF Writes, HardeningEndRead, HardeningEndCheck, HardeningEndPhase, RoundEndGuard
  <1>3. CASE EndRoundRead(p) \/ EndRoundWrite(p) \/ CreateBatchDone(p) \/ ScheduleDeadline(p)
    BY <1>3 DEF Writes, EndRoundRead, EndRoundWrite, CreateBatchDone, ScheduleDeadline
  <1>4. CASE CreateBatch(p) BY <1>4 DEF Writes, CreateBatch
  <1>5. CASE \E b \in Boxes, kind \in {"pending", "skipped", "banned"} : CreateTask(p, b, kind)
    BY <1>5 DEF Writes, CreateTask
  <1>6. CASE BatchDeadline(p) \/ MaybeFinishRead(p) \/ MaybeFinishCas(p)
    BY <1>6 DEF Writes, BatchDeadline, MaybeFinishRead, MaybeFinishCas
  <1>7. CASE PauseCancel(p) \/ PauseFind(p) \/ PauseRound(p) \/ PauseCas(p) \/ PauseNet(p)
    BY <1>7 DEF Writes, PauseCancel, PauseFind, PauseRound, PauseCas, PauseNet
  <1>8. CASE PauseNetFault(p) \/ ResumeNetFault(p) BY <1>8 DEF Writes, PauseNetFault, ResumeNetFault, NetFault
  <1>9. CASE ResumeHardening(p) \/ ResumePhase(p) \/ ResumeFind(p) \/ ResumeRound(p)
    BY <1>9 DEF Writes, ResumeHardening, ResumePhase, ResumeFind, ResumeRound
  <1>10. CASE ResumeCas(p) \/ ResumeNet(p) \/ ResumeRestore(p)
    BY <1>10 DEF Writes, ResumeCas, ResumeNet, ResumeRestore
  <1>11. CASE Request(p)
    BY <1>11 DEF Writes, Request, StartEvent, PauseRead, ResumeRead, FinishEvent, JudgeTerminal
  <1>12. CASE Timeout(p) BY <1>12 DEF Writes, Timeout
  <1>13. CASE \E s \in Slots : Dispatch(p, s) BY <1>13 DEF Writes, Dispatch
  <1> QED BY <1>1, <1>2, <1>3, <1>4, <1>5, <1>6, <1>7, <1>8, <1>9, <1>10, <1>11, <1>12, <1>13 DEF Acts, Handler

Comes(p, pc) ==
    /\ pc = "sr_read" => StartEvent(p) \/ HardeningEndPhase(p) \/ CreateBatchDone(p) \/ ResumeRestore(p)
    /\ pc = "sr_insert" => StartRoundRead(p)
    /\ pc = "schedule_hardening" => StartEvent(p) \/ ResumeHardening(p)
    /\ pc \in {"he_read", "re_guard", "bd_term"} => \E s \in Slots : Dispatch(p, s)
    /\ pc = "he_check" => HardeningEndRead(p)
    /\ pc = "he_phase" => HardeningEndCheck(p)
    /\ pc = "re_read" => RoundEndGuard(p)
    /\ pc = "re_write" => EndRoundRead(p)
    /\ pc = "mk_batch" => EndRoundWrite(p)
    /\ pc = "mk_task" => \/ CreateBatch(p)
                         \/ \E b \in Boxes, kind \in {"pending", "skipped", "banned"} : CreateTask(p, b, kind)
    /\ pc = "deadline" => /\ \/ StartRoundRead(p) \/ StartRoundInsert(p) \/ StartRoundClash(p)
                             \/ MaybeFinishRead(p) \/ MaybeFinishCas(p)
                          /\ proc[p].op = "RoundEnd" /\ Goes(p, "deadline")
    /\ pc = "mf_read" => \/ CreateBatchDone(p) \/ BatchDeadline(p) \/ FinishEvent(p)
                         \/ \E n \in Rounds, k \in Copies, b \in Boxes : JudgeTerminal(p, n, k, b)
    /\ pc = "mf_cas" => MaybeFinishRead(p)
    /\ pc = "pa_cancel" => PauseRead(p)
    /\ pc = "pa_find" => PauseRead(p)
    /\ pc = "pa_round" => PauseFind(p)
    /\ pc = "pa_cas" => PauseCancel(p) \/ PauseFind(p) \/ PauseRound(p)
    /\ pc = "pa_net" => PauseCas(p)
    /\ pc = "un_hard" => ResumeRead(p)
    /\ pc = "un_find" => ResumeRead(p)
    /\ pc = "un_phase" => ResumeHardening(p)
    /\ pc = "un_round" => ResumeFind(p)
    /\ pc = "un_cas" => ResumeFind(p) \/ ResumeRound(p)
    /\ pc = "un_net" => ResumePhase(p) \/ ResumeCas(p) \/ ScheduleHardening(p)
    /\ pc = "un_restore" => ResumeNet(p)

LEMMA ActsCome == ASSUME TypeInv, NEW p \in Procs, Acts(p) PROVE Comes(p, proc'[p].pc)
  <1>1. proc \in [Procs -> Frames] BY DEF TypeInv, TypeOK
  <1>2. CASE Stops(p) BY <1>2, IdleTyped DEF Stops, Comes
  <1>3. ASSUME NEW pc, Goes(p, pc) PROVE proc'[p].pc = pc BY <1>3 DEF Goes
  <1>4. CASE StartRoundRead(p)
    <2>1. \/ Stops(p) \/ Goes(p, "sr_insert") \/ (proc[p].op = "RoundEnd" /\ Goes(p, "deadline"))
      BY <1>4, AfterEnds, GotoGoes DEF StartRoundRead
    <2> QED BY <1>2, <1>3, <1>4, <2>1 DEF Comes
  <1>5. CASE StartRoundInsert(p)
    <2>1. Stops(p) \/ (proc[p].op = "RoundEnd" /\ Goes(p, "deadline"))
      BY <1>5, GotoGoes, StopStops DEF StartRoundInsert
    <2> QED BY <1>2, <1>3, <1>5, <2>1 DEF Comes
  <1>6. CASE StartRoundClash(p)
    <2>1. Stops(p) \/ (proc[p].op = "RoundEnd" /\ Goes(p, "deadline")) BY <1>6, AfterEnds DEF StartRoundClash
    <2> QED BY <1>2, <1>3, <1>6, <2>1 DEF Comes
  <1>7. CASE MaybeFinishRead(p)
    <2>1. Stops(p) \/ Goes(p, "mf_cas") \/ (proc[p].op = "RoundEnd" /\ Goes(p, "deadline"))
      BY <1>7, AfterEnds, GotoGoes DEF MaybeFinishRead
    <2> QED BY <1>2, <1>3, <1>7, <2>1 DEF Comes
  <1>8. CASE MaybeFinishCas(p)
    <2>1. Stops(p) \/ (proc[p].op = "RoundEnd" /\ Goes(p, "deadline")) BY <1>8, AfterEnds DEF MaybeFinishCas
    <2> QED BY <1>2, <1>3, <1>8, <2>1 DEF Comes
  <1>9. CASE StartEvent(p)
    <2>1. proc'[p].pc = "schedule_hardening" \/ proc'[p].pc = "sr_read" BY <1>9, StartEventIs
    <2> QED BY <1>9, <2>1 DEF Comes
  <1>10. CASE ScheduleHardening(p)
    <2>1. Stops(p) \/ Goes(p, "un_net") BY <1>10, GotoGoes, StopStops DEF ScheduleHardening
    <2> QED BY <1>2, <1>3, <1>10, <2>1 DEF Comes
  <1>11. CASE HardeningEndRead(p)
    <2>1. Stops(p) \/ Goes(p, "he_check") BY <1>11, EndsStop, GotoGoes DEF HardeningEndRead
    <2> QED BY <1>2, <1>3, <1>11, <2>1 DEF Comes
  <1>12. CASE HardeningEndCheck(p)
    <2>1. Stops(p) \/ Goes(p, "he_phase") BY <1>12, EndsStop, GotoGoes DEF HardeningEndCheck
    <2> QED BY <1>2, <1>3, <1>12, <2>1 DEF Comes
  <1>13. CASE HardeningEndPhase(p)
    <2>1. proc'[p].pc = "sr_read" BY <1>1, <1>13 DEF HardeningEndPhase, Frames
    <2> QED BY <1>13, <2>1 DEF Comes
  <1>14. CASE RoundEndGuard(p)
    <2>1. Stops(p) \/ Goes(p, "re_read") BY <1>14, EndsStop, GotoGoes DEF RoundEndGuard
    <2> QED BY <1>2, <1>3, <1>14, <2>1 DEF Comes
  <1>15. CASE EndRoundRead(p)
    <2>1. Stops(p) \/ Goes(p, "re_write") BY <1>15, EndsStop, GotoGoes DEF EndRoundRead
    <2> QED BY <1>2, <1>3, <1>15, <2>1 DEF Comes
  <1>16. CASE EndRoundWrite(p) BY <1>3, <1>16, GotoGoes DEF EndRoundWrite, Comes
  <1>17. CASE CreateBatch(p)
    <2>1. proc'[p].pc = "mk_task" BY <1>1, <1>17 DEF CreateBatch, Frames
    <2> QED BY <1>17, <2>1 DEF Comes
  <1>18. CASE \E b \in Boxes, kind \in {"pending", "skipped", "banned"} : CreateTask(p, b, kind)
    <2>1. proc'[p].pc = "mk_task" BY <1>18, TaskInsertStays
    <2> QED BY <1>18, <2>1 DEF Comes
  <1>19. CASE CreateBatchDone(p)
    <2>1. proc'[p].pc = "mf_read" \/ proc'[p].pc = "sr_read" BY <1>19, CreateBatchDoneIs
    <2> QED BY <1>19, <2>1 DEF Comes
  <1>20. CASE ScheduleDeadline(p) \/ Timeout(p)
    <2>1. Stops(p) BY <1>20, StopStops, EndsStop DEF ScheduleDeadline, Timeout
    <2> QED BY <1>2, <2>1
  <1>21. CASE BatchDeadline(p) BY <1>3, <1>21, GotoGoes DEF BatchDeadline, Comes
  <1>22. CASE FinishEvent(p)
    <2>1. proc'[p].pc = "mf_read" BY <1>1, <1>22, CallIs DEF FinishEvent, Ops, PCs
    <2> QED BY <1>22, <2>1 DEF Comes
  <1>23. CASE \E n \in Rounds, k \in Copies, b \in Boxes : JudgeTerminal(p, n, k, b)
    <2>1. proc'[p].pc = "mf_read" BY <1>1, <1>23, CallIs DEF JudgeTerminal, Ops, PCs
    <2> QED BY <1>23, <2>1 DEF Comes
  <1>24. CASE \E s \in Slots : Dispatch(p, s)
    <2>1. proc'[p].pc \in {"he_read", "re_guard", "bd_term"} BY <1>24, DispatchIs
    <2> QED BY <1>24, <2>1 DEF Comes
  <1>25. CASE PauseRead(p)
    <2>1. proc'[p].pc \in {"pa_cancel", "pa_find"} BY <1>25, PauseReadIs
    <2> QED BY <1>25, <2>1 DEF Comes
  <1>26. CASE PauseCancel(p) \/ PauseRound(p)
    <2>1. Goes(p, "pa_cas") BY <1>26, GotoGoes DEF PauseCancel, PauseRound
    <2> QED BY <1>3, <1>26, <2>1 DEF Comes
  <1>27. CASE PauseFind(p)
    <2>1. proc'[p].pc \in {"pa_cas", "pa_round"} BY <1>27, PauseFindIs
    <2> QED BY <1>27, <2>1 DEF Comes
  <1>28. CASE PauseCas(p)
    <2>1. Stops(p) \/ Goes(p, "pa_net") BY <1>28, StopStops, GotoGoes DEF PauseCas
    <2> QED BY <1>2, <1>3, <1>28, <2>1 DEF Comes
  <1>29. CASE PauseNet(p) \/ PauseNetFault(p) \/ ResumeNetFault(p)
    <2>1. Stops(p) BY <1>29, StopStops DEF PauseNet, PauseNetFault, ResumeNetFault, NetFault
    <2> QED BY <1>2, <2>1
  <1>30. CASE ResumeRead(p)
    <2>1. proc'[p].pc \in {"un_hard", "un_find"} BY <1>30, ResumeReadIs
    <2> QED BY <1>30, <2>1 DEF Comes
  <1>31. CASE ResumeHardening(p)
    <2>1. Stops(p) \/ Goes(p, "schedule_hardening") \/ Goes(p, "un_phase")
      BY <1>31, StopStops, GotoGoes DEF ResumeHardening
    <2> QED BY <1>2, <1>3, <1>31, <2>1 DEF Comes
  <1>32. CASE ResumePhase(p) BY <1>3, <1>32, GotoGoes DEF ResumePhase, Comes
  <1>33. CASE ResumeFind(p)
    <2>1. proc'[p].pc \in {"un_cas", "un_round"} BY <1>33, ResumeFindIs
    <2> QED BY <1>33, <2>1 DEF Comes
  <1>34. CASE ResumeRound(p)
    <2>1. Stops(p) \/ Goes(p, "un_cas") BY <1>34, StopStops, GotoGoes DEF ResumeRound
    <2> QED BY <1>2, <1>3, <1>34, <2>1 DEF Comes
  <1>35. CASE ResumeCas(p)
    <2>1. Stops(p) \/ Goes(p, "un_net") BY <1>35, StopStops, GotoGoes DEF ResumeCas
    <2> QED BY <1>2, <1>3, <1>35, <2>1 DEF Comes
  <1>36. CASE ResumeNet(p)
    <2>1. Stops(p) \/ Goes(p, "un_restore") BY <1>36, StopStops, GotoGoes DEF ResumeNet
    <2> QED BY <1>2, <1>3, <1>36, <2>1 DEF Comes
  <1>37. CASE ResumeRestore(p)
    <2>1. Stops(p) \/ proc'[p].pc = "sr_read" BY <1>37, ResumeRestoreIs
    <2> QED BY <1>2, <1>37, <2>1 DEF Comes
  <1> QED BY <1>4, <1>5, <1>6, <1>7, <1>8, <1>9, <1>10, <1>11, <1>12, <1>13, <1>14, <1>15, <1>16, <1>17, <1>18,
             <1>19, <1>20, <1>21, <1>22, <1>23, <1>24, <1>25, <1>26, <1>27, <1>28, <1>29, <1>30, <1>31, <1>32,
             <1>33, <1>34, <1>35, <1>36, <1>37
          DEF Acts, Handler, Request

---------------------------------------------------------------------------
(* Layer 3: the clock of a round *)

\* Before the first pause nobody pauses or resumes.
LEMMA NoPause ==
  ASSUME TypeInv, OrderInv, NEW p \in Procs, Acts(p), used.pauses = 0, used'.pauses = 0
  PROVE  /\ ~PauseRead(p) /\ ~PauseCas(p) /\ ~PauseRound(p) /\ ~PauseNetFault(p)
         /\ ~ResumeHardening(p) /\ ~ResumePhase(p) /\ ~ResumeRound(p) /\ ~ResumeCas(p) /\ ~ResumeNetFault(p)
         /\ ~ResumeRestore(p)
  <1>1. ~PauseRead(p) BY UsedTyped DEF PauseRead, TypeInv, TypeOK
  <1>2. proc[p].pc \notin Pausing \cup Resumes BY DEF OrderInv, Unpaused
  <1> QED BY <1>1, <1>2 DEF PauseCas, PauseRound, PauseNetFault, ResumeHardening, ResumePhase, ResumeRound,
             ResumeCas, ResumeNetFault, ResumeRestore, At, Pausing, Resumes

\* How the statuses of the event change before the first pause.
LEMMA StatusActs ==
  ASSUME TypeInv, OrderInv, NEW p \in Procs, Acts(p), used.pauses = 0, used'.pauses = 0
  PROVE  \/ ev'.status = ev.status
         \/ ev.status = "Verified" /\ ev'.status = "Running" /\ round' = round
         \/ /\ ev.status = "Running" /\ ev'.status = "Finished" /\ round' = round
            /\ \A n \in Rounds : round[n].status = "completed"
  <1>1. ev \in EventRows BY DEF TypeInv, TypeOK
  <1>2. CASE StartEvent(p)
    <2>1. ev'.status = "Running" BY <1>1, <1>2 DEF StartEvent, EventRows
    <2> QED BY <1>2, <2>1 DEF StartEvent
  <1>3. CASE HardeningEndPhase(p) BY <1>1, <1>3 DEF HardeningEndPhase, EventRows
  <1>4. CASE MaybeFinishCas(p)
    <2>1. FrameOrder(proc[p]) BY DEF OrderInv, InOrder, Orderly
    <2>2. \A n \in Rounds : round[n].status = "completed" BY <1>4, <2>1 DEF MaybeFinishCas, At, FrameOrder
    <2>3. ev' = ev \/ (ev.status = "Running" /\ ev'.status = "Finished")
      BY <1>1, <1>4 DEF MaybeFinishCas, EventRows
    <2> QED BY <1>4, <2>2, <2>3 DEF MaybeFinishCas
  <1> QED BY <1>2, <1>3, <1>4, NoPause, ActsWrite DEF Writes

LEMMA RoundsActs ==
  ASSUME TypeInv, OrderInv, ClockInv, NEW p \in Procs, Acts(p), used.pauses = 0, used'.pauses = 0
  PROVE  (\A n \in Rounds : RoundClock(n))'
  <1>1. played' = played BY OneActs
  <1>2. \A n \in Rounds : RoundClock(n) BY DEF ClockInv
  <1>3. CASE round' = round
    BY <1>1, <1>2, <1>3, StatusActs DEF RoundClock
  <1>4. CASE StartRoundInsert(p)
    <2> DEFINE m == proc[p].m
    <2>1. m \in Rounds /\ round[m].status = "none" /\ ev' = ev /\ round' = [round EXCEPT ![m] = NewRound]
      BY <1>4, OwnFrame DEF StartRoundInsert, At, FrameIds, Starting, Insertable
    <2>2. ev.status = "Running"
      <3>1. ev.status # "Verified" BY <1>4 DEF ClockInv, FrameClock, StartRoundInsert, At
      <3>2. ev.status # "Finished" BY <2>1 DEF ClockInv
      <3>3. ev.status \notin {"Paused", "NetworkError"} BY DEF OrderInv, Unpaused
      <3> QED BY <3>1, <3>2, <3>3 DEF TypeInv, TypeOK, EventRows, Statuses
    <2>3. played[m] = 0 /\ RoundDuration \in Nat BY <1>2, <2>1, LifecycleConstants DEF RoundClock
    <2>4. NewRound.status = "active" /\ NewRound.endAt = RoundDuration BY DEF NewRound
    <2>5. \A n \in Rounds : round'[n] = IF n = m THEN NewRound ELSE round[n] BY <2>1 DEF TypeInv, TypeOK
    <2> QED BY <1>1, <1>2, <2>1, <2>2, <2>3, <2>4, <2>5 DEF RoundClock
  <1>5. CASE EndRoundWrite(p)
    <2> DEFINE m == proc[p].n
    <2> DEFINE x == [round[m] EXCEPT !.status = "completed"]
    <2>1. m \in Rounds /\ ev' = ev /\ round' = [round EXCEPT ![m] = x]
      BY <1>5, OwnFrame DEF EndRoundWrite, At, FrameIds, Ending
    <2>2. x.status = "completed" BY <2>1 DEF TypeInv, TypeOK, RoundRows
    <2>3. played[m] = RoundDuration BY <1>5 DEF ClockInv, FrameClock, EndRoundWrite, At, Ending, Over
    <2> HIDE DEF x
    <2>4. \A n \in Rounds : round'[n] = IF n = m THEN x ELSE round[n] BY <2>1 DEF TypeInv, TypeOK
    <2> QED BY <1>1, <1>2, <2>1, <2>2, <2>3, <2>4 DEF RoundClock
  <1> QED BY <1>3, <1>4, <1>5, NoPause, ActsWrite DEF Writes

LEMMA EndTaskActs ==
  ASSUME TypeInv, OrderInv, ClockInv, NEW p \in Procs, Acts(p), used.pauses = 0, used'.pauses = 0
  PROVE  (\A s \in Slots : EndTask(tasks[s]))'
  <1>1. played' = played BY OneActs
  <1>2. Advances BY OrderActs DEF Orderly
  <1>3. ASSUME NEW s \in Slots PROVE EndTask(tasks[s])'
    <2>1. EndTask(tasks[s]) /\ tasks[s] \in TaskRows /\ TaskIds(tasks[s]) BY DEF ClockInv, TypeInv, TypeOK
    <2>2. CASE tasks'[s] = tasks[s]
      BY <1>1, <1>2, <2>1, <2>2 DEF EndTask, Advances, TaskIds
    <2>3. CASE tasks'[s] = Free BY <2>3 DEF EndTask, Free
    <2>4. CASE s = proc[p].t /\ tasks'[s] = Retried(tasks[s])
      <3>1. s # 0 BY LifecycleConstants
      <3>2. tasks[s].st = "running" /\ tasks[s] # Free BY <2>4, <3>1, OwnTask DEF Free
      <3>3. tasks[s].key = "RoundEnd" => Over(tasks[s].n) BY <2>4, <3>1 DEF ClockInv, FrameClock
      <3>4. tasks'[s] \in TaskRows /\ (tasks'[s] = Free \/ (tasks'[s].key = tasks[s].key /\ tasks'[s].n = tasks[s].n))
        BY <2>1, <2>4, <3>2, RetriedTyped DEF Retried, TaskRows
      <3>5. CASE tasks'[s] = Free BY <3>5 DEF EndTask, Free
      <3>6. CASE tasks'[s] # Free
        <4>1. tasks'[s].at \in Nat BY <3>4, <3>6 DEF TaskRows
        <4> QED BY <1>1, <1>2, <2>1, <3>3, <3>4, <3>6, <4>1, LifecycleConstants DEF EndTask, Over, Advances, TaskIds
      <3> QED BY <3>5, <3>6
    <2>5. CASE Adds(p, tasks'[s])
      <3>1. CASE StartRoundInsert(p) /\ tasks'[s] = Row("RoundEnd", proc[p].m, 0, RoundDuration)
        <4>1. proc[p].m \in Rounds BY <3>1, OwnFrame DEF StartRoundInsert, At, FrameIds, Starting
        <4>2. round'[proc[p].m] = NewRound BY <3>1, <4>1 DEF StartRoundInsert, TypeInv, TypeOK
        <4>3. NewRound.status = "active" BY DEF NewRound
        <4>4. tasks'[s].n = proc[p].m /\ tasks'[s].at = RoundDuration BY <3>1 DEF Row
        <4>5. played[proc[p].m] \in Nat /\ RoundDuration \in Nat
          BY <4>1, LifecycleConstants DEF TypeInv, TypeOK
        <4> QED BY <1>1, <4>2, <4>3, <4>4, <4>5 DEF EndTask
      <3>2. CASE tasks'[s].key \in {"HardeningEnd", "BatchDeadline"} BY <3>2 DEF EndTask
      <3> QED BY <2>5, <3>1, <3>2, NoPause DEF Adds, Row
    <2>6. CASE \E r \in Slots : Dispatch(p, r) BY <2>2, <2>6 DEF Dispatch
    <2> QED BY <2>2, <2>3, <2>4, <2>5, <2>6, TasksActs DEF TasksStep, TaskStep
  <1> QED BY <1>3

LEMMA FrameClockActs ==
  ASSUME TypeInv, OrderInv, ClockInv, NEW p \in Procs, Acts(p), used.pauses = 0, used'.pauses = 0
  PROVE  (\A q \in Procs : FrameClock(proc[q]))'
  <1>1. played' = played BY OneActs
  <1>2. Advances BY OrderActs DEF Orderly
  <1> DEFINE O(n) == round'[n].status # "none" /\ played'[n] = RoundDuration
  <1>3. \A n \in Rounds : Over(n) => O(n) BY <1>1, <1>2 DEF Over, Advances
  <1> HIDE DEF O
  <1>4. ASSUME NEW q \in Procs, q # p PROVE FrameClock(proc[q])'
    <2>1. proc'[q] = proc[q] BY <1>4, OneActs
    <2>2. FrameClock(proc[q]) /\ FrameIds(proc[q]) BY OwnFrame DEF ClockInv
    <2>3. proc[q].t # 0 => tasks'[proc[q].t] = tasks[proc[q].t]
      <3>1. CASE \E s \in Slots : Dispatch(p, s) BY <3>1 DEF Dispatch
      <3>2. CASE \A s \in Slots : ~Dispatch(p, s)
        <4>1. proc[q].t # 0 => proc[q].t # proc[p].t BY <1>4 DEF TypeInv, TasksHeld
        <4> QED BY <3>2, <4>1, TasksActs, OwnTask DEF TasksStep
      <3> QED BY <3>1, <3>2
    <2>4. proc[q].t # 0 => TaskIds(tasks[proc[q].t]) BY OwnTask DEF TypeInv
    <2>5. proc[q].pc \in Ending => O(proc[q].n) BY <1>3, <2>2 DEF FrameClock, FrameIds
    <2>6. proc[q].t # 0 /\ tasks'[proc[q].t].key = "RoundEnd" => O(tasks'[proc[q].t].n)
      BY <1>3, <2>2, <2>3, <2>4 DEF FrameClock, TaskIds
    <2>7. proc[q].pc = "sr_insert" => ev'.status # "Verified" BY <2>2, StatusActs DEF FrameClock
    <2> QED BY <2>1, <2>5, <2>6, <2>7 DEF FrameClock, Over, O
  <1>5. FrameClock(proc[p])'
    <2>1. FrameClock(proc[p]) /\ FrameIds(proc[p]) BY OwnFrame DEF ClockInv
    <2>2. CASE \E s \in Slots : Dispatch(p, s)
      <3>1. PICK s \in Slots : Dispatch(p, s) BY <2>2
      <3>2. proc'[p].pc # "sr_insert" BY <3>1, DispatchIs
      <3>3. proc'[p].t = s /\ proc'[p].n = tasks[s].n /\ tasks' = tasks BY <3>1, DispatchIs DEF Dispatch
      <3>4. proc'[p].pc \in Ending => tasks[s].key = "RoundEnd" BY <3>1, DispatchIs DEF Ending, Keys
      <3>5. tasks[s].key = "RoundEnd" => O(tasks[s].n)
        <4> HAVE tasks[s].key = "RoundEnd"
        <4>1. tasks[s].n \in Rounds /\ tasks[s].at = 0 BY <3>1 DEF TypeInv, TaskIds, Dispatch
        <4>2. round[tasks[s].n].status # "none" /\ played[tasks[s].n] + 0 >= RoundDuration
          BY <4>1 DEF ClockInv, EndTask
        <4>3. played[tasks[s].n] \in 0..RoundDuration BY <4>1 DEF TypeInv, TypeOK
        <4>4. Over(tasks[s].n) BY <4>2, <4>3, LifecycleConstants DEF Over
        <4> QED BY <1>3, <4>1, <4>4
      <3> QED BY <3>2, <3>3, <3>4, <3>5 DEF FrameClock, Over, O
    <2>3. CASE \A s \in Slots : ~Dispatch(p, s)
      <3>1. TasksStep(p) BY <2>3, TasksActs
      <3>2. proc'[p].t # 0 /\ tasks'[proc'[p].t].key = "RoundEnd" => O(tasks'[proc'[p].t].n)
        <4> SUFFICES ASSUME proc'[p].t # 0, tasks'[proc'[p].t].key = "RoundEnd" PROVE O(tasks'[proc'[p].t].n)
          OBVIOUS
        <4>1. proc'[p].t = proc[p].t /\ tasks'[proc[p].t] = tasks[proc[p].t] BY <3>1 DEF TasksStep
        <4>2. TaskIds(tasks[proc[p].t]) BY <4>1, OwnTask DEF TypeInv
        <4> QED BY <1>3, <2>1, <4>1, <4>2 DEF FrameClock, TaskIds
      <3>3. proc'[p].pc \in Ending => O(proc'[p].n)
        <4> HAVE proc'[p].pc \in Ending
        <4>1. Comes(p, proc'[p].pc) BY ActsCome
        <4>2. RoundEndGuard(p) \/ EndRoundRead(p) BY <2>3, <4>1 DEF Comes, Ending
        <4>3. proc'[p].n = proc[p].n
          BY <4>2, GotoGoes, EndsStop, IdleTyped DEF RoundEndGuard, EndRoundRead, Goes, Stops, Ending
        <4>4. proc[p].pc \in Ending BY <4>2 DEF RoundEndGuard, EndRoundRead, At, Ending
        <4> QED BY <1>3, <2>1, <4>3, <4>4 DEF FrameClock, FrameIds
      <3>4. proc'[p].pc = "sr_insert" => ev'.status # "Verified"
        <4> HAVE proc'[p].pc = "sr_insert"
        <4>1. StartRoundRead(p) BY ActsCome DEF Comes
        <4>2. ~Stops(p) /\ ~Goes(p, "deadline") BY IdleTyped DEF Stops, Goes
        <4>3. ev.status = "Running" BY <4>1, <4>2, AfterEnds DEF StartRoundRead
        <4> QED BY <4>1, <4>3 DEF StartRoundRead
      <3> QED BY <3>2, <3>3, <3>4 DEF FrameClock, Over, O
    <2> QED BY <2>2, <2>3
  <1> QED BY <1>4, <1>5

---------------------------------------------------------------------------
(* What a boot does to the tasks *)

BootAdds(x) ==
    \/ x.key = "HardeningEnd"
    \/ Gap /\ x = Row("RoundEnd", GapRound, 0, RoundDuration)
    \/ \E n \in Live : round[n].status = "active" /\ x = Row("RoundEnd", n, 0, round[n].endAt)
    \/ \E b \in Unfinished : x = Row("BatchDeadline", b[1], b[2], DeadlineOf(b))

\* Two rows that differ in their state only.
Alike(x, y) == x.key = y.key /\ x.n = y.n /\ x.k = y.k /\ x.at = y.at

LEMMA RequeuedAlike ==
  ASSUME NEW ts \in [Slots -> TaskRows], NEW s \in Slots
  PROVE  Alike(Requeued(ts)[s], ts[s])
  <1>1. ts[s] \in TaskRows OBVIOUS
  <1>2. CASE ts[s].st = "running"
    <2>1. ts[s] # Free BY <1>2 DEF Free
    <2>2. Requeued(ts)[s] = [ts[s] EXCEPT !.st = "pending"] BY <1>2 DEF Requeued
    <2> QED BY <1>1, <2>1, <2>2 DEF TaskRows, Alike
  <1>3. CASE ts[s].st # "running" BY <1>3 DEF Requeued, Alike
  <1> QED BY <1>2, <1>3

LEMMA BootRow ==
  ASSUME TypeInv, BootRecover \/ BootOnly, NEW s \in Slots
  PROVE  \E x \in TaskRows : Alike(tasks'[s], x) /\ (x = tasks[s] \/ (BootRecover /\ BootAdds(x)))
  <1>1. tasks \in [Slots -> TaskRows] BY DEF TypeInv, TypeOK
  <1>2. CASE BootOnly
    <2>1. Alike(tasks'[s], tasks[s]) BY <1>1, <1>2, RequeuedAlike DEF BootOnly
    <2> QED BY <1>1, <2>1
  <1>3. CASE BootRecover
    <2>1. PICK t2 \in BootRounds(BootHardening) : \E t3 \in BootDeadlines(t2) : tasks' = Requeued(t3) BY <1>3, BootSteps
    <2>2. PICK t3 \in BootDeadlines(t2) : tasks' = Requeued(t3) BY <2>1
    <2>3. BootHardening \in [Slots -> TaskRows] /\ t2 \in [Slots -> TaskRows] /\ t3 \in [Slots -> TaskRows]
      BY BootTasksTyped
    <2>4. BootHardening[s] = tasks[s] \/ BootAdds(BootHardening[s])
      <3>1. Row("HardeningEnd", 0, 0, ev.hardeningEndsAt).key = "HardeningEnd" BY DEF Row
      <3>2. CASE BootHardening = tasks BY <3>2
      <3>3. CASE BootHardening # tasks
        <4>1. BootHardening = Put(tasks, "HardeningEnd", 0, 0, ev.hardeningEndsAt) BY <3>3 DEF BootHardening
        <4> QED BY <1>1, <3>1, <4>1, PutEither DEF BootAdds
      <3> QED BY <3>2, <3>3
    <2>5. t2[s] = BootHardening[s] \/ BootAdds(t2[s])
      <3>1. CASE Gap
        <4>1. t2 = Put(BootHardening, "RoundEnd", GapRound, 0, RoundDuration) BY <3>1 DEF BootRounds
        <4> QED BY <2>3, <3>1, <4>1, PutEither DEF BootAdds
      <3>2. CASE ~Gap /\ Live = {} BY <3>2 DEF BootRounds
      <3>3. CASE ~Gap /\ Live # {}
        <4>1. PICK n \in Live : t2 = RestoredRoundEnd(BootHardening, n) BY <3>3 DEF BootRounds
        <4>2. CASE t2 = BootHardening BY <4>2
        <4>3. CASE t2 # BootHardening
          <5>1. round[n].status = "active" /\ t2 = Put(BootHardening, "RoundEnd", n, 0, round[n].endAt)
            BY <4>1, <4>3 DEF RestoredRoundEnd
          <5> QED BY <2>3, <5>1, PutEither DEF BootAdds
        <4> QED BY <4>2, <4>3
      <3> QED BY <3>1, <3>2, <3>3
    <2>6. t3[s] = t2[s] \/ BootAdds(t3[s])
      <3>1. CASE t3 = t2 BY <3>1
      <3>2. CASE t3 # t2
        <4>1. PICK b \in Unfinished : t3 = Put(t2, "BatchDeadline", b[1], b[2], DeadlineOf(b))
          BY <3>2 DEF BootDeadlines
        <4> QED BY <2>3, <4>1, PutEither DEF BootAdds
      <3> QED BY <3>1, <3>2
    <2>7. Alike(tasks'[s], t3[s]) BY <2>2, <2>3, RequeuedAlike
    <2>8. t3[s] \in TaskRows BY <2>3
    <2> QED BY <1>3, <2>4, <2>5, <2>6, <2>7, <2>8
  <1> QED BY <1>2, <1>3

\* A boot starts a round or finishes the event, never both.
LEMMA BootWrites ==
  ASSUME TypeInv, BootRecover
  PROVE  \/ /\ Gap /\ ev' = ev /\ GapRound \in Rounds /\ round[GapRound].status = "none"
            /\ round' = [round EXCEPT ![GapRound] = NewRound]
         \/ ~Gap /\ round' = round /\ ev' = ev
         \/ ~Gap /\ round' = round /\ FinalSettlement /\ AllTerminal /\ ev' = [ev EXCEPT !.status = "Finished"]
  <1>1. CASE Gap
    <2>1. GapRound \in Rounds BY <1>1 DEF Gap
    <2>2. CASE Existing = {} BY <1>1, <2>1, <2>2 DEF BootRecover, FinalSettlement, Existing
    <2>3. CASE Existing # {}
      <3>1. GapRound = Latest + 1 /\ Latest \in Existing /\ \A m \in Existing : m <= Latest
        BY <2>3, LatestIs DEF GapRound
      <3>2. Latest # RoundCount /\ GapRound \notin Existing
        BY <2>1, <3>1, LifecycleConstants DEF Existing, Rounds
      <3> QED BY <1>1, <2>1, <3>2 DEF BootRecover, FinalSettlement, Existing
    <2> QED BY <2>2, <2>3
  <1>2. CASE ~Gap BY <1>2 DEF BootRecover
  <1> QED BY <1>1, <1>2

LEMMA BootClock ==
  ASSUME TypeInv, OrderInv, ClockInv, BootRecover \/ BootOnly, used.pauses = 0
  PROVE  /\ ev'.status = "Finished" => \A n \in Rounds : round'[n].status = "completed"
         /\ (\A n \in Rounds : RoundClock(n))'
         /\ (\A s \in Slots : EndTask(tasks[s]))'
  <1>1. played' = played /\ Orderly BY DEF BootRecover, BootOnly, Orderly
  <1>2. Advances BY <1>1, OrderRest
  <1>3. \A n \in Rounds : RoundClock(n) BY DEF ClockInv
  <1>4. ev \in EventRows /\ NewRound.status = "active" /\ NewRound.endAt = RoundDuration
    BY DEF TypeInv, TypeOK, NewRound
  <1>5. CASE BootRecover /\ Gap
    <2>1. /\ ev' = ev /\ GapRound \in Rounds /\ round[GapRound].status = "none" /\ ev.status = "Running"
          /\ round' = [round EXCEPT ![GapRound] = NewRound]
      BY <1>5, BootWrites DEF Gap
    <2>2. \A n \in Rounds : round'[n] = IF n = GapRound THEN NewRound ELSE round[n] BY <2>1 DEF TypeInv, TypeOK
    <2>3. played[GapRound] = 0 /\ RoundDuration \in Nat BY <1>3, <2>1, LifecycleConstants DEF RoundClock
    <2>4. (\A n \in Rounds : RoundClock(n))' BY <1>1, <1>3, <1>4, <2>1, <2>2, <2>3 DEF RoundClock
    <2>5. Live = {} /\ round'[GapRound].status = "active" BY <1>4, <1>5, <2>1, <2>2 DEF Gap
    <2>6. ASSUME NEW s \in Slots PROVE EndTask(tasks[s])'
      <3>1. PICK x \in TaskRows : Alike(tasks'[s], x) /\ (x = tasks[s] \/ BootAdds(x)) BY <1>5, BootRow
      <3>2. CASE x = tasks[s]
        BY <1>1, <1>2, <3>1, <3>2 DEF ClockInv, EndTask, Alike, Advances, TypeInv, TaskIds
      <3>3. CASE x = Row("RoundEnd", GapRound, 0, RoundDuration)
        <4>1. x.n = GapRound /\ x.at = RoundDuration BY <3>3 DEF Row
        <4> QED BY <1>1, <2>3, <2>5, <3>1, <4>1 DEF EndTask, Alike
      <3>4. CASE x.key \in {"HardeningEnd", "BatchDeadline"} BY <3>1, <3>4 DEF EndTask, Alike
      <3> QED BY <2>5, <3>1, <3>2, <3>3, <3>4 DEF BootAdds, Row
    <2> QED BY <2>1, <2>4, <2>6
  <1>6. CASE ~(BootRecover /\ Gap)
    <2>1. round' = round BY <1>6, BootWrites DEF BootOnly
    <2>2. ev' = ev \/ (FinalSettlement /\ ev' = [ev EXCEPT !.status = "Finished"]) BY <1>6, BootWrites DEF BootOnly
    <2>3. FinalSettlement => \A n \in Rounds : round[n].status = "completed"
      BY <1>1, SettlementIsLast DEF OrderInv, InOrder
    <2>4. /\ ev'.status = ev.status \/ (ev'.status = "Finished" /\ FinalSettlement)
      BY <1>4, <2>2 DEF EventRows
    <2>5. (\A n \in Rounds : RoundClock(n))' BY <1>1, <1>3, <2>1, <2>3, <2>4 DEF RoundClock
    <2>6. ev'.status = "Finished" => \A n \in Rounds : round'[n].status = "completed"
      BY <2>1, <2>3, <2>4 DEF ClockInv
    <2>7. ASSUME NEW s \in Slots PROVE EndTask(tasks[s])'
      <3>1. PICK x \in TaskRows : Alike(tasks'[s], x) /\ (x = tasks[s] \/ (BootRecover /\ BootAdds(x))) BY <1>6, BootRow
      <3>2. CASE x = tasks[s] BY <1>1, <2>1, <3>1, <3>2 DEF ClockInv, EndTask, Alike
      <3>3. CASE \E n \in Live : round[n].status = "active" /\ x = Row("RoundEnd", n, 0, round[n].endAt)
        <4>1. PICK n \in Live : round[n].status = "active" /\ x = Row("RoundEnd", n, 0, round[n].endAt) BY <3>3
        <4>2. x.n = n /\ x.at = round[n].endAt /\ n \in Rounds BY <4>1 DEF Row, Live
        <4>3. played[n] + round[n].endAt = RoundDuration BY <1>3, <4>1, <4>2 DEF RoundClock
        <4> QED BY <1>1, <2>1, <3>1, <4>1, <4>2, <4>3, LifecycleConstants DEF EndTask, Alike
      <3>4. CASE x.key \in {"HardeningEnd", "BatchDeadline"} BY <3>1, <3>4 DEF EndTask, Alike
      <3> QED BY <1>6, <3>1, <3>2, <3>3, <3>4 DEF BootAdds, Row
    <2> QED BY <2>5, <2>6, <2>7
  <1> QED BY <1>5, <1>6

LEMMA TickClock ==
  ASSUME TypeInv, OrderInv, ClockInv, Tick, used.pauses = 0
  PROVE  /\ (\A n \in Rounds : RoundClock(n))'
         /\ (\A s \in Slots : EndTask(tasks[s]))'
  <1>1. ev'.status = ev.status BY DEF Tick, TypeInv, TypeOK, EventRows
  <1>2. ASSUME NEW n \in Rounds
        PROVE  /\ round'[n].status = round[n].status /\ round'[n].endAt = Left(round[n].endAt)
               /\ round[n].endAt \in Nat /\ played[n] \in 0..RoundDuration
               /\ played'[n] = IF ev.status = "Running" /\ round[n].status = "active" /\ played[n] < RoundDuration
                               THEN played[n] + 1 ELSE played[n]
    BY <1>2 DEF Tick, TypeInv, TypeOK, RoundRows
  <1>3. ASSUME NEW n \in Rounds PROVE RoundClock(n)'
    BY <1>1, <1>2, LifecycleConstants DEF ClockInv, RoundClock, Left
  <1>4. ASSUME NEW s \in Slots PROVE EndTask(tasks[s])'
    <2>1. tasks[s] \in TaskRows /\ TaskIds(tasks[s]) /\ EndTask(tasks[s]) BY DEF TypeInv, TypeOK, ClockInv
    <2>2. CASE tasks[s] = Free
      <3>1. tasks'[s].key = "free" BY <2>2 DEF Tick, Free
      <3> QED BY <3>1 DEF EndTask
    <2>3. CASE tasks[s] # Free
      <3>1. /\ tasks'[s].key = tasks[s].key /\ tasks'[s].n = tasks[s].n /\ tasks'[s].at = Left(tasks[s].at)
            /\ tasks[s].at \in Nat
        BY <2>1, <2>3 DEF Tick, TaskRows
      <3> DEFINE n == tasks[s].n
      <3>2. CASE tasks[s].key = "RoundEnd"
        <4>1. n \in Rounds /\ round[n].status # "none" /\ played[n] + tasks[s].at >= RoundDuration
          BY <2>1, <3>2 DEF TaskIds, EndTask
        <4>2. RoundClock(n) /\ round[n].status # "paused" /\ round[n] \in RoundRows
          BY <4>1 DEF ClockInv, OrderInv, Unpaused, TypeInv, TypeOK
        <4>3. CASE round[n].status = "completed"
          <5>1. played[n] = RoundDuration BY <4>2, <4>3 DEF RoundClock
          <5> QED BY <1>2, <3>1, <4>1, <5>1, LifecycleConstants DEF EndTask, Left
        <4>4. CASE round[n].status = "active"
          <5>1. ev.status = "Running" BY <4>2, <4>4 DEF RoundClock
          <5> QED BY <1>2, <3>1, <4>1, <4>4, <5>1, LifecycleConstants DEF EndTask, Left
        <4> QED BY <4>1, <4>2, <4>3, <4>4 DEF RoundRows
      <3>3. CASE tasks[s].key # "RoundEnd" BY <3>1, <3>3 DEF EndTask
      <3> QED BY <3>2, <3>3
    <2> QED BY <2>2, <2>3
  <1> QED BY <1>3, <1>4

\* A handler that is idle knows nothing.
LEMMA IdleClock ==
  ASSUME \A q \in Procs : proc'[q] = Idle
  PROVE  (\A q \in Procs : FrameClock(proc[q]))'
  BY IdleTyped DEF FrameClock, Ending

LEMMA ClockStep == TypeInv /\ OrderInv /\ ClockInv /\ [Next]_vars => ClockInv'
  <1> SUFFICES ASSUME TypeInv, OrderInv, ClockInv, [Next]_vars, used'.pauses = 0 PROVE ClockInv'
    BY DEF ClockInv
  <1>1. used.pauses = 0
    <2>1. used.pauses <= used'.pauses /\ used.pauses \in Nat BY UsedGrows, UsedTyped
    <2> QED BY <2>1
  <1>2. ASSUME NEW p \in Procs, Acts(p) PROVE ClockInv'
    <2>1. Advances /\ StartsInTurn BY <1>1, <1>2, OrderActs DEF Orderly
    <2>2. ev'.status = "Finished" => \A n \in Rounds : round'[n].status = "completed"
      BY <1>1, <1>2, <2>1, StatusActs DEF ClockInv, Advances
    <2> QED BY <1>1, <1>2, <2>2, RoundsActs, EndTaskActs, FrameClockActs DEF ClockInv
  <1>3. ASSUME NEW s \in Slots, Fetch(s) PROVE ClockInv'
    <2>1. UNCHANGED <<ev, round, proc, played>> BY <1>3 DEF Fetch
    <2>2. \A r \in Slots : tasks'[r].key = tasks[r].key /\ tasks'[r].n = tasks[r].n /\ tasks'[r].at = tasks[r].at
      <3>1. tasks[s] \in TaskRows /\ tasks[s] # Free BY <1>3 DEF TypeInv, TypeOK, Fetch, Free
      <3>2. tasks' = [tasks EXCEPT ![s] = [tasks[s] EXCEPT !.st = "running"]] BY <1>3 DEF Fetch
      <3> QED BY <3>1, <3>2 DEF TypeInv, TypeOK, TaskRows
    <2>3. (\A r \in Slots : EndTask(tasks[r]))' BY <1>1, <2>1, <2>2 DEF ClockInv, EndTask
    <2>4. (\A q \in Procs : FrameClock(proc[q]))'
      BY <1>1, <2>1, <2>2, OwnTask DEF ClockInv, FrameClock, Over
    <2>5. (\A n \in Rounds : RoundClock(n))' BY <1>1, <2>1 DEF ClockInv, RoundClock
    <2> QED BY <1>1, <2>1, <2>3, <2>4, <2>5 DEF ClockInv
  <1>4. CASE Crash
    <2>1. UNCHANGED <<ev, round, tasks, played>> /\ \A q \in Procs : proc'[q] = Idle BY <1>4 DEF Crash
    <2>2. (\A n \in Rounds : RoundClock(n))' BY <1>1, <2>1 DEF ClockInv, RoundClock
    <2>3. (\A s \in Slots : EndTask(tasks[s]))' BY <1>1, <2>1 DEF ClockInv, EndTask
    <2> QED BY <1>1, <2>1, <2>2, <2>3, IdleClock DEF ClockInv
  <1>5. CASE BootRecover \/ BootOnly
    <2>1. \A q \in Procs : proc'[q] = Idle BY <1>5 DEF BootRecover, BootOnly, TypeInv
    <2> QED BY <1>1, <1>5, <2>1, BootClock, IdleClock DEF ClockInv
  <1>6. CASE Tick
    <2>1. \A q \in Procs : proc'[q] = Idle BY <1>6 DEF Tick
    <2>2. ev'.status = ev.status /\ \A n \in Rounds : round'[n].status = round[n].status
      BY <1>6 DEF Tick, TypeInv, TypeOK, EventRows, RoundRows
    <2> QED BY <1>1, <1>6, <2>1, <2>2, TickClock, IdleClock DEF ClockInv
  <1>7. CASE UNCHANGED vars
    <2>1. UNCHANGED <<ev, round, tasks, proc, played>> BY <1>7 DEF vars
    <2>2. (\A n \in Rounds : RoundClock(n))' BY <1>1, <2>1 DEF ClockInv, RoundClock
    <2>3. (\A s \in Slots : EndTask(tasks[s]))' BY <1>1, <2>1 DEF ClockInv, EndTask
    <2>4. (\A q \in Procs : FrameClock(proc[q]))' BY <1>1, <2>1 DEF ClockInv, FrameClock, Over
    <2> QED BY <1>1, <2>1, <2>2, <2>3, <2>4 DEF ClockInv
  <1> QED BY <1>2, <1>3, <1>4, <1>5, <1>6, <1>7 DEF Next, Acts

LEMMA InitClock == Init => ClockInv
  <1> SUFFICES ASSUME Init PROVE ClockInv OBVIOUS
  <1>1. /\ \A n \in Rounds : round[n].status = "none" /\ played[n] = 0
        /\ \A s \in Slots : tasks[s].key = "free"
        /\ \A q \in Procs : proc[q].pc = "idle" /\ proc[q].t = 0
        /\ ev.status = "Verified"
    BY IdleTyped DEF Init, NoRound, Free
  <1> QED BY <1>1 DEF ClockInv, RoundClock, EndTask, FrameClock, Ending

---------------------------------------------------------------------------
(* Layer 4: judge batches *)

\* Which batches there are; a batch never goes away.
BatchStep(p) ==
    /\ \A n \in Rounds, k \in Copies : Made(n, k) => batch'[n][k].st # "none"
    /\ \A n \in Rounds, k \in Copies : batch'[n][k].st = "none" => batch'[n][k] = NoBatch
    /\ CreateBatch(p) \/ \A n \in Rounds, k \in Copies : batch'[n][k].st # "none" => Made(n, k)

\* One batch is written, and it is there already.
LEMMA WriteBatch ==
  ASSUME TypeInv, BatchInv, NEW p \in Procs, NEW n \in Rounds, NEW k \in Copies, NEW y, Made(n, k), y.st # "none",
         \A m \in Rounds, j \in Copies : batch'[m][j] = IF m = n /\ j = k THEN y ELSE batch[m][j]
  PROVE  BatchStep(p)
  BY DEF BatchStep, BatchInv, Made

NewBatch == [NoBatch EXCEPT !.st = "running", !.deadline = JudgeGrace]

LEMMA CreateBatchIs ==
  ASSUME TypeInv, NEW p \in Procs, CreateBatch(p)
  PROVE  /\ proc[p].n \in Rounds /\ proc'[p].n = proc[p].n /\ proc'[p].op = proc[p].op
         /\ proc'[p].pc = "mk_task" /\ proc[p].pc = "mk_batch"
         /\ \E k \in Copies :
               /\ proc'[p].k = k /\ batch[proc[p].n][k] = NoBatch
               /\ \A m \in Rounds, j \in Copies :
                     batch'[m][j] = IF m = proc[p].n /\ j = k THEN NewBatch ELSE batch[m][j]
  <1> DEFINE n == proc[p].n
  <1>1. n \in Rounds /\ proc[p] \in Frames /\ proc[p].pc = "mk_batch"
    BY OwnFrame DEF CreateBatch, At, FrameIds, Making
  <1>2. PICK k \in Copies :
           /\ batch[n][k] = NoBatch
           /\ batch' = [batch EXCEPT ![n][k] = NewBatch]
           /\ proc' = [proc EXCEPT ![p].pc = "mk_task", ![p].k = k, ![p].todo = Boxes]
    BY DEF CreateBatch, NewBatch
  <1> DEFINE x == [proc[p] EXCEPT !.pc = "mk_task", !.k = k, !.todo = Boxes]
  <1>3. proc' = [proc EXCEPT ![p] = x] BY <1>2
  <1>4. proc'[p] = x BY <1>3, FrameIs
  <1>5. x.pc = "mk_task" /\ x.k = k /\ x.n = n /\ x.op = proc[p].op BY <1>1 DEF Frames
  <1>6. \A m \in Rounds, j \in Copies : batch'[m][j] = IF m = n /\ j = k THEN NewBatch ELSE batch[m][j]
    BY <1>1, <1>2 DEF TypeInv, TypeOK
  <1>7. batch[n][k] = NoBatch BY <1>2
  <1> HIDE DEF x
  <1> QED BY <1>1, <1>4, <1>5, <1>6, <1>7

LEMMA CreateTaskIs ==
  ASSUME TypeInv, NEW p \in Procs, NEW b \in Boxes, NEW kind \in {"pending", "skipped", "banned"},
         CreateTask(p, b, kind)
  PROVE  /\ proc[p].n \in Rounds /\ proc[p].k \in Copies /\ proc[p].pc = "mk_task"
         /\ proc'[p].pc = "mk_task" /\ proc'[p].n = proc[p].n /\ proc'[p].k = proc[p].k /\ proc'[p].op = proc[p].op
         /\ \A m \in Rounds, j \in Copies :
               batch'[m][j].st = batch[m][j].st /\ ((m # proc[p].n \/ j # proc[p].k) => batch'[m][j] = batch[m][j])
  <1> DEFINE n == proc[p].n
  <1> DEFINE k == proc[p].k
  <1>1. n \in Rounds /\ k \in Copies /\ proc[p] \in Frames /\ proc[p].pc = "mk_task"
    BY OwnFrame DEF CreateTask, At, FrameIds, HasBatch
  <1> DEFINE x == [proc[p] EXCEPT !.todo = @ \ {b}]
  <1>2. proc' = [proc EXCEPT ![p] = x] BY DEF CreateTask
  <1>3. proc'[p] = x BY <1>2, FrameIs
  <1>4. x.pc = "mk_task" /\ x.n = n /\ x.k = k /\ x.op = proc[p].op BY <1>1 DEF Frames
  <1>5. batch[n][k] \in BatchRows BY <1>1, BatchRow
  <1> DEFINE ma == IF kind = "banned" THEN batch[n][k].made ELSE batch[n][k].made \cup {b}
  <1> DEFINE op == IF kind = "pending" THEN batch[n][k].open \cup {b} ELSE batch[n][k].open
  <1> DEFINE y == [batch[n][k] EXCEPT !.made = ma, !.open = op]
  <1>6. batch' = [batch EXCEPT ![n] = [batch[n] EXCEPT ![k] = y]]
    BY ZenonT(60), <1>1, <1>5 DEF CreateTask, TypeInv, TypeOK, BatchRows
  <1> HIDE DEF ma, op
  <1>7. y.st = batch[n][k].st BY <1>5 DEF BatchRows
  <1> HIDE DEF y
  <1>8. \A m \in Rounds, j \in Copies : batch'[m][j] = IF m = n /\ j = k THEN y ELSE batch[m][j]
    BY <1>1, <1>6 DEF TypeInv, TypeOK
  <1> QED BY <1>1, <1>3, <1>4, <1>7, <1>8

LEMMA JudgeIs ==
  ASSUME TypeInv, NEW p \in Procs, NEW n \in Rounds, NEW k \in Copies, NEW b \in Boxes, JudgeTerminal(p, n, k, b)
  PROVE  /\ proc'[p].pc = "mf_read" /\ proc'[p].op = "judge"
         /\ \A m \in Rounds, j \in Copies : /\ batch'[m][j].st = batch[m][j].st
                                            /\ batch'[m][j].open \subseteq batch[m][j].open
                                            /\ (m # n \/ j # k) => batch'[m][j] = batch[m][j]
         /\ batch[n][k].open # {}
  <1>1. proc'[p] = Call("judge", "mf_read") BY FrameIs DEF JudgeTerminal
  <1>2. batch[n][k] \in BatchRows BY BatchRow
  <1> DEFINE y == [batch[n][k] EXCEPT !.open = @ \ {b}]
  <1>3. batch' = [batch EXCEPT ![n] = [batch[n] EXCEPT ![k] = y]] BY DEF JudgeTerminal, TypeInv, TypeOK
  <1>4. y.st = batch[n][k].st /\ y.open \subseteq batch[n][k].open BY <1>2 DEF BatchRows
  <1> HIDE DEF y
  <1>5. \A m \in Rounds, j \in Copies : batch'[m][j] = IF m = n /\ j = k THEN y ELSE batch[m][j]
    BY <1>3 DEF TypeInv, TypeOK
  <1> QED BY <1>1, <1>4, <1>5, CallIs DEF JudgeTerminal, Ops, PCs

LEMMA BatchDeadlineIs ==
  ASSUME TypeInv, NEW p \in Procs, BatchDeadline(p)
  PROVE  /\ proc[p].n \in Rounds /\ proc[p].k \in Copies /\ proc[p].pc = "bd_term" /\ Goes(p, "mf_read")
         /\ LET n == proc[p].n
                k == proc[p].k
            IN  /\ batch'[n][k].st \in {batch[n][k].st, "completed"}
                /\ batch'[n][k].open \subseteq batch[n][k].open
                /\ \A m \in Rounds, j \in Copies : (m # n \/ j # k) => batch'[m][j] = batch[m][j]
  <1> DEFINE n == proc[p].n
  <1> DEFINE k == proc[p].k
  <1>1. n \in Rounds /\ k \in Copies /\ proc[p].pc = "bd_term"
    BY OwnFrame DEF BatchDeadline, At, FrameIds, HasBatch
  <1>2. batch[n][k] \in BatchRows BY <1>1, BatchRow
  <1> DEFINE left == IF batch[n][k].deadline = 0 THEN {} ELSE batch[n][k].open
  <1> DEFINE st == IF left = {} THEN "completed" ELSE batch[n][k].st
  <1> DEFINE y == [batch[n][k] EXCEPT !.open = left, !.st = st]
  <1>3. batch' = [batch EXCEPT ![n] = [batch[n] EXCEPT ![k] = y]]
    BY ZenonT(60), <1>1, <1>2 DEF BatchDeadline, TypeInv, TypeOK, BatchRows
  <1>4. left \subseteq batch[n][k].open /\ st \in {batch[n][k].st, "completed"} OBVIOUS
  <1> HIDE DEF left, st
  <1>5. y.st = st /\ y.open = left BY <1>2 DEF BatchRows
  <1> HIDE DEF y
  <1>6. \A m \in Rounds, j \in Copies : batch'[m][j] = IF m = n /\ j = k THEN y ELSE batch[m][j]
    BY <1>1, <1>3 DEF TypeInv, TypeOK
  <1>7. Goes(p, "mf_read") BY GotoGoes DEF BatchDeadline
  <1> QED BY <1>1, <1>4, <1>5, <1>6, <1>7

LEMMA BatchActs ==
  ASSUME TypeInv, BatchInv, NEW p \in Procs, Acts(p)
  PROVE  BatchStep(p)
  <1>1. CASE batch' = batch BY <1>1 DEF BatchStep, BatchInv, Made
  <1>2. CASE CreateBatch(p)
    <2>1. NewBatch.st = "running" BY DEF NoBatch, NewBatch
    <2>2. PICK n, k : \A m \in Rounds, j \in Copies : batch'[m][j] = IF m = n /\ j = k THEN NewBatch ELSE batch[m][j]
      BY <1>2, CreateBatchIs
    <2> QED BY <1>2, <2>1, <2>2 DEF BatchStep, BatchInv, Made
  <1>3. CASE \E b \in Boxes, kind \in {"pending", "skipped", "banned"} : CreateTask(p, b, kind)
    <2>1. PICK b \in Boxes, kind \in {"pending", "skipped", "banned"} : CreateTask(p, b, kind) BY <1>3
    <2>2. HasBatch(proc[p]) BY <2>1, CreateTaskIs DEF HasBatch
    <2> QED BY <2>1, <2>2, CreateTaskIs DEF BatchStep, BatchInv, Made
  <1>4. CASE \E n \in Rounds, k \in Copies, b \in Boxes : JudgeTerminal(p, n, k, b)
    <2>1. PICK n \in Rounds, k \in Copies, b \in Boxes : JudgeTerminal(p, n, k, b) BY <1>4
    <2>2. NoBatch.open = {} BY DEF NoBatch
    <2> QED BY <2>1, <2>2, JudgeIs DEF BatchStep, BatchInv, Made
  <1>5. CASE BatchDeadline(p)
    <2>1. HasBatch(proc[p]) BY <1>5, BatchDeadlineIs DEF HasBatch
    <2> QED BY <1>5, <2>1, BatchDeadlineIs DEF BatchStep, BatchInv, Made
  <1> QED BY <1>1, <1>2, <1>3, <1>4, <1>5, ActsWrite DEF Writes

\* A handler that has a batch had it before, has just made it, or comes for its deadline.
LEMMA HasBatchActs ==
  ASSUME TypeInv, NEW p \in Procs, Acts(p), HasBatch(proc'[p])
  PROVE  \/ HasBatch(proc[p]) /\ proc'[p].n = proc[p].n /\ proc'[p].k = proc[p].k
         \/ CreateBatch(p)
         \/ \E s \in Slots : Dispatch(p, s) /\ tasks[s].key = "BatchDeadline"
  <1> DEFINE Q == HasBatch(proc[p]) /\ proc'[p].n = proc[p].n /\ proc'[p].k = proc[p].k
  <1>1. Comes(p, proc'[p].pc) BY ActsCome
  <1>2. proc[p] \in Frames /\ FrameIds(proc[p]) BY OwnFrame
  <1>3. CASE proc'[p].pc = "mk_task"
    BY <1>1, <1>3, CreateTaskIs DEF Comes, HasBatch
  <1>4. CASE proc'[p].pc = "deadline"
    BY <1>1, <1>4 DEF Comes, HasBatch, Goes, StartRoundRead, StartRoundInsert, StartRoundClash, MaybeFinishRead,
       MaybeFinishCas, At, Starting, Closing
  <1>5. CASE proc'[p].pc = "bd_term"
    <2>1. PICK s \in Slots : Dispatch(p, s) BY <1>1, <1>5 DEF Comes
    <2>2. tasks[s].key = "BatchDeadline" BY <1>5, <2>1, DispatchIs DEF Keys
    <2> QED BY <2>1, <2>2
  <1>6. CASE proc'[p].pc = "sr_insert" /\ proc'[p].op = "RoundEnd"
    <2>1. StartRoundRead(p) BY <1>1, <1>6 DEF Comes
    <2>2. Goes(p, "sr_insert")
      <3>1. Goes(p, "sr_insert") \/ Goes(p, "deadline") \/ Stops(p)
        BY <2>1, AfterEnds, GotoGoes DEF StartRoundRead
      <3> QED BY <1>6, <3>1, IdleTyped DEF Goes, Stops
    <2> QED BY <1>6, <2>1, <2>2 DEF StartRoundRead, At, HasBatch, Goes, Starting
  <1>7. CASE proc'[p].pc = "sr_read" /\ proc'[p].op = "RoundEnd"
    <2>1. CASE StartEvent(p) BY <1>7, <2>1, StartEventIs
    <2>2. CASE HardeningEndPhase(p)
      <3>1. proc'[p].op = proc[p].op BY <2>2 DEF HardeningEndPhase, TypeInv, TypeOK, Frames
      <3> QED BY <1>2, <1>7, <2>2, <3>1 DEF HardeningEndPhase, At, FrameIds
    <2>3. CASE CreateBatchDone(p) BY <2>3, CreateBatchDoneIs DEF CreateBatchDone, At, HasBatch
    <2>4. CASE ResumeRestore(p)
      <3>1. proc'[p].op = proc[p].op BY <1>7, <2>4, ResumeRestoreIs, IdleTyped DEF Stops
      <3> QED BY <1>2, <1>7, <2>4, <3>1 DEF ResumeRestore, At, FrameIds, Resumes
    <2> QED BY <1>1, <1>7, <2>1, <2>2, <2>3, <2>4 DEF Comes
  <1>8. CASE proc'[p].pc = "mf_read" /\ proc'[p].op = "RoundEnd"
    <2>1. CASE CreateBatchDone(p) BY <2>1, CreateBatchDoneIs DEF CreateBatchDone, At, HasBatch
    <2>2. CASE BatchDeadline(p) BY <2>2, BatchDeadlineIs DEF HasBatch, Goes
    <2>3. CASE FinishEvent(p)
      <3>1. proc'[p] = Call("finish", "mf_read") BY <2>3, FrameIs DEF FinishEvent
      <3> QED BY <1>8, <3>1, CallIs DEF Ops, PCs
    <2>4. CASE \E n \in Rounds, k \in Copies, b \in Boxes : JudgeTerminal(p, n, k, b) BY <1>8, <2>4, JudgeIs
    <2> QED BY <1>1, <1>8, <2>1, <2>2, <2>3, <2>4 DEF Comes
  <1>9. CASE proc'[p].pc = "mf_cas" /\ proc'[p].op = "RoundEnd"
    <2>1. MaybeFinishRead(p) BY <1>1, <1>9 DEF Comes
    <2>2. Goes(p, "mf_cas")
      <3>1. Goes(p, "mf_cas") \/ Goes(p, "deadline") \/ Stops(p)
        BY <2>1, AfterEnds, GotoGoes DEF MaybeFinishRead
      <3> QED BY <1>9, <3>1, IdleTyped DEF Goes, Stops
    <2> QED BY <1>9, <2>1, <2>2 DEF MaybeFinishRead, At, HasBatch, Goes, Closing
  <1> QED BY <1>3, <1>4, <1>5, <1>6, <1>7, <1>8, <1>9 DEF HasBatch, Starting, Closing

\* What holds of batches however handlers overlap.
Batches ==
    /\ \A n \in Rounds, k \in Copies : ~Made(n, k) => batch[n][k] = NoBatch
    /\ \A s \in Slots : tasks[s].key = "BatchDeadline" => Made(tasks[s].n, tasks[s].k)
    /\ \A p \in Procs : HasBatch(proc[p]) => Made(proc[p].n, proc[p].k)

LEMMA BatchesActs ==
  ASSUME TypeInv, BatchInv, NEW p \in Procs, Acts(p)
  PROVE  Batches'
  <1>1. BatchStep(p) BY BatchActs
  <1> DEFINE M(n, k) == batch'[n][k].st # "none"
  <1>2. \A n \in Rounds, k \in Copies : Made(n, k) => M(n, k) BY <1>1 DEF BatchStep
  <1>3. (\A n \in Rounds, k \in Copies : ~Made(n, k) => batch[n][k] = NoBatch)' BY <1>1 DEF BatchStep, Made
  <1> HIDE DEF M
  <1>4. ASSUME NEW s \in Slots, tasks'[s].key = "BatchDeadline" PROVE M(tasks'[s].n, tasks'[s].k)
    <2>1. tasks[s] \in TaskRows /\ TaskIds(tasks[s]) BY DEF TypeInv, TypeOK
    <2>2. CASE tasks'[s] = tasks[s] BY <1>2, <1>4, <2>1, <2>2 DEF BatchInv, TaskIds
    <2>3. CASE tasks'[s] = Free BY <1>4, <2>3 DEF Free
    <2>4. CASE s = proc[p].t /\ tasks'[s] = Retried(tasks[s])
      <3>1. s # 0 BY LifecycleConstants
      <3>2. tasks[s] # Free BY <2>4, <3>1, OwnTask DEF Free
      <3>3. tasks'[s] = Free \/ (tasks'[s].key = tasks[s].key /\ tasks'[s].n = tasks[s].n /\ tasks'[s].k = tasks[s].k)
        BY <2>1, <2>4, <3>2 DEF Retried, TaskRows
      <3> QED BY <1>2, <1>4, <2>1, <2>3, <3>3 DEF BatchInv, TaskIds
    <2>5. CASE Adds(p, tasks'[s])
      <3>1. ScheduleDeadline(p) /\ tasks'[s].n = proc[p].n /\ tasks'[s].k = proc[p].k
        BY <1>4, <2>5, RowIs DEF Adds
      <3>2. HasBatch(proc[p]) /\ FrameIds(proc[p]) BY <3>1, OwnFrame DEF ScheduleDeadline, At, HasBatch
      <3> QED BY <1>2, <3>1, <3>2 DEF BatchInv, FrameIds
    <2>6. CASE \E r \in Slots : Dispatch(p, r) BY <2>2, <2>6 DEF Dispatch
    <2> QED BY <2>2, <2>3, <2>4, <2>5, <2>6, TasksActs DEF TasksStep, TaskStep
  <1>5. ASSUME NEW q \in Procs, HasBatch(proc'[q]) PROVE M(proc'[q].n, proc'[q].k)
    <2>1. CASE q # p
      <3>1. proc'[q] = proc[q] BY <2>1, OneActs
      <3>2. FrameIds(proc[q]) BY OwnFrame
      <3> QED BY <1>2, <1>5, <3>1, <3>2 DEF BatchInv, FrameIds
    <2>2. CASE q = p
      <3>1. CASE HasBatch(proc[p]) /\ proc'[p].n = proc[p].n /\ proc'[p].k = proc[p].k
        BY <1>2, <2>2, <3>1, OwnFrame DEF BatchInv, FrameIds
      <3>2. CASE CreateBatch(p)
        <4>1. NewBatch.st = "running" BY DEF NoBatch, NewBatch
        <4> QED BY <2>2, <3>2, <4>1, CreateBatchIs DEF M
      <3>3. ASSUME NEW s \in Slots, Dispatch(p, s), tasks[s].key = "BatchDeadline" PROVE M(proc'[p].n, proc'[p].k)
        <4>1. proc'[p].n = tasks[s].n /\ proc'[p].k = tasks[s].k BY <3>3, DispatchIs
        <4> QED BY <1>2, <3>3, <4>1 DEF BatchInv, TypeInv, TaskIds
      <3> QED BY <1>5, <2>2, <3>1, <3>2, <3>3, HasBatchActs
    <2> QED BY <2>1, <2>2
  <1> QED BY <1>3, <1>4, <1>5 DEF Batches, Made, M

LEMMA SerialBatchActs ==
  ASSUME TypeInv, OrderInv, BatchInv, Serial, NEW p \in Procs, Acts(p)
  PROVE  /\ \A n \in Rounds, j, k \in Copies : batch'[n][j].st # "none" /\ batch'[n][k].st # "none" => j = k
         /\ \A n \in Rounds : round'[n].status # "completed" => \A k \in Copies : batch'[n][k].st = "none"
         /\ (\A q \in Procs : FrameBatch(proc[q]))'
  <1> DEFINE m == proc[p].n
  <1>1. BatchStep(p) BY BatchActs
  <1>2. Advances /\ InOrder BY OrderActs DEF Orderly, OrderInv
  <1>3. FrameOrder(proc[p]) /\ FrameBatch(proc[p]) /\ FrameIds(proc[p]) BY <1>2, OwnFrame DEF InOrder, BatchInv
  <1> DEFINE Unique == \A n \in Rounds, j, k \in Copies : batch'[n][j].st # "none" /\ batch'[n][k].st # "none" => j = k
  <1> DEFINE Late == \A n \in Rounds : round'[n].status # "completed" => \A k \in Copies : batch'[n][k].st = "none"
  <1>4. /\ \A n \in Rounds, j, k \in Copies : Made(n, j) /\ Made(n, k) => j = k
        /\ \A n \in Rounds : round[n].status # "completed" => \A k \in Copies : ~Made(n, k)
    BY DEF BatchInv
  <1>5. ASSUME CreateBatch(p) PROVE Unique /\ Late
    <2>1. m \in Rounds /\ round[m].status = "completed" /\ \A k \in Copies : ~Made(m, k)
      BY <1>3, <1>5, CreateBatchIs DEF FrameOrder, FrameBatch, Making
    <2>2. PICK c \in Copies : \A n \in Rounds, j \in Copies : batch'[n][j] = IF n = m /\ j = c THEN NewBatch ELSE batch[n][j]
      BY <1>5, CreateBatchIs
    <2>3. round' = round BY <1>5 DEF CreateBatch
    <2>4. Unique BY <1>4, <2>1, <2>2 DEF Made
    <2>5. Late BY <1>4, <2>1, <2>2, <2>3 DEF Made
    <2> QED BY <2>4, <2>5
  <1>6. ASSUME \A n \in Rounds, k \in Copies : batch'[n][k].st # "none" => Made(n, k) PROVE Unique /\ Late
    <2>1. Unique BY <1>4, <1>6
    <2>2. Late BY <1>4, <1>2, <1>6 DEF Advances
    <2> QED BY <2>1, <2>2
  <1>7. ASSUME NEW q \in Procs PROVE FrameBatch(proc[q])'
    <2>1. CASE q # p
      <3>1. proc'[q] = Idle BY <2>1, OneActs, OthersIdle DEF OrderInv
      <3> QED BY <3>1, IdleTyped DEF FrameBatch
    <2>2. CASE q = p
      <3>1. CASE proc'[p].pc = "re_write"
        <4>1. EndRoundRead(p) BY <3>1, ActsCome DEF Comes
        <4>2. round[m].status = "active" /\ Goes(p, "re_write") /\ round' = round
          BY <3>1, <4>1, GotoGoes, EndsStop, IdleTyped DEF EndRoundRead, Stops
        <4> QED BY <2>2, <3>1, <4>2 DEF FrameBatch, Goes
      <3>2. CASE proc'[p].pc = "mk_batch"
        <4>1. EndRoundWrite(p) BY <3>2, ActsCome DEF Comes
        <4>2. Goes(p, "mk_batch") /\ batch' = batch BY <4>1, GotoGoes DEF EndRoundWrite
        <4>3. m \in Rounds /\ round[m].status = "active" BY <1>3, <4>1 DEF EndRoundWrite, At, FrameBatch, FrameIds, Ending
        <4>4. \A k \in Copies : ~Made(m, k) BY <4>3 DEF BatchInv
        <4> QED BY <2>2, <3>2, <4>2, <4>4 DEF FrameBatch, Goes, Made
      <3>3. CASE proc'[p].pc \notin {"re_write", "mk_batch"} BY <2>2, <3>3 DEF FrameBatch
      <3> QED BY <3>1, <3>2, <3>3
    <2> QED BY <2>1, <2>2
  <1> QED BY <1>1, <1>5, <1>6, <1>7 DEF BatchStep

\* When no handler acts, the batches stay and each deadline task has one.
LEMMA BatchKept ==
  ASSUME TypeInv, OrderInv, BatchInv, Serial => Advances, used'.of = used.of,
         \A n \in Rounds, k \in Copies : /\ batch'[n][k].st = batch[n][k].st
                                         /\ batch[n][k] = NoBatch => batch'[n][k] = NoBatch,
         \A s \in Slots : tasks'[s].key = "BatchDeadline" =>
            tasks'[s].n \in Rounds /\ tasks'[s].k \in Copies /\ Made(tasks'[s].n, tasks'[s].k),
         (\A q \in Procs : proc'[q] = Idle) \/ UNCHANGED <<proc, round>>
  PROVE  BatchInv'
  <1> DEFINE M(n, k) == batch'[n][k].st # "none"
  <1>1. \A n \in Rounds, k \in Copies : M(n, k) <=> Made(n, k) BY DEF Made
  <1>2. \A n \in Rounds, k \in Copies : ~M(n, k) => batch'[n][k] = NoBatch BY DEF BatchInv, Made
  <1> HIDE DEF M
  <1>3. \A s \in Slots : tasks'[s].key = "BatchDeadline" => M(tasks'[s].n, tasks'[s].k) BY <1>1
  <1>4. \A q \in Procs : HasBatch(proc'[q]) => M(proc'[q].n, proc'[q].k)
    <2>1. CASE \A q \in Procs : proc'[q] = Idle BY <2>1, IdleTyped DEF HasBatch, Starting, Closing
    <2>2. CASE proc' = proc BY <1>1, <2>2, OwnFrame DEF BatchInv, FrameIds
    <2> QED BY <2>1, <2>2
  <1>5. ASSUME Serial'
        PROVE  /\ \A n \in Rounds, j, k \in Copies : M(n, j) /\ M(n, k) => j = k
               /\ \A n \in Rounds : round'[n].status # "completed" => \A k \in Copies : ~M(n, k)
               /\ (\A q \in Procs : FrameBatch(proc[q]))'
    <2>1. Serial /\ Advances BY <1>5 DEF Serial
    <2>2. /\ \A n \in Rounds, j, k \in Copies : Made(n, j) /\ Made(n, k) => j = k
          /\ \A n \in Rounds : round[n].status # "completed" => \A k \in Copies : ~Made(n, k)
          /\ \A q \in Procs : FrameBatch(proc[q])
      BY <2>1 DEF BatchInv
    <2>3. \A n \in Rounds, j, k \in Copies : M(n, j) /\ M(n, k) => j = k BY <1>1, <2>2
    <2>4. \A n \in Rounds : round'[n].status # "completed" => \A k \in Copies : ~M(n, k)
      BY <1>1, <2>1, <2>2 DEF Advances
    <2>5. ASSUME NEW q \in Procs PROVE FrameBatch(proc[q])'
      <3>1. CASE proc'[q] = Idle BY <3>1, IdleTyped DEF FrameBatch
      <3>2. CASE UNCHANGED <<proc, round>>
        <4>1. FrameBatch(proc[q]) /\ FrameIds(proc[q]) BY <2>2, OwnFrame
        <4> QED BY <1>1, <3>2, <4>1 DEF FrameBatch, FrameIds, Making, Made, M
      <3> QED BY <3>1, <3>2
    <2> QED BY <2>3, <2>4, <2>5
  <1> QED BY <1>2, <1>3, <1>4, <1>5 DEF BatchInv, Made, M

LEMMA BatchesStep == TypeInv /\ OrderInv /\ BatchInv /\ [Next]_vars => BatchInv'
  <1> SUFFICES ASSUME TypeInv, OrderInv, BatchInv, [Next]_vars PROVE BatchInv' OBVIOUS
  <1>1. used'.of = used.of BY UsedGrows
  <1>2. ASSUME NEW p \in Procs, Acts(p) PROVE BatchInv'
    <2>1. Batches' BY <1>2, BatchesActs
    <2>2. Serial' => Serial BY <1>1 DEF Serial
    <2> QED BY <1>2, <2>1, <2>2, SerialBatchActs DEF Batches, BatchInv, Made
  <1>3. Serial => Advances BY OrderSteps DEF Orderly
  <1>4. \A s \in Slots : tasks[s].key = "BatchDeadline" =>
            tasks[s].n \in Rounds /\ tasks[s].k \in Copies /\ Made(tasks[s].n, tasks[s].k)
    BY DEF BatchInv, TypeInv, TaskIds
  <1>5. ASSUME NEW s \in Slots, Fetch(s) PROVE BatchInv'
    <2>1. UNCHANGED <<proc, round, batch>> BY <1>5 DEF Fetch
    <2>2. \A r \in Slots : tasks'[r].key = tasks[r].key /\ tasks'[r].n = tasks[r].n /\ tasks'[r].k = tasks[r].k
      <3>1. tasks[s] \in TaskRows /\ tasks[s] # Free BY <1>5 DEF TypeInv, TypeOK, Fetch, Free
      <3>2. tasks' = [tasks EXCEPT ![s] = [tasks[s] EXCEPT !.st = "running"]] BY <1>5 DEF Fetch
      <3> QED BY <3>1, <3>2 DEF TypeInv, TypeOK, TaskRows
    <2> QED BY <1>1, <1>3, <1>4, <2>1, <2>2, BatchKept
  <1>6. CASE Crash
    <2>1. UNCHANGED <<tasks, batch>> /\ \A q \in Procs : proc'[q] = Idle BY <1>6 DEF Crash
    <2> QED BY <1>1, <1>3, <1>4, <2>1, BatchKept
  <1>7. CASE BootRecover \/ BootOnly
    <2>1. batch' = batch /\ \A q \in Procs : proc'[q] = Idle BY <1>7 DEF BootRecover, BootOnly, TypeInv
    <2>2. ASSUME NEW s \in Slots, tasks'[s].key = "BatchDeadline"
          PROVE  tasks'[s].n \in Rounds /\ tasks'[s].k \in Copies /\ Made(tasks'[s].n, tasks'[s].k)
      <3>1. PICK x \in TaskRows : Alike(tasks'[s], x) /\ (x = tasks[s] \/ BootAdds(x)) BY <1>7, BootRow
      <3>2. CASE x = tasks[s] BY <1>4, <2>2, <3>1, <3>2 DEF Alike
      <3>3. ASSUME NEW b \in Unfinished, x = Row("BatchDeadline", b[1], b[2], DeadlineOf(b))
            PROVE  x.n \in Rounds /\ x.k \in Copies /\ Made(x.n, x.k)
        <4>1. x.n = b[1] /\ x.k = b[2] BY <3>3, RowIs
        <4>2. b[1] \in Rounds /\ b[2] \in Copies /\ batch[b[1]][b[2]].st = "running" BY DEF Unfinished
        <4> QED BY <4>1, <4>2 DEF Made
      <3>4. x.key = "BatchDeadline" BY <2>2, <3>1 DEF Alike
      <3> QED BY <2>2, <3>1, <3>2, <3>3, <3>4, RowIs DEF Alike, BootAdds
    <2> QED BY <1>1, <1>3, <2>1, <2>2, BatchKept
  <1>8. CASE Tick
    <2>1. \A q \in Procs : proc'[q] = Idle BY <1>8 DEF Tick
    <2>2. ASSUME NEW n \in Rounds, NEW k \in Copies
          PROVE  batch'[n][k].st = batch[n][k].st /\ (batch[n][k] = NoBatch => batch'[n][k] = NoBatch)
      <3>1. batch'[n][k] = [batch[n][k] EXCEPT !.deadline = Left(batch[n][k].deadline)] BY <1>8 DEF Tick
      <3>2. batch[n][k] \in BatchRows BY BatchRow
      <3> QED BY <3>1, <3>2 DEF BatchRows, NoBatch, Left
    <2>3. \A s \in Slots : tasks'[s].key = tasks[s].key /\ tasks'[s].n = tasks[s].n /\ tasks'[s].k = tasks[s].k
      BY <1>8 DEF Tick, TypeInv, TypeOK, TaskRows, Free
    <2> QED BY <1>1, <1>3, <1>4, <2>1, <2>2, <2>3, BatchKept
  <1>9. CASE UNCHANGED vars
    <2>1. UNCHANGED <<tasks, proc, round, batch>> BY <1>9 DEF vars
    <2> QED BY <1>1, <1>3, <1>4, <2>1, BatchKept
  <1> QED BY <1>2, <1>5, <1>6, <1>7, <1>8, <1>9 DEF Next, Acts

LEMMA InitBatch == Init => BatchInv
  <1> SUFFICES ASSUME Init PROVE BatchInv OBVIOUS
  <1>1. /\ \A n \in Rounds, k \in Copies : batch[n][k] = NoBatch
        /\ \A s \in Slots : tasks[s].key = "free"
        /\ \A q \in Procs : proc[q] = Idle
    BY DEF Init, Free
  <1>2. NoBatch.st = "none" BY DEF NoBatch
  <1>3. \A q \in Procs : ~HasBatch(proc[q]) /\ FrameBatch(proc[q])
    BY <1>1, IdleTyped DEF HasBatch, FrameBatch, Starting, Closing
  <1> QED BY <1>1, <1>2, <1>3 DEF BatchInv, Made

---------------------------------------------------------------------------
(* Layer 5: the finish *)

\* A step gives one round a status, or none.
Sets(n, c) == n \in Rounds /\ \A j \in Rounds : round'[j].status = IF j = n THEN c ELSE round[j].status

LEMMA SetsActs ==
  ASSUME TypeInv, NEW p \in Procs, Acts(p)
  PROVE  \/ round' = round
         \/ StartRoundInsert(p) /\ Sets(proc[p].m, "active")
         \/ EndRoundWrite(p) /\ Sets(proc[p].n, "completed")
         \/ PauseRound(p) /\ Sets(proc[p].n, "paused")
         \/ ResumeRound(p) /\ Sets(proc[p].n, "active")
  <1>1. round \in [Rounds -> RoundRows] BY DEF TypeInv, TypeOK
  <1>2. ASSUME NEW n \in Rounds, NEW x, round' = [round EXCEPT ![n] = x] PROVE Sets(n, x.status)
    BY <1>1, <1>2 DEF Sets
  <1>3. proc[p] \in Frames /\ FrameIds(proc[p]) BY OwnFrame
  <1>4. CASE StartRoundInsert(p)
    <2>1. proc[p].m \in Rounds /\ round' = [round EXCEPT ![proc[p].m] = NewRound]
      BY <1>3, <1>4 DEF StartRoundInsert, At, FrameIds, Starting
    <2>2. NewRound.status = "active" BY DEF NewRound
    <2> QED BY <1>2, <1>4, <2>1, <2>2
  <1> DEFINE m == proc[p].n
  <1>5. CASE EndRoundWrite(p)
    <2> DEFINE x == [round[m] EXCEPT !.status = "completed"]
    <2>1. m \in Rounds BY <1>3, <1>5 DEF EndRoundWrite, At, FrameIds, Ending
    <2>2. round' = [round EXCEPT ![m] = x] BY <1>5, <2>1 DEF EndRoundWrite
    <2>3. x.status = "completed" BY <1>1, <2>1 DEF RoundRows
    <2> HIDE DEF x
    <2> QED BY <1>2, <1>5, <2>1, <2>2, <2>3
  <1>6. CASE PauseRound(p)
    <2> DEFINE x == [round[m] EXCEPT !.status = "paused", !.remaining = proc[p].rem]
    <2>1. m \in Rounds BY <1>3, <1>6 DEF PauseRound, At, FrameIds
    <2>2. round' = [round EXCEPT ![m] = x] BY <1>6, <2>1 DEF PauseRound
    <2>3. x.status = "paused" BY <1>1, <2>1 DEF RoundRows
    <2> HIDE DEF x
    <2> QED BY <1>2, <1>6, <2>1, <2>2, <2>3
  <1>7. CASE ResumeRound(p) /\ round' # round
    <2> DEFINE x == [status |-> "active", endAt |-> proc[p].rem, remaining |-> NoTime]
    <2>1. m \in Rounds BY <1>3, <1>7 DEF ResumeRound, At, FrameIds
    <2>2. round' = [round EXCEPT ![m] = x] BY <1>7, <2>1 DEF ResumeRound
    <2>3. x.status = "active" OBVIOUS
    <2> HIDE DEF x
    <2> QED BY <1>2, <1>7, <2>1, <2>2, <2>3
  <1> QED BY <1>4, <1>5, <1>6, <1>7, ActsWrite DEF Writes

\* A handler about to make a batch makes it, unless it is cut off; so it is in a resume.
LEMMA GoesOn ==
  ASSUME NEW p \in Procs, Acts(p), proc[p].pc \in {"mk_batch", "un_phase", "un_cas"}
  PROVE  /\ proc[p].pc = "mk_batch" => CreateBatch(p) \/ Timeout(p)
         /\ proc[p].pc = "un_phase" => ResumePhase(p) \/ Timeout(p)
         /\ proc[p].pc = "un_cas" => ResumeCas(p) \/ Timeout(p)
  <1>1. ~Request(p)
    BY DEF Request, StartEvent, PauseRead, ResumeRead, FinishEvent, JudgeTerminal, Available, At
  <1>2. ~\E s \in Slots : Dispatch(p, s) BY DEF Dispatch, Available, At
  <1>3. Handler(p) => /\ proc[p].pc = "mk_batch" => CreateBatch(p)
                      /\ proc[p].pc = "un_phase" => ResumePhase(p)
                      /\ proc[p].pc = "un_cas" => ResumeCas(p)
    BY DEF CreateBatch, Handler, StartRoundRead, StartRoundInsert, StartRoundClash, ScheduleHardening, HardeningEndRead,
           HardeningEndCheck, HardeningEndPhase, RoundEndGuard, EndRoundRead, EndRoundWrite,
           CreateBatchDone, ScheduleDeadline, CreateTask, BatchDeadline, MaybeFinishRead, MaybeFinishCas,
           PauseCancel, PauseFind, PauseRound, PauseCas, PauseNet, PauseNetFault, ResumeHardening, ResumePhase,
           ResumeFind, ResumeRound, ResumeCas, ResumeNet, ResumeNetFault, ResumeRestore, At
  <1> QED BY <1>1, <1>2, <1>3 DEF Acts

LEMMA FaultsCount ==
  ASSUME TypeInv, [Next]_vars, Faultless'
  PROVE  /\ Faultless /\ used.crashes = 0
         /\ ~Crash /\ \A p \in Procs : ~Timeout(p) /\ ~PauseNetFault(p) /\ ~ResumeNetFault(p)
  <1>1. /\ used.crashes <= used'.crashes /\ used.faults <= used'.faults /\ used.timeouts <= used'.timeouts
    BY UsedGrows
  <1>2. /\ used.crashes \in Nat /\ used.faults \in Nat /\ used.timeouts \in Nat BY UsedTyped
  <1>3. used'.crashes \in Nat /\ used'.faults \in Nat /\ used'.timeouts \in Nat
    <2>1. UsedOK' BY TypeStep DEF TypeInv, TypeOK, UsedOK
    <2>2. used'.of \in Setups BY <2>1 DEF UsedOK
    <2>3. used'.of.crashes \in Nat /\ used'.of.faults \in Nat /\ used'.of.timeouts \in Nat
      BY <2>2, LifecycleConstants
    <2> QED BY <2>1, <2>3 DEF UsedOK, MaxCrashes, MaxNetFaults, MaxTimeouts
  <1>4. used'.crashes = 0 /\ used'.faults = 0 /\ used'.timeouts = 0
    <2>1. used'.crashes + used'.faults + used'.timeouts = 0 BY DEF Faultless
    <2>2. \A a, b, c \in Nat : a + b + c = 0 => a = 0 /\ b = 0 /\ c = 0 OBVIOUS
    <2> QED BY <1>3, <2>1, <2>2
  <1>5. Faultless /\ used.crashes = 0 BY <1>1, <1>2, <1>4 DEF Faultless
  <1>6. UsedOK BY DEF TypeInv, TypeOK, UsedOK
  <1>7. ~Crash BY <1>2, <1>4, <1>6 DEF Crash, UsedOK
  <1>8. ASSUME NEW p \in Procs PROVE ~Timeout(p) /\ ~PauseNetFault(p) /\ ~ResumeNetFault(p)
    BY <1>2, <1>4, <1>6 DEF Timeout, PauseNetFault, ResumeNetFault, NetFault, UsedOK
  <1> QED BY <1>5, <1>7, <1>8

\* Judge results and deadlines only settle more of a batch that is made.
LEMMA OpenActs ==
  ASSUME TypeInv, BatchInv, NEW p \in Procs, Acts(p), proc[p].pc \notin Making
  PROVE  \A n \in Rounds, k \in Copies : batch[n][k].open = {} => batch'[n][k].open = {}
  <1>1. CASE batch' = batch BY <1>1
  <1>2. ~CreateBatch(p) BY DEF CreateBatch, At, Making
  <1>3. ~\E b \in Boxes, kind \in {"pending", "skipped", "banned"} : CreateTask(p, b, kind)
    BY DEF CreateTask, At, Making
  <1>4. CASE \E n \in Rounds, k \in Copies, b \in Boxes : JudgeTerminal(p, n, k, b)
    <2>1. \A n \in Rounds, k \in Copies : batch'[n][k].open \subseteq batch[n][k].open BY <1>4, JudgeIs
    <2> QED BY <2>1
  <1>5. CASE BatchDeadline(p)
    <2>1. \A n \in Rounds, k \in Copies : batch'[n][k].open \subseteq batch[n][k].open BY <1>5, BatchDeadlineIs
    <2> QED BY <2>1
  <1> QED BY <1>1, <1>2, <1>3, <1>4, <1>5, ActsWrite DEF Writes

\* A round that is completed has its batch, or its handler is about to make it.
LEMMA BatchedActs ==
  ASSUME TypeInv, OrderInv, BatchInv, FinishInv, Serial, Faultless, NEW p \in Procs, Acts(p), ~Timeout(p),
         NEW n \in Rounds, round'[n].status = "completed"
  PROVE  Batched(n)'
  <1>1. \A k \in Copies : Made(n, k) => batch'[n][k].st # "none" BY BatchActs DEF BatchStep
  <1>2. CASE round[n].status = "completed"
    <2>1. Batched(n) BY <1>2 DEF FinishInv
    <2>2. CASE \E k \in Copies : Made(n, k) BY <1>1, <2>2 DEF Batched, Made
    <2>3. ASSUME NEW q \in Procs, proc[q].pc = "mk_batch", proc[q].n = n PROVE Batched(n)'
      <3>1. q = p
        <4>1. proc[q] # Idle BY <2>3, IdleTyped
        <4> QED BY <4>1, OneActs, OthersIdle DEF OrderInv
      <3>2. CreateBatch(p) BY <2>3, <3>1, GoesOn
      <3>3. NewBatch.st = "running" BY DEF NoBatch, NewBatch
      <3>4. \E k \in Copies : batch'[n][k].st # "none" BY <2>3, <3>1, <3>2, <3>3, CreateBatchIs
      <3> QED BY <3>4 DEF Batched, Made
    <2> QED BY <2>1, <2>2, <2>3 DEF Batched
  <1>3. CASE round[n].status # "completed"
    <2>1. EndRoundWrite(p) /\ proc[p].n = n BY <1>3, SetsActs DEF Sets
    <2>2. Goes(p, "mk_batch") BY <2>1, GotoGoes DEF EndRoundWrite
    <2> QED BY <2>1, <2>2 DEF Batched, Goes
  <1> QED BY <1>2, <1>3

\* Only the compare-and-set that ends the event finishes it.
LEMMA FinishActs ==
  ASSUME TypeInv, NEW p \in Procs, Acts(p), ev'.status = "Finished", ev.status # "Finished"
  PROVE  MaybeFinishCas(p)
  <1>1. ev \in EventRows BY DEF TypeInv, TypeOK
  <1>2. CASE StartEvent(p) BY <1>1, <1>2 DEF StartEvent, EventRows
  <1>3. CASE HardeningEndPhase(p) \/ ResumePhase(p) BY <1>1, <1>3 DEF HardeningEndPhase, ResumePhase, EventRows
  <1>4. CASE PauseCas(p) BY <1>4 DEF PauseCas
  <1>5. CASE PauseNetFault(p) \/ ResumeNetFault(p)
    BY <1>1, <1>5 DEF PauseNetFault, ResumeNetFault, NetFault, EventRows
  <1>6. CASE ResumeHardening(p) \/ ResumeCas(p)
    <2>1. ev' = ev \/ ev'.status = "Running" BY <1>1, <1>6 DEF ResumeHardening, ResumeCas, EventRows
    <2> QED BY <2>1
  <1> QED BY <1>2, <1>3, <1>4, <1>5, <1>6, ActsWrite DEF Writes

LEMMA SettledActs ==
  ASSUME TypeInv, OrderInv, BatchInv, Serial, Settled, NEW p \in Procs, Acts(p), proc[p].pc \notin Making
  PROVE  Settled'
  <1>1. Advances BY OrderActs DEF Orderly
  <1>2. \A n \in Rounds, k \in Copies : Made(n, k) => batch'[n][k].st # "none" BY BatchActs DEF BatchStep
  <1>3. \A n \in Rounds, k \in Copies : batch[n][k].open = {} => batch'[n][k].open = {} BY OpenActs
  <1> QED BY <1>1, <1>2, <1>3 DEF Settled, Advances, Made

LEMMA FinishInvActs ==
  ASSUME TypeInv, OrderInv, BatchInv, FinishInv, Serial, Faultless, NEW p \in Procs, Acts(p), ~Timeout(p)
  PROVE  FinishInv'
  <1>1. (\A n \in Rounds : round[n].status = "completed" => Batched(n))' BY BatchedActs
  <1>2. \A q \in Procs : q # p => proc'[q] = Idle /\ proc[q] = Idle BY OneActs, OthersIdle DEF OrderInv
  <1>3. Idle.pc = "idle" BY IdleTyped
  <1>4. ASSUME NEW q \in Procs, proc'[q].pc = "mf_cas" PROVE Settled'
    <2>1. q = p BY <1>2, <1>3, <1>4
    <2>2. MaybeFinishRead(p) BY <1>4, <2>1, ActsCome DEF Comes
    <2>3. FinalSettlement /\ AllTerminal
      <3>1. CASE AfterFinish(p)
        BY <1>3, <1>4, <2>1, <3>1, AfterEnds DEF Goes, Stops
      <3> QED BY <2>2, <3>1 DEF MaybeFinishRead
    <2>4. UNCHANGED <<round, batch>> BY <2>2 DEF MaybeFinishRead
    <2>5. \A n \in Rounds : round[n].status = "completed"
      BY <2>3, SettlementIsLast DEF OrderInv, InOrder, Orderly
    <2>6. \A r \in Procs : proc[r].pc # "mk_batch" BY <1>2, <1>3, <2>2 DEF MaybeFinishRead, At
    <2>7. \A n \in Rounds : Batched(n) BY <2>5 DEF FinishInv
    <2>8. Settled BY <2>3, <2>5, <2>6, <2>7 DEF Settled, Batched, AllTerminal
    <2> QED BY <2>4, <2>8 DEF Settled, Made
  <1>5. ASSUME ev'.status = "Finished"
        PROVE  Settled' /\ \A q \in Procs : proc'[q].pc \notin {"re_write"} \cup Making
    <2>1. CASE ev.status = "Finished"
      <3>1. Settled /\ proc[p].pc \notin {"re_write"} \cup Making BY <2>1 DEF FinishInv
      <3>2. Settled' BY <3>1, SettledActs
      <3>3. proc'[p].pc # "re_write"
        <4> SUFFICES ASSUME proc'[p].pc = "re_write" PROVE FALSE OBVIOUS
        <4>1. EndRoundRead(p) BY ActsCome DEF Comes
        <4>2. round[proc[p].n].status = "active" BY <1>3, <4>1, EndsStop DEF EndRoundRead, Stops
        <4>3. proc[p].n \in Rounds BY <4>1, OwnFrame DEF EndRoundRead, At, FrameIds, Ending
        <4> QED BY <3>1, <4>2, <4>3 DEF Settled
      <3>4. proc'[p].pc # "mk_batch" BY <3>1, ActsCome DEF Comes, EndRoundWrite, At
      <3>5. proc'[p].pc # "mk_task" BY <3>1, ActsCome DEF Comes, CreateBatch, CreateTask, At, Making
      <3> QED BY <1>2, <1>3, <3>2, <3>3, <3>4, <3>5 DEF Making
    <2>2. CASE ev.status # "Finished"
      <3>1. MaybeFinishCas(p) BY <1>5, <2>2, FinishActs
      <3>2. UNCHANGED <<round, batch>> /\ proc[p].pc = "mf_cas" /\ AfterFinish(p) BY <3>1 DEF MaybeFinishCas, At
      <3>3. Settled BY <3>2 DEF FinishInv
      <3>4. proc'[p].pc \in {"deadline", "idle"} BY <1>3, <3>2, AfterEnds DEF Goes, Stops
      <3>5. Settled' BY <3>2, <3>3 DEF Settled, Made
      <3> QED BY <1>2, <1>3, <3>4, <3>5 DEF Making
    <2> QED BY <2>1, <2>2
  <1> QED BY <1>1, <1>4, <1>5 DEF FinishInv

LEMMA FinishStep == TypeInv /\ OrderInv /\ BatchInv /\ FinishInv /\ [Next]_vars => FinishInv'
  <1> SUFFICES ASSUME TypeInv, OrderInv, BatchInv, FinishInv, [Next]_vars, Serial', Faultless' PROVE FinishInv'
    BY DEF FinishInv
  <1>1. Serial BY UsedGrows DEF Serial
  <1>2. Faultless /\ used.crashes = 0 /\ ~Crash /\ \A p \in Procs : ~Timeout(p) BY FaultsCount
  <1>3. up BY <1>2 DEF OrderInv, BusyOnly
  <1>4. ASSUME NEW p \in Procs, Acts(p) PROVE FinishInv' BY <1>1, <1>2, <1>4, FinishInvActs
  <1>5. ASSUME \A n \in Rounds : round'[n].status = round[n].status,
               \A n \in Rounds, k \in Copies : batch'[n][k].st = batch[n][k].st /\ batch'[n][k].open = batch[n][k].open,
               proc' = proc, ev'.status = ev.status
        PROVE  FinishInv'
    <2>1. \A n \in Rounds : Batched(n) => Batched(n)' BY <1>5 DEF Batched, Made
    <2>2. Settled => Settled' BY <1>5 DEF Settled, Made
    <2> QED BY <1>1, <1>2, <1>5, <2>1, <2>2 DEF FinishInv
  <1>6. CASE Tick
    <2>1. ev'.status = ev.status /\ proc' = proc BY <1>6 DEF Tick, TypeInv, TypeOK, EventRows
    <2>2. \A n \in Rounds : round'[n].status = round[n].status BY <1>6 DEF Tick, TypeInv, TypeOK, RoundRows
    <2>3. ASSUME NEW n \in Rounds, NEW k \in Copies
          PROVE  batch'[n][k].st = batch[n][k].st /\ batch'[n][k].open = batch[n][k].open
      <3>1. batch'[n][k] = [batch[n][k] EXCEPT !.deadline = Left(batch[n][k].deadline)] BY <1>6 DEF Tick
      <3>2. batch[n][k] \in BatchRows BY BatchRow
      <3> QED BY <3>1, <3>2 DEF BatchRows
    <2> QED BY <1>5, <2>1, <2>2, <2>3
  <1>7. CASE UNCHANGED <<ev, round, batch, proc>> BY <1>5, <1>7
  <1>8. (\E s \in Slots : Fetch(s)) \/ UNCHANGED vars => UNCHANGED <<ev, round, batch, proc>> BY DEF Fetch, vars
  <1> QED BY <1>2, <1>3, <1>4, <1>6, <1>7, <1>8 DEF Next, Acts, BootRecover, BootOnly

LEMMA InitFinish == Init => FinishInv
  <1> SUFFICES ASSUME Init PROVE FinishInv OBVIOUS
  <1>1. /\ \A n \in Rounds : round[n].status = "none"
        /\ \A q \in Procs : proc[q].pc = "idle"
        /\ ev.status = "Verified"
    BY IdleTyped DEF Init, NoRound
  <1> QED BY <1>1 DEF FinishInv

\* What the layers say of settled rounds.
LEMMA RoundsAreSettled == TypeInv /\ ClockInv /\ BatchInv /\ FinishInv => RoundsSettled
  <1> SUFFICES ASSUME TypeInv, ClockInv, BatchInv, FinishInv PROVE RoundsSettled OBVIOUS
  <1>1. used.pauses = 0 => RoundPlayedInFull BY DEF ClockInv, RoundClock, RoundPlayedInFull
  <1>2. NoBatch.st = "none" BY DEF NoBatch
  <1>3. ASSUME Serial, NEW n \in Rounds PROVE Cardinality({k \in Copies : batch[n][k] # NoBatch}) <= 1
    <2> DEFINE S == {k \in Copies : batch[n][k] # NoBatch}
    <2>1. \A j, k \in S : j = k BY <1>3 DEF BatchInv
    <2> HIDE DEF S
    <2>2. Cardinality(S) <= 1 BY <2>1, AtMostOne
    <2> QED BY <2>2 DEF S
  <1>4. ASSUME Serial, Faultless, ev.status = "Finished", NEW n \in Rounds PROVE Judged(n)
    <2>1. Settled /\ \A p \in Procs : proc[p].pc \notin Making BY <1>4 DEF FinishInv
    <2>2. PICK k \in Copies : Made(n, k) /\ batch[n][k].open = {} BY <2>1 DEF Settled
    <2> QED BY <1>2, <2>1, <2>2 DEF Judged, Made, Making
  <1> QED BY <1>1, <1>3, <1>4 DEF RoundsSettled, OneBatchPerRound, FinishedIsSettled

\* Every completed round gave the players its full time, whatever overlaps, crashes
\* and times out, as long as nobody pauses; without overlap a round gets one judge
\* batch through any crash, retry and pause; and maybe_finish_event finishes the
\* event only when each round's batch is complete and terminal, as long as nothing failed.
THEOREM RoundsStaySettled == Spec => []RoundsSettled
  <1> QED BY InitTyped, TypeStep, InitOrder, OrderStep, InitClock, ClockStep, InitBatch, BatchesStep,
             InitFinish, FinishStep, RoundsAreSettled, PTL DEF Spec

---------------------------------------------------------------------------
(* Layer 6: pause and Hardening *)

\* What a step leaves in the event's row.
Event(status, phase, pausedPhase, pauseRemaining, hardeningEndsAt) ==
    /\ ev'.status = status /\ ev'.phase = phase /\ ev'.pausedPhase = pausedPhase
    /\ ev'.pauseRemaining = pauseRemaining /\ ev'.hardeningEndsAt = hardeningEndsAt

EventStep(p) ==
    \/ ev' = ev
    \/ /\ StartEvent(p) /\ ev.status = "Verified" /\ Hardening > 0
       /\ Event("Running", "Hardening", ev.pausedPhase, ev.pauseRemaining, Hardening)
    \/ /\ StartEvent(p) /\ ev.status = "Verified" /\ ~(Hardening > 0)
       /\ Event("Running", "Attack", ev.pausedPhase, ev.pauseRemaining, ev.hardeningEndsAt)
    \/ /\ HardeningEndPhase(p) \/ ResumePhase(p)
       /\ Event(ev.status, "Attack", ev.pausedPhase, ev.pauseRemaining, NoTime)
    \/ /\ MaybeFinishCas(p) /\ ev.status = "Running"
       /\ Event("Finished", ev.phase, ev.pausedPhase, ev.pauseRemaining, ev.hardeningEndsAt)
    \/ /\ PauseCas(p) /\ ev.status = "Running"
       /\ Event("Paused", "Pause", proc[p].seen, proc[p].rem, NoTime)
    \/ /\ PauseNetFault(p) /\ ev.status = "Paused"
       /\ Event("NetworkError", ev.phase, ev.pausedPhase, ev.pauseRemaining, ev.hardeningEndsAt)
    \/ /\ ResumeNetFault(p) /\ ev.status = "Running"
       /\ Event("NetworkError", ev.phase, ev.pausedPhase, ev.pauseRemaining, ev.hardeningEndsAt)
    \/ /\ ResumeHardening(p) /\ ev.status = proc[p].seen
       /\ Event("Running", "Hardening", ev.pausedPhase, 0, IF proc[p].rem > 0 THEN proc[p].rem ELSE NoTime)
    \/ /\ ResumeCas(p) /\ ev.status = proc[p].seen
       /\ Event("Running", "Attack", ev.pausedPhase, 0, ev.hardeningEndsAt)

LEMMA EventActs == ASSUME TypeInv, NEW p \in Procs, Acts(p) PROVE EventStep(p)
  <1>1. ev \in EventRows BY DEF TypeInv, TypeOK
  <1> USE DEF EventRows, Event
  <1>2. CASE StartEvent(p) BY <1>1, <1>2 DEF EventStep, StartEvent
  <1>3. CASE HardeningEndPhase(p) \/ ResumePhase(p)
    BY <1>1, <1>3 DEF EventStep, HardeningEndPhase, ResumePhase
  <1>4. CASE MaybeFinishCas(p) BY <1>1, <1>4 DEF EventStep, MaybeFinishCas
  <1>5. CASE PauseCas(p) BY <1>5 DEF EventStep, PauseCas
  <1>6. CASE PauseNetFault(p) BY <1>1, <1>6 DEF EventStep, PauseNetFault, NetFault
  <1>7. CASE ResumeNetFault(p) BY <1>1, <1>7 DEF EventStep, ResumeNetFault, NetFault
  <1>8. CASE ResumeHardening(p)
    <2> DEFINE h == IF proc[p].rem > 0 THEN proc[p].rem ELSE NoTime
    <2>1. \/ ev' = ev
          \/ /\ ev.status = proc[p].seen
             /\ ev' = [ev EXCEPT !.status = "Running", !.phase = "Hardening", !.pauseRemaining = 0,
                                 !.hardeningEndsAt = h]
      BY <1>8 DEF ResumeHardening
    <2> HIDE DEF h
    <2>2. ev' = ev \/ (ev.status = proc[p].seen /\ Event("Running", "Hardening", ev.pausedPhase, 0, h)) BY <1>1, <2>1
    <2> QED BY <1>8, <2>2 DEF EventStep, h
  <1>9. CASE ResumeCas(p) BY <1>1, <1>9 DEF EventStep, ResumeCas
  <1> QED BY <1>2, <1>3, <1>4, <1>5, <1>6, <1>7, <1>8, <1>9, ActsWrite DEF EventStep, Writes

\* Where each statement that writes the event or a round stands.
LEMMA WritesAt ==
  ASSUME NEW p \in Procs
  PROVE  /\ HardeningEndPhase(p) => proc[p].pc = "he_phase"
         /\ ResumePhase(p) => proc[p].pc = "un_phase"
         /\ MaybeFinishCas(p) => proc[p].pc = "mf_cas"
         /\ PauseCas(p) => proc[p].pc = "pa_cas"
         /\ PauseNetFault(p) => proc[p].pc = "pa_net"
         /\ ResumeNetFault(p) => proc[p].pc = "un_net"
         /\ ResumeHardening(p) => proc[p].pc = "un_hard"
         /\ ResumeCas(p) => proc[p].pc = "un_cas"
         /\ StartRoundInsert(p) => proc[p].pc = "sr_insert"
         /\ EndRoundWrite(p) => proc[p].pc = "re_write"
         /\ PauseRound(p) => proc[p].pc = "pa_round"
         /\ ResumeRound(p) => proc[p].pc = "un_round"
         /\ StartEvent(p) => proc[p].pc = "idle"
  BY DEF HardeningEndPhase, ResumePhase, MaybeFinishCas, PauseCas, PauseNetFault, ResumeNetFault, ResumeHardening,
         ResumeCas, StartRoundInsert, EndRoundWrite, PauseRound, ResumeRound, StartEvent, Available, At

\* No statement writes both.
LEMMA OneRow ==
  ASSUME TypeInv, NEW p \in Procs, Acts(p)
  PROVE  ev' = ev \/ round' = round
  <1>1. CASE ev' # ev
    <2>1. \/ proc[p].pc \in {"idle", "he_phase", "un_phase", "mf_cas", "pa_cas", "pa_net", "un_net", "un_hard", "un_cas"}
      BY <1>1, ActsWrite, WritesAt DEF Writes
    <2> QED BY <2>1, SetsActs, WritesAt
  <1> QED BY <1>1

PauseRows ==
    /\ ev.status = "Verified" \/ InHardening => Fresh
    /\ ev.status = "Running" => ev.phase \in {"Hardening", "Attack"}
    /\ ev.status = "Paused" => ev.phase = "Pause"
    /\ ev.status \in {"Paused", "NetworkError"} /\ ev.pausedPhase # "Attack" => Fresh

LEMMA PauseRowsActs ==
  ASSUME TypeInv, OrderInv, PauseInv, Serial, NEW p \in Procs, Acts(p)
  PROVE  PauseRows'
  <1>1. FramePause(proc[p]) /\ PauseRows BY DEF PauseInv, PauseRows
  <1>2. FrameOrder(proc[p]) /\ FrameIds(proc[p]) BY OwnFrame DEF OrderInv, InOrder, Orderly
  <1>3. CASE round' = round
    <2>1. Fresh' <=> Fresh BY <1>3 DEF Fresh
    <2>2. CASE ev' = ev BY <1>1, <2>1, <2>2 DEF PauseRows, InHardening
    <2>3. CASE ev' # ev
      <3>1. EventStep(p) BY EventActs
      <3> QED BY <1>1, <2>1, <2>3, <3>1, WritesAt DEF EventStep, Event, PauseRows, FramePause, InHardening
    <2> QED BY <2>2, <2>3
  <1>4. CASE round' # round
    <2>1. ev' = ev BY <1>4, OneRow
    <2>2. CASE StartRoundInsert(p)
      <3>1. ev.status = "Running" /\ ev.phase = "Attack" BY <1>1, <2>2, WritesAt DEF FramePause
      <3> QED BY <2>1, <3>1 DEF PauseRows, InHardening
    <2>3. CASE EndRoundWrite(p) \/ PauseRound(p) \/ ResumeRound(p)
      <3>1. proc[p].n \in Rounds /\ round[proc[p].n].status # "none"
        BY <1>2, <2>3, WritesAt DEF FrameOrder, FrameIds, Ending
      <3>2. ~Fresh BY <3>1 DEF Fresh
      <3> QED BY <1>1, <2>1, <3>2 DEF PauseRows, InHardening
    <2> QED BY <1>4, <2>2, <2>3, SetsActs
  <1> QED BY <1>3, <1>4

\* Nothing is asked of a handler elsewhere.
PauseAsks == {"sr_insert", "schedule_hardening", "he_check", "he_phase", "pa_cancel", "pa_find", "pa_round", "pa_cas",
              "un_hard", "un_phase", "un_find", "un_round", "un_cas", "un_net"}

LEMMA FramePauseActs ==
  ASSUME TypeInv, OrderInv, PauseInv, Serial, NEW p \in Procs, Acts(p), proc'[p].pc \in PauseAsks
  PROVE  FramePause(proc[p])'
  <1>1. FramePause(proc[p]) /\ PauseRows BY DEF PauseInv, PauseRows
  <1>2. FrameOrder(proc[p]) /\ FrameIds(proc[p]) /\ proc[p] \in Frames
    BY OwnFrame DEF OrderInv, InOrder, Orderly
  <1>3. Comes(p, proc'[p].pc) /\ ~Stops(p)
    BY ActsCome, IdleTyped DEF Stops, PauseAsks
  <1>4. EventStep(p) BY EventActs
  <1> USE DEF FramePause
  <1>5. CASE proc'[p].pc = "sr_insert"
    <2>1. StartRoundRead(p) BY <1>3, <1>5 DEF Comes
    <2>2. ev' = ev BY <2>1 DEF StartRoundRead
    <2>3. ~AfterStart(p, TRUE) /\ ~AfterStart(p, FALSE) BY <1>3, <1>5, AfterEnds DEF Goes
    <2>4. ev.status = "Running" /\ ev.phase = "Attack" BY <2>1, <2>3 DEF StartRoundRead
    <2> QED BY <1>5, <2>2, <2>4
  <1>6. CASE proc'[p].pc = "schedule_hardening"
    <2>1. round' = round BY <1>3, <1>6 DEF Comes, StartEvent, ResumeHardening
    <2>2. CASE StartEvent(p)
      <3>1. Hardening > 0 /\ Fresh BY <1>1, <1>6, <2>2, StartEventIs DEF PauseRows, StartEvent
      <3>2. InHardening' BY <2>2, <3>1 DEF StartEvent, TypeInv, TypeOK, EventRows, InHardening
      <3> QED BY <1>6, <2>1, <3>1, <3>2 DEF Fresh
    <2>3. CASE ResumeHardening(p)
      <3>1. Fresh BY <1>1, <2>3, WritesAt
      <3>2. ev.status = proc[p].seen BY <1>3, <2>3, StopStops DEF ResumeHardening
      <3>3. InHardening' BY <2>3, <3>2 DEF ResumeHardening, TypeInv, TypeOK, EventRows, InHardening
      <3> QED BY <1>6, <2>1, <3>1, <3>3 DEF Fresh
    <2> QED BY <1>3, <1>6, <2>2, <2>3 DEF Comes
  <1>7. CASE proc'[p].pc \in {"he_check", "he_phase"}
    <2>1. HardeningEndRead(p) \/ HardeningEndCheck(p) BY <1>3, <1>7 DEF Comes
    <2>2. ev' = ev /\ InHardening BY <1>3, <2>1, EndsStop DEF HardeningEndRead, HardeningEndCheck
    <2> QED BY <1>7, <2>2 DEF InHardening
  <1>8. CASE proc'[p].pc \in {"pa_cancel", "pa_find"}
    <2>1. PauseRead(p) BY <1>3, <1>8 DEF Comes
    <2>2. ev' = ev /\ ev.status = "Running" BY <2>1 DEF PauseRead
    <2> QED BY <1>8, <2>1, <2>2, PauseReadIs
  <1>9. CASE proc'[p].pc = "pa_round"
    <2>1. PauseFind(p) BY <1>3, <1>9 DEF Comes
    <2>2. ev' = ev /\ proc'[p].seen = proc[p].seen /\ proc[p].pc = "pa_find" BY <2>1, PauseFindIs DEF PauseFind, At
    <2> QED BY <1>1, <1>9, <2>2
  <1>10. CASE proc'[p].pc = "pa_cas"
    <2>1. PauseCancel(p) \/ PauseFind(p) \/ PauseRound(p) BY <1>3, <1>10 DEF Comes
    <2>2. ev' = ev BY <2>1 DEF PauseCancel, PauseFind, PauseRound
    <2>3. proc'[p].seen = proc[p].seen BY <2>1, PauseFindIs, GotoGoes DEF PauseCancel, PauseRound, Goes
    <2>4. ev.status = "Running" /\ ev.phase = proc[p].seen
      BY <1>1, <2>1 DEF PauseCancel, PauseFind, PauseRound, At
    <2>5. Inactive'
      <3>1. CASE PauseCancel(p)
        <4>1. Fresh /\ round' = round BY <1>1, <2>4, <3>1 DEF PauseCancel, At, PauseRows, InHardening
        <4> QED BY <4>1 DEF Fresh, Inactive
      <3>2. CASE PauseFind(p)
        <4>1. Live = {} /\ round' = round BY <1>10, <3>2, PauseFindIs DEF PauseFind
        <4> QED BY <4>1 DEF Live, Inactive
      <3>3. CASE PauseRound(p)
        <4>1. proc[p].n \in Live BY <1>2, <3>3, WritesAt DEF FrameOrder, FrameIds, Live
        <4>2. round' = round \/ Sets(proc[p].n, "paused")
          BY <3>3, SetsActs, WritesAt
        <4>3. \A n \in Live : n = proc[p].n
          BY <4>1, LiveIsOne DEF OrderInv, InOrder, Orderly
        <4>4. Sets(proc[p].n, "paused") => Inactive' BY <4>3 DEF Sets, Inactive, Live
        <4>5. round' = round => Inactive'
          <5>1. round'[proc[p].n].status = "paused"
            BY <3>3, <4>1 DEF PauseRound, Live, TypeInv, TypeOK, RoundRows
          <5> QED BY <4>3, <5>1 DEF Inactive, Live
        <4> QED BY <4>2, <4>4, <4>5
      <3> QED BY <2>1, <3>1, <3>2, <3>3
    <2> QED BY <1>10, <2>2, <2>3, <2>4, <2>5
  <1>11. CASE proc'[p].pc \in {"un_hard", "un_find"}
    <2>1. ResumeRead(p) BY <1>3, <1>11 DEF Comes
    <2>2. UNCHANGED <<ev, round>> /\ ev.status \in {"Paused", "NetworkError"} BY <2>1 DEF ResumeRead
    <2>3. proc'[p].seen = ev.status /\ (proc'[p].pc = "un_hard" => ev.pausedPhase # "Attack")
      BY <2>1, ResumeReadIs
    <2>4. proc'[p].pc = "un_hard" => Fresh BY <1>1, <2>2, <2>3 DEF PauseRows
    <2> QED BY <1>11, <2>2, <2>3, <2>4 DEF Fresh
  <1>12. CASE proc'[p].pc = "un_phase"
    <2>1. ResumeHardening(p) BY <1>3, <1>12 DEF Comes
    <2>2. Fresh /\ round' = round BY <1>1, <2>1, WritesAt DEF ResumeHardening
    <2>3. ev.status = proc[p].seen BY <1>3, <2>1, StopStops DEF ResumeHardening
    <2>4. InHardening' BY <2>1, <2>3 DEF ResumeHardening, TypeInv, TypeOK, EventRows, InHardening
    <2> QED BY <1>12, <2>2, <2>4 DEF Fresh
  <1>13. CASE proc'[p].pc = "un_round"
    <2>1. ResumeFind(p) BY <1>3, <1>13 DEF Comes
    <2>2. ev' = ev /\ proc'[p].seen = proc[p].seen /\ proc[p].pc = "un_find" BY <2>1, ResumeFindIs DEF ResumeFind, At
    <2> QED BY <1>1, <1>13, <2>2
  <1>14. CASE proc'[p].pc = "un_cas"
    <2>1. ResumeFind(p) \/ ResumeRound(p) BY <1>3, <1>14 DEF Comes
    <2>2. ev' = ev /\ proc[p].pc \in {"un_find", "un_round"} BY <2>1 DEF ResumeFind, ResumeRound, At
    <2>3. proc'[p].seen = proc[p].seen
      <3>1. ResumeRound(p) => Goes(p, "un_cas") BY <1>3, GotoGoes, StopStops DEF ResumeRound
      <3> QED BY <2>1, <3>1, ResumeFindIs DEF Goes
    <2> QED BY <1>1, <1>14, <2>2, <2>3
  <1>15. CASE proc'[p].pc = "un_net"
    <2>1. CASE ResumePhase(p)
      <3>1. Fresh /\ InHardening /\ round' = round BY <1>1, <2>1, WritesAt DEF ResumePhase
      <3>2. ev'.status = ev.status BY <2>1 DEF ResumePhase, TypeInv, TypeOK, EventRows
      <3> QED BY <1>15, <3>1, <3>2 DEF Fresh, InHardening
    <2>2. CASE ResumeCas(p)
      <3>1. ev.status = proc[p].seen /\ ev.status \in {"Paused", "NetworkError"} /\ round' = round
        BY <1>1, <1>3, <2>2, StopStops, WritesAt DEF ResumeCas
      <3>2. ev'.status = "Running" /\ ev'.pausedPhase = ev.pausedPhase
        BY <2>2, <3>1 DEF ResumeCas, TypeInv, TypeOK, EventRows
      <3>3. ev.pausedPhase # "Attack" => Fresh BY <1>1, <3>1 DEF PauseRows
      <3> QED BY <1>15, <3>1, <3>2, <3>3 DEF Fresh
    <2>3. CASE ScheduleHardening(p)
      <3>1. UNCHANGED <<ev, round>> /\ Fresh /\ InHardening BY <1>1, <2>3 DEF ScheduleHardening, At
      <3> QED BY <1>15, <3>1 DEF Fresh, InHardening
    <2> QED BY <1>3, <1>15, <2>1, <2>2, <2>3 DEF Comes
  <1> QED BY <1>5, <1>6, <1>7, <1>8, <1>9, <1>10, <1>11, <1>12, <1>13, <1>14, <1>15 DEF PauseAsks

LEMMA IdleFree ==
  ASSUME NEW q, proc'[q].pc \notin PauseAsks
  PROVE  FramePause(proc[q])' /\ FrameHardening(proc[q])'
  BY DEF FramePause, FrameHardening, PauseAsks

LEMMA PauseStep == TypeInv /\ OrderInv /\ PauseInv /\ [Next]_vars => PauseInv'
  <1> SUFFICES ASSUME TypeInv, OrderInv, PauseInv, [Next]_vars, Serial' PROVE PauseInv'
    BY DEF PauseInv
  <1>1. Serial BY UsedGrows DEF Serial
  <1>2. Idle.pc = "idle" BY IdleTyped
  <1>3. PauseRows /\ \A q \in Procs : FramePause(proc[q]) BY <1>1 DEF PauseInv, PauseRows
  <1>4. ASSUME NEW p \in Procs, Acts(p) PROVE PauseInv'
    <2>1. PauseRows' BY <1>1, <1>4, PauseRowsActs
    <2>2. ASSUME NEW q \in Procs PROVE FramePause(proc[q])'
      <3>1. CASE q # p
        <4>1. proc'[q].pc = "idle" BY <1>1, <1>2, <1>4, <3>1, OneActs, OthersIdle DEF OrderInv
        <4> QED BY <4>1, IdleFree DEF PauseAsks
      <3>2. CASE q = p /\ proc'[p].pc \in PauseAsks BY <1>1, <1>4, <3>2, FramePauseActs
      <3>3. CASE q = p /\ proc'[p].pc \notin PauseAsks BY <3>3, IdleFree
      <3> QED BY <3>1, <3>2, <3>3
    <2> QED BY <2>1, <2>2 DEF PauseInv, PauseRows
  <1>5. ASSUME PauseRows', \A q \in Procs : proc'[q] = Idle PROVE PauseInv'
    <2>1. \A q \in Procs : FramePause(proc[q])' BY <1>2, <1>5, IdleFree DEF PauseAsks
    <2> QED BY <1>5, <2>1 DEF PauseInv, PauseRows
  <1>6. ASSUME UNCHANGED <<ev, round>> PROVE PauseRows'
    BY <1>3, <1>6 DEF PauseRows, Fresh, InHardening
  <1>7. CASE Crash
    <2>1. UNCHANGED <<ev, round>> /\ \A q \in Procs : proc'[q] = Idle BY <1>7 DEF Crash
    <2> QED BY <1>5, <1>6, <2>1
  <1>8. CASE BootRecover \/ BootOnly
    <2>1. \A q \in Procs : proc'[q] = Idle BY <1>8 DEF BootRecover, BootOnly, TypeInv
    <2>2. CASE UNCHANGED <<ev, round>> BY <1>5, <1>6, <2>1, <2>2
    <2>3. CASE Gap /\ ev' = ev
      <3>1. ev.status = "Running" /\ ev.phase = "Attack" BY <2>3 DEF Gap
      <3>2. PauseRows' BY <2>3, <3>1 DEF PauseRows, InHardening
      <3> QED BY <1>5, <2>1, <3>2
    <2>4. CASE ev' = [ev EXCEPT !.status = "Finished"]
      <3>1. ev'.status = "Finished" BY <2>4 DEF TypeInv, TypeOK, EventRows
      <3>2. PauseRows' BY <3>1 DEF PauseRows, InHardening
      <3> QED BY <1>5, <2>1, <3>2
    <2> QED BY <1>8, <2>2, <2>3, <2>4, BootWrites DEF BootOnly
  <1>9. CASE Tick
    <2>1. \A q \in Procs : proc'[q] = Idle BY <1>9 DEF Tick
    <2>2. ev'.status = ev.status /\ ev'.phase = ev.phase /\ ev'.pausedPhase = ev.pausedPhase
      BY <1>9 DEF Tick, TypeInv, TypeOK, EventRows
    <2>3. Fresh' <=> Fresh BY <1>9 DEF Tick, Fresh, TypeInv, TypeOK, RoundRows
    <2>4. PauseRows' BY <1>3, <2>2, <2>3 DEF PauseRows, InHardening
    <2> QED BY <1>5, <2>1, <2>4
  <1>10. CASE UNCHANGED <<ev, round, proc>>
    <2>1. PauseRows' BY <1>6, <1>10
    <2>2. \A q \in Procs : FramePause(proc[q])' BY <1>3, <1>10 DEF FramePause, Fresh, Inactive, InHardening
    <2> QED BY <2>1, <2>2 DEF PauseInv, PauseRows
  <1>11. (\E s \in Slots : Fetch(s)) \/ UNCHANGED vars => UNCHANGED <<ev, round, proc>> BY DEF Fetch, vars
  <1> QED BY <1>4, <1>7, <1>8, <1>9, <1>10, <1>11 DEF Next, Acts

LEMMA InitPause == Init => PauseInv /\ HardeningInv
  <1> SUFFICES ASSUME Init PROVE PauseInv /\ HardeningInv OBVIOUS
  <1>1. /\ Fresh /\ ev.status = "Verified" /\ ev.phase = "Hardening" /\ hardened = 0
        /\ \A q \in Procs : proc[q].pc = "idle"
    BY IdleTyped DEF Init, NoRound, Fresh
  <1> QED BY <1>1 DEF PauseInv, FramePause, HardeningInv, FrameHardening, InHardening

---------------------------------------------------------------------------
(* Layer 7: the time of Hardening *)

HardeningRows ==
    /\ ev.status # "NetworkError"
    /\ ev.status = "Verified" => hardened = 0 /\ ev.phase = "Hardening"
    /\ ev.phase = "Attack" => hardened = Hardening
    /\ InHardening => \/ ev.hardeningEndsAt >= 0 /\ hardened + ev.hardeningEndsAt = Hardening
                      \/ \E p \in Procs : proc[p].pc = "un_phase"
    /\ ev.status = "Paused" =>
          /\ ev.pausedPhase \in {"Hardening", "Attack"}
          /\ ev.pausedPhase = "Hardening" => hardened + ev.pauseRemaining = Hardening
          /\ ev.pausedPhase = "Attack" => hardened = Hardening
          /\ Inactive \/ \E p \in Procs : proc[p].pc = "un_cas"

LEMMA FrameHardeningActs ==
  ASSUME TypeInv, OrderInv, PauseInv, HardeningInv, Serial, Faultless, NEW p \in Procs, Acts(p),
         proc'[p].pc \in PauseAsks
  PROVE  FrameHardening(proc[p])'
  <1>1. FramePause(proc[p]) /\ PauseRows BY DEF PauseInv, PauseRows
  <1>2. FrameHardening(proc[p]) /\ HardeningRows BY DEF HardeningInv, HardeningRows
  <1>3. Comes(p, proc'[p].pc) /\ ~Stops(p)
    BY ActsCome, IdleTyped DEF Stops, PauseAsks
  <1>4. hardened' = hardened /\ used'.of = used.of /\ hardened \in Nat /\ Hardening \in Nat
    <2>1. hardened' = hardened BY OneActs
    <2>2. used'.of = used.of BY UsedGrows DEF Next, Acts
    <2>3. Hardening \in Nat BY UsedTyped
    <2> QED BY <2>1, <2>2, <2>3 DEF TypeInv, TypeOK
  <1>5. Hardening' = Hardening BY <1>4 DEF Hardening
  <1>6. proc[p] \in Frames BY OwnFrame
  <1>7. proc[p].pc # "un_phase" => \A q \in Procs : proc[q].pc # "un_phase"
    BY OneActs, OthersIdle, IdleTyped DEF OrderInv
  <1>8. CASE proc'[p].pc \in {"he_check", "he_phase"}
    <2>1. CASE HardeningEndRead(p)
      <3>1. InHardening /\ ev.hardeningEndsAt <= 0 /\ proc[p].pc = "he_read"
        BY <1>3, <2>1, EndsStop DEF HardeningEndRead, At
      <3>2. ev.hardeningEndsAt >= 0 /\ hardened + ev.hardeningEndsAt = Hardening
        BY <1>2, <1>7, <3>1 DEF HardeningRows
      <3>3. ev.hardeningEndsAt \in Int BY DEF TypeInv, TypeOK, EventRows, Time, NoTime
      <3>4. hardened = Hardening BY <1>4, <3>1, <3>2, <3>3
      <3> QED BY <1>4, <1>5, <1>8, <3>4 DEF FrameHardening
    <2>2. CASE HardeningEndCheck(p)
      <3>1. hardened = Hardening BY <1>2, <2>2 DEF HardeningEndCheck, At, FrameHardening
      <3> QED BY <1>4, <1>5, <1>8, <3>1 DEF FrameHardening
    <2> QED BY <1>3, <1>8, <2>1, <2>2 DEF Comes
  <1>9. CASE proc'[p].pc = "un_phase"
    <2>1. ResumeHardening(p) BY <1>3, <1>9 DEF Comes
    <2>2. ~(proc[p].rem > 0) BY <1>3, <1>9, <2>1, GotoGoes, StopStops DEF ResumeHardening, Goes
    <2>3. hardened + proc[p].rem = Hardening BY <1>2, <2>1, WritesAt DEF FrameHardening
    <2>4. proc[p].rem \in Nat BY <1>6 DEF Frames
    <2>5. hardened = Hardening BY <1>4, <2>2, <2>3, <2>4
    <2> QED BY <1>4, <1>5, <1>9, <2>5 DEF FrameHardening
  <1>10. CASE proc'[p].pc = "pa_cancel"
    <2>1. PauseRead(p) BY <1>3, <1>10 DEF Comes
    <2>2. InHardening /\ proc[p].pc = "idle"
      <3>1. ev.phase = "Hardening" BY <1>10, <2>1, PauseReadIs
      <3>2. ev.status = "Running" /\ proc[p].pc = "idle" BY <2>1 DEF PauseRead, Available, At
      <3> QED BY <3>1, <3>2 DEF InHardening
    <2>3. ev.hardeningEndsAt >= 0 /\ hardened + ev.hardeningEndsAt = Hardening
      BY <1>2, <1>7, <2>2 DEF HardeningRows
    <2>4. ev.hardeningEndsAt \in Int BY DEF TypeInv, TypeOK, EventRows, Time, NoTime
    <2>5. proc'[p].rem = ev.hardeningEndsAt BY <2>1, <2>3, <2>4, PauseReadIs DEF NonNeg
    <2> QED BY <1>4, <1>5, <1>10, <2>3, <2>5 DEF FrameHardening
  <1>11. CASE proc'[p].pc = "pa_cas" /\ proc'[p].seen = "Hardening"
    <2>1. PauseCancel(p) \/ PauseFind(p) \/ PauseRound(p) BY <1>3, <1>11 DEF Comes
    <2>2. proc'[p].seen = proc[p].seen BY <2>1, PauseFindIs, GotoGoes DEF PauseCancel, PauseRound, Goes
    <2>3. PauseCancel(p) BY <1>1, <1>11, <2>1, <2>2 DEF PauseFind, PauseRound, At, FramePause
    <2>4. Goes(p, "pa_cas") /\ proc[p].pc = "pa_cancel" BY <2>3, GotoGoes DEF PauseCancel, At
    <2> QED BY <1>2, <1>4, <1>5, <1>11, <2>2, <2>4 DEF FrameHardening, Goes
  <1>12. CASE proc'[p].pc \in {"un_hard", "un_find"}
    <2>1. ResumeRead(p) BY <1>3, <1>12 DEF Comes
    <2>2. ev.status = "Paused" BY <1>2, <2>1 DEF ResumeRead, HardeningRows
    <2> QED BY <1>2, <1>4, <1>5, <1>12, <2>1, <2>2, ResumeReadIs DEF FrameHardening, HardeningRows
  <1>13. CASE proc'[p].pc \in {"un_round", "un_cas"}
    <2>1. proc[p].pc \in {"un_find", "un_round"} BY <1>3, <1>13 DEF Comes, ResumeFind, ResumeRound, At
    <2> QED BY <1>2, <1>4, <1>5, <1>13, <2>1 DEF FrameHardening
  <1>14. CASE proc'[p].pc \notin {"he_check", "he_phase", "un_phase", "pa_cancel", "pa_cas", "un_hard", "un_find", "un_round", "un_cas"}
    BY <1>14 DEF FrameHardening
  <1>15. CASE proc'[p].pc = "pa_cas" /\ proc'[p].seen # "Hardening" BY <1>15 DEF FrameHardening
  <1> QED BY <1>8, <1>9, <1>10, <1>11, <1>12, <1>13, <1>14, <1>15

LEMMA HardeningRowsActs ==
  ASSUME TypeInv, OrderInv, PauseInv, HardeningInv, Serial, Faultless, NEW p \in Procs, Acts(p),
         ~Timeout(p), ~PauseNetFault(p), ~ResumeNetFault(p)
  PROVE  HardeningRows'
  <1>1. FramePause(proc[p]) /\ PauseRows BY DEF PauseInv, PauseRows
  <1>2. FrameHardening(proc[p]) /\ HardeningRows BY DEF HardeningInv, HardeningRows
  <1>3. hardened' = hardened /\ used'.of = used.of /\ hardened \in Nat /\ Hardening \in Nat
    <2>1. hardened' = hardened BY OneActs
    <2>2. used'.of = used.of BY UsedGrows DEF Next, Acts
    <2>3. Hardening \in Nat BY UsedTyped
    <2> QED BY <2>1, <2>2, <2>3 DEF TypeInv, TypeOK
  <1>4. Hardening' = Hardening BY <1>3 DEF Hardening
  <1>5. ASSUME NEW q \in Procs, proc[q] # Idle PROVE q = p BY <1>5, OneActs, OthersIdle DEF OrderInv
  <1>6. Idle.pc = "idle" BY IdleTyped
  <1>7. CASE ev' = ev
    <2>1. InHardening => ev.hardeningEndsAt >= 0 /\ hardened + ev.hardeningEndsAt = Hardening
      <3> SUFFICES ASSUME InHardening, NEW q \in Procs, proc[q].pc = "un_phase" PROVE FALSE
        BY <1>2 DEF HardeningRows
      <3>1. q = p BY <1>5, <1>6
      <3>2. ResumePhase(p) BY <3>1, GoesOn
      <3>3. ev'.phase = "Attack" BY <3>2 DEF ResumePhase, TypeInv, TypeOK, EventRows
      <3> QED BY <1>7, <3>3 DEF InHardening
    <2>2. ev.status = "Paused" => Inactive' \/ proc'[p].pc = "un_cas"
      <3> SUFFICES ASSUME ev.status = "Paused" PROVE Inactive' \/ proc'[p].pc = "un_cas" OBVIOUS
      <3>1. Inactive
        <4> SUFFICES ASSUME NEW q \in Procs, proc[q].pc = "un_cas" PROVE FALSE BY <1>2 DEF HardeningRows
        <4>1. q = p BY <1>5, <1>6
        <4>2. ResumeCas(p) /\ ev.status = proc[p].seen BY <1>1, <4>1, GoesOn DEF FramePause
        <4>3. ev'.status = "Running" BY <4>2 DEF ResumeCas, TypeInv, TypeOK, EventRows
        <4> QED BY <1>7, <4>3
      <3>2. CASE round' = round BY <3>1, <3>2 DEF Inactive
      <3>3. CASE EndRoundWrite(p) /\ Sets(proc[p].n, "completed") BY <3>1, <3>3 DEF Sets, Inactive
      <3>4. ~StartRoundInsert(p) /\ ~PauseRound(p) BY <1>1, WritesAt DEF FramePause
      <3>5. CASE ResumeRound(p) /\ round' # round
        <4>1. Goes(p, "un_cas") BY <3>5, GotoGoes DEF ResumeRound
        <4> QED BY <4>1 DEF Goes
      <3> QED BY <3>2, <3>3, <3>4, <3>5, SetsActs
    <2> QED BY <1>2, <1>3, <1>4, <1>7, <2>1, <2>2 DEF HardeningRows, InHardening
  <1>8. CASE ev' # ev
    <2>1. EventStep(p) BY EventActs
    <2>2. round' = round BY <1>8, OneRow
    <2>3. CASE StartEvent(p)
      <3>1. hardened = 0 /\ ev.status = "Verified" BY <1>2, <2>3 DEF HardeningRows, StartEvent
      <3>2. CASE Hardening > 0
        <4>1. Event("Running", "Hardening", ev.pausedPhase, ev.pauseRemaining, Hardening)
          BY <1>8, <2>1, <2>3, <3>1, <3>2, WritesAt DEF EventStep
        <4>2. Hardening >= 0 /\ hardened + Hardening = Hardening BY <1>3, <3>1
        <4> QED BY <1>3, <1>4, <4>1, <4>2 DEF HardeningRows, Event
      <3>3. CASE ~(Hardening > 0)
        <4>1. Event("Running", "Attack", ev.pausedPhase, ev.pauseRemaining, ev.hardeningEndsAt)
          BY <1>8, <2>1, <2>3, <3>1, <3>3, WritesAt DEF EventStep
        <4>2. hardened = Hardening BY <1>3, <3>1, <3>3
        <4> QED BY <1>3, <1>4, <4>1, <4>2 DEF HardeningRows, Event, InHardening
      <3> QED BY <3>2, <3>3
    <2>4. CASE HardeningEndPhase(p) \/ ResumePhase(p)
      <3>1. ev.status = "Running" /\ hardened = Hardening
        BY <1>1, <1>2, <2>4, WritesAt DEF FramePause, FrameHardening, InHardening
      <3>2. ev'.status = "Running" /\ ev'.phase = "Attack"
        BY <2>4, <3>1 DEF HardeningEndPhase, ResumePhase, TypeInv, TypeOK, EventRows
      <3> QED BY <1>3, <1>4, <3>1, <3>2 DEF HardeningRows, InHardening
    <2>5. CASE MaybeFinishCas(p)
      <3>1. ev'.status = "Finished" /\ ev'.phase = ev.phase
        BY <1>8, <2>5 DEF MaybeFinishCas, TypeInv, TypeOK, EventRows
      <3> QED BY <1>2, <1>3, <1>4, <3>1 DEF HardeningRows, InHardening
    <2>6. CASE PauseCas(p)
      <3>1. ev'.status = "Paused" /\ ev'.phase = "Pause" /\ ev'.pausedPhase = proc[p].seen /\ ev'.pauseRemaining = proc[p].rem
        BY <1>8, <2>6 DEF PauseCas
      <3>2. proc[p].pc = "pa_cas" /\ ev.status = "Running" /\ ev.phase = proc[p].seen /\ Inactive
        BY <1>1, <2>6, WritesAt DEF FramePause
      <3>3. proc[p].seen \in {"Hardening", "Attack"} BY <1>1, <3>2 DEF PauseRows
      <3>4. proc[p].seen = "Hardening" => hardened + proc[p].rem = Hardening BY <1>2, <3>2 DEF FrameHardening
      <3>5. proc[p].seen = "Attack" => hardened = Hardening BY <1>2, <3>2 DEF HardeningRows
      <3>6. Inactive' BY <2>2, <3>2 DEF Inactive
      <3> QED BY <1>3, <1>4, <3>1, <3>3, <3>4, <3>5, <3>6 DEF HardeningRows, InHardening
    <2>7. CASE ResumeHardening(p)
      <3>1. Event("Running", "Hardening", ev.pausedPhase, 0, IF proc[p].rem > 0 THEN proc[p].rem ELSE NoTime)
        BY <1>8, <2>1, <2>7, WritesAt DEF EventStep
      <3>2. hardened + proc[p].rem = Hardening BY <1>2, <2>7, WritesAt DEF FrameHardening
      <3>3. CASE proc[p].rem > 0
        <4>1. ev'.hardeningEndsAt = proc[p].rem /\ proc[p].rem >= 0 BY <3>1, <3>3, OwnFrame DEF Event, Frames
        <4> QED BY <1>3, <1>4, <3>1, <3>2, <4>1 DEF HardeningRows, Event
      <3>4. CASE ~(proc[p].rem > 0)
        <4>1. Goes(p, "un_phase") BY <1>8, <2>7, <3>4, GotoGoes DEF ResumeHardening
        <4> QED BY <3>1, <4>1 DEF HardeningRows, Event, Goes
      <3> QED BY <3>3, <3>4
    <2>8. CASE ResumeCas(p)
      <3>1. ev'.status = "Running" /\ ev'.phase = "Attack" BY <1>8, <2>8 DEF ResumeCas, TypeInv, TypeOK, EventRows
      <3>2. hardened = Hardening BY <1>2, <2>8, WritesAt DEF FrameHardening
      <3> QED BY <1>3, <1>4, <3>1, <3>2 DEF HardeningRows, InHardening
    <2> QED BY <1>8, <2>3, <2>4, <2>5, <2>6, <2>7, <2>8, ActsWrite DEF Writes
  <1> QED BY <1>7, <1>8

LEMMA HardeningStep == TypeInv /\ OrderInv /\ PauseInv /\ HardeningInv /\ [Next]_vars => HardeningInv'
  <1> SUFFICES ASSUME TypeInv, OrderInv, PauseInv, HardeningInv, [Next]_vars, Serial', Faultless' PROVE HardeningInv'
    BY DEF HardeningInv
  <1>1. Serial BY UsedGrows DEF Serial
  <1>2. /\ Faultless /\ used.crashes = 0 /\ ~Crash
        /\ \A p \in Procs : ~Timeout(p) /\ ~PauseNetFault(p) /\ ~ResumeNetFault(p)
    BY FaultsCount
  <1>3. up BY <1>2 DEF OrderInv, BusyOnly
  <1>4. HardeningRows /\ \A q \in Procs : FrameHardening(proc[q]) BY <1>1, <1>2 DEF HardeningInv, HardeningRows
  <1>5. Idle.pc = "idle" BY IdleTyped
  <1>6. ASSUME NEW p \in Procs, Acts(p) PROVE HardeningInv'
    <2>1. HardeningRows' BY <1>1, <1>2, <1>6, HardeningRowsActs
    <2>2. ASSUME NEW q \in Procs PROVE FrameHardening(proc[q])'
      <3>1. CASE q # p
        <4>1. proc'[q].pc = "idle" BY <1>1, <1>5, <1>6, <3>1, OneActs, OthersIdle DEF OrderInv
        <4> QED BY <4>1, IdleFree DEF PauseAsks
      <3>2. CASE q = p /\ proc'[p].pc \in PauseAsks BY <1>1, <1>2, <1>6, <3>2, FrameHardeningActs
      <3>3. CASE q = p /\ proc'[p].pc \notin PauseAsks BY <3>3, IdleFree
      <3> QED BY <3>1, <3>2, <3>3
    <2> QED BY <2>1, <2>2 DEF HardeningInv, HardeningRows
  <1>7. CASE Tick
    <2>1. \A q \in Procs : proc'[q].pc = "idle" /\ proc[q].pc = "idle" BY <1>5, <1>7 DEF Tick
    <2>2. /\ ev'.status = ev.status /\ ev'.phase = ev.phase /\ ev'.pausedPhase = ev.pausedPhase
          /\ ev'.pauseRemaining = ev.pauseRemaining /\ ev'.hardeningEndsAt = Left(ev.hardeningEndsAt)
      BY <1>7 DEF Tick, TypeInv, TypeOK, EventRows
    <2>3. Inactive' <=> Inactive BY <1>7 DEF Tick, Inactive, TypeInv, TypeOK, RoundRows
    <2>4. Hardening \in Nat /\ hardened \in 0..Hardening /\ Hardening' = Hardening
      BY <1>7, UsedTyped DEF Tick, Hardening, TypeInv, TypeOK
    <2>5. hardened' = IF InHardening /\ hardened < Hardening THEN hardened + 1 ELSE hardened BY <1>7 DEF Tick
    <2>6. InHardening => /\ ev.hardeningEndsAt >= 0 /\ hardened + ev.hardeningEndsAt = Hardening
                         /\ ev.status = "Running" /\ ev.phase = "Hardening"
      BY <1>4, <2>1 DEF HardeningRows, InHardening
    <2>7. ev.hardeningEndsAt \in Int BY DEF TypeInv, TypeOK, EventRows, Time, NoTime
    <2>8. HardeningRows'
      <3>1. CASE InHardening
        <4>1. ev'.hardeningEndsAt >= 0 /\ hardened' + ev'.hardeningEndsAt = Hardening
          BY <2>2, <2>4, <2>5, <2>6, <2>7, <3>1 DEF Left
        <4> QED BY <2>2, <2>4, <2>6, <3>1, <4>1 DEF HardeningRows
      <3>2. CASE ~InHardening
        <4>1. hardened' = hardened BY <2>5, <3>2
        <4> QED BY <1>4, <2>1, <2>2, <2>3, <2>4, <3>2, <4>1 DEF HardeningRows, InHardening
      <3> QED BY <3>1, <3>2
    <2>9. \A q \in Procs : FrameHardening(proc[q])' BY <2>1, IdleFree DEF PauseAsks
    <2> QED BY <2>8, <2>9 DEF HardeningInv, HardeningRows
  <1>8. CASE UNCHANGED <<ev, round, proc, used, hardened>>
    <2>1. Hardening' = Hardening BY <1>8 DEF Hardening
    <2>2. HardeningRows' BY <1>4, <1>8, <2>1 DEF HardeningRows, InHardening, Inactive
    <2>3. \A q \in Procs : FrameHardening(proc[q])' BY <1>4, <1>8, <2>1 DEF FrameHardening
    <2> QED BY <2>2, <2>3 DEF HardeningInv, HardeningRows
  <1>9. (\E s \in Slots : Fetch(s)) \/ UNCHANGED vars => UNCHANGED <<ev, round, proc, used, hardened>>
    BY DEF Fetch, vars
  <1> QED BY <1>2, <1>3, <1>6, <1>7, <1>8, <1>9 DEF Next, Acts, BootRecover, BootOnly

\* What the layers say of a pause.
LEMMA PauseFreezesIt == PauseInv /\ HardeningInv => PauseFreezes
  <1> SUFFICES ASSUME PauseInv, HardeningInv, Serial
               PROVE  /\ HardeningOnce
                      /\ Faultless => PausedFreezesRounds /\ PausedPhase /\ HardenedInFull
    BY DEF PauseFreezes
  <1>1. HardeningOnce BY DEF PauseInv, HardeningOnce, Fresh, Existing
  <1>2. PausedPhase BY DEF PauseInv, PausedPhase
  <1>3. ASSUME Faultless PROVE HardenedInFull /\ PausedFreezesRounds
    <2>1. HardenedInFull BY <1>3 DEF HardeningInv, HardenedInFull
    <2>2. PausedFreezesRounds BY <1>3 DEF HardeningInv, PausedFreezesRounds, Resuming, Inactive
    <2> QED BY <2>1, <2>2
  <1> QED BY <1>1, <1>2, <1>3

\* When handlers do not overlap, Hardening never comes back once a round exists,
\* through any crash, fault, timeout and retry; and as long as nothing failed, a paused
\* event has no running round, is closed to the players, and its Hardening lasts its
\* full time however often pause_event and resume_event interrupt it.
THEOREM PausesFreeze == Spec => []PauseFreezes
  <1> QED BY InitTyped, TypeStep, InitOrder, OrderStep, InitPause, PauseStep, HardeningStep, PauseFreezesIt, PTL
          DEF Spec
===========================================================================

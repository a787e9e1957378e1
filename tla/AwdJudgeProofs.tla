-------------------------- MODULE AwdJudgeProofs --------------------------
(***************************************************************************)
(* Proofs about AwdJudge, for any number of tasks, workers, retries,       *)
(* crashes and lost messages.                                              *)
(*                                                                         *)
(* For any number of handlers in flight: its types, that no verdict is     *)
(* invented, and that no team pays for what no worker found.  None of the  *)
(* three is inductive.  A handler carries the number of a task and of an   *)
(* attempt from one statement to the next, so Inv has to say what these    *)
(* stand for: an attempt that has ended, whose outcome nobody changes any  *)
(* more, because a claim only ever opens an attempt that was not used      *)
(* before.                                                                 *)
(*                                                                         *)
(* For one handler at a time: that retries are bounded, that nothing is    *)
(* taken back, that scores and verdicts agree, and that judging implements *)
(* JudgeVerdicts.  AloneInv adds to Inv what a handler's read still says   *)
(* when it writes, and that a result is the one of the last attempt.       *)
(***************************************************************************)
EXTENDS AwdJudge, FiniteSetTheorems, TLAPS

(* The attempt's script has ended; its outcome is final. *)
Ended(t, n) == exec[t][n].st \in {"send", "wait", "done"}

(* The attempt was given to a worker. *)
Used(x) == x.st # "none" \/ x.w \in Workers

(* Attempts are used in order, only an ended one has an outcome, and what  *)
(* is being delivered has one.                                             *)
AttemptsInOrder ==
    \A t \in Tasks, n \in Attempts :
       /\ Used(exec[t][n]) => n <= task[t].attempt
       /\ exec[t][n].out # "none" => Ended(t, n)
       /\ exec[t][n].st \in {"send", "wait"} => exec[t][n].out # "none"

Delivering == {"release", "check", "write", "event", "ban", "score"}
Charging   == {"event", "ban", "score"}

(* What a handler in flight stands for. *)
FrameOK(p) ==
    /\ proc[p].pc \in Delivering => proc[p].op = "result"
    /\ proc[p].pc = "beat" => proc[p].op = "beat"
    /\ proc[p].op \in {"beat", "result"} => proc[p].t \in Tasks /\ proc[p].n \in Attempts
    /\ proc[p].op = "result" => Ended(proc[p].t, proc[p].n)
    /\ proc[p].pc \in Charging => StatusOf(OutOf(p)) = "Down"

(* A verdict comes from an ended attempt, a penalty too. *)
VerdictKnown(t) ==
    task[t].st \in {"Up", "Down"} =>
       /\ task[t].result \in Attempts
       /\ StatusOf(exec[t][task[t].result].out) = task[t].st

PenaltyKnown(t) == \E n \in Attempts : StatusOf(exec[t][n].out) = "Down"

Inv ==
    /\ TypeOK
    /\ AttemptsInOrder
    /\ \A p \in Procs : FrameOK(p)
    /\ \A t \in Tasks : VerdictKnown(t)
    /\ \A t \in penalised : PenaltyKnown(t)

---------------------------------------------------------------------------
(* Values *)

(* What the assumptions say of each constant. *)
LEMMA Consts ==
    /\ TaskCount \in Nat /\ MaxClaims \in Nat \ {0} /\ LeaseTTL \in Nat /\ Deadline \in Nat
    /\ ResultTries \in Nat /\ MaxAttempts \in Nat /\ Permits \in Nat
    /\ 0 \in 0..MaxClaims
  <1>1. TaskCount \in Nat /\ MaxClaims \in Nat \ {0} /\ LeaseTTL \in Nat /\ Deadline \in Nat
    BY JudgeConstants
  <1>2. ResultTries \in Nat /\ MaxAttempts \in Nat /\ Permits \in Nat
    BY JudgeConstants
  <1>3. 0 \in 0..MaxClaims
    BY <1>1
  <1> QED BY <1>1, <1>2, <1>3

(* A row stays a row when a lease is cleared. *)
LEMMA RowUnleased == ASSUME NEW x \in TaskRows PROVE Unleased(x) \in TaskRows
  <1>1. 0 \in 0..MaxClaims BY Consts
  <1> QED BY <1>1 DEF TaskRows, Unleased

(* Clearing a lease leaves the attempts and the result as they were. *)
LEMMA UnleasedKeeps ==
  ASSUME NEW x \in TaskRows
  PROVE  Unleased(x).attempt = x.attempt /\ Unleased(x).result = x.result
  BY DEF TaskRows, Unleased

(* A row stays a row whatever its status becomes. *)
LEMMA RowStatus ==
  ASSUME NEW x \in TaskRows, NEW s \in {"Pending", "Running"} \cup Final
  PROVE  /\ [x EXCEPT !.st = s] \in TaskRows
         /\ [x EXCEPT !.st = s].st = s
         /\ [x EXCEPT !.st = s].attempt = x.attempt
         /\ [x EXCEPT !.st = s].result = x.result
  BY DEF TaskRows

(* Releasing a row, and giving up on one, keep its attempts. *)
LEMMA RowReleased ==
  ASSUME NEW x \in TaskRows
  PROVE  /\ Released(x) \in TaskRows /\ Released(x).st = "Pending" /\ Released(x).attempt = x.attempt
         /\ Errored(x) \in TaskRows /\ Errored(x).st = "JudgeError" /\ Errored(x).attempt = x.attempt
  <1> DEFINE u == Unleased(x)
  <1>1. u \in TaskRows /\ u.attempt = x.attempt BY RowUnleased, UnleasedKeeps
  <1>2. Released(x) = [u EXCEPT !.st = "Pending"] /\ Errored(x) = [u EXCEPT !.st = "JudgeError"]
    BY DEF Released, Errored
  <1>3. {"Pending", "JudgeError"} \subseteq {"Pending", "Running"} \cup Final BY DEF Final
  <1> HIDE DEF u
  <1> QED BY <1>1, <1>2, <1>3, RowStatus

(* A claim counts one more attempt. *)
LEMMA RowClaimed ==
  ASSUME NEW x \in TaskRows, NEW w \in Workers \cup {NoWorker}, x.attempt < MaxClaims
  PROVE  /\ Claimed(x, w) \in TaskRows
         /\ Claimed(x, w).st = "Running" /\ Claimed(x, w).attempt = x.attempt + 1
  <1>1. x.attempt + 1 \in 0..MaxClaims BY Consts DEF TaskRows
  <1> QED BY Consts, <1>1 DEF TaskRows, Claimed

(* A retried delivery is an ended one. *)
LEMMA ExecResent ==
  ASSUME NEW x \in Execs
  PROVE  /\ Resent(x) \in Execs /\ Resent(x).st \in {"send", "done"}
         /\ Resent(x).out = x.out /\ Resent(x).w = x.w
  <1>1. x.tries + 1 \in Nat BY DEF Execs
  <1>2. CASE x.tries + 1 < ResultTries BY <1>1, <1>2 DEF Execs, Resent
  <1>3. CASE ~(x.tries + 1 < ResultTries) BY <1>1, <1>3 DEF Execs, Resent
  <1> QED BY <1>2, <1>3

(* The handler that does nothing. *)
LEMMA IdleFrame == Idle \in Frames /\ Idle.pc = "idle" /\ Idle.op = "none"
  BY DEF Idle, Frames, PCs

(* An outcome that speaks of the box is one a worker gave. *)
LEMMA KnownOutcome ==
  ASSUME NEW out, StatusOf(out) \in {"Up", "Down"}
  PROVE  out # "none"
  BY DEF StatusOf

LEMMA StatusIsFinal == ASSUME NEW out PROVE StatusOf(out) \in Final
  BY DEF StatusOf, Final

---------------------------------------------------------------------------
(* What every step does to the three functions *)

(* Rows keep counting, and a verdict has an attempt that found it. *)
TaskStep ==
    /\ task' \in [Tasks -> TaskRows]
    /\ \A t \in Tasks :
          /\ task'[t].attempt >= task[t].attempt
          /\ task'[t].st \in {"Up", "Down"} =>
                /\ task'[t].result \in Attempts
                /\ StatusOf(exec[t][task'[t].result].out) = task'[t].st

(* An ended attempt stays as it is. *)
ExecStep ==
    /\ exec' \in [Tasks -> [Attempts -> Execs]]
    /\ \A t \in Tasks, n \in Attempts :
          /\ Ended(t, n) => Ended(t, n)' /\ exec'[t][n].out = exec[t][n].out
          /\ Used(exec'[t][n]) => n <= task'[t].attempt
          /\ exec'[t][n].out # "none" => Ended(t, n)'
          /\ exec'[t][n].st \in {"send", "wait"} => exec'[t][n].out # "none"

ProcStep ==
    /\ proc' \in [Procs -> Frames]
    /\ \A p \in Procs : FrameOK(p)'

(* The facts about single executions that make an ExecStep. *)
ExecKeeps(t, n, y) ==
    /\ y \in Execs
    /\ Ended(t, n) => y.st \in {"send", "wait", "done"} /\ y.out = exec[t][n].out
    /\ Used(y) => n <= task'[t].attempt
    /\ y.out # "none" => y.st \in {"send", "wait", "done"}
    /\ y.st \in {"send", "wait"} => y.out # "none"

LEMMA ExecStepByEach ==
  ASSUME exec' = [t \in Tasks |-> exec'[t]],
         \A t \in Tasks : exec'[t] = [n \in Attempts |-> exec'[t][n]],
         \A t \in Tasks, n \in Attempts : ExecKeeps(t, n, exec'[t][n])
  PROVE  ExecStep
  <1>1. exec' \in [Tasks -> [Attempts -> Execs]] BY DEF ExecKeeps
  <1> QED BY <1>1 DEF ExecStep, ExecKeeps, Ended

(* An execution nobody touches. *)
LEMMA ExecUntouched ==
  ASSUME Inv, NEW t \in Tasks, NEW n \in Attempts, TaskStep
  PROVE  ExecKeeps(t, n, exec[t][n])
  <1>1. exec[t][n] \in Execs BY DEF Inv, TypeOK
  <1>2. Used(exec[t][n]) => n <= task[t].attempt BY DEF Inv, AttemptsInOrder
  <1>3. task[t].attempt \in Nat /\ task'[t].attempt \in Nat
    BY Consts DEF Inv, TypeOK, TaskRows, TaskStep
  <1>4. task'[t].attempt >= task[t].attempt BY DEF TaskStep
  <1>5. n \in Nat BY Consts DEF Attempts
  <1>6. Used(exec[t][n]) => n <= task'[t].attempt BY <1>2, <1>3, <1>4, <1>5
  <1> QED BY <1>1, <1>6 DEF Inv, AttemptsInOrder, ExecKeeps, Ended

LEMMA TaskSame == ASSUME Inv, UNCHANGED task PROVE TaskStep
  <1>1. \A t \in Tasks : task[t].attempt \in Nat BY Consts DEF Inv, TypeOK, TaskRows
  <1> QED BY <1>1 DEF Inv, TypeOK, VerdictKnown, TaskStep

LEMMA ExecSame == ASSUME Inv, TaskStep, UNCHANGED exec PROVE ExecStep
  BY ExecUntouched DEF ExecStep, ExecKeeps, Ended, Inv, TypeOK

(* One execution changes. *)
LEMMA ExecOne ==
  ASSUME Inv, TaskStep, NEW t \in Tasks, NEW n \in Attempts, NEW y,
         exec' = [exec EXCEPT ![t][n] = y], ExecKeeps(t, n, y)
  PROVE  ExecStep
  <1>1. ASSUME NEW u \in Tasks, NEW m \in Attempts PROVE ExecKeeps(u, m, exec'[u][m])
    <2>1. CASE u = t /\ m = n BY <2>1 DEF Inv, TypeOK
    <2>2. CASE ~(u = t /\ m = n)
      <3>1. exec'[u][m] = exec[u][m] BY <2>2 DEF Inv, TypeOK
      <3> QED BY <3>1, ExecUntouched
    <2> QED BY <2>1, <2>2
  <1>2. exec' \in [Tasks -> [Attempts -> Execs]]
    <2>1. y \in Execs BY DEF ExecKeeps
    <2> QED BY <2>1 DEF Inv, TypeOK
  <1> QED BY <1>1, <1>2 DEF ExecStep, ExecKeeps, Ended

(* Of a frame that is left alone, what it stands for stays true. *)
LEMMA FrameKept ==
  ASSUME Inv, ExecStep, NEW q \in Procs, proc'[q] = proc[q]
  PROVE  FrameOK(q)'
  <1> DEFINE f == proc[q]
  <1>1. FrameOK(q) BY DEF Inv
  <1>2. CASE f.op = "result"
    <2>1. f.t \in Tasks /\ f.n \in Attempts /\ Ended(f.t, f.n) BY <1>1, <1>2 DEF FrameOK
    <2>2. Ended(f.t, f.n)' /\ exec'[f.t][f.n].out = exec[f.t][f.n].out
      BY <2>1 DEF ExecStep, Ended
    <2> QED BY <1>1, <2>2 DEF FrameOK, OutOf, Ended
  <1>3. CASE f.op # "result"
    BY <1>1, <1>3 DEF FrameOK, Delivering, Charging
  <1> QED BY <1>2, <1>3

(* A frame is replaced by one that fits the new state. *)
LEMMA FrameSet ==
  ASSUME Inv, ExecStep, NEW p \in Procs, NEW f \in Frames,
         proc' = [proc EXCEPT ![p] = f],
         f.pc \in Delivering => f.op = "result",
         f.pc = "beat" => f.op = "beat",
         f.op \in {"beat", "result"} => f.t \in Tasks /\ f.n \in Attempts,
         f.op = "result" => exec'[f.t][f.n].st \in {"send", "wait", "done"},
         f.pc \in Charging => StatusOf(exec'[f.t][f.n].out) = "Down"
  PROVE  ProcStep
  <1>1. proc' \in [Procs -> Frames] /\ proc'[p] = f BY DEF Inv, TypeOK
  <1>2. FrameOK(p)' BY <1>1 DEF FrameOK, OutOf, Ended
  <1>3. ASSUME NEW q \in Procs, q # p PROVE FrameOK(q)'
    <2>1. proc'[q] = proc[q] BY <1>3 DEF Inv, TypeOK
    <2> QED BY <2>1, FrameKept
  <1> QED BY <1>1, <1>2, <1>3 DEF ProcStep

LEMMA ProcSame == ASSUME Inv, ExecStep, UNCHANGED proc PROVE ProcStep
  BY FrameKept DEF ProcStep, Inv, TypeOK

LEMMA ProcIdle ==
  ASSUME Inv, ExecStep, NEW p \in Procs, proc' = [proc EXCEPT ![p] = Idle]
  PROVE  ProcStep
  BY FrameSet, IdleFrame DEF Delivering, Charging

(* A handler goes on to its next statement. *)
LEMMA ProcGoto ==
  ASSUME Inv, ExecStep, NEW p \in Procs, NEW x \in PCs, Goto(p, x), x # "beat",
         x \in Delivering => proc[p].op = "result",
         x \in Charging => StatusOf(OutOf(p)) = "Down"
  PROVE  ProcStep
  <1> DEFINE f == [proc[p] EXCEPT !.pc = x]
  <1>1. proc[p] \in Frames BY DEF Inv, TypeOK
  <1>2. /\ f \in Frames /\ f.pc = x /\ f.op = proc[p].op
        /\ f.t = proc[p].t /\ f.n = proc[p].n
    BY <1>1 DEF Frames
  <1>3. proc' = [proc EXCEPT ![p] = f] BY DEF Goto
  <1>4. FrameOK(p) BY DEF Inv
  <1> HIDE DEF f
  <1>5. ASSUME f.op = "result"
        PROVE  /\ exec'[f.t][f.n].st \in {"send", "wait", "done"}
               /\ exec'[f.t][f.n].out = OutOf(p)
    <2>1. f.t \in Tasks /\ f.n \in Attempts /\ Ended(f.t, f.n) BY <1>2, <1>4, <1>5 DEF FrameOK
    <2> QED BY <1>2, <2>1 DEF ExecStep, OutOf, Ended
  <1>6. x \in Charging => x \in Delivering BY DEF Charging, Delivering
  <1>7. f.op \in {"beat", "result"} => f.t \in Tasks /\ f.n \in Attempts BY <1>2, <1>4 DEF FrameOK
  <1>8. f.pc \in Charging => StatusOf(exec'[f.t][f.n].out) = "Down" BY <1>2, <1>5, <1>6
  <1> QED BY <1>2, <1>3, <1>5, <1>7, <1>8, FrameSet

(* What is known stays known, and the invariant follows. *)
LEMMA InvByParts ==
  ASSUME Inv, TaskStep, ExecStep, ProcStep,
         ev' \in {"Running", "Paused", "Finished"}, deadline' \in Nat,
         timer' \in {"pending", "running", "done"},
         banned' \subseteq Tasks, waived' \subseteq Tasks,
         used' \in [pauses : Nat, crashes : Nat, deaths : Nat, losses : Nat, bans : Nat],
         \A t \in penalised' : t \in Tasks /\ PenaltyKnown(t)
  PROVE  Inv' /\ ExecStep
  <1>1. TypeOK' BY DEF TypeOK, TaskStep, ExecStep, ProcStep
  <1>2. AttemptsInOrder' BY DEF AttemptsInOrder, ExecStep, Ended
  <1>3. ASSUME NEW t \in Tasks, NEW n \in Attempts, StatusOf(exec[t][n].out) \in {"Up", "Down"}
        PROVE  exec'[t][n].out = exec[t][n].out
    <2>1. exec[t][n].out # "none" BY <1>3, KnownOutcome
    <2>2. Ended(t, n) BY <2>1 DEF Inv, AttemptsInOrder
    <2> QED BY <2>2 DEF ExecStep
  <1>4. ASSUME NEW t \in Tasks PROVE VerdictKnown(t)'
    <2> SUFFICES ASSUME task'[t].st \in {"Up", "Down"}
                 PROVE  /\ task'[t].result \in Attempts
                        /\ StatusOf(exec'[t][task'[t].result].out) = task'[t].st
      BY DEF VerdictKnown
    <2>1. /\ task'[t].result \in Attempts
          /\ StatusOf(exec[t][task'[t].result].out) = task'[t].st
      BY DEF TaskStep
    <2> QED BY <2>1, <1>3
  <1>5. ASSUME NEW t \in penalised' PROVE PenaltyKnown(t)'
    <2>1. PICK n \in Attempts : StatusOf(exec[t][n].out) = "Down" BY DEF PenaltyKnown
    <2>2. exec'[t][n].out = exec[t][n].out BY <2>1, <1>3
    <2> QED BY <2>1, <2>2 DEF PenaltyKnown
  <1> QED BY <1>1, <1>2, <1>4, <1>5 DEF Inv, ProcStep

(* One row changes, and its verdict is as it was or none. *)
LEMMA TaskOne ==
  ASSUME Inv, NEW t \in Tasks, NEW x \in TaskRows, task' = [task EXCEPT ![t] = x],
         x.attempt >= task[t].attempt,
         x.st \in {"Up", "Down"} =>
            x.result \in Attempts /\ StatusOf(exec[t][x.result].out) = x.st
  PROVE  TaskStep
  <1>1. task' \in [Tasks -> TaskRows] BY DEF Inv, TypeOK
  <1>2. ASSUME NEW u \in Tasks
        PROVE  /\ task'[u].attempt >= task[u].attempt
               /\ task'[u].st \in {"Up", "Down"} =>
                     /\ task'[u].result \in Attempts
                     /\ StatusOf(exec[u][task'[u].result].out) = task'[u].st
    <2>1. CASE u = t BY <2>1 DEF Inv, TypeOK
    <2>2. CASE u # t
      <3>1. task'[u] = task[u] BY <2>2 DEF Inv, TypeOK
      <3>2. task[u].attempt \in Nat BY Consts DEF Inv, TypeOK, TaskRows
      <3> QED BY <3>1, <3>2 DEF Inv, VerdictKnown
    <2> QED BY <2>1, <2>2
  <1> QED BY <1>1, <1>2 DEF TaskStep

(* A row is released or given up: it counts no attempt and has no verdict. *)
LEMMA TaskCleared ==
  ASSUME Inv, NEW t \in Tasks, NEW x, x = Released(task[t]) \/ x = Errored(task[t]),
         task' = [task EXCEPT ![t] = x]
  PROVE  TaskStep
  <1>1. task[t] \in TaskRows BY DEF Inv, TypeOK
  <1>2. x \in TaskRows /\ x.st \notin {"Up", "Down"} /\ x.attempt = task[t].attempt
    BY <1>1, RowReleased
  <1>3. x.attempt >= task[t].attempt BY <1>1, <1>2, Consts DEF TaskRows
  <1> QED BY <1>2, <1>3, TaskOne

(* The number of executions a worker has. *)
LEMMA BusyIsNat == ASSUME NEW w PROVE Busy(w) \in Nat
  <1>1. IsFiniteSet(Tasks \X Attempts)
    <2>1. IsFiniteSet(1..TaskCount) /\ IsFiniteSet(1..MaxClaims) BY Consts, FS_Interval
    <2> QED BY <2>1, FS_Product DEF Tasks, Attempts
  <1> QED BY <1>1, FS_Subset, FS_CardinalityType DEF Busy

---------------------------------------------------------------------------
(* Every action preserves the invariant *)

(* The penalties there are stay known. *)
LEMMA PenaltiesSame == ASSUME Inv, UNCHANGED penalised PROVE \A t \in penalised' : t \in Tasks /\ PenaltyKnown(t)
  BY DEF Inv, TypeOK

(* Counting a failure keeps the counters counters. *)
LEMMA SpendType ==
  ASSUME Inv, NEW what \in {"pauses", "crashes", "deaths", "losses", "bans"}, Spend(what)
  PROVE  used' \in [pauses : Nat, crashes : Nat, deaths : Nat, losses : Nat, bans : Nat]
  BY DEF Inv, TypeOK, Spend

(* A statement that only moves its handler on. *)
LEMMA OnlyGoto ==
  ASSUME Inv, NEW p \in Procs, NEW x \in PCs, Goto(p, x), x # "beat",
         x \in Delivering => proc[p].op = "result",
         x \in Charging => StatusOf(OutOf(p)) = "Down",
         UNCHANGED <<task, exec, ev, deadline, timer, penalised, banned, waived, used>>
  PROVE  Inv' /\ ExecStep
  <1>1. TaskStep BY TaskSame
  <1>2. ExecStep BY <1>1, ExecSame
  <1>3. ProcStep BY <1>2, ProcGoto
  <1> QED BY <1>1, <1>2, <1>3, InvByParts, PenaltiesSame DEF Inv, TypeOK

LEMMA ClaimSweepReadInv == ASSUME Inv, NEW p \in Procs, NEW w \in Workers, ClaimSweepRead(p, w) PROVE Inv' /\ ExecStep
  <1> DEFINE S == IF deadline = 0 THEN {t \in Tasks : Open(t)} ELSE {}
             f == [Idle EXCEPT !.pc = "sweep", !.op = "claim", !.w = w, !.limit = Permits - Busy(w), !.todo = S]
  <1>1. TaskStep BY TaskSame DEF ClaimSweepRead
  <1>2. ExecStep BY <1>1, ExecSame DEF ClaimSweepRead
  <1>3. ProcStep
    <2>1. Permits - Busy(w) \in Int BY BusyIsNat, Consts
    <2>2. S \subseteq Tasks OBVIOUS
    <2> HIDE DEF S
    <2>3. f \in Frames /\ f.pc = "sweep" /\ f.op = "claim" BY <2>1, <2>2, IdleFrame DEF Idle, Frames, PCs
    <2>4. proc' = [proc EXCEPT ![p] = f] BY DEF ClaimSweepRead, S
    <2> HIDE DEF f
    <2> QED BY <1>2, <2>3, <2>4, FrameSet DEF Delivering, Charging
  <1> QED BY <1>1, <1>2, <1>3, InvByParts, PenaltiesSame DEF Inv, TypeOK, ClaimSweepRead

LEMMA SweepWriteInv == ASSUME Inv, NEW p \in Procs, NEW t \in Tasks, SweepWrite(p, t) PROVE Inv' /\ ExecStep
  <1>1. TaskStep BY TaskCleared DEF SweepWrite
  <1>2. ExecStep BY <1>1, ExecSame DEF SweepWrite
  <1>3. ProcStep
    <2> DEFINE f == [proc[p] EXCEPT !.todo = @ \ {t}, !.hit = TRUE]
    <2>1. proc[p] \in Frames /\ FrameOK(p) /\ proc[p].pc = "sweep" BY DEF Inv, TypeOK, SweepWrite, At
    <2>2. /\ f \in Frames /\ f.pc = proc[p].pc /\ f.op = proc[p].op
          /\ f.t = proc[p].t /\ f.n = proc[p].n
      BY <2>1 DEF Frames
    <2>3. proc' = [proc EXCEPT ![p] = f] BY DEF SweepWrite, Inv, TypeOK
    <2> HIDE DEF f
    <2>4. ASSUME f.op = "result" PROVE exec'[f.t][f.n].st \in {"send", "wait", "done"}
      <3>1. f.t \in Tasks /\ f.n \in Attempts /\ Ended(f.t, f.n) BY <2>1, <2>2, <2>4 DEF FrameOK
      <3> QED BY <3>1, <1>2 DEF ExecStep, Ended
    <2>5. f.op \in {"beat", "result"} => f.t \in Tasks /\ f.n \in Attempts BY <2>1, <2>2 DEF FrameOK
    <2> QED BY <1>2, <2>1, <2>2, <2>3, <2>4, <2>5, FrameSet DEF Delivering, Charging
  <1> QED BY <1>1, <1>2, <1>3, InvByParts, PenaltiesSame DEF Inv, TypeOK, SweepWrite

LEMMA ReclaimReadInv == ASSUME Inv, NEW p \in Procs, ReclaimRead(p) PROVE Inv' /\ ExecStep
  <1> DEFINE E == {t \in Tasks : task[t].st = "Running" /\ task[t].lease = 0}
             R == {t \in E : Retryable(t)}
             f == [proc[p] EXCEPT !.pc = "claim", !.todo = E, !.retry = R]
  <1>1. TaskStep BY TaskSame DEF ReclaimRead
  <1>2. ExecStep BY <1>1, ExecSame DEF ReclaimRead
  <1>3. ProcStep
    <2>1. proc[p] \in Frames /\ proc[p].op = "claim" BY DEF Inv, TypeOK, ReclaimRead
    <2>2. E \subseteq Tasks /\ R \subseteq Tasks OBVIOUS
    <2>3. proc' = [proc EXCEPT ![p] = f] BY DEF ReclaimRead, Inv, TypeOK
    <2> HIDE DEF E, R
    <2>4. f \in Frames /\ f.pc = "claim" /\ f.op = "claim" BY <2>1, <2>2 DEF Frames, PCs
    <2> HIDE DEF f
    <2> QED BY <1>2, <2>3, <2>4, FrameSet DEF Delivering, Charging
  <1> QED BY <1>1, <1>2, <1>3, InvByParts, PenaltiesSame DEF Inv, TypeOK, ReclaimRead

(* A request or its answer is lost, or it is answered: executions that     *)
(* were issued, running or being delivered move on, outcomes stay.         *)
LEMMA ExecMoved ==
  ASSUME Inv, TaskStep, NEW t \in Tasks, NEW n \in Attempts, Used(exec[t][n]),
         NEW s \in {"issued", "run", "send", "wait", "done"},
         exec[t][n].out # "none" => s \in {"send", "wait", "done"},
         s \in {"send", "wait"} => exec[t][n].out # "none",
         Ended(t, n) => s \in {"send", "wait", "done"}
  PROVE  ExecKeeps(t, n, [exec[t][n] EXCEPT !.st = s])
  <1>1. exec[t][n] \in Execs BY DEF Inv, TypeOK
  <1>2. n <= task'[t].attempt BY ExecUntouched DEF ExecKeeps
  <1> DEFINE y == [exec[t][n] EXCEPT !.st = s]
  <1>3. y \in Execs /\ y.st = s /\ y.out = exec[t][n].out BY <1>1 DEF Execs
  <1> HIDE DEF y
  <1>4. ExecKeeps(t, n, y) BY <1>2, <1>3 DEF ExecKeeps
  <1> QED BY <1>4 DEF y

LEMMA ClaimReplyInv == ASSUME Inv, NEW p \in Procs, ClaimReply(p) PROVE Inv' /\ ExecStep
  <1>1. TaskStep BY TaskSame DEF ClaimReply
  <1>2. ExecStep
    <2>1. ASSUME NEW t \in Tasks, NEW n \in Attempts PROVE ExecKeeps(t, n, exec'[t][n])
      <3>1. CASE exec[t][n].st = "issued" /\ exec[t][n].w = proc[p].w
        <4>1. exec'[t][n] = [exec[t][n] EXCEPT !.st = "run"] BY <3>1 DEF ClaimReply
        <4>2. ~Ended(t, n) /\ Used(exec[t][n]) BY <3>1 DEF Ended, Used
        <4>3. exec[t][n].out = "none" BY <4>2 DEF Inv, AttemptsInOrder
        <4> QED BY <1>1, <4>1, <4>2, <4>3, ExecMoved
      <3>2. CASE ~(exec[t][n].st = "issued" /\ exec[t][n].w = proc[p].w)
        <4>1. exec'[t][n] = exec[t][n] BY <3>2 DEF ClaimReply
        <4> QED BY <1>1, <4>1, ExecUntouched
      <3> QED BY <3>1, <3>2
    <2> QED BY <2>1, ExecStepByEach DEF ClaimReply
  <1>3. ProcStep BY <1>2, ProcIdle DEF ClaimReply
  <1> QED BY <1>1, <1>2, <1>3, InvByParts, PenaltiesSame DEF Inv, TypeOK, ClaimReply

LEMMA ClaimReplyLostInv == ASSUME Inv, NEW p \in Procs, ClaimReplyLost(p) PROVE Inv' /\ ExecStep
  <1>1. TaskStep BY TaskSame DEF ClaimReplyLost
  <1>2. ExecStep
    <2>1. ASSUME NEW t \in Tasks, NEW n \in Attempts PROVE ExecKeeps(t, n, exec'[t][n])
      <3>1. CASE exec[t][n].st = "issued" /\ exec[t][n].w = proc[p].w
        <4>1. exec'[t][n] = [exec[t][n] EXCEPT !.st = "done"] BY <3>1 DEF ClaimReplyLost, Orphaned
        <4>2. Used(exec[t][n]) BY <3>1 DEF Used
        <4> QED BY <1>1, <4>1, <4>2, ExecMoved
      <3>2. CASE ~(exec[t][n].st = "issued" /\ exec[t][n].w = proc[p].w)
        <4>1. exec'[t][n] = exec[t][n] BY <3>2 DEF ClaimReplyLost, Orphaned
        <4> QED BY <1>1, <4>1, ExecUntouched
      <3> QED BY <3>1, <3>2
    <2> QED BY <2>1, ExecStepByEach DEF ClaimReplyLost, Orphaned
  <1>3. ProcStep BY <1>2, ProcIdle DEF ClaimReplyLost
  <1>4. used' \in [pauses : Nat, crashes : Nat, deaths : Nat, losses : Nat, bans : Nat]
    BY SpendType DEF ClaimReplyLost
  <1> QED BY <1>1, <1>2, <1>3, <1>4, InvByParts, PenaltiesSame DEF Inv, TypeOK, ClaimReplyLost

LEMMA HeartbeatReadInv ==
  ASSUME Inv, NEW p \in Procs, NEW t \in Tasks, NEW n \in Attempts, HeartbeatRead(p, t, n)
  PROVE  Inv' /\ ExecStep
  <1> DEFINE f == [Idle EXCEPT !.pc = "beat", !.op = "beat", !.t = t, !.n = n]
  <1>1. TaskStep BY TaskSame DEF HeartbeatRead
  <1>2. ExecStep BY <1>1, ExecSame DEF HeartbeatRead
  <1>3. ProcStep
    <2>1. f \in Frames /\ f.pc = "beat" /\ f.op = "beat" /\ f.t = t /\ f.n = n
      BY IdleFrame DEF Idle, Frames, PCs
    <2>2. proc' = [proc EXCEPT ![p] = f] BY DEF HeartbeatRead
    <2> HIDE DEF f
    <2> QED BY <1>2, <2>1, <2>2, FrameSet DEF Delivering, Charging
  <1> QED BY <1>1, <1>2, <1>3, InvByParts, PenaltiesSame DEF Inv, TypeOK, HeartbeatRead

LEMMA HeartbeatStaleInv ==
  ASSUME Inv, NEW p \in Procs, NEW t \in Tasks, NEW n \in Attempts, HeartbeatStale(p, t, n)
  PROVE  Inv' /\ ExecStep
  <1>1. TaskStep BY TaskSame DEF HeartbeatStale
  <1>2. ExecStep
    <2> DEFINE x == exec[t][n]
               y == [x EXCEPT !.stale = TRUE]
    <2>1. x \in Execs BY DEF Inv, TypeOK
    <2>2. y \in Execs /\ y.st = x.st /\ y.out = x.out /\ y.w = x.w BY <2>1 DEF Execs
    <2>3. exec' = [exec EXCEPT ![t][n] = y] BY DEF HeartbeatStale, Inv, TypeOK
    <2>4. ExecKeeps(t, n, x) BY <1>1, ExecUntouched
    <2> HIDE DEF y
    <2>5. ExecKeeps(t, n, y) BY <2>2, <2>4 DEF ExecKeeps, Used
    <2> QED BY <1>1, <2>3, <2>5, ExecOne
  <1>3. ProcStep BY <1>2, ProcSame DEF HeartbeatStale
  <1> QED BY <1>1, <1>2, <1>3, InvByParts, PenaltiesSame DEF Inv, TypeOK, HeartbeatStale

LEMMA HeartbeatWriteInv == ASSUME Inv, NEW p \in Procs, HeartbeatWrite(p) PROVE Inv' /\ ExecStep
  <1> DEFINE t == proc[p].t
             l == IF LeaseTTL < deadline THEN LeaseTTL ELSE deadline
             x == [task[t] EXCEPT !.lease = l]
  <1>1. TaskStep
    <2>1. t \in Tasks BY DEF Inv, FrameOK, HeartbeatWrite, At
    <2>2. l \in Nat BY Consts DEF Inv, TypeOK
    <2>3. task' = [task EXCEPT ![t] = x] BY DEF HeartbeatWrite, Inv, TypeOK
    <2>4. task[t] \in TaskRows BY <2>1 DEF Inv, TypeOK
    <2> HIDE DEF l
    <2>5. x \in TaskRows /\ x.attempt = task[t].attempt /\ x.st = task[t].st /\ x.result = task[t].result
      BY <2>2, <2>4 DEF TaskRows
    <2>6. x.attempt >= task[t].attempt BY <2>4, <2>5, Consts DEF TaskRows
    <2>7. VerdictKnown(t) BY <2>1 DEF Inv
    <2> HIDE DEF x, t
    <2> QED BY <2>1, <2>3, <2>5, <2>6, <2>7, TaskOne DEF VerdictKnown
  <1>2. ExecStep BY <1>1, ExecSame DEF HeartbeatWrite
  <1>3. ProcStep BY <1>2, ProcIdle DEF HeartbeatWrite
  <1> QED BY <1>1, <1>2, <1>3, InvByParts, PenaltiesSame DEF Inv, TypeOK, HeartbeatWrite

LEMMA ScriptEndsInv ==
  ASSUME Inv, NEW t \in Tasks, NEW n \in Attempts, NEW out \in Outcomes, ScriptEnds(t, n, out)
  PROVE  Inv' /\ ExecStep
  <1>1. TaskStep BY TaskSame DEF ScriptEnds
  <1>2. ExecStep
    <2> DEFINE s == IF exec[t][n].stale THEN "done" ELSE "send"
               y == [exec[t][n] EXCEPT !.st = s, !.out = out]
    <2>1. exec[t][n] \in Execs /\ exec[t][n].st = "run" BY DEF Inv, TypeOK, ScriptEnds
    <2>2. s \in {"send", "done"} OBVIOUS
    <2>3. exec' = [exec EXCEPT ![t][n] = y] BY DEF ScriptEnds, Inv, TypeOK
    <2> HIDE DEF s
    <2>4. y \in Execs /\ y.st = s BY <2>1, <2>2 DEF Execs
    <2>5. n <= task'[t].attempt BY <1>1, <2>1, ExecUntouched DEF ExecKeeps, Used
    <2>6. ~Ended(t, n) BY <2>1 DEF Ended
    <2> HIDE DEF y
    <2>7. out # "none" /\ y.out = out BY <2>1, <2>2 DEF Outcomes, Execs, y
    <2>8. ExecKeeps(t, n, y) BY <2>2, <2>4, <2>5, <2>6, <2>7 DEF ExecKeeps
    <2> QED BY <1>1, <2>3, <2>8, ExecOne
  <1>3. ProcStep BY <1>2, ProcSame DEF ScriptEnds
  <1> QED BY <1>1, <1>2, <1>3, InvByParts, PenaltiesSame DEF Inv, TypeOK, ScriptEnds

(* A delivery that is tried again. *)
LEMMA ExecTriedAgain ==
  ASSUME Inv, TaskStep, NEW t \in Tasks, NEW n \in Attempts, exec[t][n].st \in {"send", "wait"}
  PROVE  ExecKeeps(t, n, Resent(exec[t][n]))
  <1>1. exec[t][n] \in Execs /\ exec[t][n].out # "none" BY DEF Inv, TypeOK, AttemptsInOrder
  <1>2. n <= task'[t].attempt BY ExecUntouched DEF ExecKeeps, Used, Ended
  <1> QED BY <1>1, <1>2, ExecResent DEF ExecKeeps

LEMMA RequestLostInv == ASSUME Inv, NEW t \in Tasks, NEW n \in Attempts, RequestLost(t, n) PROVE Inv' /\ ExecStep
  <1>1. TaskStep BY TaskSame DEF RequestLost
  <1>2. ExecStep
    <2>1. exec[t][n].st = "send" BY DEF RequestLost
    <2>2. exec' = [exec EXCEPT ![t][n] = Resent(exec[t][n])] BY DEF RequestLost, Inv, TypeOK
    <2> QED BY <1>1, <2>1, <2>2, ExecTriedAgain, ExecOne
  <1>3. ProcStep BY <1>2, ProcSame DEF RequestLost
  <1>4. used' \in [pauses : Nat, crashes : Nat, deaths : Nat, losses : Nat, bans : Nat]
    BY SpendType DEF RequestLost
  <1> QED BY <1>1, <1>2, <1>3, <1>4, InvByParts, PenaltiesSame DEF Inv, TypeOK, RequestLost

LEMMA WorkerDiesInv == ASSUME Inv, NEW w \in Workers, WorkerDies(w) PROVE Inv' /\ ExecStep
  <1>1. TaskStep BY TaskSame DEF WorkerDies
  <1>2. ExecStep
    <2>1. ASSUME NEW t \in Tasks, NEW n \in Attempts PROVE ExecKeeps(t, n, exec'[t][n])
      <3>1. CASE exec[t][n].w = w
        <4>1. exec'[t][n] = [exec[t][n] EXCEPT !.st = "done"] BY <3>1 DEF WorkerDies
        <4>2. Used(exec[t][n]) BY <3>1 DEF Used
        <4> QED BY <1>1, <4>1, <4>2, ExecMoved
      <3>2. CASE exec[t][n].w # w
        <4>1. exec'[t][n] = exec[t][n] BY <3>2 DEF WorkerDies
        <4> QED BY <1>1, <4>1, ExecUntouched
      <3> QED BY <3>1, <3>2
    <2> QED BY <2>1, ExecStepByEach DEF WorkerDies
  <1>3. ProcStep BY <1>2, ProcSame DEF WorkerDies
  <1>4. used' \in [pauses : Nat, crashes : Nat, deaths : Nat, losses : Nat, bans : Nat]
    BY SpendType DEF WorkerDies
  <1> QED BY <1>1, <1>2, <1>3, <1>4, InvByParts, PenaltiesSame DEF Inv, TypeOK, WorkerDies

LEMMA ResultFindInv ==
  ASSUME Inv, NEW p \in Procs, NEW t \in Tasks, NEW n \in Attempts, ResultFind(p, t, n)
  PROVE  Inv' /\ ExecStep
  <1> DEFINE c == IF exec[t][n].out = "worker_error" /\ Retryable(t) THEN "release" ELSE "check"
             f == [Idle EXCEPT !.op = "result", !.t = t, !.n = n, !.pc = c]
             y == [exec[t][n] EXCEPT !.st = "wait"]
  <1>1. TaskStep BY TaskSame DEF ResultFind
  <1>2. exec[t][n] \in Execs /\ exec' = [exec EXCEPT ![t][n] = y] BY DEF ResultFind, Inv, TypeOK
  <1>3. ExecStep
    <2>1. Used(exec[t][n]) BY DEF ResultFind, Used
    <2>2. exec[t][n].out # "none" BY DEF ResultFind, Inv, AttemptsInOrder
    <2>3. ExecKeeps(t, n, y) BY <1>1, <2>1, <2>2, ExecMoved
    <2> HIDE DEF y
    <2> QED BY <1>1, <1>2, <2>3, ExecOne
  <1>4. exec'[t][n].st = "wait" BY <1>2 DEF Inv, TypeOK, Execs
  <1>5. ProcStep
    <2>1. c \in {"release", "check"} OBVIOUS
    <2>2. proc' = [proc EXCEPT ![p] = f] BY DEF ResultFind
    <2> HIDE DEF c
    <2>3. f \in Frames /\ f.pc = c /\ f.op = "result" /\ f.t = t /\ f.n = n
      BY <2>1, IdleFrame DEF Idle, Frames, PCs
    <2> HIDE DEF f
    <2> QED BY <1>3, <1>4, <2>1, <2>2, <2>3, FrameSet DEF Delivering, Charging
  <1> QED BY <1>1, <1>3, <1>5, InvByParts, PenaltiesSame DEF Inv, TypeOK, ResultFind

(* While a result is dealt with, the handler knows its attempt. *)
LEMMA ResultFrame ==
  ASSUME Inv, NEW p \in Procs, proc[p].op = "result" \/ proc[p].pc \in Delivering
  PROVE  /\ proc[p].op = "result" /\ proc[p].t \in Tasks /\ proc[p].n \in Attempts
         /\ Ended(proc[p].t, proc[p].n)
  BY DEF Inv, FrameOK

LEMMA ResultReleaseInv == ASSUME Inv, NEW p \in Procs, ResultRelease(p) PROVE Inv' /\ ExecStep
  <1>1. proc[p].t \in Tasks BY ResultFrame DEF ResultRelease, At, Delivering
  <1>2. TaskStep BY <1>1, TaskCleared DEF ResultRelease
  <1>3. ExecStep BY <1>2, ExecSame DEF ResultRelease
  <1>4. ProcStep BY <1>3, ProcGoto DEF ResultRelease, PCs, Delivering, Charging
  <1> QED BY <1>2, <1>3, <1>4, InvByParts, PenaltiesSame DEF Inv, TypeOK, ResultRelease

(* A verdict goes on to be scored only when it is a Down. *)
LEMMA ScoredGoto ==
  ASSUME NEW p \in Procs
  PROVE  /\ Scored(p) \in PCs /\ Scored(p) \in {"event", "mf_read"}
         /\ Scored(p) \in Charging => StatusOf(OutOf(p)) = "Down"
  BY DEF Scored, PCs, Charging

(* The worker is told that its result is refused, or taken. *)
LEMMA ExecFinished ==
  ASSUME Inv, TaskStep, NEW t \in Tasks, NEW n \in Attempts, Ended(t, n),
         exec' = [exec EXCEPT ![t][n].st = "done"]
  PROVE  ExecStep
  <1> DEFINE y == [exec[t][n] EXCEPT !.st = "done"]
  <1>1. exec' = [exec EXCEPT ![t][n] = y] BY DEF Inv, TypeOK
  <1>2. Used(exec[t][n]) BY DEF Used, Ended
  <1>3. ExecKeeps(t, n, y) BY <1>2, ExecMoved
  <1> HIDE DEF y
  <1> QED BY <1>1, <1>3, ExecOne

LEMMA ResultCheckInv == ASSUME Inv, NEW p \in Procs, ResultCheck(p) PROVE Inv' /\ ExecStep
  <1> DEFINE t == proc[p].t
             n == proc[p].n
  <1>1. proc[p].op = "result" /\ t \in Tasks /\ n \in Attempts /\ Ended(t, n)
    BY ResultFrame DEF ResultCheck, At, Delivering
  <1>2. TaskStep BY TaskSame DEF ResultCheck
  <1>3. CASE Goto(p, Scored(p)) /\ UNCHANGED exec
    BY <1>1, <1>3, ScoredGoto, OnlyGoto DEF ResultCheck
  <1>4. CASE Goto(p, "write") /\ UNCHANGED exec
    BY <1>1, <1>4, OnlyGoto DEF ResultCheck, PCs, Charging
  <1>5. CASE proc' = [proc EXCEPT ![p] = Idle] /\ exec' = [exec EXCEPT ![t][n].st = "done"]
    <2>1. ExecStep BY <1>1, <1>2, <1>5, ExecFinished
    <2>2. ProcStep BY <2>1, <1>5, ProcIdle
    <2> QED BY <1>2, <2>1, <2>2, InvByParts, PenaltiesSame DEF Inv, TypeOK, ResultCheck
  <1> QED BY <1>3, <1>4, <1>5 DEF ResultCheck

LEMMA ResultWriteInv == ASSUME Inv, NEW p \in Procs, ResultWrite(p) PROVE Inv' /\ ExecStep
  <1> DEFINE t == proc[p].t
             n == proc[p].n
             u == Unleased(task[t])
             s == StatusOf(OutOf(p))
             x == [u EXCEPT !.st = s, !.result = n]
  <1>1. proc[p].op = "result" /\ t \in Tasks /\ n \in Attempts
    BY ResultFrame DEF ResultWrite, At, Delivering
  <1>2. TaskStep
    <2>1. task[t] \in TaskRows BY <1>1 DEF Inv, TypeOK
    <2>2. u \in TaskRows /\ u.attempt = task[t].attempt BY <2>1, RowUnleased, UnleasedKeeps
    <2>3. s \in Final /\ n \in 0..MaxClaims BY <1>1, StatusIsFinal, Consts DEF Attempts
    <2>4. task' = [task EXCEPT ![t] = x] BY DEF ResultWrite
    <2>5. s = StatusOf(exec[t][n].out) BY DEF OutOf
    <2> HIDE DEF u, s
    <2>6. x \in TaskRows /\ x.attempt = u.attempt /\ x.st = s /\ x.result = n
      BY <2>2, <2>3 DEF TaskRows
    <2>7. x.attempt >= task[t].attempt BY <2>1, <2>2, <2>6, Consts DEF TaskRows
    <2> HIDE DEF x, t, n
    <2> QED BY <1>1, <2>4, <2>5, <2>6, <2>7, TaskOne
  <1>3. ExecStep BY <1>2, ExecSame DEF ResultWrite
  <1>4. ProcStep BY <1>1, <1>3, ScoredGoto, ProcGoto DEF ResultWrite
  <1> QED BY <1>2, <1>3, <1>4, InvByParts, PenaltiesSame DEF Inv, TypeOK, ResultWrite

LEMMA ResultEventInv == ASSUME Inv, NEW p \in Procs, ResultEvent(p) PROVE Inv' /\ ExecStep
  <1>1. proc[p].op = "result" /\ proc[p].t \in Tasks
    BY ResultFrame DEF ResultEvent, At, Delivering
  <1>2. StatusOf(OutOf(p)) = "Down" BY DEF Inv, FrameOK, ResultEvent, At, Charging
  <1>3. TaskStep BY TaskSame DEF ResultEvent
  <1>4. ExecStep BY <1>3, ExecSame DEF ResultEvent
  <1>5. ProcStep
    <2> DEFINE x == IF ev = "Running" THEN "ban" ELSE "mf_read"
    <2>1. x \in PCs /\ x # "beat" BY DEF PCs
    <2>2. Goto(p, x) BY DEF ResultEvent
    <2> HIDE DEF x
    <2> QED BY <1>1, <1>2, <1>4, <2>1, <2>2, ProcGoto
  <1>6. waived' \subseteq Tasks BY <1>1 DEF ResultEvent, Inv, TypeOK
  <1> QED BY <1>3, <1>4, <1>5, <1>6, InvByParts, PenaltiesSame DEF Inv, TypeOK, ResultEvent

LEMMA ResultBanInv == ASSUME Inv, NEW p \in Procs, ResultBan(p) PROVE Inv' /\ ExecStep
  <1>1. proc[p].op = "result" /\ proc[p].t \in Tasks
    BY ResultFrame DEF ResultBan, At, Delivering
  <1>2. StatusOf(OutOf(p)) = "Down" BY DEF Inv, FrameOK, ResultBan, At, Charging
  <1>3. TaskStep BY TaskSame DEF ResultBan
  <1>4. ExecStep BY <1>3, ExecSame DEF ResultBan
  <1>5. ProcStep
    <2> DEFINE x == IF proc[p].t \in banned THEN "mf_read" ELSE "score"
    <2>1. x \in PCs /\ x # "beat" BY DEF PCs
    <2>2. Goto(p, x) BY DEF ResultBan
    <2> HIDE DEF x
    <2> QED BY <1>1, <1>2, <1>4, <2>1, <2>2, ProcGoto
  <1>6. waived' \subseteq Tasks BY <1>1 DEF ResultBan, Inv, TypeOK
  <1> QED BY <1>3, <1>4, <1>5, <1>6, InvByParts, PenaltiesSame DEF Inv, TypeOK, ResultBan

LEMMA ResultScoreInv == ASSUME Inv, NEW p \in Procs, ResultScore(p) PROVE Inv' /\ ExecStep
  <1>1. proc[p].op = "result" /\ proc[p].t \in Tasks /\ proc[p].n \in Attempts
    BY ResultFrame DEF ResultScore, At, Delivering
  <1>2. StatusOf(OutOf(p)) = "Down" BY DEF Inv, FrameOK, ResultScore, At, Charging
  <1>3. TaskStep BY TaskSame DEF ResultScore
  <1>4. ExecStep BY <1>3, ExecSame DEF ResultScore
  <1>5. ProcStep BY <1>4, ProcGoto DEF ResultScore, PCs, Delivering, Charging
  <1>6. \A t \in penalised' : t \in Tasks /\ PenaltyKnown(t)
    <2>1. PenaltyKnown(proc[p].t) BY <1>1, <1>2 DEF PenaltyKnown, OutOf
    <2> QED BY <1>1, <2>1 DEF ResultScore, Inv, TypeOK
  <1> QED BY <1>3, <1>4, <1>5, <1>6, InvByParts DEF Inv, TypeOK, ResultScore

LEMMA ResultReplyInv == ASSUME Inv, NEW p \in Procs, ResultReply(p) PROVE Inv' /\ ExecStep
  <1>1. proc[p].t \in Tasks /\ proc[p].n \in Attempts /\ Ended(proc[p].t, proc[p].n)
    BY ResultFrame DEF ResultReply
  <1>2. TaskStep BY TaskSame DEF ResultReply
  <1>3. ExecStep BY <1>1, <1>2, ExecFinished DEF ResultReply
  <1>4. ProcStep BY <1>3, ProcIdle DEF ResultReply
  <1> QED BY <1>2, <1>3, <1>4, InvByParts, PenaltiesSame DEF Inv, TypeOK, ResultReply

LEMMA ResultReplyLostInv == ASSUME Inv, NEW p \in Procs, ResultReplyLost(p) PROVE Inv' /\ ExecStep
  <1> DEFINE t == proc[p].t
             n == proc[p].n
  <1>1. t \in Tasks /\ n \in Attempts /\ Ended(t, n)
    BY ResultFrame DEF ResultReplyLost
  <1>2. TaskStep BY TaskSame DEF ResultReplyLost
  <1>3. ExecStep
    <2>1. exec' = [exec EXCEPT ![t][n] = Resent(exec[t][n])] BY DEF ResultReplyLost, Inv, TypeOK
    <2>2. exec[t][n].st = "wait" BY DEF ResultReplyLost
    <2> HIDE DEF t, n
    <2> QED BY <1>1, <1>2, <2>1, <2>2, ExecTriedAgain, ExecOne
  <1>4. ProcStep BY <1>3, ProcIdle DEF ResultReplyLost
  <1>5. used' \in [pauses : Nat, crashes : Nat, deaths : Nat, losses : Nat, bans : Nat]
    BY SpendType DEF ResultReplyLost
  <1> QED BY <1>2, <1>3, <1>4, <1>5, InvByParts, PenaltiesSame DEF Inv, TypeOK, ResultReplyLost

LEMMA DeadlineReadInv == ASSUME Inv, NEW p \in Procs, DeadlineRead(p) PROVE Inv' /\ ExecStep
  <1> DEFINE S == {t \in Tasks : Open(t)}
             f == [Idle EXCEPT !.pc = "sweep", !.op = "deadline", !.todo = S]
  <1>1. TaskStep BY TaskSame DEF DeadlineRead
  <1>2. ExecStep BY <1>1, ExecSame DEF DeadlineRead
  <1>3. ProcStep
    <2>1. proc' = [proc EXCEPT ![p] = f] BY DEF DeadlineRead
    <2>2. S \subseteq Tasks OBVIOUS
    <2> HIDE DEF S
    <2>3. f \in Frames /\ f.pc = "sweep" /\ f.op = "deadline" BY <2>2, IdleFrame DEF Idle, Frames, PCs
    <2> HIDE DEF f
    <2> QED BY <1>2, <2>1, <2>3, FrameSet DEF Delivering, Charging
  <1> QED BY <1>1, <1>2, <1>3, InvByParts, PenaltiesSame DEF Inv, TypeOK, DeadlineRead

LEMMA DeadlineSweptInv == ASSUME Inv, NEW p \in Procs, DeadlineSwept(p) PROVE Inv' /\ ExecStep
  BY OnlyGoto DEF DeadlineSwept, PCs, Delivering, Charging

LEMMA DeadlineDoneInv == ASSUME Inv, NEW p \in Procs, DeadlineDone(p) PROVE Inv' /\ ExecStep
  <1>1. TaskStep BY TaskSame DEF DeadlineDone
  <1>2. ExecStep BY <1>1, ExecSame DEF DeadlineDone
  <1>3. ProcStep BY <1>2, ProcIdle DEF DeadlineDone
  <1> QED BY <1>1, <1>2, <1>3, InvByParts, PenaltiesSame DEF Inv, TypeOK, DeadlineDone

LEMMA MaybeFinishReadInv == ASSUME Inv, NEW p \in Procs, MaybeFinishRead(p) PROVE Inv' /\ ExecStep
  <1> DEFINE x == IF ev = "Running" /\ AllTerminal THEN "mf_cas" ELSE "reply"
  <1>1. x \in PCs /\ x \notin Delivering /\ x \notin Charging /\ x # "beat"
    BY DEF PCs, Delivering, Charging
  <1>2. Goto(p, x) BY DEF MaybeFinishRead
  <1> HIDE DEF x
  <1> QED BY <1>1, <1>2, OnlyGoto DEF MaybeFinishRead

LEMMA MaybeFinishCasInv == ASSUME Inv, NEW p \in Procs, MaybeFinishCas(p) PROVE Inv' /\ ExecStep
  <1>1. TaskStep BY TaskSame DEF MaybeFinishCas
  <1>2. ExecStep BY <1>1, ExecSame DEF MaybeFinishCas
  <1>3. ProcStep BY <1>2, ProcGoto DEF MaybeFinishCas, PCs, Delivering, Charging
  <1>4. ev' \in {"Running", "Paused", "Finished"} BY DEF MaybeFinishCas, Inv, TypeOK
  <1> QED BY <1>1, <1>2, <1>3, <1>4, InvByParts, PenaltiesSame DEF Inv, TypeOK, MaybeFinishCas

(* Pausing, resuming, banning and unbanning touch neither the rows nor the *)
(* executions nor the handlers.                                            *)
LEMMA AdminInv ==
  ASSUME Inv,
         \/ PauseEvent \/ ResumeEvent
         \/ \E t \in Tasks : BanTeam(t) \/ UnbanTeam(t)
  PROVE  Inv' /\ ExecStep
  <1>1. UNCHANGED <<task, exec, proc, deadline, timer, penalised, waived>>
    BY DEF PauseEvent, ResumeEvent, BanTeam, UnbanTeam
  <1>2. TaskStep BY <1>1, TaskSame
  <1>3. ExecStep BY <1>1, <1>2, ExecSame
  <1>4. ProcStep BY <1>1, <1>3, ProcSame
  <1>5. used' \in [pauses : Nat, crashes : Nat, deaths : Nat, losses : Nat, bans : Nat]
    BY SpendType DEF PauseEvent, ResumeEvent, BanTeam, UnbanTeam, Inv, TypeOK
  <1>6. ev' \in {"Running", "Paused", "Finished"} /\ banned' \subseteq Tasks
    BY DEF PauseEvent, ResumeEvent, BanTeam, UnbanTeam, Inv, TypeOK
  <1> QED BY <1>1, <1>2, <1>3, <1>4, <1>5, <1>6, InvByParts, PenaltiesSame DEF Inv, TypeOK

LEMMA RestartInv == ASSUME Inv, Restart PROVE Inv' /\ ExecStep
  <1>1. TaskStep BY TaskSame DEF Restart
  <1>2. ExecStep
    <2>1. ASSUME NEW t \in Tasks, NEW n \in Attempts PROVE ExecKeeps(t, n, exec'[t][n])
      <3>1. CASE exec[t][n].st = "issued"
        <4>1. exec'[t][n] = [exec[t][n] EXCEPT !.st = "done"] BY <3>1 DEF Restart
        <4>2. Used(exec[t][n]) BY <3>1 DEF Used
        <4> QED BY <1>1, <4>1, <4>2, ExecMoved
      <3>2. CASE exec[t][n].st = "wait"
        <4>1. exec'[t][n] = Resent(exec[t][n]) BY <3>2 DEF Restart
        <4> QED BY <1>1, <3>2, <4>1, ExecTriedAgain
      <3>3. CASE exec[t][n].st \notin {"issued", "wait"}
        <4>1. exec'[t][n] = exec[t][n] BY <3>3 DEF Restart
        <4> QED BY <1>1, <4>1, ExecUntouched
      <3> QED BY <3>1, <3>2, <3>3
    <2> QED BY <2>1, ExecStepByEach DEF Restart
  <1>3. ProcStep
    <2>1. proc' \in [Procs -> Frames] BY IdleFrame DEF Restart
    <2>2. ASSUME NEW q \in Procs PROVE FrameOK(q)'
      <3>1. proc'[q] = Idle BY DEF Restart
      <3> QED BY <3>1, IdleFrame DEF FrameOK, Delivering, Charging
    <2> QED BY <2>1, <2>2 DEF ProcStep
  <1>4. used' \in [pauses : Nat, crashes : Nat, deaths : Nat, losses : Nat, bans : Nat]
    BY SpendType DEF Restart
  <1>5. ev' \in {"Running", "Paused", "Finished"} /\ timer' \in {"pending", "running", "done"}
    BY DEF Restart, Inv, TypeOK
  <1> QED BY <1>1, <1>2, <1>3, <1>4, <1>5, InvByParts, PenaltiesSame DEF Inv, TypeOK, Restart

LEMMA TickInv == ASSUME Inv, Tick PROVE Inv' /\ ExecStep
  <1>1. TaskStep
    <2>1. ASSUME NEW t \in Tasks
          PROVE  /\ task'[t] \in TaskRows /\ task'[t].attempt = task[t].attempt
                 /\ task'[t].st = task[t].st /\ task'[t].result = task[t].result
      <3>1. task[t] \in TaskRows BY DEF Inv, TypeOK
      <3>2. Less(task[t].lease) \in Nat BY <3>1 DEF TaskRows, Less
      <3>3. task'[t] = [task[t] EXCEPT !.lease = Less(task[t].lease)] BY DEF Tick
      <3> QED BY <3>1, <3>2, <3>3 DEF TaskRows
    <2>2. task' \in [Tasks -> TaskRows] BY <2>1 DEF Tick
    <2>3. \A t \in Tasks : task[t].attempt \in Nat BY Consts DEF Inv, TypeOK, TaskRows
    <2> QED BY <2>1, <2>2, <2>3 DEF TaskStep, Inv, VerdictKnown
  <1>2. ExecStep BY <1>1, ExecSame DEF Tick
  <1>3. ProcStep BY <1>2, ProcSame DEF Tick
  <1>4. deadline' \in Nat BY DEF Tick, Less, Inv, TypeOK
  <1> QED BY <1>1, <1>2, <1>3, <1>4, InvByParts, PenaltiesSame DEF Inv, TypeOK, Tick

(* A claim opens an attempt that nobody has used, so no outcome is lost. *)
LEMMA ClaimCommitInv == ASSUME Inv, NEW p \in Procs, ClaimCommit(p) PROVE Inv' /\ ExecStep
  <1> DEFINE w == proc[p].w
             freed == [t \in Tasks |-> IF t \notin proc[p].todo THEN task[t]
                                       ELSE IF t \in proc[p].retry THEN Released(task[t])
                                       ELSE Errored(task[t])]
             ready == {t \in Tasks : freed[t].st = "Pending"}
             mine  == {t \in ready : Cardinality({u \in ready : u <= t}) <= proc[p].limit}
             c == IF proc[p].hit \/ proc[p].todo # proc[p].retry THEN "mf_read" ELSE "reply"
             fresh == [NoExec EXCEPT !.st = "issued", !.w = w]
  <1>1. /\ \A t \in mine : freed[t].attempt < MaxClaims
        /\ task' = [t \in Tasks |-> IF t \in mine THEN Claimed(freed[t], w) ELSE freed[t]]
        /\ exec' = [t \in Tasks |-> [n \in Attempts |->
              IF t \in mine /\ n = freed[t].attempt + 1 THEN fresh ELSE exec[t][n]]]
        /\ Goto(p, c)
        /\ UNCHANGED <<ev, deadline, timer, penalised, banned, waived, used>>
    BY DEF ClaimCommit
  <1>2. c \in {"mf_read", "reply"} OBVIOUS
  <1>3. w \in Workers \cup {NoWorker} BY DEF Inv, TypeOK, Frames
  <1>4. ASSUME NEW t \in Tasks
        PROVE  /\ freed[t] \in TaskRows /\ freed[t].attempt = task[t].attempt
               /\ freed[t].st \in {"Up", "Down"} => freed[t] = task[t]
    <2>1. task[t] \in TaskRows BY DEF Inv, TypeOK
    <2> QED BY <2>1, RowReleased
  <1> HIDE DEF freed, ready, c, w
  <1>5. ASSUME NEW t \in Tasks
        PROVE  /\ task'[t] \in TaskRows /\ task'[t].attempt >= task[t].attempt
               /\ t \in mine => task'[t].attempt = task[t].attempt + 1
               /\ task'[t].st \in {"Up", "Down"} => task'[t] = task[t]
    <2>1. task[t].attempt \in Nat BY Consts DEF Inv, TypeOK, TaskRows
    <2>2. CASE t \in mine
      <3>1. task'[t] = Claimed(freed[t], w) BY <1>1, <2>2
      <3>2. freed[t].attempt < MaxClaims BY <1>1, <2>2
      <3>3. /\ Claimed(freed[t], w) \in TaskRows /\ Claimed(freed[t], w).st = "Running"
            /\ Claimed(freed[t], w).attempt = freed[t].attempt + 1
        BY <1>3, <1>4, <3>2, RowClaimed
      <3> QED BY <2>1, <2>2, <3>1, <3>3, <1>4
    <2>3. CASE t \notin mine
      <3>1. task'[t] = freed[t] BY <1>1, <2>3
      <3> QED BY <2>1, <2>3, <3>1, <1>4
    <2> QED BY <2>2, <2>3
  <1>6. TaskStep
    <2>1. task' \in [Tasks -> TaskRows] BY <1>1, <1>5
    <2> QED BY <2>1, <1>5 DEF TaskStep, Inv, VerdictKnown
  <1> HIDE DEF mine
  <1>7. ExecStep
    <2>1. ASSUME NEW t \in Tasks, NEW n \in Attempts PROVE ExecKeeps(t, n, exec'[t][n])
      <3>1. CASE t \in mine /\ n = freed[t].attempt + 1
        <4>1. exec'[t][n] = fresh BY <1>1, <3>1
        <4>2. fresh \in Execs /\ fresh.out = "none" BY <1>3 DEF NoExec, Execs
        <4>3. n = task[t].attempt + 1 /\ task[t].attempt \in Nat
          BY <3>1, <1>4, Consts DEF Inv, TypeOK, TaskRows
        <4>4. ~Used(exec[t][n]) BY <4>3 DEF Inv, AttemptsInOrder
        <4>5. ~Ended(t, n) BY <4>4 DEF Used, Ended
        <4>6. n <= task'[t].attempt BY <3>1, <4>3, <1>5
        <4> QED BY <4>1, <4>2, <4>5, <4>6 DEF ExecKeeps
      <3>2. CASE ~(t \in mine /\ n = freed[t].attempt + 1)
        <4>1. exec'[t][n] = exec[t][n] BY <1>1, <3>2
        <4> QED BY <1>6, <4>1, ExecUntouched
      <3> QED BY <3>1, <3>2
    <2> QED BY <1>1, <2>1, ExecStepByEach
  <1>8. ProcStep BY <1>1, <1>2, <1>7, ProcGoto DEF PCs, Delivering, Charging
  <1> QED BY <1>1, <1>6, <1>7, <1>8, InvByParts, PenaltiesSame DEF Inv, TypeOK

---------------------------------------------------------------------------
(* The invariant and what follows from it *)

LEMMA InitInv == Init => Inv
  <1> SUFFICES ASSUME Init PROVE Inv OBVIOUS
  <1> DEFINE row == [st |-> "Pending", w |-> NoWorker, attempt |-> 0, token |-> 0, lease |-> 0, result |-> 0]
  <1>1. row \in TaskRows BY Consts DEF TaskRows
  <1>2. NoExec \in Execs /\ NoExec.st = "none" /\ NoExec.out = "none" /\ NoExec.w = NoWorker
    BY DEF NoExec, Execs
  <1>3. NoWorker \notin Workers BY JudgeConstants DEF NoWorker
  <1>4. /\ task \in [Tasks -> TaskRows] /\ \A t \in Tasks : task[t].st = "Pending"
    BY <1>1 DEF Init
  <1>5. /\ exec \in [Tasks -> [Attempts -> Execs]] /\ \A t \in Tasks, n \in Attempts : exec[t][n] = NoExec
    BY <1>2 DEF Init
  <1>6. /\ proc \in [Procs -> Frames] /\ \A p \in Procs : proc[p] = Idle
    BY IdleFrame DEF Init
  <1>7. TypeOK BY <1>4, <1>5, <1>6, Consts DEF TypeOK, Init
  <1>8. AttemptsInOrder BY <1>2, <1>3, <1>5 DEF AttemptsInOrder, Used
  <1>9. \A p \in Procs : FrameOK(p) BY <1>6, IdleFrame DEF FrameOK, Delivering, Charging
  <1>10. \A t \in Tasks : VerdictKnown(t) BY <1>4 DEF VerdictKnown
  <1>11. penalised = {} BY DEF Init
  <1> QED BY <1>7, <1>8, <1>9, <1>10, <1>11 DEF Inv

(* One step of a handler, a worker, an administrator or the clock. *)
LEMMA NextInv == Inv /\ [Next]_vars => Inv' /\ ExecStep
  <1> SUFFICES ASSUME Inv, [Next]_vars PROVE Inv' /\ ExecStep OBVIOUS
  <1>1. ASSUME NEW p \in Procs, Handler(p) PROVE Inv' /\ ExecStep
    <2>1. CASE \E t \in Tasks : SweepWrite(p, t) BY <2>1, SweepWriteInv
    <2>2. CASE ReclaimRead(p) BY <2>2, ReclaimReadInv
    <2>3. CASE ClaimCommit(p) BY <2>3, ClaimCommitInv
    <2>4. CASE ClaimReply(p) BY <2>4, ClaimReplyInv
    <2>5. CASE ClaimReplyLost(p) BY <2>5, ClaimReplyLostInv
    <2>6. CASE HeartbeatWrite(p) BY <2>6, HeartbeatWriteInv
    <2>7. CASE ResultRelease(p) BY <2>7, ResultReleaseInv
    <2>8. CASE ResultCheck(p) BY <2>8, ResultCheckInv
    <2>9. CASE ResultWrite(p) BY <2>9, ResultWriteInv
    <2>10. CASE ResultEvent(p) BY <2>10, ResultEventInv
    <2>11. CASE ResultBan(p) BY <2>11, ResultBanInv
    <2>12. CASE ResultScore(p) BY <2>12, ResultScoreInv
    <2>13. CASE ResultReply(p) BY <2>13, ResultReplyInv
    <2>14. CASE ResultReplyLost(p) BY <2>14, ResultReplyLostInv
    <2>15. CASE DeadlineSwept(p) BY <2>15, DeadlineSweptInv
    <2>16. CASE DeadlineDone(p) BY <2>16, DeadlineDoneInv
    <2>17. CASE MaybeFinishRead(p) BY <2>17, MaybeFinishReadInv
    <2>18. CASE MaybeFinishCas(p) BY <2>18, MaybeFinishCasInv
    <2> QED BY <1>1, <2>1, <2>2, <2>3, <2>4, <2>5, <2>6, <2>7, <2>8, <2>9, <2>10, <2>11,
               <2>12, <2>13, <2>14, <2>15, <2>16, <2>17, <2>18 DEF Handler
  <1>2. ASSUME NEW p \in Procs, Request(p) PROVE Inv' /\ ExecStep
    BY <1>2, ClaimSweepReadInv, HeartbeatReadInv, HeartbeatStaleInv, ResultFindInv DEF Request
  <1>3. ASSUME NEW p \in Procs, DeadlineRead(p) PROVE Inv' /\ ExecStep BY <1>3, DeadlineReadInv
  <1>4. CASE Worker BY <1>4, RequestLostInv, ScriptEndsInv, WorkerDiesInv DEF Worker
  <1>5. CASE PauseEvent \/ ResumeEvent \/ \E t \in Tasks : BanTeam(t) \/ UnbanTeam(t)
    BY <1>5, AdminInv
  <1>6. CASE Restart BY <1>6, RestartInv
  <1>7. CASE Tick BY <1>7, TickInv
  <1>8. CASE UNCHANGED vars
    <2>1. UNCHANGED <<task, exec, proc, ev, deadline, timer, penalised, banned, waived, used>>
      BY <1>8 DEF vars
    <2>2. TaskStep BY <2>1, TaskSame
    <2>3. ExecStep BY <2>1, <2>2, ExecSame
    <2>4. ProcStep BY <2>1, <2>3, ProcSame
    <2> QED BY <2>1, <2>2, <2>3, <2>4, InvByParts, PenaltiesSame DEF Inv, TypeOK
  <1> QED BY <1>1, <1>2, <1>3, <1>4, <1>5, <1>6, <1>7, <1>8 DEF Next

(* The invariant holds in every reachable state. *)
THEOREM InvHolds == Spec => []Inv
  BY InitInv, NextInv, PTL DEF Spec

(* Rows, executions and handlers keep their types. *)
THEOREM TypeCorrect == Spec => []TypeOK
  <1>1. Inv => TypeOK BY DEF Inv
  <1> QED BY <1>1, InvHolds, PTL

(* However leases expire, handlers overlap and requests are repeated, an   *)
(* Up or a Down in awd_judge_tasks is what the check script of one of the  *)
(* task's attempts found: submit_result never makes a verdict up.          *)
THEOREM VerdictsComeFromWorkers == Spec => []VerdictFromWorker
  <1>1. Inv => VerdictFromWorker BY DEF Inv, VerdictKnown, VerdictFromWorker
  <1> QED BY <1>1, InvHolds, PTL

(* A judge_down score event is only ever written for a box that some       *)
(* worker really found Down: judge_result never charges a team for a       *)
(* platform failure alone.                                                 *)
THEOREM PenaltiesComeFromWorkers == Spec => []PenaltyFromWorker
  <1>1. Inv => PenaltyFromWorker BY DEF Inv, PenaltyKnown, PenaltyFromWorker
  <1> QED BY <1>1, InvHolds, PTL

---------------------------------------------------------------------------
(* One handler at a time                                                   *)
(*                                                                         *)
(* The updates of this component are by primary key, so two handlers that  *)
(* overlap can undo each other's work.  What follows is what the code      *)
(* guarantees as long as they do not overlap, however workers die, leases  *)
(* expire, messages get lost or repeated and the process restarts.  Tasks  *)
(* are created with max_attempts = 2.                                      *)

OneAtATime == (\A p, q \in Procs : p = q) /\ MaxAttempts <= 2

(* A row: retries are counted, a result is that of the last attempt, and   *)
(* what could still be retried was given up by nobody.                     *)
RowOK(t) ==
    /\ task[t].attempt <= MaxAttempts
    /\ task[t].st = "Pending" => task[t].attempt < MaxAttempts
    /\ task[t].result # 0 =>
          /\ ~Open(t) /\ task[t].result = task[t].attempt
          /\ Ended(t, task[t].result)
          /\ task[t].st = StatusOf(exec[t][task[t].result].out)
    /\ ~Open(t) /\ Retryable(t) => task[t].result # 0 /\ task[t].st # "JudgeError"
    /\ t \in penalised => task[t].st = "Down"
    /\ ev = "Finished" => ~Open(t)

(* What a handler has read is still so when it writes. *)
FreshRead(p) ==
    LET f == proc[p]
    IN  /\ f.pc = "sweep" => \A t \in f.todo : Open(t) /\ deadline = 0
        /\ f.pc = "claim" => \A t \in f.todo :
              task[t].st = "Running" /\ task[t].lease = 0 /\ (t \in f.retry <=> Retryable(t))
        /\ f.pc = "release" => Retryable(f.t) /\ Open(f.t)
        /\ f.pc \in {"check", "write"} /\ Retryable(f.t) => StatusOf(OutOf(p)) # "JudgeError"
        /\ f.pc = "write" => task[f.t].st = "Running" /\ task[f.t].attempt = f.n
        /\ f.pc \in Charging => task[f.t].st = "Down"
        /\ f.pc \in {"ban", "score"} => ev = "Running"
        /\ f.pc = "mf_cas" => ev = "Running" /\ AllTerminal

(* A Down is paid for, waived, or about to be charged.                     *)
Charged(t) ==
    \/ t \in penalised \cup waived
    \/ \E p \in Procs : proc[p].pc \in Charging /\ proc[p].t = t

DownsCharged ==
    /\ \A t \in Tasks : task[t].st = "Down" => Charged(t)
    /\ FinishedIsScored

AloneInv ==
    /\ Inv
    /\ \A t \in Tasks : RowOK(t)
    /\ \A p \in Procs : FreshRead(p)
    /\ MaxCrashes = 0 => DownsCharged

(* What a step may do to verdicts, leases, penalties and the event. *)
PaysOne ==
    /\ ev = "Running" /\ UNCHANGED <<task, ev>>
    /\ \E t \in Tasks : task[t].st = "Down" /\ penalised' = penalised \cup {t}

EventMoves ==
    /\ UNCHANGED <<task, penalised>>
    /\ \/ ev # "Finished" /\ ev' \in {"Running", "Paused"}
       \/ ev = "Running" /\ AllTerminal /\ ev' = "Finished"

StepOK ==
    /\ KeepsVerdicts /\ HonoursLeases
    /\ UNCHANGED penalised \/ PaysOne
    /\ UNCHANGED ev \/ EventMoves

AloneStep ==
    /\ \A t \in Tasks : RowOK(t)'
    /\ \A p \in Procs : FreshRead(p)'
    /\ MaxCrashes = 0 => DownsCharged'
    /\ StepOK

(* The parts of the invariant, one by one. *)
LEMMA AloneParts ==
  ASSUME AloneInv
  PROVE  /\ Inv /\ TypeOK
         /\ \A t \in Tasks : RowOK(t) /\ task[t] \in TaskRows /\ task[t].attempt \in Nat
         /\ \A p \in Procs : FreshRead(p) /\ FrameOK(p) /\ proc[p] \in Frames
         /\ MaxCrashes = 0 => DownsCharged
         /\ deadline \in Nat
  BY Consts DEF AloneInv, Inv, TypeOK, TaskRows

(* A row whose status, attempts and result stay keeps what is said of it. *)
LEMMA RowKept ==
  ASSUME AloneInv, ExecStep, NEW t \in Tasks,
         task'[t].st = task[t].st, task'[t].attempt = task[t].attempt, task'[t].result = task[t].result,
         deadline' \in Nat, deadline' <= deadline,
         t \in penalised' => t \in penalised \/ task[t].st = "Down",
         ev' = "Finished" => ~Open(t)
  PROVE  RowOK(t)'
  <1>1. RowOK(t) /\ deadline \in Nat /\ task[t] \in TaskRows BY AloneParts
  <1>2. Open(t)' <=> Open(t) BY DEF Open
  <1>3. Retryable(t)' => Retryable(t) BY <1>1 DEF Retryable
  <1>4. ASSUME task[t].result # 0
        PROVE  Ended(t, task[t].result)' /\ exec'[t][task[t].result].out = exec[t][task[t].result].out
    <2>1. task[t].result \in Attempts BY <1>1, <1>4, Consts DEF TaskRows, Attempts
    <2>2. Ended(t, task[t].result) BY <1>1, <1>4 DEF RowOK
    <2> QED BY <2>1, <2>2 DEF ExecStep, Ended
  <1> QED BY <1>1, <1>2, <1>3, <1>4 DEF RowOK, Ended

LEMMA RowsSame ==
  ASSUME AloneInv, ExecStep, UNCHANGED <<task, deadline, penalised>>,
         UNCHANGED ev \/ ev' \in {"Running", "Paused"} \/ AllTerminal
  PROVE  \A t \in Tasks : RowOK(t)'
  <1> SUFFICES ASSUME NEW t \in Tasks PROVE RowOK(t)' OBVIOUS
  <1>1. RowOK(t) /\ deadline \in Nat BY AloneParts
  <1>2. ev' = "Finished" => ~Open(t) BY <1>1 DEF RowOK, AllTerminal
  <1>3. deadline' \in Nat /\ deadline' <= deadline BY <1>1
  <1> QED BY <1>2, <1>3, RowKept

(* A step that writes neither rows, penalties nor the event. *)
LEMMA StepSame == ASSUME UNCHANGED <<task, penalised, ev>> PROVE StepOK
  BY DEF StepOK, KeepsVerdicts, HonoursLeases

LEMMA StepOfEvent == ASSUME EventMoves PROVE StepOK
  BY DEF StepOK, KeepsVerdicts, HonoursLeases, EventMoves

(* What was read stays so while nothing of it is written. *)
LEMMA ReadsSame ==
  ASSUME AloneInv, ExecStep, UNCHANGED <<task, deadline, ev, proc>>
  PROVE  \A p \in Procs : FreshRead(p)'
  <1> SUFFICES ASSUME NEW p \in Procs PROVE FreshRead(p)' OBVIOUS
  <1>1. FreshRead(p) /\ FrameOK(p) BY AloneParts
  <1>2. ASSUME proc[p].pc \in {"check", "write"} PROVE OutOf(p)' = OutOf(p)
    <2>1. Ended(proc[p].t, proc[p].n) /\ proc[p].t \in Tasks /\ proc[p].n \in Attempts
      BY <1>1, <1>2 DEF FrameOK, Delivering
    <2> QED BY <2>1 DEF ExecStep, OutOf
  <1> QED BY <1>1, <1>2 DEF FreshRead, Retryable, Open, AllTerminal

LEMMA ReadsIdle ==
  ASSUME \A p \in Procs : proc'[p].pc = "idle"
  PROVE  \A p \in Procs : FreshRead(p)'
  BY DEF FreshRead, Charging

(* The one handler there is has become f. *)
LEMMA OnlyFrame ==
  ASSUME AloneInv, OneAtATime, NEW p \in Procs, NEW f, proc' = [proc EXCEPT ![p] = f]
  PROVE  \A q \in Procs : q = p /\ proc'[q] = f
  <1>1. proc \in [Procs -> Frames] BY AloneParts DEF TypeOK
  <1> QED BY <1>1 DEF OneAtATime

(* Nothing was being charged: every Down there was is settled. *)
LEMMA ChargedQuiet ==
  ASSUME AloneInv, OneAtATime, NEW p \in Procs, proc[p].pc \notin Charging,
         UNCHANGED penalised, UNCHANGED waived,
         \A t \in Tasks : task'[t].st = "Down" =>
            \/ task[t].st = "Down"
            \/ proc'[p].pc \in Charging /\ proc'[p].t = t /\ ev' # "Finished"
  PROVE  MaxCrashes = 0 => DownsCharged'
  <1> SUFFICES ASSUME MaxCrashes = 0 PROVE DownsCharged' OBVIOUS
  <1>1. ASSUME NEW t \in Tasks, task[t].st = "Down" PROVE t \in penalised \cup waived
    <2>1. Charged(t) BY <1>1, AloneParts DEF DownsCharged
    <2> QED BY <2>1 DEF Charged, OneAtATime
  <1> QED BY <1>1 DEF DownsCharged, Charged, FinishedIsScored

(* Nothing that matters for the charges happens. *)
LEMMA ChargedSame ==
  ASSUME AloneInv, \A t \in Tasks : task'[t].st = task[t].st,
         UNCHANGED <<penalised, waived, proc, ev>>
  PROVE  MaxCrashes = 0 => DownsCharged'
  <1> SUFFICES ASSUME MaxCrashes = 0 PROVE DownsCharged' OBVIOUS
  <1>1. DownsCharged BY AloneParts
  <1> QED BY <1>1 DEF DownsCharged, Charged, FinishedIsScored

(* A worker's step, or any that leaves rows, handlers and event alone. *)
LEMMA QuietStep ==
  ASSUME AloneInv, ExecStep, UNCHANGED <<task, proc, ev, deadline, penalised, waived>>
  PROVE  AloneStep
  <1>1. \A t \in Tasks : RowOK(t)' BY RowsSame
  <1> QED BY <1>1, ReadsSame, ChargedSame, StepSame DEF AloneStep

(* The handler takes a step that writes no row. *)
LEMMA HandlerStep ==
  ASSUME AloneInv, OneAtATime, ExecStep, NEW p \in Procs, proc[p].pc \notin Charging,
         UNCHANGED <<task, ev, deadline, penalised, waived>>, FreshRead(p)'
  PROVE  AloneStep
  <1>1. \A t \in Tasks : RowOK(t)' BY RowsSame
  <1>2. \A q \in Procs : FreshRead(q)'
    <2>1. \A q \in Procs : q = p BY DEF OneAtATime
    <2> QED BY <2>1
  <1>3. MaxCrashes = 0 => DownsCharged' BY ChargedQuiet
  <1> QED BY <1>1, <1>2, <1>3, StepSame DEF AloneStep

(* The handler goes on. *)
LEMMA GotoFrame ==
  ASSUME AloneInv, NEW p \in Procs, NEW x, Goto(p, x)
  PROVE  /\ proc'[p].pc = x /\ proc'[p].t = proc[p].t /\ proc'[p].n = proc[p].n
         /\ proc'[p].todo = proc[p].todo /\ proc'[p].retry = proc[p].retry
  <1>1. proc[p] \in Frames /\ proc \in [Procs -> Frames] BY AloneParts DEF TypeOK
  <1>2. proc'[p] = [proc[p] EXCEPT !.pc = x] BY <1>1 DEF Goto
  <1> QED BY <1>1, <1>2 DEF Frames

(* A handler is done. *)
LEMMA IdleStep ==
  ASSUME AloneInv, OneAtATime, ExecStep, NEW p \in Procs, proc[p].pc \notin Charging,
         UNCHANGED <<task, ev, deadline, penalised, waived>>, proc' = [proc EXCEPT ![p] = Idle]
  PROVE  AloneStep
  <1>1. proc'[p] = Idle BY OnlyFrame
  <1>2. FreshRead(p)' BY <1>1, IdleFrame DEF FreshRead, Charging
  <1> QED BY <1>2, HandlerStep

LEMMA ClaimSweepReadAlone ==
  ASSUME AloneInv, OneAtATime, ExecStep, NEW p \in Procs, NEW w \in Workers, ClaimSweepRead(p, w)
  PROVE  AloneStep
  <1> DEFINE S == IF deadline = 0 THEN {t \in Tasks : Open(t)} ELSE {}
             f == [Idle EXCEPT !.pc = "sweep", !.op = "claim", !.w = w, !.limit = Permits - Busy(w), !.todo = S]
  <1>1. proc'[p] = f BY OnlyFrame DEF ClaimSweepRead
  <1>2. \A t \in S : Open(t) /\ deadline = 0 OBVIOUS
  <1> HIDE DEF S
  <1>3. f.pc = "sweep" /\ f.todo = S BY DEF Idle
  <1> HIDE DEF f
  <1>4. \A t \in S : Open(t)' /\ deadline' = 0 BY <1>2 DEF ClaimSweepRead, Open
  <1>5. FreshRead(p)' BY <1>1, <1>3, <1>4 DEF FreshRead, Charging
  <1> QED BY <1>5, HandlerStep DEF ClaimSweepRead, At, Charging

LEMMA DeadlineReadAlone ==
  ASSUME AloneInv, OneAtATime, ExecStep, NEW p \in Procs, DeadlineRead(p)
  PROVE  AloneStep
  <1> DEFINE S == {t \in Tasks : Open(t)}
             f == [Idle EXCEPT !.pc = "sweep", !.op = "deadline", !.todo = S]
  <1>1. proc'[p] = f BY OnlyFrame DEF DeadlineRead
  <1>2. \A t \in S : Open(t) OBVIOUS
  <1> HIDE DEF S
  <1>3. f.pc = "sweep" /\ f.todo = S BY DEF Idle
  <1> HIDE DEF f
  <1>4. \A t \in S : Open(t)' /\ deadline' = 0 BY <1>2 DEF DeadlineRead, Open
  <1>5. FreshRead(p)' BY <1>1, <1>3, <1>4 DEF FreshRead, Charging
  <1> QED BY <1>5, HandlerStep DEF DeadlineRead, At, Charging

LEMMA ReclaimReadAlone ==
  ASSUME AloneInv, OneAtATime, ExecStep, NEW p \in Procs, ReclaimRead(p)
  PROVE  AloneStep
  <1> DEFINE E == {t \in Tasks : task[t].st = "Running" /\ task[t].lease = 0}
             R == {t \in E : Retryable(t)}
             f == [proc[p] EXCEPT !.pc = "claim", !.todo = E, !.retry = R]
  <1>1. proc[p] \in Frames /\ proc \in [Procs -> Frames] BY AloneParts DEF TypeOK
  <1>2. proc'[p] = f BY <1>1 DEF ReclaimRead
  <1>3. \A t \in E : task[t].st = "Running" /\ task[t].lease = 0 /\ (t \in R <=> Retryable(t)) OBVIOUS
  <1> HIDE DEF E, R
  <1>4. f.pc = "claim" /\ f.todo = E /\ f.retry = R BY <1>1 DEF Frames
  <1> HIDE DEF f
  <1>5. \A t \in E : task'[t].st = "Running" /\ task'[t].lease = 0 /\ (t \in R <=> Retryable(t)')
    BY <1>3 DEF ReclaimRead, Retryable
  <1>6. FreshRead(p)' BY <1>2, <1>4, <1>5 DEF FreshRead, Charging
  <1> QED BY <1>6, HandlerStep DEF ReclaimRead, At, Charging

LEMMA HeartbeatReadAlone ==
  ASSUME AloneInv, OneAtATime, ExecStep, NEW p \in Procs, NEW t \in Tasks, NEW n \in Attempts,
         HeartbeatRead(p, t, n)
  PROVE  AloneStep
  <1> DEFINE f == [Idle EXCEPT !.pc = "beat", !.op = "beat", !.t = t, !.n = n]
  <1>1. proc'[p] = f BY OnlyFrame DEF HeartbeatRead
  <1>2. f.pc = "beat" BY DEF Idle
  <1> HIDE DEF f
  <1>3. FreshRead(p)' BY <1>1, <1>2 DEF FreshRead, Charging
  <1> QED BY <1>3, HandlerStep DEF HeartbeatRead, At, Charging

LEMMA ResultFindAlone ==
  ASSUME AloneInv, OneAtATime, ExecStep, NEW p \in Procs, NEW t \in Tasks, NEW n \in Attempts,
         ResultFind(p, t, n)
  PROVE  AloneStep
  <1> DEFINE c == IF exec[t][n].out = "worker_error" /\ Retryable(t) THEN "release" ELSE "check"
             f == [Idle EXCEPT !.op = "result", !.t = t, !.n = n, !.pc = c]
  <1>1. proc'[p] = f BY OnlyFrame DEF ResultFind
  <1>2. c \in {"release", "check"} OBVIOUS
  <1>3. c = "release" => exec[t][n].out = "worker_error" /\ Retryable(t) OBVIOUS
  <1>4. c = "check" => exec[t][n].out # "worker_error" \/ ~Retryable(t) OBVIOUS
  <1> HIDE DEF c
  <1>5. f.pc = c /\ f.t = t /\ f.n = n BY DEF Idle
  <1> HIDE DEF f
  <1>6. exec[t][n] \in Execs /\ exec[t][n].out # "none" /\ Ended(t, n) /\ n <= task[t].attempt
    BY AloneParts DEF ResultFind, Inv, TypeOK, AttemptsInOrder, Ended, Used
  <1>7. exec'[t][n].out = exec[t][n].out BY <1>6 DEF ExecStep
  <1>8. Retryable(t)' <=> Retryable(t) BY DEF ResultFind, Retryable
  <1>9. c = "check" /\ Retryable(t) => StatusOf(exec[t][n].out) # "JudgeError"
    BY <1>4, <1>6 DEF Execs, Outcomes, StatusOf
  <1>10. ASSUME c = "release" PROVE Open(t)
    <2> SUFFICES ASSUME ~Open(t) PROVE FALSE OBVIOUS
    <2>1. RowOK(t) /\ task[t] \in TaskRows /\ Retryable(t) BY <1>3, <1>10, AloneParts
    <2>2. task[t].result = task[t].attempt /\ task[t].st = StatusOf(exec[t][task[t].result].out)
          /\ task[t].st # "JudgeError"
      BY <2>1 DEF RowOK
    <2>3. task[t].attempt = n
      <3>1. MaxAttempts \in Nat /\ MaxAttempts <= 2 /\ n \in Nat /\ n >= 1 /\ task[t].attempt \in Nat
        BY Consts, <2>1, AloneParts DEF OneAtATime, Attempts
      <3>2. task[t].attempt < MaxAttempts BY <2>1 DEF Retryable
      <3> QED BY <1>6, <3>1, <3>2
    <2>4. StatusOf("worker_error") = "JudgeError" BY DEF StatusOf
    <2> QED BY <1>3, <1>10, <2>2, <2>3, <2>4
  <1>11. Open(t)' <=> Open(t) BY DEF ResultFind, Open
  <1>12. FreshRead(p)'
    <2>1. OutOf(p)' = exec[t][n].out BY <1>1, <1>5, <1>7 DEF OutOf
    <2>2. CASE c = "release" BY <1>1, <1>3, <1>5, <1>8, <1>10, <1>11, <2>2 DEF FreshRead, Charging
    <2>3. CASE c = "check" BY <1>1, <1>5, <1>8, <1>9, <2>1, <2>3 DEF FreshRead, Charging
    <2> QED BY <1>2, <2>2, <2>3
  <1> QED BY <1>12, HandlerStep DEF ResultFind, At, Charging

LEMMA ResultCheckAlone ==
  ASSUME AloneInv, OneAtATime, ExecStep, NEW p \in Procs, ResultCheck(p)
  PROVE  AloneStep
  <1> DEFINE t == proc[p].t
             n == proc[p].n
  <1>1. Inv /\ FreshRead(p) /\ proc[p].pc = "check" BY AloneParts DEF ResultCheck, At
  <1>2. t \in Tasks /\ n \in Attempts /\ Ended(t, n) BY <1>1, ResultFrame DEF Delivering
  <1>3. RowOK(t) /\ n # 0 BY <1>2, AloneParts, Consts DEF Attempts
  <1>4. UNCHANGED <<task, ev, deadline, penalised, waived>> BY DEF ResultCheck
  <1>5. CASE task[t].result = n /\ ~Open(t) /\ Goto(p, Scored(p)) /\ UNCHANGED exec
    <2>1. task[t].st = StatusOf(OutOf(p)) BY <1>3, <1>5 DEF RowOK, OutOf
    <2>2. proc'[p].pc = Scored(p) /\ proc'[p].t = t /\ proc'[p].n = n BY <1>5, GotoFrame
    <2>3. Scored(p) \in {"event", "mf_read"} /\ (Scored(p) = "event" => task[t].st = "Down")
      BY <2>1 DEF Scored
    <2>4. FreshRead(p)' BY <1>4, <2>2, <2>3 DEF FreshRead, Charging
    <2> QED BY <1>1, <1>4, <2>4, HandlerStep DEF Charging
  <1>6. CASE Holds(t, n, exec[t][n].w) /\ Goto(p, "write") /\ UNCHANGED exec
    <2>1. proc'[p].pc = "write" /\ proc'[p].t = t /\ proc'[p].n = n BY <1>6, GotoFrame
    <2>2. task[t].st = "Running" /\ task[t].attempt = n BY <1>6 DEF Holds
    <2>3. OutOf(p)' = OutOf(p) /\ (Retryable(t)' <=> Retryable(t)) BY <1>4, <1>6, <2>1 DEF OutOf, Retryable
    <2>4. Retryable(t) => StatusOf(OutOf(p)) # "JudgeError" BY <1>1 DEF FreshRead
    <2>5. FreshRead(p)' BY <1>4, <2>1, <2>2, <2>3, <2>4 DEF FreshRead, Charging
    <2> QED BY <1>1, <1>4, <2>5, HandlerStep DEF Charging
  <1>7. CASE proc' = [proc EXCEPT ![p] = Idle]
    BY <1>1, <1>4, <1>7, IdleStep DEF Charging
  <1> QED BY <1>5, <1>6, <1>7 DEF ResultCheck

(* One row is written, others stay. *)
LEMMA OtherRows ==
  ASSUME AloneInv, ExecStep, NEW t \in Tasks, NEW x, task' = [task EXCEPT ![t] = x],
         UNCHANGED <<deadline, penalised, ev>>, RowOK(t)'
  PROVE  \A u \in Tasks : RowOK(u)'
  <1> SUFFICES ASSUME NEW u \in Tasks, u # t PROVE RowOK(u)' OBVIOUS
  <1>1. task'[u] = task[u] BY AloneParts DEF TypeOK
  <1>2. RowOK(u) /\ deadline \in Nat BY AloneParts
  <1>3. deadline' \in Nat /\ deadline' <= deadline BY <1>2
  <1>4. ev' = "Finished" => ~Open(u) BY <1>2 DEF RowOK
  <1> QED BY <1>1, <1>3, <1>4, RowKept

(* A row that is written was open, and loses its lease rightly. *)
LEMMA StepOfRow ==
  ASSUME AloneInv, NEW t \in Tasks, NEW x, task' = [task EXCEPT ![t] = x], UNCHANGED <<penalised, ev>>,
         Open(t),
         \/ deadline = 0
         \/ \E p \in Procs : proc[p].op = "result" /\ proc[p].t = t /\ proc[p].n = task[t].attempt
  PROVE  StepOK
  <1>1. \A u \in Tasks : u # t => task'[u] = task[u] BY AloneParts DEF TypeOK
  <1>2. deadline \in Nat BY AloneParts
  <1>3. KeepsVerdicts BY <1>1 DEF KeepsVerdicts, Open, Final
  <1>4. HonoursLeases BY <1>1, <1>2 DEF HonoursLeases
  <1> QED BY <1>3, <1>4 DEF StepOK

(* An open row has no result, is not paid for and its event is not over. *)
LEMMA OpenRow ==
  ASSUME AloneInv, NEW t \in Tasks, Open(t)
  PROVE  task[t].result = 0 /\ t \notin penalised /\ ev # "Finished"
  BY AloneParts DEF RowOK, Open

(* Clearing a lease touches neither attempts nor result. *)
LEMMA ClearedRow ==
  ASSUME AloneInv, NEW t \in Tasks
  PROVE  /\ Errored(task[t]).st = "JudgeError" /\ Released(task[t]).st = "Pending"
         /\ Errored(task[t]).attempt = task[t].attempt /\ Released(task[t]).attempt = task[t].attempt
         /\ Errored(task[t]).result = task[t].result /\ Released(task[t]).result = task[t].result
  <1>1. task[t] \in TaskRows BY AloneParts
  <1> DEFINE u == Unleased(task[t])
  <1>2. u \in TaskRows /\ u.result = task[t].result BY <1>1, RowUnleased, UnleasedKeeps
  <1>3. Released(task[t]) = [u EXCEPT !.st = "Pending"] /\ Errored(task[t]) = [u EXCEPT !.st = "JudgeError"]
    BY DEF Released, Errored
  <1>4. {"Pending", "JudgeError"} \subseteq {"Pending", "Running"} \cup Final BY DEF Final
  <1> HIDE DEF u
  <1>5. Released(task[t]).result = task[t].result /\ Errored(task[t]).result = task[t].result
    BY <1>2, <1>3, <1>4, RowStatus
  <1> QED BY <1>1, <1>5, RowReleased

(* An open row that can not be retried is given up. *)
LEMMA RowGivenUp ==
  ASSUME AloneInv, NEW t \in Tasks, Open(t), ~Retryable(t), task'[t] = Errored(task[t]),
         UNCHANGED <<deadline, penalised, ev>>
  PROVE  RowOK(t)'
  <1>1. RowOK(t) /\ task[t].attempt \in Nat BY AloneParts
  <1>2. /\ task'[t].st = "JudgeError" /\ task'[t].attempt = task[t].attempt
        /\ task'[t].result = 0
    BY ClearedRow, OpenRow
  <1>3. ~Retryable(t)' BY <1>2 DEF Retryable
  <1>4. t \notin penalised' BY OpenRow
  <1>5. task'[t].attempt <= MaxAttempts BY <1>1, <1>2 DEF RowOK
  <1> QED BY <1>2, <1>3, <1>4, <1>5 DEF RowOK, Open

LEMMA SweepWriteAlone ==
  ASSUME AloneInv, OneAtATime, ExecStep, NEW p \in Procs, NEW t \in Tasks, SweepWrite(p, t)
  PROVE  AloneStep
  <1> DEFINE x == Errored(task[t])
             f == [proc[p] EXCEPT !.todo = @ \ {t}, !.hit = TRUE]
  <1>1. /\ proc[p] \in Frames /\ FreshRead(p) /\ proc[p].pc = "sweep" /\ t \in proc[p].todo
        /\ proc \in [Procs -> Frames] /\ task \in [Tasks -> TaskRows]
    BY AloneParts DEF SweepWrite, At, TypeOK
  <1>2. Open(t) /\ deadline = 0 BY <1>1 DEF FreshRead
  <1>3. task' = [task EXCEPT ![t] = x] /\ UNCHANGED <<ev, deadline, penalised, waived>>
    BY DEF SweepWrite
  <1> HIDE DEF x
  <1>4. task'[t] = Errored(task[t]) BY <1>1, <1>3 DEF x
  <1>5. \A u \in Tasks : u # t => task'[u] = task[u] BY <1>1, <1>3
  <1>6. ~Retryable(t) BY <1>2 DEF Retryable
  <1>7. RowOK(t)' BY <1>2, <1>3, <1>4, <1>6, RowGivenUp
  <1>8. \A u \in Tasks : RowOK(u)' BY <1>3, <1>7, OtherRows
  <1>9. proc'[p] = f BY <1>1 DEF SweepWrite
  <1>10. f.pc = "sweep" /\ f.todo = proc[p].todo \ {t} /\ proc[p].todo \subseteq Tasks
    BY <1>1 DEF Frames
  <1> HIDE DEF f
  <1>11. FreshRead(p)'
    <2>1. \A u \in proc[p].todo \ {t} : Open(u)' /\ deadline' = 0
      BY <1>1, <1>2, <1>3, <1>5, <1>10 DEF FreshRead, Open
    <2> QED BY <1>9, <1>10, <2>1 DEF FreshRead, Charging
  <1>12. \A q \in Procs : FreshRead(q)' BY <1>11 DEF OneAtATime
  <1>13. StepOK BY <1>2, <1>3, StepOfRow
  <1>14. task'[t].st # "Down" BY <1>4, ClearedRow
  <1>15. MaxCrashes = 0 => DownsCharged'
    BY <1>1, <1>3, <1>5, <1>14, ChargedQuiet DEF Charging
  <1> QED BY <1>8, <1>12, <1>13, <1>15 DEF AloneStep

(* A result is dealt with: the attempt is one of those counted. *)
LEMMA ResultAttempt ==
  ASSUME AloneInv, NEW p \in Procs, proc[p].pc \in Delivering
  PROVE  /\ proc[p].op = "result" /\ proc[p].t \in Tasks /\ proc[p].n \in Attempts
         /\ Ended(proc[p].t, proc[p].n)
         /\ proc[p].n \in Nat \ {0} /\ proc[p].n <= task[proc[p].t].attempt
  <1>1. Inv BY AloneParts
  <1>2. /\ proc[p].op = "result" /\ proc[p].t \in Tasks /\ proc[p].n \in Attempts
        /\ Ended(proc[p].t, proc[p].n)
    BY <1>1, ResultFrame
  <1>3. Used(exec[proc[p].t][proc[p].n]) BY <1>2 DEF Used, Ended
  <1>4. proc[p].n <= task[proc[p].t].attempt BY <1>1, <1>2, <1>3 DEF Inv, AttemptsInOrder
  <1>5. proc[p].n \in Nat \ {0} BY <1>2, Consts DEF Attempts
  <1> QED BY <1>2, <1>4, <1>5

LEMMA ResultReleaseAlone ==
  ASSUME AloneInv, OneAtATime, ExecStep, NEW p \in Procs, ResultRelease(p)
  PROVE  AloneStep
  <1>1. FreshRead(p) /\ proc[p].pc = "release" /\ task \in [Tasks -> TaskRows]
    BY AloneParts DEF ResultRelease, At, TypeOK
  <1> PICK t \in Tasks : t = proc[p].t BY <1>1, ResultAttempt DEF Delivering
  <1> DEFINE x == Released(task[t])
  <1>2. /\ proc[p].op = "result" /\ t \in Tasks /\ proc[p].n \in Nat \ {0} /\ proc[p].n <= task[t].attempt
    BY <1>1, ResultAttempt DEF Delivering
  <1>3. Retryable(t) /\ Open(t) BY <1>1 DEF FreshRead
  <1>4. task' = [task EXCEPT ![t] = x] /\ UNCHANGED <<ev, deadline, penalised, waived>> /\ Goto(p, "reply")
    BY DEF ResultRelease
  <1> HIDE DEF x
  <1>5. task'[t] = Released(task[t]) BY <1>1, <1>2, <1>4 DEF x
  <1>6. \A u \in Tasks : u # t => task'[u] = task[u] BY <1>1, <1>4
  <1>7. RowOK(t) /\ task[t].attempt \in Nat BY <1>2, AloneParts
  <1>8. /\ task'[t].st = "Pending" /\ task'[t].attempt = task[t].attempt /\ task'[t].result = 0
        /\ t \notin penalised' /\ ev' # "Finished"
    BY <1>2, <1>3, <1>4, <1>5, ClearedRow, OpenRow
  <1>9. task'[t].attempt < MaxAttempts /\ task'[t].attempt <= MaxAttempts
    BY <1>3, <1>7, <1>8, Consts DEF Retryable
  <1>10. RowOK(t)' BY <1>8, <1>9 DEF RowOK, Open
  <1>11. \A u \in Tasks : RowOK(u)' BY <1>2, <1>4, <1>10, OtherRows
  <1>12. proc'[p].pc = "reply" BY <1>4, GotoFrame
  <1>13. \A q \in Procs : FreshRead(q)' BY <1>12 DEF FreshRead, Charging, OneAtATime
  <1>14. proc[p].n = task[t].attempt
    <2>1. MaxAttempts \in Nat /\ MaxAttempts <= 2 BY Consts DEF OneAtATime
    <2>2. task[t].attempt < MaxAttempts BY <1>3 DEF Retryable
    <2> QED BY <1>2, <1>7, <2>1, <2>2
  <1>15. StepOK BY <1>2, <1>3, <1>4, <1>14, StepOfRow
  <1>16. MaxCrashes = 0 => DownsCharged'
    BY <1>1, <1>4, <1>6, <1>8, ChargedQuiet DEF Charging
  <1> QED BY <1>11, <1>13, <1>15, <1>16 DEF AloneStep

LEMMA ResultWriteAlone ==
  ASSUME AloneInv, OneAtATime, ExecStep, NEW p \in Procs, ResultWrite(p)
  PROVE  AloneStep
  <1>1. FreshRead(p) /\ proc[p].pc = "write" /\ task \in [Tasks -> TaskRows]
    BY AloneParts DEF ResultWrite, At, TypeOK
  <1> PICK t \in Tasks, n \in Attempts : t = proc[p].t /\ n = proc[p].n
    BY <1>1, ResultAttempt DEF Delivering
  <1> PICK s : s = StatusOf(OutOf(p)) OBVIOUS
  <1> DEFINE u == Unleased(task[t])
             x == [u EXCEPT !.st = s, !.result = n]
  <1>2. /\ proc[p].op = "result" /\ t \in Tasks /\ n \in Attempts /\ n \in Nat \ {0} /\ Ended(t, n)
    BY <1>1, ResultAttempt DEF Delivering
  <1>3. task[t].st = "Running" /\ task[t].attempt = n /\ Open(t) BY <1>1 DEF FreshRead, Open
  <1>4. task' = [task EXCEPT ![t] = x] /\ UNCHANGED <<exec, ev, deadline, penalised, waived>>
        /\ Goto(p, Scored(p))
    BY DEF ResultWrite
  <1>5. u \in TaskRows /\ u.attempt = task[t].attempt BY <1>1, <1>2, RowUnleased, UnleasedKeeps
  <1>6. s \in Final /\ (Retryable(t) => s # "JudgeError") BY <1>1, StatusIsFinal DEF FreshRead
  <1>7. s = StatusOf(exec[t][n].out) /\ Scored(p) \in {"event", "mf_read"}
        /\ (Scored(p) = "event" <=> s = "Down")
    BY DEF OutOf, Scored
  <1> HIDE DEF u
  <1>8. x.attempt = u.attempt /\ x.st = s /\ x.result = n BY <1>5 DEF TaskRows
  <1> HIDE DEF x
  <1>9. task'[t] = x /\ \A v \in Tasks : v # t => task'[v] = task[v] BY <1>1, <1>2, <1>4
  <1>10. RowOK(t) /\ t \notin penalised /\ ev # "Finished" BY <1>2, <1>3, AloneParts, OpenRow
  <1>11. task'[t].st = s /\ task'[t].attempt = n /\ task'[t].result = n BY <1>3, <1>5, <1>8, <1>9
  <1>12. RowOK(t)'
    <2>1. Retryable(t)' <=> Retryable(t) BY <1>3, <1>4, <1>11 DEF Retryable
    <2>2. ~Open(t)' /\ s # "Pending" BY <1>6, <1>11 DEF Open, Final
    <2>3. Ended(t, n)' /\ exec'[t][n] = exec[t][n] BY <1>2, <1>4 DEF Ended
    <2>4. n <= MaxAttempts BY <1>3, <1>10 DEF RowOK
    <2> QED BY <1>2, <1>4, <1>6, <1>7, <1>10, <1>11, <2>1, <2>2, <2>3, <2>4 DEF RowOK
  <1>13. \A v \in Tasks : RowOK(v)' BY <1>2, <1>4, <1>12, OtherRows
  <1>14. proc'[p].pc = Scored(p) /\ proc'[p].t = t BY <1>4, GotoFrame
  <1>15. FreshRead(p)' BY <1>7, <1>11, <1>14 DEF FreshRead, Charging
  <1>16. \A q \in Procs : FreshRead(q)' BY <1>15 DEF OneAtATime
  <1>17. StepOK BY <1>2, <1>3, <1>4, StepOfRow
  <1>18. \A v \in Tasks : task'[v].st = "Down" =>
            \/ task[v].st = "Down"
            \/ proc'[p].pc \in Charging /\ proc'[p].t = v /\ ev' # "Finished"
    BY <1>4, <1>7, <1>9, <1>10, <1>11, <1>14 DEF Charging
  <1>19. MaxCrashes = 0 => DownsCharged'
    BY <1>1, <1>4, <1>18, ChargedQuiet DEF Charging
  <1> QED BY <1>13, <1>16, <1>17, <1>19 DEF AloneStep

(* Leases are renewed or run down: nothing else of the rows changes. *)
LeasesOnly ==
    \A t \in Tasks :
       /\ task'[t].st = task[t].st /\ task'[t].attempt = task[t].attempt
       /\ task'[t].token = task[t].token /\ task'[t].result = task[t].result

LEMMA LeaseRows ==
  ASSUME AloneInv, ExecStep, LeasesOnly, deadline' \in Nat, deadline' <= deadline, UNCHANGED <<penalised, ev>>
  PROVE  (\A t \in Tasks : RowOK(t)') /\ StepOK
  <1>1. ASSUME NEW t \in Tasks PROVE RowOK(t)'
    <2>1. ev' = "Finished" => ~Open(t) BY AloneParts DEF RowOK
    <2> QED BY <2>1, RowKept DEF LeasesOnly
  <1>2. StepOK BY DEF StepOK, KeepsVerdicts, HonoursLeases, LeasesOnly
  <1> QED BY <1>1, <1>2

LEMMA HeartbeatWriteAlone ==
  ASSUME AloneInv, OneAtATime, ExecStep, NEW p \in Procs, HeartbeatWrite(p)
  PROVE  AloneStep
  <1> DEFINE l == IF LeaseTTL < deadline THEN LeaseTTL ELSE deadline
  <1>1. task' = [task EXCEPT ![proc[p].t].lease = l] /\ UNCHANGED <<ev, deadline, penalised, waived>>
        /\ proc' = [proc EXCEPT ![p] = Idle] /\ proc[p].pc = "beat"
    BY DEF HeartbeatWrite, At
  <1> HIDE DEF l
  <1>2. task \in [Tasks -> TaskRows] /\ deadline \in Nat BY AloneParts DEF TypeOK
  <1>3. LeasesOnly BY <1>1, <1>2 DEF LeasesOnly, TaskRows
  <1>4. (\A t \in Tasks : RowOK(t)') /\ StepOK BY <1>1, <1>2, <1>3, LeaseRows
  <1>5. \A q \in Procs : FreshRead(q)'
    <2>1. \A q \in Procs : proc'[q] = Idle BY <1>1, OnlyFrame
    <2> QED BY <2>1, IdleFrame, ReadsIdle
  <1>6. MaxCrashes = 0 => DownsCharged' BY <1>1, <1>3, ChargedQuiet DEF LeasesOnly, Charging
  <1> QED BY <1>4, <1>5, <1>6 DEF AloneStep

LEMMA TickAlone ==
  ASSUME AloneInv, ExecStep, Tick
  PROVE  AloneStep
  <1>1. task \in [Tasks -> TaskRows] /\ deadline \in Nat BY AloneParts DEF TypeOK
  <1>2. deadline' \in Nat /\ deadline' <= deadline BY <1>1 DEF Tick, Less
  <1>3. LeasesOnly
    <2> SUFFICES ASSUME NEW t \in Tasks
                 PROVE  /\ task'[t].st = task[t].st /\ task'[t].attempt = task[t].attempt
                        /\ task'[t].token = task[t].token /\ task'[t].result = task[t].result
      BY DEF LeasesOnly
    <2>1. task'[t] = [task[t] EXCEPT !.lease = Less(task[t].lease)] BY DEF Tick
    <2> QED BY <1>1, <2>1 DEF TaskRows
  <1>4. UNCHANGED <<penalised, waived, proc, ev>> BY DEF Tick
  <1>5. (\A t \in Tasks : RowOK(t)') /\ StepOK BY <1>2, <1>3, <1>4, LeaseRows
  <1>6. \A q \in Procs : FreshRead(q)'
    <2>1. \A q \in Procs : proc'[q] = Idle BY DEF Tick
    <2> QED BY <2>1, IdleFrame, ReadsIdle
  <1>7. MaxCrashes = 0 => DownsCharged' BY <1>3, <1>4, ChargedSame DEF LeasesOnly
  <1> QED BY <1>5, <1>6, <1>7 DEF AloneStep

(* While a Down is charged, every other Down is settled. *)
LEMMA OneCharged ==
  ASSUME AloneInv, OneAtATime, NEW p \in Procs, MaxCrashes = 0, NEW t \in Tasks, task[t].st = "Down"
  PROVE  t \in penalised \cup waived \/ t = proc[p].t
  <1>1. Charged(t) BY AloneParts DEF DownsCharged
  <1> QED BY <1>1 DEF Charged, OneAtATime

(* A Down that is charged, or let off, is settled afterwards. *)
LEMMA ChargeEnds ==
  ASSUME AloneInv, OneAtATime, NEW p \in Procs, UNCHANGED <<task, ev>>,
         penalised \subseteq penalised', waived \subseteq waived',
         task[proc[p].t].st = "Down" => proc[p].t \in penalised' \cup waived'
  PROVE  MaxCrashes = 0 => DownsCharged'
  <1> SUFFICES ASSUME MaxCrashes = 0 PROVE DownsCharged' OBVIOUS
  <1>1. ASSUME NEW t \in Tasks, task'[t].st = "Down" PROVE t \in penalised' \cup waived'
    BY <1>1, OneCharged
  <1> QED BY <1>1 DEF DownsCharged, Charged, FinishedIsScored

LEMMA ResultEventAlone ==
  ASSUME AloneInv, OneAtATime, ExecStep, NEW p \in Procs, ResultEvent(p)
  PROVE  AloneStep
  <1> DEFINE c == IF ev = "Running" THEN "ban" ELSE "mf_read"
  <1>1. FreshRead(p) /\ proc[p].pc = "event" /\ Goto(p, c) BY AloneParts DEF ResultEvent, At
  <1>2. UNCHANGED <<task, ev, deadline, penalised>> /\ waived \subseteq waived' BY DEF ResultEvent
  <1>3. c \in {"ban", "mf_read"} /\ (c = "ban" <=> ev = "Running") OBVIOUS
  <1> HIDE DEF c
  <1>4. proc'[p].pc = c /\ proc'[p].t = proc[p].t BY <1>1, GotoFrame
  <1>5. task[proc[p].t].st = "Down" BY <1>1 DEF FreshRead, Charging
  <1>6. \A t \in Tasks : RowOK(t)' BY <1>2, RowsSame
  <1>7. FreshRead(p)' BY <1>2, <1>3, <1>4, <1>5 DEF FreshRead, Charging
  <1>8. \A q \in Procs : FreshRead(q)' BY <1>7 DEF OneAtATime
  <1>9. MaxCrashes = 0 => DownsCharged'
    <2>1. CASE ev = "Running"
      <3> SUFFICES ASSUME MaxCrashes = 0 PROVE DownsCharged' OBVIOUS
      <3>1. ASSUME NEW t \in Tasks, task'[t].st = "Down" PROVE Charged(t)'
        <4>1. t \in penalised \cup waived \/ t = proc[p].t BY <1>2, <3>1, OneCharged
        <4> QED BY <1>2, <1>3, <1>4, <2>1, <4>1 DEF Charged, Charging
      <3>2. ev' # "Finished" BY <1>2, <2>1
      <3> QED BY <3>1, <3>2 DEF DownsCharged, FinishedIsScored
    <2>2. CASE ev = "Paused"
      <3>1. proc[p].t \in waived' BY <2>2 DEF ResultEvent
      <3> QED BY <1>2, <3>1, ChargeEnds
    <2>3. CASE ev = "Finished"
      <3> SUFFICES ASSUME MaxCrashes = 0 PROVE DownsCharged' OBVIOUS
      <3>1. FinishedIsScored BY AloneParts DEF DownsCharged
      <3> QED BY <1>2, <2>3, <3>1 DEF FinishedIsScored, DownsCharged, Charged
    <2> QED BY <2>1, <2>2, <2>3, AloneParts DEF TypeOK
  <1> QED BY <1>2, <1>6, <1>8, <1>9, StepSame DEF AloneStep

LEMMA ResultBanAlone ==
  ASSUME AloneInv, OneAtATime, ExecStep, NEW p \in Procs, ResultBan(p)
  PROVE  AloneStep
  <1> DEFINE c == IF proc[p].t \in banned THEN "mf_read" ELSE "score"
  <1>1. FreshRead(p) /\ proc[p].pc = "ban" /\ Goto(p, c) BY AloneParts DEF ResultBan, At
  <1>2. UNCHANGED <<task, ev, deadline, penalised>> /\ waived \subseteq waived' BY DEF ResultBan
  <1>3. c \in {"score", "mf_read"} /\ (c = "mf_read" <=> proc[p].t \in banned) OBVIOUS
  <1> HIDE DEF c
  <1>4. proc'[p].pc = c /\ proc'[p].t = proc[p].t BY <1>1, GotoFrame
  <1>5. task[proc[p].t].st = "Down" /\ ev = "Running" BY <1>1 DEF FreshRead, Charging
  <1>6. \A t \in Tasks : RowOK(t)' BY <1>2, RowsSame
  <1>7. FreshRead(p)' BY <1>2, <1>3, <1>4, <1>5 DEF FreshRead, Charging
  <1>8. \A q \in Procs : FreshRead(q)' BY <1>7 DEF OneAtATime
  <1>9. MaxCrashes = 0 => DownsCharged'
    <2>1. CASE proc[p].t \notin banned
      <3> SUFFICES ASSUME MaxCrashes = 0 PROVE DownsCharged' OBVIOUS
      <3>1. ASSUME NEW t \in Tasks, task'[t].st = "Down" PROVE Charged(t)'
        <4>1. t \in penalised \cup waived \/ t = proc[p].t BY <1>2, <3>1, OneCharged
        <4> QED BY <1>2, <1>3, <1>4, <2>1, <4>1 DEF Charged, Charging
      <3>2. ev' # "Finished" BY <1>2, <1>5
      <3> QED BY <3>1, <3>2 DEF DownsCharged, FinishedIsScored
    <2>2. CASE proc[p].t \in banned
      <3>1. proc[p].t \in waived' BY <2>2 DEF ResultBan
      <3> QED BY <1>2, <3>1, ChargeEnds
    <2> QED BY <2>1, <2>2
  <1> QED BY <1>2, <1>6, <1>8, <1>9, StepSame DEF AloneStep

LEMMA ResultScoreAlone ==
  ASSUME AloneInv, OneAtATime, ExecStep, NEW p \in Procs, ResultScore(p)
  PROVE  AloneStep
  <1>1. FreshRead(p) /\ proc[p].pc = "score" /\ Goto(p, "mf_read") BY AloneParts DEF ResultScore, At
  <1>2. UNCHANGED <<task, ev, deadline, waived>> /\ penalised' = penalised \cup {proc[p].t} BY DEF ResultScore
  <1>3. proc'[p].pc = "mf_read" BY <1>1, GotoFrame
  <1>4. task[proc[p].t].st = "Down" /\ ev = "Running" BY <1>1 DEF FreshRead, Charging
  <1>5. proc[p].t \in Tasks BY <1>1, ResultAttempt DEF Delivering
  <1>6. ASSUME NEW t \in Tasks PROVE RowOK(t)'
    <2>1. t \in penalised' => t \in penalised \/ task[t].st = "Down" BY <1>2, <1>4
    <2>2. deadline' \in Nat /\ deadline' <= deadline BY <1>2, AloneParts
    <2>3. ev' # "Finished" BY <1>2, <1>4
    <2> QED BY <1>2, <2>1, <2>2, <2>3, RowKept
  <1>7. \A q \in Procs : FreshRead(q)' BY <1>3 DEF FreshRead, Charging, OneAtATime
  <1>8. MaxCrashes = 0 => DownsCharged' BY <1>2, ChargeEnds
  <1>9. StepOK
    <2>1. PaysOne BY <1>2, <1>4, <1>5 DEF PaysOne
    <2> QED BY <1>2, <2>1 DEF StepOK, KeepsVerdicts, HonoursLeases
  <1> QED BY <1>6, <1>7, <1>8, <1>9 DEF AloneStep

LEMMA DeadlineSweptAlone ==
  ASSUME AloneInv, OneAtATime, ExecStep, NEW p \in Procs, DeadlineSwept(p)
  PROVE  AloneStep
  <1>1. proc'[p].pc = "mf_read" /\ proc[p].pc = "sweep" BY GotoFrame DEF DeadlineSwept, At
  <1>2. FreshRead(p)' BY <1>1 DEF FreshRead, Charging
  <1> QED BY <1>1, <1>2, HandlerStep DEF DeadlineSwept, Charging

LEMMA MaybeFinishReadAlone ==
  ASSUME AloneInv, OneAtATime, ExecStep, NEW p \in Procs, MaybeFinishRead(p)
  PROVE  AloneStep
  <1> DEFINE c == IF ev = "Running" /\ AllTerminal THEN "mf_cas" ELSE "reply"
  <1>1. proc[p].pc = "mf_read" /\ Goto(p, c) BY DEF MaybeFinishRead, At
  <1>2. c \in {"mf_cas", "reply"} /\ (c = "mf_cas" => ev = "Running" /\ AllTerminal) OBVIOUS
  <1> HIDE DEF c
  <1>3. proc'[p].pc = c BY <1>1, GotoFrame
  <1>4. UNCHANGED <<task, ev, deadline, penalised, waived>> BY DEF MaybeFinishRead
  <1>5. AllTerminal' <=> AllTerminal BY <1>4 DEF AllTerminal, Open
  <1>6. FreshRead(p)' BY <1>2, <1>3, <1>4, <1>5 DEF FreshRead, Charging
  <1> QED BY <1>1, <1>4, <1>6, HandlerStep DEF Charging

LEMMA MaybeFinishCasAlone ==
  ASSUME AloneInv, OneAtATime, ExecStep, NEW p \in Procs, MaybeFinishCas(p)
  PROVE  AloneStep
  <1>1. FreshRead(p) /\ proc[p].pc = "mf_cas" /\ Goto(p, "reply") BY AloneParts DEF MaybeFinishCas, At
  <1>2. ev = "Running" /\ AllTerminal BY <1>1 DEF FreshRead
  <1>3. ev' = "Finished" /\ UNCHANGED <<task, deadline, penalised, waived>> BY <1>2 DEF MaybeFinishCas
  <1>4. \A t \in Tasks : RowOK(t)' BY <1>2, <1>3, RowsSame
  <1>5. proc'[p].pc = "reply" BY <1>1, GotoFrame
  <1>6. \A q \in Procs : FreshRead(q)' BY <1>5 DEF FreshRead, Charging, OneAtATime
  <1>7. MaxCrashes = 0 => DownsCharged' BY <1>1, <1>3, ChargedQuiet DEF Charging
  <1>8. StepOK BY <1>2, <1>3, StepOfEvent DEF EventMoves
  <1> QED BY <1>4, <1>6, <1>7, <1>8 DEF AloneStep

(* An administrator is served only while no handler is in flight. *)
LEMMA AdminAlone ==
  ASSUME AloneInv, OneAtATime, ExecStep,
         \/ PauseEvent \/ ResumeEvent
         \/ \E t \in Tasks : BanTeam(t) \/ UnbanTeam(t)
  PROVE  AloneStep
  <1>1. UNCHANGED <<task, proc, deadline, penalised, waived>> /\ Attended
    BY DEF PauseEvent, ResumeEvent, BanTeam, UnbanTeam
  <1>2. UNCHANGED ev \/ (ev # "Finished" /\ ev' \in {"Running", "Paused"})
    BY DEF PauseEvent, ResumeEvent, BanTeam, UnbanTeam
  <1>3. PICK p \in Procs : proc[p].pc = "idle" BY <1>1 DEF Attended, At
  <1>4. \A q \in Procs : proc'[q].pc = "idle" BY <1>1, <1>3 DEF OneAtATime
  <1>5. \A t \in Tasks : RowOK(t)' BY <1>1, <1>2, RowsSame
  <1>6. MaxCrashes = 0 => DownsCharged' BY <1>1, <1>3, ChargedQuiet DEF Charging
  <1>7. StepOK BY <1>1, <1>2, StepSame, StepOfEvent DEF EventMoves
  <1> QED BY <1>4, <1>5, <1>6, <1>7, ReadsIdle DEF AloneStep

LEMMA RestartAlone ==
  ASSUME AloneInv, ExecStep, Restart
  PROVE  AloneStep
  <1>1. UNCHANGED <<task, deadline, penalised, waived>> BY DEF Restart
  <1>2. UNCHANGED ev \/ (ev = "Running" /\ AllTerminal /\ ev' = "Finished") BY DEF Restart
  <1>3. \A q \in Procs : proc'[q].pc = "idle" BY IdleFrame DEF Restart
  <1>4. \A t \in Tasks : RowOK(t)' BY <1>1, <1>2, RowsSame
  <1>5. MaxCrashes # 0
    <2>1. used.crashes \in Nat /\ used.crashes < MaxCrashes BY AloneParts DEF Restart, TypeOK
    <2>2. MaxCrashes \in Nat BY JudgeConstants
    <2> QED BY <2>1, <2>2
  <1>6. StepOK BY <1>1, <1>2, StepSame, StepOfEvent DEF EventMoves
  <1> QED BY <1>3, <1>4, <1>5, <1>6, ReadsIdle DEF AloneStep

(* A claim takes from nobody what is not overdue, and counts no further    *)
(* than max_attempts.                                                      *)
LEMMA ClaimCommitAlone ==
  ASSUME AloneInv, OneAtATime, ExecStep, NEW p \in Procs, ClaimCommit(p)
  PROVE  AloneStep
  <1> DEFINE freed == [t \in Tasks |-> IF t \notin proc[p].todo THEN task[t]
                                       ELSE IF t \in proc[p].retry THEN Released(task[t])
                                       ELSE Errored(task[t])]
             ready == {t \in Tasks : freed[t].st = "Pending"}
             mine  == {t \in ready : Cardinality({u \in ready : u <= t}) <= proc[p].limit}
             c == IF proc[p].hit \/ proc[p].todo # proc[p].retry THEN "mf_read" ELSE "reply"
  <1>1. PICK w : w = proc[p].w OBVIOUS
  <1>2. /\ task' = [t \in Tasks |-> IF t \in mine THEN Claimed(freed[t], w) ELSE freed[t]]
        /\ \A t \in mine : freed[t].attempt < MaxClaims
        /\ Goto(p, c) /\ proc[p].pc = "claim"
        /\ UNCHANGED <<ev, deadline, penalised, waived>>
    BY <1>1 DEF ClaimCommit, At
  <1>3. c \in {"mf_read", "reply"} OBVIOUS
  <1>4. mine \subseteq Tasks /\ \A t \in mine : freed[t].st = "Pending" OBVIOUS
  <1>5. FreshRead(p) /\ proc[p] \in Frames BY AloneParts
  <1>6. w \in Workers \cup {NoWorker} /\ proc[p].todo \subseteq Tasks BY <1>1, <1>5 DEF Frames
  <1>7. ASSUME NEW t \in Tasks
        PROVE  \/ freed[t] = task[t] /\ t \notin proc[p].todo
               \/ /\ t \in proc[p].todo /\ task[t].st = "Running" /\ task[t].lease = 0
                  /\ Retryable(t) /\ freed[t] = Released(task[t])
               \/ /\ t \in proc[p].todo /\ task[t].st = "Running" /\ task[t].lease = 0
                  /\ ~Retryable(t) /\ freed[t] = Errored(task[t])
    <2>1. ASSUME t \in proc[p].todo
          PROVE  task[t].st = "Running" /\ task[t].lease = 0 /\ (t \in proc[p].retry <=> Retryable(t))
      BY <1>2, <1>5, <2>1 DEF FreshRead
    <2> QED BY <2>1
  <1> HIDE DEF c, mine, ready, freed
  <1>8. ASSUME NEW t \in Tasks
        PROVE  /\ RowOK(t)'
               /\ task[t].st \in Final => task'[t].st = task[t].st
               /\ task[t].st = "Running" /\ task[t].lease > 0 => task'[t] = task[t]
               /\ task'[t].st = "Down" => task[t].st = "Down"
    <2>1. RowOK(t) /\ task[t] \in TaskRows /\ task[t].attempt \in Nat BY AloneParts
    <2>2. /\ Errored(task[t]).st = "JudgeError" /\ Released(task[t]).st = "Pending"
          /\ Errored(task[t]).attempt = task[t].attempt /\ Released(task[t]).attempt = task[t].attempt
          /\ Errored(task[t]).result = task[t].result /\ Released(task[t]).result = task[t].result
          /\ Released(task[t]) \in TaskRows
      BY <2>1, ClearedRow, RowReleased
    <2>3. CASE t \in mine
      <3>1. task'[t] = Claimed(freed[t], w) /\ freed[t].attempt < MaxClaims /\ freed[t].st = "Pending"
        BY <1>2, <1>4, <2>3
      <3>2. /\ freed[t] \in TaskRows /\ Open(t) /\ freed[t].attempt = task[t].attempt
            /\ freed[t].result = task[t].result /\ freed[t].attempt < MaxAttempts
            /\ ~(task[t].st = "Running" /\ task[t].lease > 0)
        <4>1. CASE freed[t] = task[t] /\ t \notin proc[p].todo
          BY <2>1, <3>1, <4>1 DEF RowOK, Open
        <4>2. CASE task[t].st = "Running" /\ task[t].lease = 0 /\ Retryable(t) /\ freed[t] = Released(task[t])
          BY <2>1, <2>2, <4>2 DEF Retryable, Open
        <4>3. CASE freed[t] = Errored(task[t]) BY <2>2, <3>1, <4>3
        <4> QED BY <1>7, <4>1, <4>2, <4>3
      <3>3. task[t].result = 0 /\ t \notin penalised /\ ev # "Finished" BY <3>2, OpenRow
      <3>4. Claimed(freed[t], w).st = "Running" /\ Claimed(freed[t], w).attempt = freed[t].attempt + 1
        BY <1>6, <3>1, <3>2, RowClaimed
      <3>5. Claimed(freed[t], w).result = freed[t].result BY <3>2 DEF Claimed, TaskRows
      <3>6. task'[t].attempt <= MaxAttempts BY <2>1, <3>1, <3>2, <3>4, Consts
      <3>7. task'[t].st = "Running" /\ task'[t].result = 0 BY <3>1, <3>2, <3>3, <3>4, <3>5
      <3>8. RowOK(t)' BY <1>2, <3>3, <3>6, <3>7 DEF RowOK, Open
      <3> QED BY <3>2, <3>7, <3>8 DEF Open, Final
    <2>4. CASE t \notin mine
      <3>1. task'[t] = freed[t] BY <1>2, <2>4
      <3>2. CASE freed[t] = task[t] /\ t \notin proc[p].todo
        <4>1. ev' = "Finished" => ~Open(t) BY <1>2, <2>1 DEF RowOK
        <4>2. deadline' \in Nat /\ deadline' <= deadline BY <1>2, AloneParts
        <4>3. RowOK(t)' BY <1>2, <3>1, <3>2, <4>1, <4>2, RowKept
        <4> QED BY <3>1, <3>2, <4>3
      <3>3. CASE task[t].st = "Running" /\ task[t].lease = 0 /\ Retryable(t) /\ freed[t] = Released(task[t])
        <4>1. task[t].result = 0 /\ t \notin penalised /\ ev # "Finished" BY <3>3, OpenRow DEF Open
        <4>2. task'[t].st = "Pending" /\ task'[t].attempt = task[t].attempt /\ task'[t].result = 0
          BY <2>2, <3>1, <3>3, <4>1
        <4>3. task'[t].attempt < MaxAttempts /\ task'[t].attempt <= MaxAttempts
          BY <2>1, <3>3, <4>2, Consts DEF Retryable
        <4>4. RowOK(t)' BY <1>2, <4>1, <4>2, <4>3 DEF RowOK, Open
        <4> QED BY <3>3, <4>2, <4>4 DEF Final
      <3>4. CASE task[t].st = "Running" /\ task[t].lease = 0 /\ ~Retryable(t) /\ freed[t] = Errored(task[t])
        <4>1. Open(t) BY <3>4 DEF Open
        <4>2. RowOK(t)' BY <1>2, <3>1, <3>4, <4>1, RowGivenUp
        <4> QED BY <2>2, <3>1, <3>4, <4>2 DEF Final
      <3> QED BY <1>7, <3>2, <3>3, <3>4
    <2> QED BY <2>3, <2>4
  <1>9. StepOK
    <2>1. KeepsVerdicts BY <1>8 DEF KeepsVerdicts
    <2>2. HonoursLeases BY <1>8 DEF HonoursLeases
    <2> QED BY <1>2, <2>1, <2>2 DEF StepOK
  <1>10. proc'[p].pc = c BY <1>2, GotoFrame
  <1>11. \A q \in Procs : FreshRead(q)' BY <1>3, <1>10 DEF FreshRead, Charging, OneAtATime
  <1>12. MaxCrashes = 0 => DownsCharged' BY <1>2, <1>8, ChargedQuiet DEF Charging
  <1> QED BY <1>8, <1>9, <1>11, <1>12 DEF AloneStep

---------------------------------------------------------------------------
(* What holds with one handler at a time *)

LEMMA AloneInit == Init => AloneInv
  <1> SUFFICES ASSUME Init PROVE AloneInv OBVIOUS
  <1>1. Inv BY InitInv
  <1>2. \A t \in Tasks : task[t].st = "Pending" /\ task[t].attempt = 0 /\ task[t].result = 0 BY DEF Init
  <1>3. penalised = {} /\ ev = "Running" BY DEF Init
  <1>4. 0 < MaxAttempts /\ 0 <= MaxAttempts
    <2>1. MaxAttempts \in Nat \ {0} BY JudgeConstants
    <2> QED BY <2>1
  <1>5. \A t \in Tasks : RowOK(t) BY <1>2, <1>3, <1>4 DEF RowOK, Open
  <1>6. \A p \in Procs : proc[p].pc = "idle" BY IdleFrame DEF Init
  <1>7. \A p \in Procs : FreshRead(p) BY <1>6 DEF FreshRead, Charging
  <1>8. DownsCharged BY <1>2, <1>3 DEF DownsCharged, FinishedIsScored
  <1> QED BY <1>1, <1>5, <1>7, <1>8 DEF AloneInv

LEMMA AloneNext ==
  ASSUME OneAtATime, AloneInv, [Next]_vars
  PROVE  AloneInv' /\ StepOK
  <1>1. Inv' /\ ExecStep BY NextInv, AloneParts
  <1>2. AloneStep
    <2>1. ASSUME NEW p \in Procs, Handler(p) PROVE AloneStep
      <3>1. CASE \E t \in Tasks : SweepWrite(p, t) BY <1>1, <3>1, SweepWriteAlone
      <3>2. CASE ReclaimRead(p) BY <1>1, <3>2, ReclaimReadAlone
      <3>3. CASE ClaimCommit(p) BY <1>1, <3>3, ClaimCommitAlone
      <3>4. CASE ClaimReply(p) BY <1>1, <3>4, IdleStep DEF ClaimReply, At, Charging
      <3>5. CASE ClaimReplyLost(p) BY <1>1, <3>5, IdleStep DEF ClaimReplyLost, At, Charging
      <3>6. CASE HeartbeatWrite(p) BY <1>1, <3>6, HeartbeatWriteAlone
      <3>7. CASE ResultRelease(p) BY <1>1, <3>7, ResultReleaseAlone
      <3>8. CASE ResultCheck(p) BY <1>1, <3>8, ResultCheckAlone
      <3>9. CASE ResultWrite(p) BY <1>1, <3>9, ResultWriteAlone
      <3>10. CASE ResultEvent(p) BY <1>1, <3>10, ResultEventAlone
      <3>11. CASE ResultBan(p) BY <1>1, <3>11, ResultBanAlone
      <3>12. CASE ResultScore(p) BY <1>1, <3>12, ResultScoreAlone
      <3>13. CASE ResultReply(p) BY <1>1, <3>13, IdleStep DEF ResultReply, At, Charging
      <3>14. CASE ResultReplyLost(p) BY <1>1, <3>14, IdleStep DEF ResultReplyLost, At, Charging
      <3>15. CASE DeadlineSwept(p) BY <1>1, <3>15, DeadlineSweptAlone
      <3>16. CASE DeadlineDone(p) BY <1>1, <3>16, IdleStep DEF DeadlineDone, At, Charging
      <3>17. CASE MaybeFinishRead(p) BY <1>1, <3>17, MaybeFinishReadAlone
      <3>18. CASE MaybeFinishCas(p) BY <1>1, <3>18, MaybeFinishCasAlone
      <3> QED BY <2>1, <3>1, <3>2, <3>3, <3>4, <3>5, <3>6, <3>7, <3>8, <3>9, <3>10, <3>11,
                 <3>12, <3>13, <3>14, <3>15, <3>16, <3>17, <3>18 DEF Handler
    <2>2. ASSUME NEW p \in Procs, Request(p) PROVE AloneStep
      <3>1. CASE \E w \in Workers : ClaimSweepRead(p, w) BY <1>1, <3>1, ClaimSweepReadAlone
      <3>2. ASSUME NEW t \in Tasks, NEW n \in Attempts,
                   HeartbeatRead(p, t, n) \/ HeartbeatStale(p, t, n) \/ ResultFind(p, t, n)
            PROVE  AloneStep
        <4>1. CASE HeartbeatRead(p, t, n) BY <1>1, <4>1, HeartbeatReadAlone
        <4>2. CASE HeartbeatStale(p, t, n) BY <1>1, <4>2, QuietStep DEF HeartbeatStale
        <4>3. CASE ResultFind(p, t, n) BY <1>1, <4>3, ResultFindAlone
        <4> QED BY <3>2, <4>1, <4>2, <4>3
      <3> QED BY <2>2, <3>1, <3>2 DEF Request
    <2>3. ASSUME NEW p \in Procs, DeadlineRead(p) PROVE AloneStep BY <1>1, <2>3, DeadlineReadAlone
    <2>4. CASE Worker BY <1>1, <2>4, QuietStep DEF Worker, RequestLost, ScriptEnds, WorkerDies
    <2>5. CASE PauseEvent \/ ResumeEvent \/ \E t \in Tasks : BanTeam(t) \/ UnbanTeam(t)
      BY <1>1, <2>5, AdminAlone
    <2>6. CASE Restart BY <1>1, <2>6, RestartAlone
    <2>7. CASE Tick BY <1>1, <2>7, TickAlone
    <2>8. CASE UNCHANGED vars BY <1>1, <2>8, QuietStep DEF vars
    <2> QED BY <2>1, <2>2, <2>3, <2>4, <2>5, <2>6, <2>7, <2>8 DEF Next
  <1> QED BY <1>1, <1>2 DEF AloneStep, AloneInv

LEMMA AloneHolds == ASSUME OneAtATime PROVE Spec => []AloneInv
  <1>1. AloneInv /\ [Next]_vars => AloneInv' BY AloneNext
  <1> QED BY <1>1, AloneInit, PTL DEF Spec

(* With one handler at a time no task is claimed more than max_attempts    *)
(* times: release_task_to_pending and reclaim_expired_leases give a task   *)
(* back only while it has an attempt left.                                 *)
THEOREM RetriesBounded == ASSUME OneAtATime PROVE Spec => []AttemptsBounded
  <1>1. AloneInv => AttemptsBounded BY DEF AloneInv, RowOK, AttemptsBounded
  <1> QED BY <1>1, AloneHolds, PTL

(* With one handler at a time, and whatever workers lose, repeat or answer *)
(* too late and however often the process restarts, a verdict stands, a    *)
(* lease that has not run out is ended only by the result of its attempt,  *)
(* and judge_result writes no penalty once the event is finished.          *)
THEOREM VerdictsStand == ASSUME OneAtATime PROVE Spec => NothingTakenBack
  <1>1. AloneInv /\ [Next]_vars => [KeepsVerdicts /\ HonoursLeases /\ KeepsScores]_vars
    <2> SUFFICES ASSUME AloneInv, [Next]_vars PROVE KeepsVerdicts /\ HonoursLeases /\ KeepsScores
      OBVIOUS
    <2>1. StepOK BY AloneNext
    <2> QED BY <2>1 DEF StepOK, KeepsScores, PaysOne
  <1> QED BY <1>1, AloneHolds, PTL DEF Spec, NothingTakenBack

(* With one handler at a time and no crash, the scores agree with the      *)
(* verdicts: judge_result charges only a box that is Down, and             *)
(* maybe_finish_event finds every Down charged, except those that came in  *)
(* while the event was paused or the team banned.                          *)
THEOREM ScoresAgree == ASSUME OneAtATime, MaxCrashes = 0 PROVE Spec => []ScoresMatchVerdicts
  <1>1. AloneInv => ScoresMatchVerdicts
    <2> SUFFICES ASSUME AloneInv PROVE ScoresMatchVerdicts OBVIOUS
    <2>1. penalised \subseteq Tasks BY AloneParts DEF TypeOK
    <2>2. PenaltyIsForDown BY <2>1, AloneParts DEF RowOK, PenaltyIsForDown
    <2>3. FinishedIsScored BY AloneParts DEF DownsCharged
    <2> QED BY <2>2, <2>3 DEF ScoresMatchVerdicts
  <1> QED BY <1>1, AloneHolds, PTL

---------------------------------------------------------------------------
(* Judging implements JudgeVerdicts *)

VerdictOf(t) == IF Open(t) THEN "open" ELSE task[t].st
EventOf == CASE ev = "Running" -> "open" [] ev = "Paused" -> "paused" [] ev = "Finished" -> "over"

LEMMA PromiseInit == Init => Promise!Init
  <1> SUFFICES ASSUME Init PROVE Promise!Init OBVIOUS
  <1>1. \A t \in Tasks : Open(t) BY DEF Init, Open
  <1>2. ev = "Running" /\ penalised = {} BY DEF Init
  <1> QED BY <1>1, <1>2 DEF Promise!Init, Promise!Undecided

(* Every step decides, pays, moves the event on, or is not seen. *)
LEMMA PromiseNext ==
  ASSUME AloneInv, AloneInv', StepOK
  PROVE  \/ Promise!Next
         \/ UNCHANGED <<[t \in Tasks |-> VerdictOf(t)], penalised, EventOf>>
  <1> DEFINE v == [t \in Tasks |-> VerdictOf(t)]
  <1>1. ev \in {"Running", "Paused", "Finished"} /\ ev' \in {"Running", "Paused", "Finished"}
    BY DEF AloneInv, Inv, TypeOK
  <1>2. ASSUME NEW t \in Tasks
        PROVE  /\ v[t] \in Final \cup {"open"} /\ (v[t] = "open" <=> Open(t)) /\ (~Open(t) => v[t] = task[t].st)
               /\ v'[t] \in Final \cup {"open"} /\ (v[t] # "open" => v'[t] = v[t])
    <2>1. task[t].st \in {"Pending", "Running"} \cup Final /\ task'[t].st \in {"Pending", "Running"} \cup Final
      BY DEF AloneInv, Inv, TypeOK, TaskRows
    <2>2. task[t].st \in Final => task'[t].st = task[t].st BY DEF StepOK, KeepsVerdicts
    <2> QED BY <2>1, <2>2 DEF VerdictOf, Open, Final
  <1>3. v \in [Tasks -> Final \cup {"open"}] /\ v' \in [Tasks -> Final \cup {"open"}] BY <1>2
  <1>4. /\ EventOf = "open" <=> ev = "Running"
        /\ EventOf = "paused" <=> ev = "Paused"
        /\ EventOf = "over" <=> ev = "Finished"
        /\ EventOf' = "open" <=> ev' = "Running"
        /\ EventOf' = "paused" <=> ev' = "Paused"
        /\ EventOf' = "over" <=> ev' = "Finished"
    BY <1>1 DEF EventOf
  <1> HIDE DEF v
  <1>5. CASE UNCHANGED penalised /\ UNCHANGED ev
    <2>1. UNCHANGED EventOf BY <1>1, <1>4, <1>5
    <2>2. CASE ev = "Finished"
      <3>1. \A t \in Tasks : ~Open(t) BY <2>2, AloneParts DEF RowOK
      <3>2. \A t \in Tasks : v'[t] = v[t] BY <1>2, <3>1
      <3>3. v' = v BY <1>3, <3>2
      <3> QED BY <1>5, <2>1, <3>3 DEF v
    <2>3. CASE ev # "Finished"
      <3>1. Promise!Decide
        BY <1>2, <1>3, <1>4, <1>5, <2>1, <2>3 DEF Promise!Decide, Promise!Undecided, v, VerdictOf, EventOf
      <3> QED BY <3>1 DEF Promise!Next
    <2> QED BY <2>2, <2>3
  <1>6. CASE PaysOne
    <2>1. PICK t \in Tasks : task[t].st = "Down" /\ penalised' = penalised \cup {t} BY <1>6 DEF PaysOne
    <2>2. v' = v /\ UNCHANGED EventOf BY <1>6 DEF PaysOne, v, VerdictOf, Open, EventOf
    <2>3. v[t] = "Down" BY <1>2, <2>1 DEF Open
    <2>4. Promise!Pay(t) BY <1>4, <1>6, <2>1, <2>2, <2>3 DEF PaysOne, Promise!Pay, v, VerdictOf, EventOf
    <2> QED BY <2>4 DEF Promise!Next
  <1>7. CASE EventMoves
    <2>1. v' = v BY <1>7 DEF EventMoves, v, VerdictOf, Open
    <2>2. CASE ev # "Finished" /\ ev' \in {"Running", "Paused"}
      <3>1. Promise!PauseOrResume
        BY <1>4, <1>7, <2>1, <2>2 DEF EventMoves, Promise!PauseOrResume, v, VerdictOf, EventOf
      <3> QED BY <3>1 DEF Promise!Next
    <2>3. CASE ev = "Running" /\ AllTerminal /\ ev' = "Finished"
      <3>1. \A t \in Tasks : v[t] # "open" BY <1>2, <2>3 DEF AllTerminal
      <3>2. Promise!Close
        BY <1>4, <1>7, <2>1, <2>3, <3>1 DEF EventMoves, Promise!Close, Promise!Undecided, v, VerdictOf, EventOf
      <3> QED BY <3>2 DEF Promise!Next
    <2> QED BY <1>7, <2>2, <2>3 DEF EventMoves
  <1> QED BY <1>5, <1>6, <1>7 DEF StepOK

(* With one handler at a time judging keeps its promise, with crashes and  *)
(* everything else that can go wrong: verdicts are given once, penalties   *)
(* follow a Down of an event that is running, and nothing moves after the  *)
(* finish.                                                                 *)
THEOREM JudgingKeepsPromise == ASSUME OneAtATime PROVE Spec => JudgePromise
  <1>1. AloneInv /\ AloneInv' /\ [Next]_vars =>
           [Promise!Next]_<<[t \in Tasks |-> IF Open(t) THEN "open" ELSE task[t].st], penalised,
              CASE ev = "Running" -> "open" [] ev = "Paused" -> "paused" [] ev = "Finished" -> "over">>
    BY AloneNext, PromiseNext DEF VerdictOf, EventOf
  <1> QED BY <1>1, PromiseInit, AloneHolds, PTL DEF Spec, JudgePromise, Promise!Spec
=============================================================================

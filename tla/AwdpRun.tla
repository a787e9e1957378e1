------------------------------ MODULE AwdpRun ------------------------------
(***************************************************************************)
(* An AWDP competition run from its creation to the Fix phase and its end: *)
(* who may create the run row, the Break phase (instances are started and  *)
(* stopped, flags are submitted), the reset of every instance in           *)
(* PreparingFix, and the cleanup after the run.  Every request and every   *)
(* task of the scheduler is a thread that interleaves with the others at   *)
(* its database and docker calls; a crash loses the threads and their      *)
(* advisory locks and keeps the rows and the containers.                   *)
(***************************************************************************)
EXTENDS Naturals, FiniteSets

CONSTANTS Runs,       \* the rows awdp_runs may hold, numbered in order of creation
          Boxes,      \* subject x game box pairs: one instance each in a run
          Threads,    \* HTTP requests and scheduler tasks in progress
          MaxGen,     \* bound on runtime_generation
          MaxCrashes, \* bound on crashes of the API process
          MaxFails    \* bound on docker failures

VARIABLES run,     \* phase of each row
          box,     \* event_instances row: runtime_state and runtime_generation
          up,      \* the phase a box's container was created in, or "no"
          lock,    \* holder of the advisory lock of a box
          broken,  \* awdp_breaks rows
          scored,  \* score events of kind "break"
          thr,     \* local state of each thread
          spent    \* crashes and docker failures so far

vars == <<run, box, up, lock, broken, scored, thr, spent>>

Phases == {"none", "Pending", "Break", "PreparingFix", "Fix", "Ended"}
Slots == Runs \X Boxes
Active == {"Pending", "Break", "Fix"}
Idle == [pc |-> "idle", slot |-> <<1, CHOOSE b \in Boxes : TRUE>>, gen |-> 0,
         loop |-> "no", todo |-> {}]
\* A thread with run r in hand, and one that goes through its boxes one by one.
Has(pc, r) == [Idle EXCEPT !.pc = pc, !.slot = <<r, @[2]>>]
Loop(kind, r, bs) == [Has("loop", r) EXCEPT !.loop = kind, !.todo = bs]

Rows == {r \in Runs : run[r] # "none"}
ActiveRuns == {r \in Runs : run[r] \in Active}

Init ==
    /\ run = [r \in Runs |-> "none"]
    /\ box = [s \in Slots |-> [st |-> "none", gen |-> 0]]
    /\ up = [s \in Slots |-> "no"]
    /\ lock = [s \in Slots |-> {}]
    /\ broken = {} /\ scored = {}
    /\ thr = [t \in Threads |-> Idle]
    /\ spent = [crashes |-> 0, fails |-> 0]

At(t, pc) == thr[t].pc = pc
Go(t, pc) == thr' = [thr EXCEPT ![t].pc = pc]
Done(t) == thr' = [thr EXCEPT ![t] = Idle]
\* A loop over instances goes on with the next one, a single request is over.
After(t) ==
    thr' = [thr EXCEPT ![t] = IF @.loop = "no" THEN Idle ELSE [@ EXCEPT !.pc = "loop"]]
Rowless == UNCHANGED <<run, box, up, lock, broken, scored, spent>>

----------------------------------------------------------------------------
(* Creating the run and starting it *)

\* Bound: a row is left for every thread that is about to insert one.
RowsLeft == Cardinality({t \in Threads : At(t, "insert") \/ At(t, "tickInsert")})
              < Cardinality(Runs \ Rows)

\* The tick creates a run for an event that is due and has no row at all.
TickCreate(t) ==
    /\ At(t, "idle") /\ Rows = {} /\ RowsLeft
    /\ Go(t, "tickInsert") /\ Rowless

\* Start by an administrator: an active row is returned as it is, an event
\* that ended is refused, otherwise a row is inserted.
AdminStart(t) ==
    /\ At(t, "idle")
    /\ \/ \E r \in ActiveRuns :
             thr' = [thr EXCEPT ![t] = Has("begin", r)]
       \/ /\ ActiveRuns = {} /\ \A r \in Rows : run[r] # "Ended"
          /\ RowsLeft /\ Go(t, "insert")
    /\ Rowless

\* The unique index is on (event_id, gamebox_id, owner_user_id); the last two
\* are NULL for a competition run, so it never refuses the row.
InsertRun(t) ==
    /\ At(t, "insert") \/ At(t, "tickInsert")
    /\ \E r \in Runs \ Rows :
         /\ \A q \in Runs \ Rows : r <= q
         /\ run' = [run EXCEPT ![r] = "Pending"]
         /\ thr' = [thr EXCEPT ![t] = IF At(t, "insert") THEN Has("begin", r) ELSE Idle]
    /\ UNCHANGED <<box, up, lock, broken, scored, spent>>

\* Compare-and-set on the locked row: a phase that moved on is a conflict.
TransitionPhase(r, from, to) == run[r] = from /\ run' = [run EXCEPT ![r] = to]

\* Pending -> Break, then every mounted game box is started for every subject.
BeginBreak(t) ==
    /\ At(t, "begin")
    /\ LET r == thr[t].slot[1] IN
         \/ /\ TransitionPhase(r, "Pending", "Break")
            /\ thr' = [thr EXCEPT ![t] = Loop("start", r, Boxes)]
         \/ run[r] # "Pending" /\ run' = run /\ Done(t)
    /\ UNCHANGED <<box, up, lock, broken, scored, spent>>

\* The tick finds a pending run that is due and takes the same step.
TickBegin(t, r) ==
    /\ At(t, "idle") /\ run[r] = "Pending"
    /\ thr' = [thr EXCEPT ![t] = Has("begin", r)]
    /\ Rowless

----------------------------------------------------------------------------
(* Starting an instance takes no lock *)

StartInstance(t, s) ==
    /\ run[s[1]] \in {"Break", "Fix"}
    /\ thr' = [thr EXCEPT ![t] = [@ EXCEPT !.pc = "find", !.slot = s]]
    /\ Rowless

FindInstance(t) ==
    /\ At(t, "find")
    /\ LET b == box[thr[t].slot] IN
         \/ b.st = "none" /\ Go(t, "create")
         \/ b.st = "running" /\ After(t)
         \/ b.st \in {"starting", "stopped"}
            /\ thr' = [thr EXCEPT ![t] = [@ EXCEPT !.pc = "launch", !.gen = b.gen]]
    /\ Rowless

\* The row is unique per run, game box and subject: the second insert fails.
CreateInstance(t) ==
    /\ At(t, "create")
    /\ LET s == thr[t].slot IN
         \/ /\ box[s].st = "none"
            /\ box' = [box EXCEPT ![s] = [st |-> "starting", gen |-> 1]]
            /\ thr' = [thr EXCEPT ![t] = [@ EXCEPT !.pc = "launch", !.gen = 1]]
         \/ box[s].st # "none" /\ box' = box /\ After(t)
    /\ UNCHANGED <<run, up, lock, broken, scored, spent>>

\* docker create and start; a container of the same name is a conflict.
LaunchContainer(t, next) ==
    LET s == thr[t].slot IN
      /\ up[s] = "no"
      /\ up' = [up EXCEPT ![s] = run[s[1]]]
      /\ Go(t, next) /\ UNCHANGED <<lock, spent>>

LaunchFails(t) ==
    /\ \/ up[thr[t].slot] # "no" /\ UNCHANGED spent
       \/ /\ spent.fails < MaxFails
          /\ spent' = [spent EXCEPT !.fails = @ + 1]
    /\ UNCHANGED up

StartLaunch(t) ==
    /\ At(t, "launch")
    /\ \/ LaunchContainer(t, "started")
       \/ LaunchFails(t) /\ After(t) /\ UNCHANGED lock
    /\ UNCHANGED <<run, box, broken, scored>>

\* The row is written with the generation that was read before the launch.
UpdateRuntimeState(s, st, gen) == box' = [box EXCEPT ![s] = [st |-> st, gen |-> gen]]

StartRecord(t) ==
    /\ At(t, "started")
    /\ UpdateRuntimeState(thr[t].slot, "running", thr[t].gen)
    /\ After(t)
    /\ UNCHANGED <<run, up, lock, broken, scored, spent>>

\* start_all_event_instances looks at the phase once, before its loop; each
\* start looks again and a failure only skips that target.
LoopStart(t) ==
    /\ At(t, "loop") /\ thr[t].loop = "start"
    /\ \/ \E b \in thr[t].todo :
            LET s == <<thr[t].slot[1], b>> IN
            thr' = [thr EXCEPT ![t] =
                [@ EXCEPT !.pc = IF run[s[1]] \in {"Break", "Fix"} THEN "find" ELSE "loop",
                          !.slot = s, !.todo = thr[t].todo \ {b}]]
       \/ thr[t].todo = {} /\ Done(t)
    /\ Rowless

----------------------------------------------------------------------------
(* Stop and reset hold the advisory lock of the instance *)

Acquire(t, s) == lock' = [lock EXCEPT ![s] = {t}]
Release(s) == lock' = [lock EXCEPT ![s] = {}]

\* remove_and_wait: every error is returned.  Docker may refuse, or lose the
\* answer of a removal; a container that is gone is removed with success by
\* docker and refused, again and again, by the helper in front of it.
Removed(s) == up' = [up EXCEPT ![s] = "no"] /\ UNCHANGED spent
RemoveFails(s) ==
    \/ up[s] = "no" /\ UNCHANGED <<up, spent>>
    \/ /\ spent.fails < MaxFails /\ spent' = [spent EXCEPT !.fails = @ + 1]
       /\ up' = up \/ up' = [up EXCEPT ![s] = "no"]

\* The state is read again under the lock; then the container is removed.
StopInstance(t, s) ==
    /\ run[s[1]] \in Active /\ box[s].st = "running" /\ lock[s] = {}
    /\ \/ /\ Removed(s) /\ Acquire(t, s)
          /\ thr' = [thr EXCEPT ![t] = [@ EXCEPT !.pc = "stopped", !.slot = s, !.gen = box[s].gen]]
       \/ RemoveFails(s) /\ UNCHANGED <<lock, thr>>
    /\ UNCHANGED <<run, box, broken, scored>>

StopRecord(t) ==
    /\ At(t, "stopped")
    /\ UpdateRuntimeState(thr[t].slot, "stopped", thr[t].gen)
    /\ Release(thr[t].slot) /\ After(t)
    /\ UNCHANGED <<run, up, broken, scored, spent>>

\* reset_instance_unchecked: pristine container, next generation.  Bound:
\* generations from MaxGen on are one.
NextGen(gen) == IF gen < MaxGen THEN gen + 1 ELSE gen
ResetRemove(t, s) ==
    /\ lock[s] = {}
    /\ \/ /\ Removed(s) /\ Acquire(t, s)
          /\ thr' = [thr EXCEPT ![t] = [@ EXCEPT !.pc = "relaunch", !.slot = s,
                                                 !.gen = NextGen(box[s].gen),
                                                 !.todo = thr[t].todo \ {s[2]}]]
       \/ RemoveFails(s) /\ Done(t) /\ UNCHANGED lock
    /\ UNCHANGED <<run, box, broken, scored>>

ResetLaunch(t) ==
    /\ At(t, "relaunch")
    /\ \/ LaunchContainer(t, "relaunched")
       \/ LaunchFails(t) /\ Release(thr[t].slot) /\ Done(t)
    /\ UNCHANGED <<run, box, broken, scored>>

ResetRecord(t) ==
    /\ At(t, "relaunched")
    /\ UpdateRuntimeState(thr[t].slot, "running", thr[t].gen)
    /\ Release(thr[t].slot) /\ Go(t, "loop")
    /\ UNCHANGED <<run, up, broken, scored, spent>>

----------------------------------------------------------------------------
(* Break -> PreparingFix -> Fix -> Ended *)

BreakToPreparingFix(r) ==
    /\ TransitionPhase(r, "Break", "PreparingFix")
    /\ UNCHANGED <<box, up, lock, broken, scored, thr, spent>>

\* Mutant: only instances recorded as running are reset.
ToResetRunning(r) == {b \in Boxes : box[<<r, b>>].st = "running"}

\* The rows to reset are listed once; a row that was never started is skipped.
ToReset(r) == {b \in Boxes : box[<<r, b>>].st # "none"}

ReconcilePreparingFix(t, r) ==
    /\ At(t, "idle") /\ run[r] = "PreparingFix"
    /\ thr' = [thr EXCEPT ![t] = Loop("reset", r, ToReset(r))]
    /\ Rowless

LoopReset(t) ==
    /\ At(t, "loop") /\ thr[t].loop = "reset"
    /\ \E b \in thr[t].todo : ResetRemove(t, <<thr[t].slot[1], b>>)

\* The lock is polled for 90 s; then the reset fails and the run stays.
LockTimeout(t) ==
    /\ At(t, "loop") /\ thr[t].loop = "reset" /\ spent.fails < MaxFails
    /\ \E b \in thr[t].todo : lock[<<thr[t].slot[1], b>>] # {}
    /\ spent' = [spent EXCEPT !.fails = @ + 1]
    /\ Done(t)
    /\ UNCHANGED <<run, box, up, lock, broken, scored>>

\* Every reset succeeded: compare-and-set to Fix (the rounds follow, AwdpFix).
EnterFix(t) ==
    /\ At(t, "loop") /\ thr[t].loop = "reset" /\ thr[t].todo = {}
    /\ LET r == thr[t].slot[1] IN
         \/ TransitionPhase(r, "PreparingFix", "Fix")
         \/ run[r] # "PreparingFix" /\ run' = run
    /\ Done(t)
    /\ UNCHANGED <<box, up, lock, broken, scored, spent>>

\* Finish by an administrator, then every running instance is stopped; one
\* that cannot be is left as it is and the next follows.
FinishEvent(t, r) ==
    /\ At(t, "idle") /\ TransitionPhase(r, "Fix", "Ended")
    /\ thr' = [thr EXCEPT ![t] = Loop("stop", r, ToReset(r))]
    /\ UNCHANGED <<box, up, lock, broken, scored, spent>>

StopAllRunInstances(t) ==
    /\ At(t, "loop") /\ thr[t].loop = "stop"
    /\ \/ \E b \in thr[t].todo :
            LET s == <<thr[t].slot[1], b>> IN
            \/ /\ box[s].st = "running" /\ lock[s] = {} /\ Removed(s) /\ Acquire(t, s)
               /\ thr' = [thr EXCEPT ![t] = [@ EXCEPT !.pc = "stopped", !.slot = s,
                                                      !.gen = box[s].gen, !.todo = thr[t].todo \ {b}]]
            \/ /\ lock[s] = {}
               /\ \/ box[s].st = "running" /\ RemoveFails(s)
                  \/ box[s].st # "running" /\ UNCHANGED <<up, spent>>
               /\ thr' = [thr EXCEPT ![t].todo = @ \ {b}]
               /\ UNCHANGED lock
       \/ thr[t].todo = {} /\ Done(t) /\ UNCHANGED <<up, lock, spent>>
    /\ UNCHANGED <<run, box, broken, scored>>

----------------------------------------------------------------------------
(* Break flags: the phase, then the break row, then the score event *)

SubmitFlag(t, s) ==
    /\ At(t, "idle") /\ run[s[1]] = "Break"
    /\ thr' = [thr EXCEPT ![t] = [Idle EXCEPT !.pc = "flag", !.slot = s]]
    /\ Rowless

\* Only the first insert is scored.
RecordBreak(t) ==
    /\ At(t, "flag")
    /\ IF thr[t].slot \in broken THEN Done(t) ELSE Go(t, "score")
    /\ broken' = broken \cup {thr[t].slot}
    /\ UNCHANGED <<run, box, up, lock, scored, spent>>

ScoreBreak(t) ==
    /\ At(t, "score")
    /\ scored' = scored \cup {thr[t].slot}
    /\ Done(t)
    /\ UNCHANGED <<run, box, up, lock, broken, spent>>

\* The process dies: requests are lost, session locks dropped, rows stay.
Crash ==
    /\ spent.crashes < MaxCrashes
    /\ spent' = [spent EXCEPT !.crashes = @ + 1]
    /\ thr' = [t \in Threads |-> Idle]
    /\ lock' = [s \in Slots |-> {}]
    /\ UNCHANGED <<run, box, up, broken, scored>>

----------------------------------------------------------------------------
Begin(t) ==
    /\ At(t, "idle")
    /\ \/ TickCreate(t) \/ AdminStart(t)
       \/ \E r \in Runs : TickBegin(t, r) \/ ReconcilePreparingFix(t, r) \/ FinishEvent(t, r)
       \/ \E s \in Slots : StartInstance(t, s) \/ StopInstance(t, s) \/ SubmitFlag(t, s)

Continue(t) ==
    \/ InsertRun(t) \/ BeginBreak(t)
    \/ FindInstance(t) \/ CreateInstance(t) \/ StartLaunch(t) \/ StartRecord(t)
    \/ LoopStart(t) \/ StopRecord(t) \/ StopAllRunInstances(t)
    \/ LoopReset(t) \/ LockTimeout(t) \/ ResetLaunch(t) \/ ResetRecord(t) \/ EnterFix(t)
    \/ RecordBreak(t) \/ ScoreBreak(t)

Next ==
    \/ \E t \in Threads : Begin(t) \/ Continue(t)
    \/ \E r \in Runs : BreakToPreparingFix(r)
    \/ Crash

\* The executor goes on with every thread, and the tick returns to a run that
\* is in PreparingFix (next_action_at is set to now, or to 15 s later).
Fairness ==
    /\ \A t \in Threads : WF_vars(Continue(t))
    /\ \A r \in Runs : WF_vars(\E t \in Threads : ReconcilePreparingFix(t, r))

Spec == Init /\ [][Next]_vars /\ Fairness

----------------------------------------------------------------------------
TypeOK ==
    /\ run \in [Runs -> Phases]
    /\ \A s \in Slots : box[s].st \in {"none", "starting", "running", "stopped"}
                        /\ box[s].gen \in 0..MaxGen /\ up[s] \in Phases \cup {"no"}
    /\ broken \subseteq Slots /\ scored \subseteq Slots

(* When a run enters Fix, no container that was created in its Break phase *)
(* (and that players may have changed) is left: every instance was reset,  *)
(* also when a start without the lock raced the resets.  An action formula.*)
EntersPristine ==
    \A r \in Runs : run[r] = "PreparingFix" /\ run'[r] = "Fix" =>
        \A b \in Boxes : up[<<r, b>>] # "Break"

(* A break that is on record is scored, is about to be scored by the       *)
(* request that recorded it, or the process crashed between the two        *)
(* commits (the repeated submission is then told already_broken).          *)
BreakIsScored ==
    \A s \in broken : \/ s \in scored
                      \/ \E t \in Threads : At(t, "score") /\ thr[t].slot = s
                      \/ spent.crashes > 0

(* A run that is in PreparingFix reaches Fix: failed resets, a start in    *)
(* flight that takes the container name, crashes and lock timeouts only    *)
(* delay it.  What can hold it there for ever is an instance that has lost *)
(* its container (its player stopped it, its start failed): the helper     *)
(* refuses the removal that every reset begins with.                       *)
Preparing(r) == run[r] = "PreparingFix"
InFix(r) == run[r] = "Fix"
Lost(r) ==
    \E b \in Boxes : /\ box[<<r, b>>].st # "none" /\ up[<<r, b>>] = "no"
                     /\ ~\E t \in Threads : At(t, "relaunch") /\ thr[t].slot = <<r, b>>
----------------------------------------------------------------------------
(* What every step keeps (the inductive invariant of AwdpProofs) *)

RuntimeStates == {"none", "starting", "running", "stopped"}
Pcs == {"idle", "insert", "tickInsert", "begin", "find", "create", "launch", "started", "loop",
        "stopped", "relaunch", "relaunched", "flag", "score"}

Types ==
    /\ run \in [Runs -> Phases]
    /\ box \in [Slots -> [st : RuntimeStates, gen : 0..MaxGen]]
    /\ up \in [Slots -> Phases \cup {"no"}]
    /\ broken \subseteq Slots /\ scored \subseteq Slots
    /\ thr \in [Threads -> [pc : Pcs, slot : Slots, gen : 0..MaxGen,
                            loop : {"no", "start", "reset", "stop"}, todo : SUBSET Boxes]]
    /\ spent \in [crashes : Nat, fails : Nat]

\* A thread that is idle has nothing in hand.
IdleIsIdle == \A t \in Threads : At(t, "idle") => thr[t] = Idle

\* A container, and a thread that is about to launch or record one, has its row.
HasRow == {"launch", "started", "stopped", "relaunch", "relaunched"}
RowsExist ==
    /\ \A s \in Slots : up[s] # "no" => box[s].st # "none"
    /\ \A t \in Threads : thr[t].pc \in HasRow => box[thr[t].slot].st # "none"

\* The resets of a run begin when its Break phase is over, and leave no
\* container of that phase where they have been.
ResetsLeaveNone ==
    \A t \in Threads : thr[t].loop = "reset" =>
        LET r == thr[t].slot[1] IN
        /\ run[r] \in {"PreparingFix", "Fix", "Ended"}
        /\ \A b \in thr[t].todo : box[<<r, b>>].st # "none"
        /\ \A b \in Boxes \ thr[t].todo : up[<<r, b>>] # "Break"

Inductive == Types /\ IdleIsIdle /\ RowsExist /\ ResetsLeaveNone /\ BreakIsScored
=============================================================================

---------------------------- MODULE AwdpPractice ----------------------------
(***************************************************************************)
(* AWDP practice: the runs one player has on one game box.  The player     *)
(* starts, launches, ends and restarts a run and moves it between Break    *)
(* and Fix by hand, while the tick moves it on by the clock; ALL Check     *)
(* scores the remaining rounds and ends the run.  Requests and the tick    *)
(* are threads that interleave at their transactions.                      *)
(***************************************************************************)
EXTENDS Naturals, FiniteSets

CONSTANTS Runs,        \* rows of awdp_runs, numbered in order of creation
          Threads,     \* requests of the player and the tick
          Rounds,      \* sequence numbers of the fix rounds
          Settings     \* bounds of a behaviour: rows, entries into Fix per row, failed resets

VARIABLES conf,    \* the bounds in force, chosen once
          run,     \* phase of each row
          session, \* fix_started_at: the n-th entry into Fix, set or NULL
          round,   \* the session a round's times were computed from, 0: no row
          score,   \* fix score events; a round's events go with its row
          inst,    \* event_instances row of the run: none, running or stopped
          held,    \* thread with the advisory lock of the instance
          thr,     \* local state of each thread
          fails    \* failed resets so far

vars == <<conf, run, session, round, score, inst, held, thr, fails>>

Phases == {"none", "Pending", "Break", "PreparingFix", "Fix", "Ended"}
Open == {"Pending", "Break", "Fix"}   \* predicate of awdp_runs_event_active_uidx
Idle == [pc |-> "idle", run |-> 1, sess |-> 0, todo |-> {}]
Rows == {r \in Runs : run[r] # "none"}

Init ==
    /\ conf \in Settings
    /\ run = [r \in Runs |-> "none"] /\ session = [r \in Runs |-> [n |-> 0, set |-> FALSE]]
    /\ round = [r \in Runs |-> [q \in Rounds |-> 0]]
    /\ score = {}
    /\ inst = [r \in Runs |-> "none"] /\ held = [r \in Runs |-> {}]
    /\ thr = [t \in Threads |-> Idle]
    /\ fails = 0

At(t, pc) == thr[t].pc = pc
Step(t, pc) == thr' = [thr EXCEPT ![t].pc = pc]
Begin(t, pc, r) == At(t, "idle") /\ thr' = [thr EXCEPT ![t] = [Idle EXCEPT !.pc = pc, !.run = r]]
Done(t) == thr' = [thr EXCEPT ![t] = Idle]
My(t) == thr[t].run
\* The phase of the run as the statement of another thread finds it.
Phase(t) == run[My(t)]

\* Mutant: the predicate of the index forgets Fix.
UniqueBeforeFix(r) == \A q \in Runs \ {r} : run[q] \notin {"Pending", "Break"}

\* At most one row per event, game box and user may be open.
UniqueOpen(r) == \A q \in Runs \ {r} : run[q] \notin Open

----------------------------------------------------------------------------
(* start_training and train_again *)

\* An open run is returned as it is; one in PreparingFix is not seen.
StartTraining(t) ==
    /\ Cardinality(Rows) < conf.runs /\ \A r \in Rows : run[r] \notin Open
    /\ Begin(t, "insert", 1)
    /\ UNCHANGED <<conf, run, session, round, score, inst, held, fails>>

\* Only a run that ended is trained again; then as start_training.
TrainAgain(t, old) == run[old] = "Ended" /\ StartTraining(t)

\* A violation of the unique index is answered with a conflict.
CreatePracticeRun(t) ==
    /\ At(t, "insert") /\ Cardinality(Rows) < conf.runs
    /\ \E r \in Runs \ Rows :
         /\ \A q \in Runs \ Rows : r <= q
         /\ run' = [run EXCEPT ![r] = IF UniqueOpen(r) THEN "Pending" ELSE "none"]
    /\ Done(t)
    /\ UNCHANGED <<conf, session, round, score, inst, held, fails>>

\* No row is left in this bounded model: the insert is dropped.
CreateOutOfBound(t) ==
    /\ At(t, "insert") /\ Cardinality(Rows) = conf.runs /\ Done(t)
    /\ UNCHANGED <<conf, run, session, round, score, inst, held, fails>>

----------------------------------------------------------------------------
(* start, stop, reset and end of a run *)

\* start_run: a pending run is launched, then the instance is started.
StartRun(t, r) ==
    /\ run[r] \notin {"none", "Ended"}
    /\ Begin(t, IF run[r] = "Pending" THEN "launch" ELSE "start", r)
    /\ UNCHANGED <<conf, run, session, round, score, inst, held, fails>>

\* Pending -> Break on the locked row; any other phase counts as launched.
LaunchPracticeRun(t) ==
    /\ At(t, "launch")
    /\ run' = [run EXCEPT ![My(t)] = IF @ = "Pending" THEN "Break" ELSE @]
    /\ Step(t, "start")
    /\ UNCHANGED <<conf, session, round, score, inst, held, fails>>

\* start_instance accepts Break and Fix and takes no lock.
StartInstance(t) ==
    /\ At(t, "start")
    /\ inst' = [inst EXCEPT ![My(t)] = IF Phase(t) \in {"Break", "Fix"} THEN "running" ELSE @]
    /\ Done(t)
    /\ UNCHANGED <<conf, run, session, round, score, held, fails>>

Acquire(t, r) == held[r] = {} /\ held' = [held EXCEPT ![r] = {t}]
Release(t) == held' = [held EXCEPT ![My(t)] = {}]

\* stop_run and stop_my_instance: under the lock, whatever the phase.
StopRun(t, r) ==
    /\ At(t, "idle") /\ held[r] = {} /\ inst[r] = "running"
    /\ inst' = [inst EXCEPT ![r] = "stopped"]
    /\ UNCHANGED <<conf, run, session, round, score, held, thr, fails>>

\* reset_run and reset_my_instance: a practice run may always be reset, also
\* one that ended or whose instance was stopped.
ResetRun(t, r) ==
    /\ At(t, "idle") /\ held[r] = {} /\ inst[r] # "none"
    /\ inst' = [inst EXCEPT ![r] = "running"]
    /\ UNCHANGED <<conf, run, session, round, score, held, thr, fails>>

\* end_run looks at the phase, stops the instance, then ends the run.
EndRun(t, r) ==
    /\ run[r] \notin {"none", "Pending", "Ended"}
    /\ held[r] = {} /\ inst' = [inst EXCEPT ![r] = IF @ = "running" THEN "stopped" ELSE @]
    /\ Begin(t, "end", r)
    /\ UNCHANGED <<conf, run, session, round, score, held, fails>>

\* Any phase but Ended goes to Ended, under the lock of the row.
EndPracticeSession(t, pc) ==
    /\ At(t, pc)
    /\ run' = [run EXCEPT ![My(t)] = "Ended"]
    /\ UNCHANGED <<conf, session, round, score, inst, fails>>

EndRunCommit(t) == EndPracticeSession(t, "end") /\ Done(t) /\ UNCHANGED held

----------------------------------------------------------------------------
(* Break -> PreparingFix -> Fix, by hand or by the tick *)

\* set_phase "fix", or the tick when Break is over.
BreakToPreparingFix(t, r) ==
    /\ run[r] = "Break" /\ run' = [run EXCEPT ![r] = "PreparingFix"]
    /\ At(t, "idle")
    /\ \/ Begin(t, "reconcile", r)   \* set_phase goes on in the same request
       \/ thr' = thr                 \* the tick leaves it to the next one
    /\ UNCHANGED <<conf, session, round, score, inst, held, fails>>

TickReconcile(t, r) ==
    /\ run[r] = "PreparingFix" /\ Begin(t, "reconcile", r)
    /\ UNCHANGED <<conf, run, session, round, score, inst, held, fails>>

\* Reset of the instance, if it was ever started; a failure leaves the run.
ReconcilePreparingFix(t) ==
    /\ At(t, "reconcile")
    /\ \/ Phase(t) # "PreparingFix" /\ Done(t) /\ UNCHANGED <<inst, fails>>
       \/ /\ Phase(t) = "PreparingFix" /\ held[My(t)] = {}
          /\ inst' = [inst EXCEPT ![My(t)] = IF @ = "none" THEN "none" ELSE "running"]
          /\ Step(t, "enterFix") /\ UNCHANGED fails
       \/ /\ Phase(t) = "PreparingFix" /\ inst[My(t)] # "none" /\ fails < conf.fails
          /\ fails' = fails + 1 /\ Done(t) /\ UNCHANGED inst
    /\ UNCHANGED <<conf, run, session, round, score, held>>

\* Compare-and-set; the unique index refuses a second open run of the player.
EnterFix(t) ==
    /\ At(t, "enterFix")
    /\ LET ok == Phase(t) = "PreparingFix" /\ UniqueOpen(My(t)) IN
         /\ run' = [run EXCEPT ![My(t)] = IF ok THEN "Fix" ELSE @]
         /\ session' = [session EXCEPT ![My(t)] = IF ok THEN [n |-> @.n + 1, set |-> TRUE] ELSE @]
         /\ IF ok THEN Step(t, "rounds") ELSE Done(t)
    /\ UNCHANGED <<conf, round, score, inst, held, fails>>

\* The tick repairs a run in Fix that has no rounds.
TickRounds(t, r) ==
    /\ run[r] = "Fix" /\ \A q \in Rounds : round[r][q] = 0
    /\ Begin(t, "rounds", r)
    /\ UNCHANGED <<conf, run, session, round, score, inst, held, fails>>

\* materialize_rounds reads fix_started_at once (NULL is an error) ...
ReadWindows(t) ==
    /\ At(t, "rounds")
    /\ IF session[My(t)].set
       THEN thr' = [thr EXCEPT ![t] = [@ EXCEPT !.pc = "window", !.sess = session[My(t)].n, !.todo = Rounds]]
       ELSE Done(t)
    /\ UNCHANGED <<conf, run, session, round, score, inst, held, fails>>

\* ... and inserts round after round, leaving the ones that exist.
InsertRound(t) ==
    /\ At(t, "window")
    /\ \/ \E q \in thr[t].todo :
            /\ \A p \in thr[t].todo : q <= p
            /\ round' = [round EXCEPT ![My(t)][q] = IF @ = 0 THEN thr[t].sess ELSE @]
            /\ thr' = [thr EXCEPT ![t].todo = @ \ {q}]
       \/ thr[t].todo = {} /\ Done(t) /\ round' = round
    /\ UNCHANGED <<conf, run, session, score, inst, held, fails>>

\* Mutant: the phase is not checked under the lock.
RewindAny(r) ==
    /\ run[r] \in {"Fix", "Ended"} /\ session[r].n < conf.sessions
    /\ run' = [run EXCEPT ![r] = "Break"]
    /\ session' = [session EXCEPT ![r].set = FALSE]
    /\ round' = [round EXCEPT ![r] = [q \in Rounds |-> 0]]
    /\ score' = {s \in score : s[1] # r}
    /\ UNCHANGED <<conf, inst, held, thr, fails>>

\* set_phase "break": on the locked row; the rounds go, and with them their
\* evaluations and score events.
TransitionFixToBreak(r) ==
    /\ run[r] = "Fix" /\ session[r].n < conf.sessions
    /\ run' = [run EXCEPT ![r] = "Break"]
    /\ session' = [session EXCEPT ![r].set = FALSE]
    /\ round' = [round EXCEPT ![r] = [q \in Rounds |-> 0]]
    /\ score' = {s \in score : s[1] # r}
    /\ UNCHANGED <<conf, inst, held, thr, fails>>

\* The tick after the cutoff of the last round.
TickEnd(r) ==
    /\ run[r] = "Fix" /\ \A q \in Rounds : round[r][q] # 0
    /\ run' = [run EXCEPT ![r] = "Ended"]
    /\ UNCHANGED <<conf, session, round, score, inst, held, thr, fails>>

----------------------------------------------------------------------------
(* ALL Check and the evaluation of a round *)

\* The phase is read before the lock is waited for; the check itself runs
\* under the lock and finds the box patched or not.
AllCheck(t, r) ==
    /\ run[r] = "Fix" /\ inst[r] # "none" /\ Begin(t, "allLock", r)
    /\ UNCHANGED <<conf, run, session, round, score, inst, held, fails>>

AllCheckRun(t) ==
    /\ At(t, "allLock") /\ Acquire(t, My(t))
    /\ IF \E q \in Rounds : round[My(t)][q] # 0
       THEN thr' = [thr EXCEPT ![t] = [@ EXCEPT !.pc = "sweep", !.todo = Rounds]]
       ELSE Step(t, "allOver")
    /\ UNCHANGED <<conf, run, session, round, score, inst, fails>>

\* The service is not patched, or there is no round to check.
AllCheckOver(t) ==
    /\ At(t, "allOver") \/ (At(t, "sweep") /\ thr[t].todo = Rounds)
    /\ Release(t) /\ Done(t)
    /\ UNCHANGED <<conf, run, session, round, score, inst, fails>>

\* Each round is looked up by its number when its turn comes.
AllCheckRound(t) ==
    /\ At(t, "sweep")
    /\ \E q \in thr[t].todo :
         /\ \A p \in thr[t].todo : q <= p
         /\ score' = IF round[My(t)][q] # 0 THEN score \cup {<<My(t), q>>} ELSE score
         /\ thr' = [thr EXCEPT ![t].todo = @ \ {q}]
    /\ UNCHANGED <<conf, run, session, round, inst, held, fails>>

AllCheckEnd(t) ==
    /\ thr[t].todo = {} /\ EndPracticeSession(t, "sweep")
    /\ Release(t) /\ Step(t, "allStop")

\* stop_all_run_instances after the lock was released.
AllCheckStop(t) ==
    /\ At(t, "allStop") /\ held[My(t)] = {}
    /\ inst' = [inst EXCEPT ![My(t)] = IF @ = "running" THEN "stopped" ELSE @]
    /\ Done(t)
    /\ UNCHANGED <<conf, run, session, round, score, held, fails>>

\* An official evaluation of a round is rewarded while its row exists.
RewardRound(r, q) ==
    /\ run[r] \in {"Fix", "Ended"} /\ round[r][q] # 0
    /\ score' = score \cup {<<r, q>>}
    /\ UNCHANGED <<conf, run, session, round, inst, held, thr, fails>>

----------------------------------------------------------------------------
Request(t) ==
    \/ StartTraining(t)
    \/ \E r \in Runs : \/ TrainAgain(t, r) \/ StartRun(t, r) \/ StopRun(t, r) \/ ResetRun(t, r)
                       \/ EndRun(t, r) \/ BreakToPreparingFix(t, r) \/ TickReconcile(t, r)
                       \/ TickRounds(t, r) \/ AllCheck(t, r)

Continue(t) ==
    \/ CreatePracticeRun(t) \/ CreateOutOfBound(t) \/ LaunchPracticeRun(t) \/ StartInstance(t)
    \/ EndRunCommit(t) \/ ReconcilePreparingFix(t) \/ EnterFix(t)
    \/ ReadWindows(t) \/ InsertRound(t)
    \/ AllCheckRun(t) \/ AllCheckOver(t) \/ AllCheckRound(t) \/ AllCheckEnd(t) \/ AllCheckStop(t)

Next ==
    \/ \E t \in Threads : Request(t) \/ Continue(t)
    \/ \E r \in Runs : TransitionFixToBreak(r) \/ TickEnd(r) \/ \E q \in Rounds : RewardRound(r, q)

\* Threads go on, and the tick comes back to a run in PreparingFix.
Fairness ==
    /\ \A t \in Threads : WF_vars(Continue(t))
    /\ \A r \in Runs : SF_vars(\E t \in Threads : TickReconcile(t, r))

Spec == Init /\ [][Next]_vars /\ Fairness

----------------------------------------------------------------------------
TypeOK ==
    /\ run \in [Runs -> Phases] /\ \A r \in Runs : session[r].n \in 0..conf.sessions
    /\ round \in [Runs -> [Rounds -> 0..conf.sessions]]
    /\ score \subseteq Runs \X Rounds
    /\ inst \in [Runs -> {"none", "running", "stopped"}]
    /\ \A r \in Runs : Cardinality(held[r]) <= 1 /\ held[r] \subseteq Threads

(* A player has at most one open run on a game box, however many starts    *)
(* race and although a run in PreparingFix, which is not seen by           *)
(* start_training, comes back as Fix later.                                *)
OneOpenRun == Cardinality({r \in Runs : run[r] \in Open}) <= 1

(* A run that ended keeps its history: it never leaves Ended, and its fix  *)
(* scores are never taken away, although set_phase and ALL Check decide on *)
(* a phase they read before.  An action formula.                           *)
KeepsHistory ==
    \A r \in Runs : run[r] = "Ended" =>
        run'[r] = "Ended" /\ {s \in score : s[1] = r} \subseteq score'

(* A rewind to Break takes the fix scores of the session with it.  The one *)
(* exception is short: an ALL Check that was under way may score a round   *)
(* that was inserted late, and then ends the run itself.                   *)
BreakHasNoFixScore ==
    \A s \in score : \/ run[s[1]] \notin {"none", "Pending", "Break"}
                     \/ \E t \in Threads : At(t, "sweep") /\ My(t) = s[1]

(* Every run in PreparingFix leaves it (its rows and sessions are bounded, *)
(* so again and again none is left there), unless the player opened        *)
(* another run meanwhile: the unique index then refuses Fix for as long as *)
(* that run is open.                                                       *)
NoneHeldBack == \A r \in Runs : run[r] = "PreparingFix" => ~UniqueOpen(r)
----------------------------------------------------------------------------
(* What every step keeps (the inductive invariant of AwdpProofs) *)

Pcs == {"idle", "insert", "launch", "start", "end", "reconcile", "enterFix", "rounds", "window",
        "allLock", "sweep", "allOver", "allStop"}

Types ==
    /\ conf.sessions \in Nat \ {0}
    /\ run \in [Runs -> Phases]
    /\ session \in [Runs -> [n : 0..conf.sessions, set : BOOLEAN]]
    /\ round \in [Runs -> [Rounds -> 0..conf.sessions]]
    /\ score \subseteq Runs \X Rounds
    /\ inst \in [Runs -> {"none", "running", "stopped"}]
    /\ held \in [Runs -> {{}} \cup {{t} : t \in Threads}]
    /\ thr \in [Threads -> [pc : Pcs, run : Runs, sess : 0..conf.sessions, todo : SUBSET Rounds]]

\* A run that may still enter Fix has a session left.
SessionsLeft ==
    \A r \in Runs : run[r] \in {"none", "Pending", "Break", "PreparingFix"} =>
                       session[r].n < conf.sessions

\* The unique index, row by row.
OpenIsUnique == \A q, r \in Runs : run[q] \in Open /\ run[r] \in Open => q = r

\* A score that Break should not have comes from an ALL Check that has gone
\* through a round and will end the run.
SweepOwnsScore ==
    \A s \in score : \/ run[s[1]] \notin {"none", "Pending", "Break"}
                     \/ \E t \in Threads : At(t, "sweep") /\ My(t) = s[1] /\ thr[t].todo # Rounds

Inductive == Types /\ SessionsLeft /\ OpenIsUnique /\ SweepOwnsScore
=============================================================================

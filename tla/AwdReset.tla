------------------------------ MODULE AwdReset ------------------------------
(***************************************************************************)
(* Resets of one AWD game box: the eligibility check, the free resets of   *)
(* the team, the reset record, the docker rebuild, the penalty, and the    *)
(* recovery of a reset that a request finds under way.  Nothing locks the  *)
(* instance: requests interleave at every statement, and a crash leaves    *)
(* the rows and the container as they are.                                 *)
(***************************************************************************)
EXTENDS Naturals, FiniteSets

CONSTANTS Threads,   \* requests in progress
          Records,   \* ids of awd_reset_records, in order of creation
          Free,      \* free_reset_count of the event
          Settings   \* bounds: threads and records in use, crashes, docker failures, pauses

VARIABLES conf,     \* the setting in force, chosen once
          event,    \* "attack", or "closed": paused, settled, finished or the team is banned
          status,   \* status of the instance row
          gen,      \* runtime_generation of the root row
          con,      \* generation of the container that exists, 0: none
          rec,      \* reset records: status, free, by whom
          rebuilt,  \* records whose container was created
          penalty,  \* records with a reset_penalty score event
          thr,      \* local state of each thread
          spent     \* crashes, docker failures and pauses so far

vars == <<conf, event, status, gen, con, rec, rebuilt, penalty, thr, spent>>

NoRec == [st |-> "none", free |-> FALSE, by |-> "none"]
Idle == [pc |-> "idle", by |-> "none", id |-> 0, free |-> FALSE, gen |-> 0]
Rows == {i \in Records : rec[i].st # "none"}
Pending == {i \in Records : rec[i].st = "pending"}

Init ==
    /\ conf \in Settings
    /\ event = "attack" /\ status = "Ready" /\ gen = 1 /\ con = 1
    /\ rec = [i \in Records |-> NoRec]
    /\ rebuilt = {} /\ penalty = {}
    /\ thr = [t \in Threads |-> Idle]
    /\ spent = [crashes |-> 0, fails |-> 0, moves |-> 0]

At(t, pc) == thr[t].pc = pc
Step(t, pc) == thr' = [thr EXCEPT ![t].pc = pc]
Done(t) == thr' = [thr EXCEPT ![t] = Idle]
Count(k) == spent' = [spent EXCEPT ![k] = @ + 1]
\* Bound: a record is left for every thread that may still insert one.
RecordsLeft == Cardinality({t \in Threads : thr[t].pc \in {"check", "record", "recover"}})
                 < Cardinality((1..conf.records) \ Rows)

\* Running, in Hardening or Attack, not between the last round and the end,
\* and no active ban of the team.
CheckResetEligibility == event = "attack"

PlayerReset(t) ==
    /\ At(t, "idle") /\ RecordsLeft
    /\ thr' = [thr EXCEPT ![t] = [Idle EXCEPT !.pc = "check", !.by = "player"]]
    /\ UNCHANGED <<conf, event, status, gen, con, rec, rebuilt, penalty, spent>>

\* By an administrator, with charge_team = false.
AdminReset(t) ==
    /\ At(t, "idle") /\ RecordsLeft
    /\ thr' = [thr EXCEPT ![t] = [Idle EXCEPT !.pc = "check", !.by = "admin"]]
    /\ UNCHANGED <<conf, event, status, gen, con, rec, rebuilt, penalty, spent>>

\* Every record of the team counts, whoever asked for it and however it ended.
TeamResetCount == Cardinality(Rows)

IsFree(by) == by # "player" \/ TeamResetCount < Free

\* execute_reset reads the event, the instance and the resets so far.
ExecuteReset(t) ==
    /\ At(t, "check")
    /\ IF ~CheckResetEligibility THEN Done(t)
       ELSE thr' = [thr EXCEPT ![t] = [@ EXCEPT !.gen = gen + 1, !.free = IsFree(thr[t].by),
                                       !.pc = IF status = "Resetting" THEN "recover" ELSE "record"]]
    /\ UNCHANGED <<conf, event, status, gen, con, rec, rebuilt, penalty, spent>>

InsertRecord(t) ==
    /\ At(t, "record")
    /\ \E i \in Records \ Rows :
         /\ \A j \in Records \ Rows : i <= j
         /\ rec' = [rec EXCEPT ![i] = [st |-> "pending", free |-> thr[t].free, by |-> thr[t].by]]
         /\ thr' = [thr EXCEPT ![t] = [@ EXCEPT !.pc = "mark", !.id = i]]
    /\ UNCHANGED <<conf, event, status, gen, con, rebuilt, penalty, spent>>

MarkResetting(t) ==
    /\ At(t, "mark") /\ status' = "Resetting" /\ Step(t, "remove")
    /\ UNCHANGED <<conf, event, gen, con, rec, rebuilt, penalty, spent>>

\* Mutants: a recovery never charges; it waits for a pending record.
RecoverFree(t) ==
    /\ At(t, "recover")
    /\ \/ \E i \in Pending :
            /\ \A j \in Pending : j <= i
            /\ thr' = [thr EXCEPT ![t] = [@ EXCEPT !.pc = "remove", !.id = i, !.free = TRUE]]
       \/ /\ Pending = {}
          /\ thr' = [thr EXCEPT ![t] = [@ EXCEPT !.pc = "check", !.by = "system"]]
    /\ UNCHANGED <<conf, event, status, gen, con, rec, rebuilt, penalty, spent>>
RecoverWaits(t) ==
    /\ At(t, "recover")
    /\ \E i \in Pending :
            /\ \A j \in Pending : j <= i
            /\ thr' = [thr EXCEPT ![t] = [@ EXCEPT !.pc = "remove", !.id = i, !.free = rec[i].free]]
    /\ UNCHANGED <<conf, event, status, gen, con, rec, rebuilt, penalty, spent>>

\* The instance is Resetting already: the newest pending record is done
\* again; without one the whole request starts over, on behalf of the system.
RecoverInFlightReset(t) ==
    /\ At(t, "recover")
    /\ \/ \E i \in Pending :
            /\ \A j \in Pending : j <= i
            /\ thr' = [thr EXCEPT ![t] = [@ EXCEPT !.pc = "remove", !.id = i, !.free = rec[i].free]]
       \/ /\ Pending = {}
          /\ thr' = [thr EXCEPT ![t] = [@ EXCEPT !.pc = "check", !.by = "system"]]
    /\ UNCHANGED <<conf, event, status, gen, con, rec, rebuilt, penalty, spent>>

----------------------------------------------------------------------------
(* do_docker_reset *)

\* reset_gamebox: stop and remove by name.  A missing container is fine for
\* docker, while the helper refuses it; any other error leaves the container ...
RemoveContainer(t) ==
    /\ At(t, "remove")
    /\ \/ con' = 0 /\ Step(t, "create") /\ UNCHANGED spent
       \/ con = 0 /\ Step(t, "fail") /\ UNCHANGED <<con, spent>>
       \/ spent.fails < conf.fails /\ Count("fails") /\ Step(t, "fail") /\ UNCHANGED con
    /\ UNCHANGED <<conf, event, status, gen, rec, rebuilt, penalty>>

\* ... then create and start; the name may be taken again by then, and a
\* container that does not start stays.
CreateContainer(t) ==
    /\ At(t, "create")
    /\ \/ /\ con = 0 /\ con' = thr[t].gen /\ rebuilt' = rebuilt \cup {thr[t].id}
          /\ Step(t, "ready") /\ UNCHANGED spent
       \/ con # 0 /\ Step(t, "fail") /\ UNCHANGED <<con, rebuilt, spent>>
       \/ /\ con = 0 /\ con' \in {0, thr[t].gen} /\ spent.fails < conf.fails /\ Count("fails")
          /\ Step(t, "fail") /\ UNCHANGED rebuilt
    /\ UNCHANGED <<conf, event, status, gen, rec, penalty>>

\* The instance row, then the root row with container id and generation.
RecordReady(t) ==
    /\ At(t, "ready") /\ status' = "Ready" /\ gen' = thr[t].gen /\ Step(t, "penalty")
    /\ UNCHANGED <<conf, event, con, rec, rebuilt, penalty, spent>>

\* The score event has the idempotency key reset:{reset_id}: whoever comes
\* second with it is answered with the error, its record stays as it is.
ResetPenalty(t) ==
    /\ At(t, "penalty")
    /\ \/ /\ thr[t].free \/ thr[t].id \notin penalty
          /\ penalty' = IF thr[t].free THEN penalty ELSE penalty \cup {thr[t].id}
          /\ Step(t, "complete")
       \/ ~thr[t].free /\ thr[t].id \in penalty /\ Done(t) /\ UNCHANGED penalty
    /\ UNCHANGED <<conf, event, status, gen, con, rec, rebuilt, spent>>

CompleteRecord(t) ==
    /\ At(t, "complete") /\ Done(t)
    /\ rec' = [rec EXCEPT ![thr[t].id].st = "completed"]
    /\ UNCHANGED <<conf, event, status, gen, con, rebuilt, penalty, spent>>

MarkResetFailed(t) ==
    /\ At(t, "fail") /\ status' = "ResetFailed" /\ Step(t, "failRecord")
    /\ UNCHANGED <<conf, event, gen, con, rec, rebuilt, penalty, spent>>

FailRecord(t) ==
    /\ At(t, "failRecord") /\ Done(t)
    /\ rec' = [rec EXCEPT ![thr[t].id].st = "failed"]
    /\ UNCHANGED <<conf, event, status, gen, con, rebuilt, penalty, spent>>

----------------------------------------------------------------------------
\* Pause, resume, ban, finish.
EventMoves ==
    /\ spent.moves < conf.moves /\ Count("moves")
    /\ event' = IF event = "attack" THEN "closed" ELSE "attack"
    /\ UNCHANGED <<conf, status, gen, con, rec, rebuilt, penalty, thr>>

Crash ==
    /\ spent.crashes < conf.crashes /\ Count("crashes")
    /\ thr' = [t \in Threads |-> Idle]
    /\ UNCHANGED <<conf, event, status, gen, con, rec, rebuilt, penalty>>

Continue(t) ==
    \/ ExecuteReset(t) \/ InsertRecord(t) \/ MarkResetting(t)
    \/ RecoverInFlightReset(t) \/ RemoveContainer(t) \/ CreateContainer(t)
    \/ RecordReady(t) \/ ResetPenalty(t) \/ CompleteRecord(t)
    \/ MarkResetFailed(t) \/ FailRecord(t)

Next ==
    \/ \E t \in conf.threads : PlayerReset(t) \/ AdminReset(t)
    \/ \E t \in Threads : Continue(t)
    \/ EventMoves \/ Crash

Fairness == \A t \in Threads : WF_vars(Continue(t))

Spec == Init /\ [][Next]_vars /\ Fairness

----------------------------------------------------------------------------
TypeOK ==
    /\ status \in {"Ready", "Resetting", "ResetFailed"} /\ gen \in Nat /\ con \in Nat
    /\ \A i \in Records : rec[i].st \in {"none", "pending", "completed", "failed"}
    /\ rebuilt \subseteq Rows /\ penalty \subseteq Rows

(* A penalty stands for a reset that was not free and whose container was  *)
(* rebuilt, and a reset that was not free is never completed without it,   *)
(* whether the request itself or a recovery, or both, carried it out.      *)
PenaltyForRebuild ==
    /\ \A i \in penalty : ~rec[i].free /\ i \in rebuilt
    /\ \A i \in Records : rec[i].st = "completed" /\ ~rec[i].free => i \in penalty

(* The free resets are counted without a lock: requests at the same time   *)
(* may share the last one, but n requests never get more than n - 1 extra. *)
FreeResetsBounded ==
    Cardinality({i \in Records : rec[i].free /\ rec[i].by = "player"})
        < Free + Cardinality(conf.threads)

(* A box that is Ready and that no request works on has its container, if  *)
(* requests do not overlap or neither docker nor the process failed.       *)
ReadyHasContainer ==
    (status = "Ready" /\ \A t \in Threads : At(t, "idle")) =>
        \/ con # 0
        \/ Cardinality(conf.threads) > 1 /\ spent.fails + spent.crashes > 0

(* Every reset request is answered.  A recovery without a pending record   *)
(* starts over until the other request left Resetting, so this needs that  *)
(* request to survive.                                                     *)
Answered(t) == At(t, "idle") \/ conf.crashes > 0
=============================================================================

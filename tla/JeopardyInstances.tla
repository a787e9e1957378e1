------------------------- MODULE JeopardyInstances -------------------------
(***************************************************************************)
(* Challenge instances: launch (a container first, then its rows, with a   *)
(* compensation), destruction by the owner, after a solve, by the timer    *)
(* and by the cleanup task, which also reconciles rows whose container is  *)
(* gone and reaps the containers of deleted events.  Containers are named  *)
(* after subject and challenge, and everybody removes them by name.        *)
(* Nothing locks an instance; only the state of its row is compared and    *)
(* set.  Users, teams and challenges may be deleted and the port of a      *)
(* challenge taken away under an instance; what the solve scores is in     *)
(* JeopardyScoring.                                                        *)
(***************************************************************************)
EXTENDS Naturals, FiniteSets

CONSTANTS Subjects, Challenges,  \* users or teams
          Ids,                   \* instance ids in order of creation
          Threads, Cleaner,      \* requests, and the one cleanup task
          MaxAttempts,           \* of the cleanup task: failing runs in a row
          Settings               \* bounds, the kind of the event, docker direct or by the helper

VARIABLES conf,    \* the setting in force, chosen once
          event,   \* "live" or "deleted"
          shown,   \* challenges that are published and whose build is ready
          row,     \* event_instances with event_challenge_instance
          con,     \* containers by name: the launch that created it
          timers,  \* instances with an auto-destroy timer in this process
          left,    \* instances whose container nobody answers for any more (history)
          thr,     \* local state of the threads
          spent,   \* requests, failures, deaths and crashes so far; failing runs in a row
          ports,   \* challenges that have a container_port
          gone     \* subjects and challenges that were deleted

vars == <<conf, event, shown, row, con, timers, left, thr, spent, ports, gone>>

Names == Subjects \X Challenges
NoName == <<"none", "none">>
NoRow == [st |-> "none", name |-> NoName, age |-> "new"]
None == "none"
Idle == [pc |-> "idle", name |-> NoName, id |-> None, st |-> None, todo |-> {}, err |-> FALSE]
Workers == Threads \cup {Cleaner}

Init ==
    /\ conf \in Settings
    /\ event = "live" /\ shown = conf.challenges
    /\ row = [i \in Ids |-> NoRow] /\ con = [n \in Names |-> None]
    /\ timers = {} /\ left = {}
    /\ thr = [t \in Workers |-> Idle]
    /\ spent = [requests |-> 0, fails |-> 0, deaths |-> 0, crashes |-> 0, tries |-> 0]
    /\ ports = conf.challenges /\ gone = {}

At(t, pc) == thr[t].pc = pc
Count(k) == spent' = [spent EXCEPT ![k] = @ + 1]
MayFail == spent.fails < conf.fails /\ Count("fails")
Asks(t) == At(t, "idle") /\ t \in conf.threads /\ spent.requests < conf.requests /\ Count("requests")
Administrates(t, op) == Asks(t) /\ op \in conf.admin
Go(t, pc) == thr' = [thr EXCEPT ![t].pc = pc]
\* A request is over; the cleanup task goes on with its next candidate.
Done(t) == thr' = [thr EXCEPT ![t] = IF t = Cleaner THEN [thr[t] EXCEPT !.pc = "clean"] ELSE Idle]
\* ... after an error, which the run of the task ends with.
Failed(t) ==
    thr' = [thr EXCEPT ![t] = IF t = Cleaner THEN [thr[t] EXCEPT !.pc = "clean", !.err = TRUE] ELSE Idle]

Rows == {i \in Ids : row[i].st # "none"}
\* event_challenge_instance goes with the challenge, event_instances stays.
Joined(i) == row[i].name[2] \notin gone
RunningOf(s) == {i \in Ids : row[i].st = "running" /\ row[i].name[1] = s /\ Joined(i)}
HasRow(n) == \E i \in Ids : row[i].name = n
\* An id no row, container, timer, launch or removal has used.
Fresh == {i \in Ids \ (timers \cup left) :
             /\ row[i].st = "none" /\ \A n \in Names : con[n] # i
             /\ \A t \in Workers : thr[t].id # i /\ \A c \in thr[t].todo : c[1] # i}

\* policy.rs: practice 1, individual 2, team 2 for every member.
MaxConcurrentInstances == conf.max

----------------------------------------------------------------------------
(* launch *)

\* launch_instance: joined, ongoing, published, below the limit, and no
\* running instance to return.
LaunchInstance(t, n) ==
    /\ Asks(t) /\ n[1] \notin gone /\ n[2] \in shown
    /\ Cardinality(RunningOf(n[1])) < MaxConcurrentInstances
    /\ \A i \in RunningOf(n[1]) : row[i].name # n
    /\ thr' = [thr EXCEPT ![t] = [Idle EXCEPT !.pc = "forget", !.name = n]]
    /\ UNCHANGED <<conf, event, shown, row, con, timers, left, ports, gone>>

\* Rows keep the unique container name: those of completed instances go.
DeleteCompletedByContainerName(t) ==
    /\ At(t, "forget")
    /\ row' = [i \in Ids |-> IF row[i].st = "completed" /\ row[i].name = thr[t].name
                             THEN NoRow ELSE row[i]]
    /\ Go(t, "start")
    /\ UNCHANGED <<conf, event, shown, con, timers, left, spent, ports, gone>>

\* The challenge is read: without a port there is no container.  docker:
\* create by name and start; a failure may leave the container (a failed
\* start, a failed compensation in finalize_launch).  A deleted user is
\* noticed, a deleted team is not.
StartContainer(t) == LET n == thr[t].name IN
    /\ At(t, "start")
    /\ \/ \E i \in Fresh :
            /\ n[2] \in ports \ gone /\ con[n] = None /\ con' = [con EXCEPT ![n] = i]
            /\ \/ thr' = [thr EXCEPT ![t].pc = "persist", ![t].id = i] /\ UNCHANGED spent
               \/ MayFail /\ Failed(t)
       \/ \E i \in Fresh :
            /\ n[2] \notin ports \cup gone /\ UNCHANGED <<con, spent>>
            /\ thr' = [thr EXCEPT ![t].pc = "persistPlain", ![t].id = i]
       \/ (n[2] \in gone \/ n[1] \in gone) /\ Failed(t) /\ UNCHANGED <<con, spent>>
       \/ n[2] \in ports /\ con[n] # None /\ Failed(t) /\ UNCHANGED <<con, spent>>
       \/ MayFail /\ Failed(t) /\ UNCHANGED con
    /\ UNCHANGED <<conf, event, shown, row, timers, left, ports, gone>>

\* Event, subject and challenge are there, and the name is free.
Insertable(n) == event = "live" /\ n[1] \notin gone /\ n[2] \notin gone /\ ~HasRow(n)

\* Both rows in one transaction, then the timer.
Persist(t) == LET n == thr[t].name i == thr[t].id IN
    /\ thr[t].pc \in {"persist", "persistPlain"}
    /\ \/ /\ Insertable(n)
          /\ row' = [row EXCEPT ![i] = [NoRow EXCEPT !.st = "running", !.name = n]]
          /\ timers' = timers \cup {i} /\ Done(t) /\ UNCHANGED spent
       \/ /\ ~Insertable(n) /\ UNCHANGED <<row, timers, spent>>
          /\ IF At(t, "persist") THEN Go(t, "compensate") ELSE Failed(t)
       \/ /\ MayFail /\ UNCHANGED <<row, timers>>
          /\ IF At(t, "persist") THEN Go(t, "compensate") ELSE Failed(t)
    /\ UNCHANGED <<conf, event, shown, con, left, ports, gone>>

\* Removes the container by name; a failure is only logged.
Compensate(t) ==
    /\ At(t, "compensate") /\ Failed(t)
    /\ \/ con' = [con EXCEPT ![thr[t].name] = None] /\ UNCHANGED spent
       \/ MayFail /\ UNCHANGED con
    /\ UNCHANGED <<conf, event, shown, row, timers, left, ports, gone>>

----------------------------------------------------------------------------
(* destruction *)

\* The owner, or a member of the owning team, asks.
DestroyInstance(t, i) ==
    /\ Asks(t) /\ i \in Rows
    /\ thr' = [thr EXCEPT ![t] = [Idle EXCEPT !.pc = "find", !.id = i]]
    /\ UNCHANGED <<conf, event, shown, row, con, timers, left, ports, gone>>

\* submit, submit_practice: a correct flag of a running instance is scored,
\* then the instance destroyed; what goes wrong there is only logged.
Submit(t, i) ==
    /\ Asks(t) /\ event = "live" /\ row[i].st = "running" /\ row[i].name[2] \in shown
    /\ thr' = [thr EXCEPT ![t] = [Idle EXCEPT !.pc = "find", !.id = i]]
    /\ UNCHANGED <<conf, event, shown, row, con, timers, left, ports, gone>>

\* The timer that launch spawned; it is gone after a restart.
TimerFires(t, i) ==
    /\ At(t, "idle") /\ t \in conf.threads /\ i \in timers
    /\ row[i].st = "running" => row[i].age = "expired"
    /\ timers' = timers \ {i}
    /\ thr' = [thr EXCEPT ![t] = [Idle EXCEPT !.pc = "find", !.id = i]]
    /\ UNCHANGED <<conf, event, shown, row, con, left, spent, ports, gone>>

\* destroy_owned, destroy_team_owned: the row must be running.
FindOwnedRunning(t) == LET i == thr[t].id IN
    /\ At(t, "find")
    /\ IF row[i].st = "running" /\ Joined(i)
       THEN thr' = [thr EXCEPT ![t].pc = "remove", ![t].st = "running", ![t].name = row[i].name]
       ELSE Done(t)
    /\ UNCHANGED <<conf, event, shown, row, con, timers, left, spent, ports, gone>>

\* The challenge of the instance is read again.  Without a port nothing is
\* removed.  Behind the helper a container that is not there is forbidden,
\* not missing: also one that auto_remove took after the stop.
RemoveRuntimeIfNeeded(t) == LET n == thr[t].name i == thr[t].id IN
    /\ At(t, "remove")
    /\ \/ /\ n[2] \in ports \ gone /\ ~(conf.helper /\ con[n] = None)
          /\ con' = [con EXCEPT ![n] = None] /\ Go(t, "complete") /\ UNCHANGED <<left, spent>>
       \/ /\ n[2] \notin ports \cup gone
          /\ left' = left \cup {j \in {i} : con[n] = i} /\ Go(t, "complete") /\ UNCHANGED <<con, spent>>
       \/ /\ \/ n[2] \in gone /\ UNCHANGED <<con, spent>>
             \/ n[2] \in ports /\ conf.helper /\ con' = [con EXCEPT ![n] = None] /\ UNCHANGED spent
             \/ MayFail /\ UNCHANGED con
          /\ IF thr[t].st = "running" THEN Go(t, "fail") ELSE Failed(t)
          /\ UNCHANGED left
    /\ UNCHANGED <<conf, event, shown, row, timers, ports, gone>>

\* CAS of runtime_state: an error when the row changed meanwhile.
TransitionRuntimeState(i, expected, next) ==
    row' = IF row[i].st = expected THEN [row EXCEPT ![i].st = next] ELSE row

DestroyModel(t) ==
    /\ \/ /\ At(t, "complete") /\ TransitionRuntimeState(thr[t].id, thr[t].st, "completed")
          /\ IF row[thr[t].id].st = thr[t].st THEN Done(t) ELSE Failed(t)
       \/ At(t, "fail") /\ TransitionRuntimeState(thr[t].id, "running", "failed") /\ Failed(t)
    /\ UNCHANGED <<conf, event, shown, con, timers, left, spent, ports, gone>>

----------------------------------------------------------------------------
(* the cleanup task *)

\* Rows that say running but whose container is certainly gone.
ListRunningOlderThan == {i \in Ids : row[i].st = "running" /\ row[i].age # "new"}
ReconcileMissingContainers ==
    /\ At(Cleaner, "idle") /\ spent.tries < MaxAttempts
    /\ \/ /\ row' = [i \in Ids |-> IF i \in ListRunningOlderThan /\ con[row[i].name] = None
                                   THEN [row[i] EXCEPT !.st = "failed"] ELSE row[i]]
          /\ UNCHANGED spent
       \/ MayFail /\ UNCHANGED row
    /\ Go(Cleaner, "reap")
    /\ UNCHANGED <<conf, event, shown, con, timers, left, ports, gone>>

\* Mutant: the prefixes of competitions are not looked for.
ReapNothing ==
    /\ At(Cleaner, "reap") /\ Go(Cleaner, "list")
    /\ UNCHANGED <<conf, event, shown, row, con, timers, left, spent, ports, gone>>

\* Containers JS-/JT- whose event is gone; practice containers are JP-.
ReapOrphanContainers ==
    /\ At(Cleaner, "reap")
    /\ \/ /\ con' = IF event = "deleted" /\ conf.kind = "competition"
                    THEN [n \in Names |-> None] ELSE con
          /\ UNCHANGED spent
       \/ event = "deleted" /\ MayFail /\ UNCHANGED con
    /\ Go(Cleaner, "list")
    /\ UNCHANGED <<conf, event, shown, row, timers, left, ports, gone>>

\* Candidates, with the state and the name they are found with.
ListCleanupCandidates ==
    {<<i, row[i].st, row[i].name>> :
        i \in {j \in Ids : /\ Joined(j)
                           /\ row[j].st = "failed" \/ (row[j].st = "running" /\ row[j].age = "expired")}}

\* The run of the task is over: a run with an error is tried again, the
\* last in a row leaves the task failed.
EndOfRun(err) ==
    /\ thr' = [thr EXCEPT ![Cleaner] = Idle]
    /\ spent' = [spent EXCEPT !.tries = IF err THEN @ + 1 ELSE 0]

CleanupList ==
    /\ At(Cleaner, "list")
    /\ \/ /\ thr' = [thr EXCEPT ![Cleaner].pc = "clean", ![Cleaner].todo = ListCleanupCandidates]
          /\ UNCHANGED spent
       \/ /\ spent.fails < conf.fails /\ thr' = [thr EXCEPT ![Cleaner] = Idle]
          /\ spent' = [spent EXCEPT !.fails = @ + 1, !.tries = @ + 1]
    /\ UNCHANGED <<conf, event, shown, row, con, timers, left, ports, gone>>

\* The next candidate of the list; the row is not read again.
CleanupRunning ==
    /\ At(Cleaner, "clean")
    /\ \/ \E c \in thr[Cleaner].todo :
            /\ thr' = [thr EXCEPT ![Cleaner] =
                     [thr[Cleaner] EXCEPT !.pc = "remove", !.id = c[1], !.st = c[2],
                                          !.name = c[3], !.todo = @ \ {c}]]
            /\ UNCHANGED spent
       \/ thr[Cleaner].todo = {} /\ EndOfRun(thr[Cleaner].err)
    /\ UNCHANGED <<conf, event, shown, row, con, timers, left, ports, gone>>

----------------------------------------------------------------------------
(* time, administrators, docker, the process *)

\* 300 s after the launch the task looks for the container; expires_at is later.
Age(i) ==
    /\ row[i].st = "running" /\ row[i].age # "expired"
    /\ row' = [row EXCEPT ![i].age = IF @ = "new" THEN "old" ELSE "expired"]
    /\ UNCHANGED <<conf, event, shown, con, timers, left, thr, spent, ports, gone>>

\* Hiding or publishing a challenge.
Publish(t, c) ==
    /\ Administrates(t, "publish") /\ c \notin gone /\ shown' = (shown \ {c}) \cup ({c} \ shown)
    /\ UNCHANGED <<conf, event, row, con, timers, left, thr, ports, gone>>

\* patch_challenge: container_port is cleared or set.
PatchPort(t, c) ==
    /\ Administrates(t, "port") /\ c \notin gone /\ ports' = (ports \ {c}) \cup ({c} \ ports)
    /\ UNCHANGED <<conf, event, shown, row, con, timers, left, thr, gone>>

\* The links of its instances cascade, their rows do not.
DeleteChallenge(t, c) ==
    /\ Administrates(t, "challenge") /\ c \notin gone /\ gone' = gone \cup {c}
    /\ shown' = shown \ {c} /\ left' = left \cup {i \in Rows : row[i].name[2] = c}
    /\ UNCHANGED <<conf, event, row, con, timers, thr, ports>>

\* A user or a team is deleted, or a member of a team: rows cascade with
\* the owner, containers do not.
DeleteOwner(t, s) ==
    /\ Administrates(t, "owner") /\ s \notin gone
    /\ \E own \in SUBSET {i \in Rows : row[i].name[1] = s} :
         /\ row' = [i \in Ids |-> IF i \in own THEN NoRow ELSE row[i]]
         /\ left' = left \cup own
         /\ \/ own = {i \in Rows : row[i].name[1] = s} /\ gone' = gone \cup {s}
            \/ conf.kind = "competition" /\ UNCHANGED gone
    /\ UNCHANGED <<conf, event, shown, con, timers, thr, ports>>

\* Rows cascade; the containers of Jeopardy instances are left to the task.
DeleteEvent(t) ==
    /\ Administrates(t, "event") /\ event = "live" /\ conf.kind = "competition"
    /\ event' = "deleted" /\ row' = [i \in Ids |-> NoRow]
    /\ UNCHANGED <<conf, shown, con, timers, left, thr, ports, gone>>

\* auto_remove: a container that exits is gone.
ContainerDies(n) ==
    /\ con[n] # None /\ spent.deaths < conf.deaths /\ Count("deaths")
    /\ con' = [con EXCEPT ![n] = None]
    /\ UNCHANGED <<conf, event, shown, row, timers, left, thr, ports, gone>>

\* Boot revives a task that has failed (init_and_recover).
Crash ==
    /\ spent.crashes < conf.crashes
    /\ spent' = [spent EXCEPT !.crashes = @ + 1, !.tries = IF @ < MaxAttempts THEN @ ELSE 0]
    /\ thr' = [t \in Workers |-> Idle] /\ timers' = {}
    /\ UNCHANGED <<conf, event, shown, row, con, left, ports, gone>>

\* The endpoints: the event of the request is looked up first; a list of
\* practice instances is destroyed one by one.
LaunchRequest(t, n) == event = "live" /\ LaunchInstance(t, n)
DestroyRequest(t, i) == event = "live" /\ DestroyInstance(t, i)
BulkDeletePracticeInstances(t, i) == conf.kind = "practice" /\ DestroyInstance(t, i)

Begin(t) ==
    \/ \E n \in Names : LaunchRequest(t, n)
    \/ \E i \in Ids : DestroyRequest(t, i) \/ BulkDeletePracticeInstances(t, i) \/ Submit(t, i) \/ TimerFires(t, i)
    \/ \E c \in conf.challenges : Publish(t, c) \/ PatchPort(t, c) \/ DeleteChallenge(t, c)
    \/ \E s \in Subjects : DeleteOwner(t, s)
    \/ DeleteEvent(t)
Continue(t) ==
    \/ DeleteCompletedByContainerName(t) \/ StartContainer(t) \/ Persist(t) \/ Compensate(t)
    \/ FindOwnedRunning(t) \/ RemoveRuntimeIfNeeded(t) \/ DestroyModel(t)
Task == ReconcileMissingContainers \/ ReapOrphanContainers \/ CleanupList \/ CleanupRunning
            \/ Continue(Cleaner)
TimePasses == \E i \in Ids : Age(i)

Next ==
    \/ \E t \in Threads : Begin(t) \/ Continue(t)
    \/ Task \/ TimePasses
    \/ \E n \in Names : ContainerDies(n)
    \/ Crash

\* The task is scheduled by cron until it failed for good, requests are run to
\* their end, time passes.
Fairness == WF_vars(Task) /\ WF_vars(TimePasses) /\ \A t \in Threads : WF_vars(Continue(t))
Spec == Init /\ [][Next]_vars /\ Fairness

----------------------------------------------------------------------------
TypeOK ==
    /\ conf \in Settings /\ event \in {"live", "deleted"} /\ shown \subseteq Challenges
    /\ \A i \in Ids : row[i].st \in {"none", "running", "failed", "completed"}
    /\ \A i \in Ids : row[i].name \in Names \cup {NoName}
    /\ con \in [Names -> Ids \cup {None}] /\ timers \cup left \subseteq Ids /\ ports \subseteq Challenges

(* Requests that overlap may pass the check of the limit together, each    *)
(* for another challenge: never more than one instance more per request.   *)
RunningBounded ==
    \A s \in Subjects : Cardinality(RunningOf(s)) < MaxConcurrentInstances + Cardinality(conf.threads)

\* A launch under way, from the container on, or a row that is not completed
\* and that the task and the timer can find.
Accounted(n) ==
    \/ \E t \in Workers : thr[t].pc \in {"persist", "compensate"} /\ thr[t].id = con[n]
    \/ row[con[n]].st \in {"running", "failed"} /\ row[con[n]].name = n /\ n[2] \notin gone

(* Every container belongs to somebody who will remove it, but for those   *)
(* whose owner or challenge was deleted or whose challenge had no port any *)
(* more when they were to be removed: remove_runtime_if_needed and the     *)
(* foreign keys forget these.  Not so when docker or the database failed,  *)
(* the process died or the event is deleted (then the task reaps it).      *)
ContainersAccounted ==
    spent.crashes = 0 /\ spent.fails = 0 /\ event = "live"
      => \A n \in Names : con[n] # None /\ con[n] \notin left => Accounted(n)

(* The row of an instance is only completed when its container is gone: a  *)
(* failed removal is tried again.  A removal that finds the challenge      *)
(* without a port completes the row and forgets the container.             *)
CompletedIsGone ==
    \A n \in Names : con[n] # None /\ con[n] \notin left => row[con[n]].st # "completed"

(* Whatever was lost, an instance does not outlive its time: rows whose    *)
(* destruction failed, whose timer died with the process or whose          *)
(* container vanished are completed, and a deleted event leaves no container.  Rows  *)
(* of a deleted challenge stay, and all of them once the cleanup task has  *)
(* failed MaxAttempts times in a row, which a single removal that the      *)
(* helper refuses is enough for.                                           *)
Clean == \/ spent.tries >= MaxAttempts
         \/ /\ \A i \in Ids : row[i].st \in {"running", "failed"} => ~Joined(i)
            /\ event = "deleted" => \A n \in Names : con[n] = None
----------------------------------------------------------------------------
(* What every step keeps *)

Launching == {"forget", "start", "persist", "persistPlain"}
RequestPcs == Launching \cup {"idle", "compensate", "find", "remove", "complete", "fail"}
TaskPcs == {"idle", "reap", "list", "clean", "remove", "complete", "fail"}
States == {"none", "running", "failed", "completed"}
Types ==
    /\ conf \in Settings /\ event \in {"live", "deleted"} /\ shown \subseteq Challenges
    /\ row \in [Ids -> [st : States, name : Names \cup {NoName}, age : {"new", "old", "expired"}]]
    /\ con \in [Names -> Ids \cup {None}] /\ timers \subseteq Ids /\ left \subseteq Ids
    /\ thr \in [Workers -> [pc : RequestPcs \cup TaskPcs, name : Names \cup {NoName}, id : Ids \cup {None},
                            st : States, todo : SUBSET (Ids \X States \X Names), err : BOOLEAN]]
    /\ spent \in [requests : Nat, fails : Nat, deaths : Nat, crashes : Nat, tries : Nat]
    /\ ports \subseteq Challenges

\* Who does what, with what in hand.
Roles ==
    /\ thr[Cleaner].pc \in TaskPcs /\ \A t \in Threads : thr[t].pc \in RequestPcs
    /\ \A t \in Threads : thr[t].pc # "idle" => t \in conf.threads
    /\ \A t \in Workers :
         /\ thr[t].pc \in Launching \cup {"compensate", "remove"} => thr[t].name \in Names
         /\ thr[t].pc \in {"persist", "persistPlain", "compensate", "find", "remove", "complete", "fail"}
              => thr[t].id \in Ids
         /\ thr[t].pc \in {"remove", "complete", "fail"} => thr[t].st # "none"
         /\ \A c \in thr[t].todo : c[2] # "none"
    /\ \A i \in Ids : row[i].st # "none" <=> row[i].name \in Names

\* An id is of one container, under the name its row, its launch and its
\* removal know.
OneName ==
    /\ \A n \in Names : con[n] # None /\ row[con[n]].st # "none" => row[con[n]].name = n
    /\ \A t \in Workers : thr[t].pc \in {"persist", "persistPlain", "compensate", "remove"} =>
          \A n \in Names : con[n] = thr[t].id => n = thr[t].name
    /\ \A t \in Workers : \A c \in thr[t].todo : \A n \in Names : con[n] = c[1] => n = c[3]
    /\ \A t \in Workers : thr[t].pc = "complete" =>
          \A n \in Names : con[n] = thr[t].id => con[n] \in left

\* Launches that passed the check of the limit and have no row yet.
LaunchesOf(s) == {t \in Threads \cap conf.threads : thr[t].pc \in Launching /\ thr[t].name[1] = s}
LimitHolds ==
    \A s \in Subjects :
        Cardinality(RunningOf(s)) + Cardinality(LaunchesOf(s)) < MaxConcurrentInstances + Cardinality(conf.threads)

Inductive == Types /\ Roles /\ OneName /\ LimitHolds /\ ContainersAccounted /\ CompletedIsGone
=============================================================================

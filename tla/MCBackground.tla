---------------------------- MODULE MCBackground ----------------------------
(***************************************************************************)
(* What must come to an end by itself, for TLC: behaviours of              *)
(* JeopardyInstances (containers of subjects and their cleanup), of        *)
(* TaskEngine (scheduled_tasks, which the cleanup runs on), of             *)
(* TrainingSync (the task that fetches the training site), of OidcLogout   *)
(* (telling the applications of a logout) and of Terminal (the shells of   *)
(* the web terminal). A behaviour is of one of them, its scene: the        *)
(* variables x1, x2, ... stand for that component's.  The second half      *)
(* proves that BackgroundHolds in every behaviour: of each component that  *)
(* its invariant Inductive holds at first (InstInit, TaskInit ...), is     *)
(* kept by every step (InstNext ...) and implies what is claimed of it     *)
(* (InstResults ...).                                                      *)
(***************************************************************************)
EXTENDS Naturals, FiniteSets, FiniteSetTheorems, TLAPS

CONSTANTS Threads, Subjects, Ids, Cleaner,               \* JeopardyInstances
          Once, Cron, Startup, Dispatches, MaxAttempts,  \* TaskEngine, OidcLogout
          Revisions, KeepReleases,                       \* TrainingSync
          Devices, Apps, Batches,                        \* OidcLogout
          Sockets, Tickets                               \* Terminal

\* The cleanup task is no request, a subject no challenge, "none" no id, task
\* or dispatch, a task has one trigger, revisions count from 1, Worlds speaks
\* of applications.
ASSUME BackgroundAssumption ==
    /\ Subjects \cap {"c", "d"} = {} /\ Cleaner \notin Threads /\ "none" \notin Ids /\ IsFiniteSet(Ids)
    /\ "none" \notin Once \cup Cron \cup Startup /\ Once \cap Cron = {}
    /\ (Once \cup Cron) \cap Startup = {}
    /\ "none" \notin Dispatches /\ IsFiniteSet(Dispatches) /\ MaxAttempts \in Nat \ {0}
    /\ Revisions \subseteq Nat \ {0} /\ 1 \in Revisions /\ IsFiniteSet(Revisions)
    /\ KeepReleases \in Nat \ {0} /\ {"p", "q"} \subseteq Apps

VARIABLES scene,  \* the component this behaviour is about, chosen once
          \* its variables, in the order of its INSTANCE
          x1, x2, x3, x4, x5, x6, x7, x8, x9, x10, x11

vars == <<scene, x1, x2, x3, x4, x5, x6, x7, x8, x9, x10, x11>>

Play(challenges, threads, kind, most, limit, fails, deaths, crashes, admin, helper) ==
    [challenges |-> challenges, threads |-> threads, kind |-> kind, max |-> most,
     requests |-> limit, fails |-> fails, deaths |-> deaths, crashes |-> crashes,
     admin |-> admin, helper |-> helper]
\* A failure and a container that dies, a crash, two challenges, two requests
\* that overlap, deletions and a port that is taken away, docker behind the
\* helper.
InstanceSettings ==
    {Play({"c"}, {"t1"}, "competition", 1, 3, 1, 1, 0, {"publish", "event"}, FALSE),
     Play({"c"}, {"t1"}, "practice", 1, 3, 0, 0, 1, {"publish"}, FALSE),
     Play({"c", "d"}, {"t1"}, "competition", 1, 2, 0, 0, 0, {"event"}, FALSE),
     Play({"c", "d"}, {"t1", "t2"}, "competition", 1, 2, 0, 0, 0, {"event"}, FALSE),
     Play({"c"}, {"t1"}, "competition", 1, 3, 0, 0, 0, {"port", "challenge", "owner"}, FALSE),
     Play({"c"}, {"t1"}, "practice", 1, 2, 0, 1, 1, {"port", "owner"}, TRUE)}

Plan(tasks, fails, edits, crashes) ==
    [tasks |-> tasks, fails |-> fails, edits |-> edits, crashes |-> crashes]
TaskSettings ==
    {Plan({"once"}, 3, 3, 1), Plan({"cron"}, 3, 2, 1), Plan({"startup", "once"}, 1, 2, 1)}

TrainingLimits == [runs |-> 4, faults |-> 1, bad |-> 1]

World(signedIn, address, holders, open, errors, crashes, binds) ==
    [signedIn |-> signedIn, address |-> address, held |-> holders, requests |-> open,
     faults |-> errors, crashes |-> crashes, binds |-> binds]
\* An application without an address, a crash, a token given out while the
\* logout runs, two logouts with three faults and a crash.
Worlds ==
    {World({"s1", "s2"}, {"p"}, {"p", "q"}, {"b1"}, 1, 0, 0),
     World({"s1", "s2"}, {"p"}, {"p"}, {"b1"}, 1, 1, 0),
     World({"s1"}, {"p", "q"}, {"p"}, {"b1"}, 1, 0, 1),
     World({"s1"}, {"p"}, {"p"}, {"b1", "b2"}, 3, 1, 0)}

Inst == INSTANCE JeopardyInstances WITH
    Challenges <- {"c", "d"}, Settings <- InstanceSettings, conf <- x1, event <- x2,
    shown <- x3, row <- x4, con <- x5, timers <- x6, left <- x7, thr <- x8, spent <- x9,
    ports <- x10, gone <- x11
Tasks == INSTANCE TaskEngine WITH
    Jobs <- Dispatches, Settings <- TaskSettings, conf <- x1, row <- x2, job <- x3, up <- x4,
    failed <- x5, manual <- x6, stuck <- x7, spent <- x8
Train == INSTANCE TrainingSync WITH
    Jobs <- Dispatches, Limits <- TrainingLimits, upstream <- x1, lock <- x2, job <- x3,
    dir <- x4, staging <- x5, current <- x6, revision <- x7, setting <- x8, spent <- x9
Logout == INSTANCE OidcLogout WITH
    Sessions <- Devices, Clients <- Apps, Worlds <- Worlds, world <- x1, sess <- x2,
    bound <- x3, client <- x4, ask <- x5, req <- x6, row <- x7, worker <- x8, told <- x9,
    spent <- x10, changed <- x11
Shell == INSTANCE Terminal WITH
    Features <- BOOLEAN, enabled <- x1, up <- x2, allowed <- x3, ticket <- x4, sock <- x5

\* A step of the instances.
InInst(A) == /\ scene = "instances" /\ A
             /\ UNCHANGED <<scene>>
\* A step of the task engine.
InTasks(A) == /\ scene = "tasks" /\ A
              /\ UNCHANGED <<scene, x9, x10, x11>>
\* A step of the training site.
InTrain(A) == /\ scene = "training" /\ A
              /\ UNCHANGED <<scene, x10, x11>>
\* A step of a logout.
InLogout(A) == /\ scene = "logout" /\ A
               /\ UNCHANGED <<scene>>
\* A step of a terminal session.
InShell(A) == /\ scene = "terminal" /\ A
              /\ UNCHANGED <<scene, x6, x7, x8, x9, x10, x11>>

Unused == "unused"
Init ==
    \/ /\ scene = "instances" /\ Inst!Init
    \/ /\ scene = "tasks" /\ Tasks!Init
       /\ x9 = Unused /\ x10 = Unused /\ x11 = Unused
    \/ /\ scene = "training" /\ Train!Init
       /\ x10 = Unused /\ x11 = Unused
    \/ /\ scene = "logout" /\ Logout!Init
    \/ /\ scene = "terminal" /\ Shell!Init
       /\ x6 = Unused /\ x7 = Unused /\ x8 = Unused /\ x9 = Unused /\ x10 = Unused
       /\ x11 = Unused

Next ==
    \/ InInst(Inst!Next)
    \/ InTasks(Tasks!Next)
    \/ InTrain(Train!Next)
    \/ InLogout(Logout!Next)
    \/ InShell(Shell!Next)

Keys == Batches \X Devices \X Apps
\* The fairness of the components (see there).
Fairness ==
    /\ WF_vars(InInst(Inst!Task)) /\ WF_vars(InInst(Inst!TimePasses))
    /\ \A t \in Threads \cup {Cleaner} : WF_vars(InInst(Inst!Continue(t)))
    /\ \A k \in Once \cup Cron \cup Startup :
         WF_vars(InTasks(Tasks!FetchAndRun(k))) /\ WF_vars(InTasks(Tasks!Due(k)))
    /\ \A j \in Dispatches : WF_vars(InTasks(Tasks!Work(j)) \/ InTrain(Train!Sync(j)))
    /\ WF_vars(InTasks(Tasks!InitAndRecover))
    /\ \A b \in Batches : WF_vars(InLogout(Logout!Steps(b)))
    /\ \A k \in Keys : WF_vars(InLogout(Logout!Worker(k) \/ Logout!Due(k)))
    /\ \A s \in Sockets : WF_vars(InShell(Shell!MessagesEnd(s) \/ Shell!CloseSession(s)))

Spec == Init /\ [][Next]_vars /\ Fairness

----------------------------------------------------------------------------
TypeOK ==
    /\ (scene = "instances" => Inst!TypeOK) /\ (scene = "tasks" => Tasks!TypeOK)
    /\ (scene = "training" => Train!TypeOK) /\ (scene = "logout" => Logout!TypeOK)
    /\ (scene = "terminal" => Shell!TypeOK)

(* Work in the background leaves nothing behind and says nothing false.    *)
(* JeopardyInstances: the limit of running instances is overshot by at     *)
(* most one per request that overlaps; every container has a row or a      *)
(* launch that answers for it while nothing failed, and a completed        *)
(* instance has none, but for the containers whose owner or challenge was  *)
(* deleted or whose challenge lost its port before the removal.            *)
(* TaskEngine: a claimed task has one job and fails no more often than max_attempts.   *)
(* TrainingSync: the link of the site leads to a release, the site serves  *)
(* the revision it says it serves, old releases are pruned.  OidcLogout: a *)
(* completed logout left a delivery for every application to be told, and  *)
(* a report of success is true.  Terminal: a ticket opens one shell, a     *)
(* withdrawn permission none.                                              *)
BackgroundHolds ==
    /\ TypeOK
    /\ scene = "instances" => /\ Inst!RunningBounded /\ Inst!ContainersAccounted
                              /\ Inst!CompletedIsGone
    /\ scene = "tasks" => Tasks!OneJobPerTask /\ Tasks!AttemptsBounded
    /\ scene = "training" => /\ Train!SiteServed /\ Train!ServesWhatItSays
                             /\ Train!ReleasesBounded
    /\ scene = "logout" => Logout!RevokedIsQueued /\ Logout!SyncedIsTold
    /\ scene = "terminal" => Shell!OneShellPerTicket /\ Shell!WithdrawnOpensNothing

(* Work in the background comes to its end, whatever failed.               *)
(* JeopardyInstances: no instance outlives its time, unless its challenge  *)
(* was deleted or the cleanup task has failed for good.  TaskEngine: an    *)
(* enabled planned task is settled, a recurring one recurs until it fails  *)
(* for good.  TrainingSync: the lock comes back however a run ends.        *)
(* OidcLogout: every delivery is settled.  Terminal: a closed session ends *)
(* its shell.                                                              *)
BackgroundSettles ==
    /\ []<>(scene = "instances" => Inst!Clean)
    /\ \A k \in Once : []<>(scene = "tasks" => Tasks!Settled(k))
    /\ \A k \in Cron : []<>(scene = "tasks" => Tasks!Recurring(k))
    /\ []<>(scene = "training" => Train!LockFree)
    /\ \A k \in Keys : []<>(scene = "logout" => Logout!At(k).st # "pending")
    /\ \A s \in Sockets : []<>(scene = "terminal" => ~Shell!Orphan(s))

----------------------------------------------------------------------------
(* Terminal: tickets and shells *)

ShellSocket == [pc : Shell!Pcs, presented : Tickets \cup {"none"}, late : BOOLEAN,
                client : {"open", "closed"}, shell : {"none", "running", "ended"}]

LEMMA ShellInit == Shell!Init => Shell!Inductive
  <1> SUFFICES ASSUME Shell!Init PROVE Shell!Inductive
    OBVIOUS
  <1> USE DEF Shell!Init, Shell!NoSocket
  <1>1. Shell!Types
    BY DEF Shell!Types, Shell!Pcs
  <1>2. Shell!TicketsSpent
    BY DEF Shell!TicketsSpent, Shell!Admitted
  <1>3. Shell!ShellsOpened
    BY DEF Shell!ShellsOpened
  <1> QED BY <1>1, <1>2, <1>3 DEF Shell!Inductive

(* What a socket may become: a handshake is only let through with a ticket *)
(* that it spent itself, and a shell is only opened with the permission.   *)
ShellBecomes(s, x) ==
    /\ x \in ShellSocket /\ x5' = [x5 EXCEPT ![s] = x]
    /\ x.pc \in {"check", "open", "over"} =>
          \/ x5[s].pc \in {"check", "open", "over"} /\ x.presented = x5[s].presented
          \/ x.presented \in Tickets /\ x4[x.presented] = "live" /\ x4'[x.presented] = "gone"
    /\ x.shell # "none" => x.pc \in {"open", "over"}
    /\ x.late => ~x3' /\ x.pc \notin {"open", "over"}

ShellRest ==
    /\ x1' \in BOOLEAN /\ x2' \in BOOLEAN /\ x3' \in BOOLEAN
    /\ x4' \in [Tickets -> {"none", "live", "gone"}]
    /\ \A t \in Tickets : x4[t] = "gone" => x4'[t] = "gone"
    /\ x3' => x3

(* A step that keeps the rules of tickets and shells keeps the invariant.  *)
LEMMA ShellStepKeeps ==
    ASSUME Shell!Inductive, ShellRest, NEW s \in Sockets, NEW x, ShellBecomes(s, x)
    PROVE  Shell!Inductive'
  <1> USE DEF Shell!Inductive
  <1>1. /\ x5 \in [Sockets -> ShellSocket] /\ x5' \in [Sockets -> ShellSocket] /\ x5'[s] = x
        /\ \A r \in Sockets : r # s => x5'[r] = x5[r]
    BY DEF ShellBecomes, Shell!Types, ShellSocket
  <1>2. Shell!Types'
    BY <1>1 DEF Shell!Types, ShellRest, ShellSocket
  <1>3. Shell!TicketsSpent'
    <2>1. ASSUME NEW r \in Sockets, Shell!Admitted(r)'
          PROVE  x5'[r].presented \in Tickets /\ x4'[x5'[r].presented] = "gone"
      BY <2>1, <1>1 DEF Shell!Admitted, Shell!TicketsSpent, ShellBecomes, ShellRest
    <2>2. ASSUME NEW r \in Sockets, r # s, Shell!Admitted(r)', Shell!Admitted(s)'
          PROVE  x5'[r].presented # x5'[s].presented
      <3>1. /\ Shell!Admitted(r) /\ x5'[r].presented = x5[r].presented
            /\ x4[x5[r].presented] = "gone"
        BY <2>2, <1>1 DEF Shell!Admitted, Shell!TicketsSpent
      <3> QED BY <3>1, <2>2, <1>1 DEF Shell!Admitted, Shell!TicketsSpent, ShellBecomes
    <2>3. ASSUME NEW r \in Sockets, NEW q \in Sockets, r # q, r # s, q # s,
                 Shell!Admitted(r)', Shell!Admitted(q)'
          PROVE  x5'[r].presented # x5'[q].presented
      BY <2>3, <1>1 DEF Shell!Admitted, Shell!TicketsSpent
    <2> QED BY <2>1, <2>2, <2>3 DEF Shell!TicketsSpent
  <1>4. Shell!ShellsOpened'
    BY <1>1 DEF Shell!ShellsOpened, ShellBecomes, ShellRest
  <1> QED BY <1>2, <1>3, <1>4

LEMMA ShellQuietKeeps ==
    ASSUME Shell!Inductive, ShellRest, x5' = x5
    PROVE  Shell!Inductive'
  <1> USE DEF Shell!Inductive
  <1>1. Shell!Types'
    BY DEF Shell!Types, ShellRest
  <1>2. Shell!TicketsSpent'
    BY DEF Shell!TicketsSpent, Shell!Admitted, ShellRest
  <1>3. Shell!ShellsOpened'
    BY DEF Shell!ShellsOpened, ShellRest
  <1> QED BY <1>1, <1>2, <1>3

(* TerminalTicketStore::consume gives a live ticket to one handshake.      *)
LEMMA ShellHandshake ==
    ASSUME Shell!Inductive, NEW s \in Sockets, NEW t \in Tickets, Shell!Handshake(s, t)
    PROVE  Shell!Inductive'
  <1> USE DEF Shell!Inductive
  <1>1. PICK x : /\ x = [Shell!NoSocket EXCEPT !.pc = IF x4' # x4 THEN "check" ELSE "refused",
                                                 !.presented = t, !.late = ~x3]
                 /\ x5' = [x5 EXCEPT ![s] = x]
    BY DEF Shell!Handshake, Shell!Put
  <1>2. /\ x \in ShellSocket /\ x.presented = t /\ (x.late => ~x3) /\ x.shell = "none"
        /\ x.pc = IF x4' # x4 THEN "check" ELSE "refused"
    BY <1>1 DEF Shell!NoSocket, ShellSocket, Shell!Pcs, Shell!Types
  <1>3. ShellRest /\ x3' = x3
    BY DEF ShellRest, Shell!Handshake, Shell!Consume, Shell!Types
  <1>4. x4' # x4 => x4[t] = "live" /\ x4'[t] = "gone"
    BY DEF Shell!Handshake, Shell!Consume, Shell!Types
  <1>5. ShellBecomes(s, x)
    BY <1>1, <1>2, <1>3, <1>4 DEF ShellBecomes
  <1> QED BY <1>3, <1>5, ShellStepKeeps

(* A session goes on: the permission is read again before its shell starts.*)
LEMMA ShellSession ==
    ASSUME Shell!Inductive, NEW s \in Sockets,
           \/ Shell!Upgrade(s) \/ Shell!SpawnFails(s) \/ Shell!ShellExits(s) \/ Shell!CloseSession(s)
           \/ Shell!ClientCloses(s) \/ Shell!MessagesEnd(s)
    PROVE  Shell!Inductive'
  <1> USE DEF Shell!Inductive
  <1>1. ShellRest /\ x3' = x3 /\ x5[s] \in ShellSocket
    BY DEF ShellRest, Shell!Types, ShellSocket, Shell!Upgrade, Shell!SpawnFails, Shell!ShellExits,
           Shell!CloseSession, Shell!ClientCloses, Shell!MessagesEnd
  <1>2. /\ x5[s].shell # "none" => x5[s].pc \in {"open", "over"}
        /\ x5[s].late => ~x3 /\ x5[s].pc \notin {"open", "over"}
    BY DEF Shell!ShellsOpened
  <1> USE DEF Shell!Put
  <1>3. CASE Shell!Upgrade(s) /\ x3
    <2> DEFINE x == [x5[s] EXCEPT !.pc = "open", !.shell = "running"]
    <2>1. x5' = [x5 EXCEPT ![s] = x] /\ x5[s].pc = "check"
      BY <1>3 DEF Shell!Upgrade
    <2>2. x \in ShellSocket /\ x.pc = "open" /\ x.presented = x5[s].presented /\ x.late = x5[s].late
      BY <1>1 DEF ShellSocket, Shell!Pcs
    <2> HIDE DEF x
    <2> QED BY <2>1, <2>2, <1>1, <1>2, <1>3, ShellStepKeeps DEF ShellBecomes
  <1>4. CASE Shell!Upgrade(s) /\ ~x3
    <2> DEFINE x == [x5[s] EXCEPT !.pc = "refused"]
    <2>1. x5' = [x5 EXCEPT ![s] = x] /\ x5[s].pc = "check"
      BY <1>4 DEF Shell!Upgrade
    <2>2. x \in ShellSocket /\ x.pc = "refused" /\ x.shell = x5[s].shell /\ x.late = x5[s].late
      BY <1>1 DEF ShellSocket, Shell!Pcs
    <2> HIDE DEF x
    <2> QED BY <2>1, <2>2, <1>1, <1>2, ShellStepKeeps DEF ShellBecomes
  <1>5. CASE Shell!SpawnFails(s)
    <2> DEFINE x == [x5[s] EXCEPT !.pc = "refused", !.client = "closed"]
    <2>1. x5' = [x5 EXCEPT ![s] = x] /\ x5[s].pc = "check"
      BY <1>5 DEF Shell!SpawnFails
    <2>2. x \in ShellSocket /\ x.pc = "refused" /\ x.shell = x5[s].shell /\ x.late = x5[s].late
      BY <1>1 DEF ShellSocket, Shell!Pcs
    <2> HIDE DEF x
    <2> QED BY <2>1, <2>2, <1>1, <1>2, ShellStepKeeps DEF ShellBecomes
  <1>6. CASE Shell!ShellExits(s)
    <2> DEFINE x == [x5[s] EXCEPT !.shell = "ended"]
    <2>1. x5' = [x5 EXCEPT ![s] = x] /\ x5[s].pc = "open" /\ x5[s].shell = "running"
      BY <1>6 DEF Shell!ShellExits
    <2>2. /\ x \in ShellSocket /\ x.pc = x5[s].pc /\ x.late = x5[s].late
          /\ x.presented = x5[s].presented
      BY <1>1 DEF ShellSocket, Shell!Pcs
    <2> HIDE DEF x
    <2> QED BY <2>1, <2>2, <1>1, <1>2, ShellStepKeeps DEF ShellBecomes
  <1>7. CASE Shell!CloseSession(s) \/ Shell!ClientCloses(s)
    <2> DEFINE x == [x5[s] EXCEPT !.client = "closed"]
    <2>1. x5' = [x5 EXCEPT ![s] = x]
      BY <1>7 DEF Shell!CloseSession, Shell!ClientCloses
    <2>2. /\ x \in ShellSocket /\ x.pc = x5[s].pc /\ x.late = x5[s].late
          /\ x.presented = x5[s].presented /\ x.shell = x5[s].shell
      BY <1>1 DEF ShellSocket, Shell!Pcs
    <2> HIDE DEF x
    <2> QED BY <2>1, <2>2, <1>1, <1>2, ShellStepKeeps DEF ShellBecomes
  <1>8. CASE Shell!MessagesEnd(s)
    <2> DEFINE x == [x5[s] EXCEPT !.pc = "over", !.shell = "ended"]
    <2>1. x5' = [x5 EXCEPT ![s] = x] /\ x5[s].pc = "open"
      BY <1>8 DEF Shell!MessagesEnd
    <2>2. /\ x \in ShellSocket /\ x.pc = "over" /\ x.late = x5[s].late
          /\ x.presented = x5[s].presented /\ x.shell = "ended"
      BY <1>1 DEF ShellSocket, Shell!Pcs
    <2> HIDE DEF x
    <2> QED BY <2>1, <2>2, <1>1, <1>2, ShellStepKeeps DEF ShellBecomes
  <1> QED BY <1>3, <1>4, <1>5, <1>6, <1>7, <1>8 DEF Shell!Upgrade

(* Every step of the terminal.                                             *)
LEMMA ShellNext == ASSUME Shell!Inductive, Shell!Next PROVE Shell!Inductive'
  <1>1. ASSUME NEW t \in Tickets, Shell!Issue(t) \/ Shell!Expire(t) PROVE Shell!Inductive'
    <2>1. ShellRest /\ x5' = x5
      BY <1>1 DEF ShellRest, Shell!Inductive, Shell!Types, Shell!Issue, Shell!Expire
    <2> QED BY <2>1, ShellQuietKeeps
  <1>2. ASSUME Shell!Withdraw \/ Shell!RedisUpDown PROVE Shell!Inductive'
    <2>1. /\ x2' = x2 \/ x2' = ~x2
          /\ x3' = x3 \/ x3' = FALSE
          /\ x2 \in BOOLEAN /\ x3 \in BOOLEAN
      BY <1>2 DEF Shell!Inductive, Shell!Types, Shell!Withdraw, Shell!RedisUpDown
    <2>4. (~x2) \in BOOLEAN
      OBVIOUS
    <2>6. x2' \in BOOLEAN
      BY <2>1, <2>4
    <2>7. x3' \in BOOLEAN
      BY <2>1
    <2>8. ASSUME x3' PROVE x3
      <3>1. x3' # FALSE
        BY <2>8
      <3>2. x3' = x3
        BY <2>1, <3>1
      <3> QED BY <2>8, <3>2
    <2>5. x2' \in BOOLEAN /\ (x3' => x3) /\ x3' \in BOOLEAN
      BY <2>6, <2>7, <2>8
    <2>2. x1' = x1 /\ x4' = x4 /\ x5' = x5
      BY <1>2 DEF Shell!Withdraw, Shell!RedisUpDown
    <2>3. ShellRest
      BY <2>5, <2>2, Zenon DEF ShellRest, Shell!Inductive, Shell!Types
    <2> QED BY <2>2, <2>3, ShellQuietKeeps
  <1> QED BY <1>1, <1>2, ShellHandshake, ShellSession DEF Shell!Next

(* What the inductive invariant says of the terminal.                      *)
LEMMA ShellResults ==
    ASSUME Shell!Inductive
    PROVE  Shell!TypeOK /\ Shell!OneShellPerTicket /\ Shell!WithdrawnOpensNothing
  <1>1. Shell!TypeOK
    BY DEF Shell!Inductive, Shell!Types, Shell!TypeOK, Shell!Pcs
  <1>2. Shell!OneShellPerTicket
    BY DEF Shell!Inductive, Shell!OneShellPerTicket, Shell!TicketsSpent, Shell!ShellsOpened, Shell!Admitted
  <1>3. Shell!WithdrawnOpensNothing
    BY DEF Shell!Inductive, Shell!Types, Shell!WithdrawnOpensNothing, Shell!ShellsOpened
  <1> QED BY <1>1, <1>2, <1>3

----------------------------------------------------------------------------
(* TrainingSync: the releases of the training site *)

TrainJob == [pc : {"idle", "info"} \cup Train!Early \cup Train!Late, rev : Revisions \cup {0},
             data : Revisions \cup {0}, sound : BOOLEAN]

(* A set of natural numbers has a least element, and a greatest one if it  *)
(* is bounded.                                                             *)
LEMMA NatLeast ==
    ASSUME NEW S \in SUBSET Nat, S # {} PROVE \E m \in S : \A n \in S : m <= n
  <1>1. PICK m \in S : \A n \in S : <<n, m>> \notin OpToRel(<, Nat)
    BY NatLessThanWellFounded, WFMin, Zenon
  <1>2. \A n \in S : ~(n < m)
    BY <1>1 DEF OpToRel
  <1> QED BY <1>2

LEMMA NatGreatest ==
    ASSUME NEW S \in SUBSET Nat, S # {}, NEW b \in Nat, \A n \in S : n <= b
    PROVE  \E m \in S : \A n \in S : n <= m
  <1> DEFINE U == {u \in Nat : \A n \in S : n <= u}
  <1>1. PICK m \in U : \A u \in U : m <= u
    BY NatLeast
  <1>2. m \in S
    <2> SUFFICES ASSUME m \notin S PROVE FALSE
      OBVIOUS
    <2>1. \A n \in S : n < m
      BY <1>1
    <2>2. PICK n0 \in S : n0 < m
      BY <2>1
    <2>3. m - 1 \in Nat /\ \A n \in S : n <= m - 1
      BY <2>1, <2>2, <1>1
    <2>4. m - 1 \in U
      BY <2>3
    <2> QED BY <2>4, <1>1
  <1> QED BY <1>1, <1>2

(* Of a finite set whose members have different ages, at most k have less  *)
(* than k that are newer.                                                  *)
LEMMA NewestKept ==
    ASSUME NEW S, IsFiniteSet(S), NEW f \in [S -> Nat], \A r, s \in S : r # s => f[r] # f[s],
           NEW k \in Nat
    PROVE  Cardinality({r \in S : Cardinality({s \in S : f[s] > f[r]}) < k}) <= k
  <1> DEFINE Newer(r) == {s \in S : f[s] > f[r]}
             T == {r \in S : Cardinality(Newer(r)) < k}
  <1> SUFFICES Cardinality(T) <= k
    OBVIOUS
  <1>1. IsFiniteSet(T) /\ Cardinality(T) \in Nat /\ T \subseteq S
    BY FS_Subset, FS_CardinalityType
  <1>2. CASE T = {}
    <2> HIDE DEF T
    <2> QED BY <1>2, FS_EmptySet
  <1>3. CASE T # {}
    <2>1. PICK a \in {f[r] : r \in T} : \A b \in {f[r] : r \in T} : a <= b
      <3>1. {f[r] : r \in T} \in SUBSET Nat /\ {f[r] : r \in T} # {}
        BY <1>3
      <3> HIDE DEF T
      <3> QED BY <3>1, NatLeast
    <2>2. PICK m \in T : a = f[m]
      BY <2>1
    <2>3. \A r \in T \ {m} : f[r] > f[m]
      <3> SUFFICES ASSUME NEW r \in T, r # m PROVE f[r] > f[m]
        OBVIOUS
      <3>1. f[r] \in Nat /\ f[m] \in Nat /\ f[r] # f[m]
        BY <1>1, <2>2
      <3>2. f[m] <= f[r]
        BY <2>1, <2>2
      <3> QED BY <3>1, <3>2
    <2>4. T \ {m} \subseteq Newer(m)
      BY <2>3, <1>1
    <2>5. IsFiniteSet(Newer(m)) /\ Cardinality(Newer(m)) \in Nat /\ Cardinality(Newer(m)) < k
      BY <2>2, FS_Subset, FS_CardinalityType
    <2>6. Cardinality(T \ {m}) <= Cardinality(Newer(m)) /\ Cardinality(T \ {m}) \in Nat
      BY <2>4, <2>5, FS_Subset, FS_CardinalityType
    <2>7. Cardinality(T \ {m}) = Cardinality(T) - 1
      BY <1>1, <2>2, FS_RemoveElement
    <2> HIDE DEF T, Newer
    <2> QED BY <2>5, <2>6, <2>7, <1>1
  <1> QED BY <1>2, <1>3

LEMMA TrainInit == Train!Init => Train!Inductive
  <1> SUFFICES ASSUME Train!Init PROVE Train!Inductive
    OBVIOUS
  <1> USE BackgroundAssumption DEF Train!Init, Train!Idle, Train!NoDir, Train!None
  <1>1. Train!Types
    BY DEF Train!Types, Train!Dirs
  <1>2. Train!Locked
    BY DEF Train!Locked, Train!At
  <1>3. Train!Forward
    BY DEF Train!Forward, Train!Published
  <1>4. \A j \in Dispatches : Train!Progress(j)
    BY DEF Train!Progress, Train!Early, Train!Late
  <1>5. Train!SiteServed
    BY DEF Train!SiteServed
  <1>6. Train!Ages
    BY DEF Train!Ages
  <1>7. Train!Kept
    <2>1. Train!Releases \ Train!Added = {}
      BY DEF Train!Releases
    <2>2. Train!Cardinality({}) = 0
      BY FS_EmptySet DEF Train!Cardinality, Cardinality
    <2>3. Train!Cardinality(Train!Releases \ Train!Added) = 0
      BY <2>1, <2>2
    <2> QED BY <2>3 DEF Train!Kept
  <1> QED BY <1>1, <1>2, <1>3, <1>4, <1>5, <1>6, <1>7 DEF Train!Inductive

(* A step of the synchronisation that has, takes or gives back the lock:   *)
(* all others are idle.                                                    *)
TrainHands(j, x) ==
    /\ x \in TrainJob /\ x3' = [x3 EXCEPT ![j] = x]
    /\ x2 \in {j, "none"} /\ x2' = IF x.pc = "idle" THEN "none" ELSE j
    /\ x.pc = "idle" => x = Train!Idle

TrainAdded(x) == IF x.pc \in {"switch"} \cup Train!Late THEN {x.rev} ELSE {}

(* Whoever is not idle is alone: the others wait for the lock.             *)
LEMMA TrainAlone ==
    ASSUME Train!Inductive, NEW j \in Dispatches, NEW x, TrainHands(j, x)
    PROVE  /\ x3 \in [Dispatches -> TrainJob] /\ x3' \in [Dispatches -> TrainJob] /\ x3'[j] = x
           /\ \A u \in Dispatches : u # j => x3'[u] = Train!Idle /\ x3[u] = Train!Idle
           /\ Train!Locked' /\ Train!Added' = TrainAdded(x)
  <1>1. x3 \in [Dispatches -> TrainJob] /\ x3' \in [Dispatches -> TrainJob] /\ x3'[j] = x
    BY DEF TrainHands, Train!Inductive, Train!Types, TrainJob, Train!None
  <1>2. \A u \in Dispatches : u # j => x3'[u] = Train!Idle /\ x3[u] = Train!Idle
    BY <1>1, BackgroundAssumption DEF TrainHands, Train!Inductive, Train!Locked, Train!At
  <1>3. Train!Locked'
    <2>1. Train!Idle.pc = "idle"
      BY DEF Train!Idle
    <2>2. /\ x3'[j].pc = "idle" => x3'[j] = Train!Idle
          /\ x3'[j].pc # "idle" => x2' = j
      BY <1>1 DEF TrainHands
    <2>3. \A u \in Dispatches : IF x3'[u].pc = "idle" THEN x3'[u] = Train!Idle ELSE x2' = u
      BY <1>2, <2>1, <2>2
    <2> QED BY <2>3 DEF Train!Locked, Train!At
  <1>4. Train!Idle.pc = "idle"
    BY DEF Train!Idle
  <1>5. \A u \in Dispatches : x3'[u].pc \in {"switch"} \cup Train!Late => u = j
    BY <1>2, <1>4 DEF Train!Late
  <1>6. Train!Added' = {x3'[u].rev : u \in {i \in Dispatches : x3'[i].pc \in {"switch"} \cup Train!Late}}
    BY DEF Train!Added
  <1>7. Train!Added' = TrainAdded(x)
    BY <1>1, <1>5, <1>6 DEF TrainAdded
  <1> QED BY <1>1, <1>2, <1>3, <1>7

(* What the step leaves of the site.                                       *)
TrainDisk ==
    /\ x1' = x1 /\ x4' \in [Revisions -> Train!Dirs] /\ x5' \in [Revisions -> Train!Dirs]
    /\ x6' \in Revisions \cup {0} /\ x7' \in Revisions \cup {0} /\ x8' \in Revisions \cup {0}
    /\ x9' \in [runs : Nat, faults : Nat, bad : Nat]
    /\ Train!Forward' /\ Train!SiteServed'

TrainHas(x) ==
    /\ x.pc \in Train!Early \cup Train!Late => x.rev \in Revisions /\ x.rev <= x1.rev
    /\ x.pc \in Train!Early => x6' <= x.rev /\ (x.rev = x6' => x7' # x6')
    /\ x.pc \in {"checksum", "extract", "remove"} => x.rev <= x.data /\ x.data <= x1.rev
    /\ x.pc \in {"remove", "rename"} => x5'[x.rev] # Train!NoDir
    /\ x.pc \in {"switch"} \cup Train!Late => x4'[x.rev] # Train!NoDir
    /\ x.pc \in Train!Late => x.rev = x6'

TrainAges(x) ==
    /\ \A r \in Revisions : x4'[r].age <= x9'.runs /\ x5'[r].age <= x9'.runs
    /\ x.pc \in {"info", "archive", "checksum", "extract"} => \A r \in Revisions : x4'[r].age < x9'.runs
    /\ \A r, s \in Revisions : r # s /\ x4'[r] # Train!NoDir => x4'[r].age # x4'[s].age
    /\ x.pc \in {"remove", "rename"} => \A r \in Revisions : x4'[r].age < x5'[x.rev].age

TrainKept(x) ==
    x9'.faults = 0 => Cardinality({r \in Revisions : x4'[r] # Train!NoDir} \ TrainAdded(x)) <= KeepReleases

(* The parts together: a step that keeps each keeps the invariant.         *)
LEMMA TrainStepKeeps ==
    ASSUME Train!Inductive, NEW j \in Dispatches, NEW x, TrainHands(j, x), TrainDisk, TrainHas(x),
           TrainAges(x), TrainKept(x)
    PROVE  Train!Inductive'
  <1>1. /\ x3' \in [Dispatches -> TrainJob] /\ x3'[j] = x /\ Train!Locked' /\ Train!Added' = TrainAdded(x)
        /\ \A u \in Dispatches : u # j => x3'[u].pc = "idle"
    BY TrainAlone DEF Train!Idle
  <1>2. Train!Types'
    <2>1. x2' \in Dispatches \cup {"none"}
      BY DEF TrainHands
    <2>2. x1' \in [rev : Revisions, sound : BOOLEAN]
      BY DEF TrainDisk, Train!Inductive, Train!Types
    <2> QED BY <1>1, <2>1, <2>2 DEF Train!Types, TrainDisk, TrainJob, Train!None
  <1>3. \A u \in Dispatches : Train!Progress(u)'
    BY <1>1 DEF TrainHas, TrainDisk, Train!Progress, Train!Early, Train!Late
  <1>4. Train!Ages'
    BY <1>1 DEF TrainAges, Train!Ages
  <1>5. Train!Kept'
    <2>1. Train!Releases' = {r \in Revisions : x4'[r] # Train!NoDir}
      BY DEF Train!Releases
    <2>2. \A S : Train!Cardinality(S) = Cardinality(S)
      BY DEF Train!Cardinality, Cardinality
    <2> QED BY <1>1, <2>1, <2>2 DEF TrainKept, Train!Kept
  <1> QED BY <1>1, <1>2, <1>3, <1>4, <1>5 DEF TrainDisk, Train!Inductive

(* What holds while j is under way.                                        *)
LEMMA TrainHeld ==
    ASSUME Train!Inductive, NEW j \in Dispatches, x3[j].pc # "idle"
    PROVE  /\ x2 = j /\ x3 \in [Dispatches -> TrainJob] /\ x3[j] \in TrainJob
           /\ x1.rev \in Revisions /\ x1.rev \in Nat /\ x1.sound \in BOOLEAN
           /\ x4 \in [Revisions -> Train!Dirs] /\ x5 \in [Revisions -> Train!Dirs]
           /\ x6 \in Revisions \cup {0} /\ x7 \in Revisions \cup {0} /\ x8 \in Revisions \cup {0}
           /\ x6 \in Nat /\ x7 \in Nat /\ x8 \in Nat
           /\ x9 \in [runs : Nat, faults : Nat, bad : Nat]
           /\ x9.faults = 0 =>
                Cardinality({r \in Revisions : x4[r] # Train!NoDir} \ TrainAdded(x3[j])) <= KeepReleases
  <1>1. x2 = j
    BY DEF Train!Inductive, Train!Locked, Train!At
  <1>2. x3 \in [Dispatches -> TrainJob]
    BY DEF Train!Inductive, Train!Types, TrainJob, Train!None
  <1>3. \A u \in Dispatches : u # j => x3[u].pc = "idle"
    BY <1>1 DEF Train!Inductive, Train!Locked, Train!At
  <1>4. Train!Added = TrainAdded(x3[j])
    <2>1. \A u \in Dispatches : x3[u].pc \in {"switch"} \cup Train!Late => u = j
      BY <1>3 DEF Train!Late
    <2>2. Train!Added = {x3[u].rev : u \in {i \in Dispatches : x3[i].pc \in {"switch"} \cup Train!Late}}
      BY DEF Train!Added
    <2> QED BY <2>1, <2>2 DEF TrainAdded
  <1>5. \A S : Train!Cardinality(S) = Cardinality(S)
    BY DEF Train!Cardinality, Cardinality
  <1>6. Train!Releases = {r \in Revisions : x4[r] # Train!NoDir}
    BY DEF Train!Releases
  <1>7. x9.faults = 0 =>
          Cardinality({r \in Revisions : x4[r] # Train!NoDir} \ TrainAdded(x3[j])) <= KeepReleases
    BY <1>4, <1>5, <1>6 DEF Train!Inductive, Train!Kept
  <1>8. Train!Types
    BY DEF Train!Inductive
  <1>9. /\ x1.rev \in Revisions /\ x1.sound \in BOOLEAN
        /\ x4 \in [Revisions -> Train!Dirs] /\ x5 \in [Revisions -> Train!Dirs]
        /\ x6 \in Revisions \cup {0} /\ x7 \in Revisions \cup {0} /\ x8 \in Revisions \cup {0}
        /\ x9 \in [runs : Nat, faults : Nat, bad : Nat]
    BY <1>8 DEF Train!Types, Train!None
  <1>10. \A r \in Revisions \cup {0} : r \in Nat
    BY BackgroundAssumption
  <1> QED BY <1>1, <1>2, <1>7, <1>9, <1>10

LEMMA TrainCounts ==
    ASSUME Train!Inductive
    PROVE  /\ x9.runs \in Nat /\ 0 <= x9.runs
           /\ \A r \in Revisions : x4[r].age \in Nat /\ x5[r].age \in Nat
           /\ \A r \in Revisions : x4[r].age <= x9.runs /\ x5[r].age <= x9.runs
  <1>1. /\ x9.runs \in Nat
        /\ \A r \in Revisions : x4[r].age \in Nat /\ x5[r].age \in Nat
    BY DEF Train!Inductive, Train!Types, Train!Dirs
  <1> QED BY <1>1 DEF Train!Inductive, Train!Ages

(* The requests of a synchronisation change nothing on the disk.           *)
LEMMA TrainRequestKeeps ==
    ASSUME Train!Inductive, NEW j \in Dispatches, NEW x, TrainHands(j, x),
           x3[j].pc \in {"info", "archive", "checksum", "extract"},
           x.pc \in {"idle", "archive", "checksum", "extract"},
           UNCHANGED <<x1, x4, x5, x6, x7, x8, x9>>, TrainHas(x)
    PROVE  Train!Inductive'
  <1>1. TrainAdded(x) = {} /\ TrainAdded(x3[j]) = {}
    BY DEF TrainAdded, Train!Late
  <1>2. TrainKept(x)
    BY <1>1, TrainHeld DEF TrainKept
  <1>3. TrainAges(x)
    BY TrainHeld DEF TrainAges, Train!Inductive, Train!Ages
  <1>4. TrainDisk
    <2>1. Train!Forward' /\ Train!SiteServed'
      BY DEF Train!Inductive, Train!Forward, Train!Published, Train!SiteServed
    <2> QED BY <2>1, TrainHeld DEF TrainDisk
  <1> QED BY <1>2, <1>3, <1>4, TrainStepKeeps

LEMMA TrainLeaves ==
    ASSUME Train!Inductive, NEW j \in Dispatches, x3[j].pc # "idle", Train!Leave(j)
    PROVE  TrainHands(j, Train!Idle) /\ TrainHas(Train!Idle) /\ TrainAdded(Train!Idle) = {}
  <1>1. Train!Idle \in TrainJob /\ Train!Idle.pc = "idle"
    BY DEF Train!Idle, TrainJob, Train!None
  <1>2. TrainHands(j, Train!Idle)
    BY <1>1, TrainHeld DEF Train!Leave, TrainHands
  <1> QED BY <1>1, <1>2 DEF TrainHas, TrainAdded, Train!Early, Train!Late

TrainTo(j, x, pc) ==
    /\ TrainHands(j, x) /\ x.pc = pc /\ x.rev = x3[j].rev /\ x.data = x3[j].data /\ x.sound = x3[j].sound

LEMMA TrainGoes ==
    ASSUME Train!Inductive, NEW j \in Dispatches, x3[j].pc # "idle", x2' = x2,
           NEW pc \in {"info"} \cup Train!Early \cup Train!Late, Train!Goto(j, pc)
    PROVE  \E x : TrainTo(j, x, pc)
  <1> DEFINE x == [x3[j] EXCEPT !.pc = pc]
  <1>1. x \in TrainJob /\ x.pc = pc /\ x.rev = x3[j].rev /\ x.data = x3[j].data /\ x.sound = x3[j].sound
    BY TrainHeld DEF TrainJob
  <1>2. x3' = [x3 EXCEPT ![j] = x]
    BY TrainHeld DEF Train!Goto
  <1>3. pc # "idle"
    BY DEF Train!Early, Train!Late
  <1> HIDE DEF x
  <1>4. TrainHands(j, x)
    BY <1>1, <1>2, <1>3, TrainHeld DEF TrainHands
  <1> QED BY <1>1, <1>4 DEF TrainTo

(* A site that says it is at the revision has it: a run that goes on has   *)
(* not marked the link it is going to replace.                             *)
LEMMA TrainBuildInfo ==
    ASSUME Train!Inductive, NEW j \in Dispatches, Train!FetchBuildInfo(j) PROVE Train!Inductive'
  <1>1. x3[j].pc = "info" /\ UNCHANGED <<x1, x4, x5, x6, x7, x8, x9>>
    BY DEF Train!FetchBuildInfo, Train!At, Train!disk, Train!marks
  <1>2. CASE Train!UpToDate(x1.rev)
    BY <1>1, <1>2, TrainLeaves, TrainRequestKeeps DEF Train!FetchBuildInfo, Train!Idle
  <1>3. CASE ~Train!UpToDate(x1.rev)
    <2> DEFINE x == [x3[j] EXCEPT !.pc = "archive", !.rev = x1.rev]
    <2>1. x \in TrainJob /\ x.pc = "archive" /\ x.rev = x1.rev
      BY <1>1, TrainHeld DEF TrainJob, Train!Early
    <2>2. x3' = [x3 EXCEPT ![j] = x] /\ x2' = x2
      BY <1>1, <1>3, TrainHeld DEF Train!FetchBuildInfo
    <2> HIDE DEF x
    <2>3. TrainHands(j, x)
      BY <2>1, <2>2, <1>1, TrainHeld DEF TrainHands
    <2>4. x6 <= x1.rev
      BY DEF Train!Inductive, Train!Forward
    <2>5. x1.rev = x6 => x7 # x6
      <3> SUFFICES ASSUME x1.rev = x6, x7 = x6 PROVE FALSE
        OBVIOUS
      <3>1. x6 # 0 /\ Train!CurrentRevision = x1.rev
        BY <1>1, TrainHeld, BackgroundAssumption DEF Train!CurrentRevision, Train!None
      <3>2. x4[x6] = Train!NoDir
        BY <3>1, <1>3 DEF Train!UpToDate, Train!CurrentExists, Train!None
      <3> QED BY <3>1, <3>2 DEF Train!Inductive, Train!SiteServed, Train!None
    <2>6. TrainHas(x)
      <3>1. x1.rev \in Revisions /\ x1.rev \in Nat
        BY <1>1, TrainHeld
      <3>2. x1.rev <= x1.rev
        BY <3>1
      <3> QED BY <3>2, <2>1, <2>4, <2>5, <1>1, <3>1 DEF TrainHas, Train!Early, Train!Late
    <2> QED BY <1>1, <2>1, <2>3, <2>6, TrainRequestKeeps
  <1> QED BY <1>2, <1>3

(* The steps of a synchronisation, in the order of the code.               *)
LEMMA TrainArchive ==
    ASSUME Train!Inductive, NEW j \in Dispatches, Train!FetchArchive(j) PROVE Train!Inductive'
  <1>1. x3[j].pc = "archive" /\ UNCHANGED <<x1, x2, x4, x5, x6, x7, x8, x9>>
    BY DEF Train!FetchArchive, Train!At, Train!disk, Train!marks
  <1> DEFINE x == [x3[j] EXCEPT !.pc = "checksum", !.data = x1.rev, !.sound = x1.sound]
  <1>2. x \in TrainJob /\ x.pc = "checksum" /\ x.data = x1.rev /\ x.rev = x3[j].rev
    BY <1>1, TrainHeld DEF TrainJob, Train!Early
  <1>3. x3' = [x3 EXCEPT ![j] = x]
    BY <1>1, TrainHeld DEF Train!FetchArchive
  <1> HIDE DEF x
  <1>4. TrainHands(j, x)
    BY <1>1, <1>2, <1>3, TrainHeld DEF TrainHands
  <1>5. Train!Progress(j)
    BY DEF Train!Inductive
  <1>6. TrainHas(x)
    <2>1. x1.rev \in Revisions /\ x1.rev \in Nat
      BY <1>1, TrainHeld
    <2>2. x1.rev <= x1.rev
      BY <2>1
    <2> QED BY <2>2, <1>1, <1>2, <1>5, <2>1 DEF TrainHas, Train!Progress, Train!Early, Train!Late
  <1> QED BY <1>1, <1>2, <1>4, <1>6, TrainRequestKeeps

LEMMA TrainChecksum ==
    ASSUME Train!Inductive, NEW j \in Dispatches, Train!FetchChecksum(j) PROVE Train!Inductive'
  <1>1. x3[j].pc = "checksum" /\ UNCHANGED <<x1, x4, x5, x6, x7, x8, x9>>
    BY DEF Train!FetchChecksum, Train!At, Train!disk, Train!marks
  <1>2. CASE x3[j].data = x1.rev
    <2>1. /\ x2' = x2 /\ Train!Goto(j, "extract")
          /\ "extract" \in {"info"} \cup Train!Early \cup Train!Late /\ x3[j].pc # "idle"
      BY <1>1, <1>2 DEF Train!FetchChecksum, Train!Early
    <2>2. PICK x : TrainTo(j, x, "extract")
      BY <2>1, TrainGoes, Zenon
    <2>3. Train!Progress(j)
      BY DEF Train!Inductive
    <2>4. TrainHas(x)
      BY <1>1, <2>2, <2>3 DEF TrainTo, TrainHas, Train!Progress, Train!Early, Train!Late
    <2> QED BY <1>1, <2>2, <2>4, TrainRequestKeeps DEF TrainTo
  <1>3. CASE x3[j].data # x1.rev
    BY <1>1, <1>3, TrainLeaves, TrainRequestKeeps DEF Train!FetchChecksum, Train!Idle
  <1> QED BY <1>2, <1>3

(* A release is unpacked newer than all that are there.                    *)
LEMMA TrainNewest ==
    ASSUME Train!Inductive, NEW j \in Dispatches, x3[j].pc = "extract"
    PROVE  /\ Train!Newest \in Nat /\ 1 <= Train!Newest /\ Train!Newest <= x9.runs
           /\ \A r \in Revisions : x4[r].age < Train!Newest
  <1> DEFINE A == {x4[r].age : r \in Revisions}
  <1>1. /\ \A r \in Revisions : x4[r].age \in Nat /\ x4[r].age < x9.runs
        /\ x9.runs \in Nat
    BY TrainHeld DEF Train!Inductive, Train!Ages, Train!Dirs
  <1>2. A \in SUBSET Nat /\ A # {} /\ \A a \in A : a < x9.runs /\ a <= x9.runs
    BY <1>1, BackgroundAssumption
  <1>3. Train!Newest = 1 + CHOOSE a \in A : \A b \in A : b <= a
    BY DEF Train!Newest
  <1>4. \A r \in Revisions : x4[r].age \in A
    OBVIOUS
  <1> HIDE DEF A
  <1>5. \E a \in A : \A b \in A : b <= a
    BY <1>1, <1>2, NatGreatest
  <1>6. PICK a \in A : Train!Newest = 1 + a /\ \A b \in A : b <= a
    BY <1>3, <1>5
  <1> QED BY <1>1, <1>2, <1>4, <1>6

LEMMA TrainExtract ==
    ASSUME Train!Inductive, NEW j \in Dispatches, Train!ExtractArchive(j) PROVE Train!Inductive'
  <1>1. /\ x3[j].pc = "extract" /\ UNCHANGED <<x1, x4, x6, x7, x8, x9>>
        /\ x3[j].rev \in Revisions /\ x3[j].data \in Revisions
    <2>1. x3[j].pc = "extract" /\ UNCHANGED <<x1, x4, x6, x7, x8, x9>>
      BY DEF Train!ExtractArchive, Train!At, Train!marks
    <2>2. Train!Progress(j)
      BY DEF Train!Inductive
    <2>3. /\ x3[j].rev \in Revisions /\ x3[j].rev <= x3[j].data
          /\ x3[j].data \in Revisions \cup {0}
      BY <2>1, <2>2, TrainHeld DEF Train!Progress, Train!Early, TrainJob
    <2>4. x3[j].rev \in Nat /\ x3[j].rev # 0
      BY <2>3, BackgroundAssumption
    <2>5. ~(x3[j].rev <= 0)
      BY <2>4
    <2>6. x3[j].data # 0
      BY <2>3, <2>5
    <2> QED BY <2>1, <2>3, <2>6
  <1>2. Train!Progress(j)
    BY DEF Train!Inductive
  <1>3. TrainAdded(x3[j]) = {}
    BY <1>1 DEF TrainAdded, Train!Late
  <1>4. x9.faults = 0 => Cardinality({r \in Revisions : x4[r] # Train!NoDir}) <= KeepReleases
    BY <1>1, <1>3, TrainHeld
  <1>5. CASE x3[j].sound
    <2> DEFINE d == [data |-> x3[j].data, age |-> Train!Newest]
    <2>1. /\ d \in Train!Dirs /\ d.data = x3[j].data /\ d.age = Train!Newest /\ d # Train!NoDir
          /\ x5' = [x5 EXCEPT ![x3[j].rev] = d] /\ x2' = x2 /\ Train!Goto(j, "remove")
      BY <1>1, <1>5, TrainNewest, BackgroundAssumption
      DEF Train!ExtractArchive, Train!Dirs, Train!NoDir, Train!None
    <2> HIDE DEF d
    <2>2. PICK x : TrainTo(j, x, "remove")
      <3>1. "remove" \in {"info"} \cup Train!Early \cup Train!Late /\ x3[j].pc # "idle"
        BY <1>1 DEF Train!Early
      <3> QED BY <2>1, <3>1, TrainGoes, Zenon
    <2>3. /\ x5' \in [Revisions -> Train!Dirs] /\ x5'[x3[j].rev] = d
          /\ \A r \in Revisions : r # x3[j].rev => x5'[r] = x5[r]
      BY <1>1, <2>1, TrainHeld
    <2>4. TrainAdded(x) = {}
      BY <2>2 DEF TrainTo, TrainAdded, Train!Late
    <2>5. TrainKept(x)
      BY <1>1, <1>4, <2>4 DEF TrainKept
    <2>6. TrainAges(x)
      <3>1. \A r \in Revisions : x4[r].age < d.age /\ x4[r].age <= x9.runs /\ d.age <= x9.runs
        BY <1>1, <2>1, TrainNewest DEF Train!Inductive, Train!Ages
      <3>2. \A r \in Revisions : x5'[r].age <= x9.runs
        BY <2>3, <3>1, <1>1 DEF Train!Inductive, Train!Ages
      <3>3. x.pc = "remove" /\ x.rev = x3[j].rev
        BY <2>2 DEF TrainTo
      <3> QED BY <1>1, <2>3, <3>1, <3>2, <3>3 DEF TrainAges, Train!Inductive, Train!Ages
    <2>7. TrainHas(x)
      BY <1>1, <1>2, <2>1, <2>2, <2>3 DEF TrainTo, TrainHas, Train!Progress, Train!Early, Train!Late
    <2>8. TrainDisk
      <3>1. x3[j].rev <= d.data /\ d.data <= x1.rev /\ d.age >= 1
        BY <1>1, <1>2, <2>1, TrainNewest DEF Train!Progress
      <3>2. Train!Forward'
        BY <1>1, <2>3, <3>1 DEF Train!Inductive, Train!Forward, Train!Published
      <3>3. Train!SiteServed'
        BY <1>1 DEF Train!Inductive, Train!SiteServed
      <3> QED BY <1>1, <2>3, <3>2, <3>3, TrainHeld DEF TrainDisk
    <2> QED BY <2>2, <2>5, <2>6, <2>7, <2>8, TrainStepKeeps DEF TrainTo
  <1>6. CASE ~x3[j].sound
    <2>1. x5' = [x5 EXCEPT ![x3[j].rev] = Train!NoDir] /\ Train!Leave(j)
      BY <1>6 DEF Train!ExtractArchive
    <2>2. /\ TrainHands(j, Train!Idle) /\ TrainHas(Train!Idle) /\ TrainAdded(Train!Idle) = {}
          /\ Train!Idle.pc = "idle" /\ Train!NoDir.age = 0 /\ Train!NoDir \in Train!Dirs
      BY <1>1, <2>1, TrainLeaves DEF Train!Idle, Train!NoDir, Train!Dirs, Train!None
    <2>3. /\ x5' \in [Revisions -> Train!Dirs]
          /\ \A r \in Revisions : x5'[r] = Train!NoDir \/ x5'[r] = x5[r]
      BY <1>1, <2>1, <2>2, TrainHeld
    <2>4. TrainKept(Train!Idle)
      BY <1>1, <1>4, <2>2 DEF TrainKept
    <2>5. TrainAges(Train!Idle)
      <3>1. \A r \in Revisions : x5'[r].age <= x9.runs
        BY <2>2, <2>3, TrainCounts
      <3> QED BY <1>1, <2>2, <3>1 DEF TrainAges, Train!Inductive, Train!Ages
    <2>6. TrainDisk
      <3>1. Train!Forward'
        BY <1>1, <2>3 DEF Train!Inductive, Train!Forward, Train!Published
      <3>2. Train!SiteServed'
        BY <1>1 DEF Train!Inductive, Train!SiteServed
      <3> QED BY <1>1, <2>3, <3>1, <3>2, TrainHeld DEF TrainDisk
    <2> QED BY <2>2, <2>4, <2>5, <2>6, TrainStepKeeps
  <1> QED BY <1>5, <1>6

(* The directory that is removed is not the one REVISION names.            *)
LEMMA TrainRemove ==
    ASSUME Train!Inductive, NEW j \in Dispatches, Train!RemoveTarget(j) PROVE Train!Inductive'
  <1>1. /\ x3[j].pc = "remove" /\ UNCHANGED <<x1, x2, x5, x6, x7, x8, x9>> /\ Train!Goto(j, "rename")
        /\ x4' = [x4 EXCEPT ![x3[j].rev] = Train!NoDir]
    BY DEF Train!RemoveTarget, Train!At, Train!marks
  <1>2. Train!Progress(j)
    BY DEF Train!Inductive
  <1>3. /\ x3[j].rev \in Revisions /\ Train!NoDir \in Train!Dirs /\ Train!NoDir.age = 0
        /\ x3[j].pc # "idle" /\ "rename" \in {"info"} \cup Train!Early \cup Train!Late
    BY <1>1, <1>2 DEF Train!Progress, Train!Early, Train!NoDir, Train!Dirs, Train!None
  <1>4. PICK x : TrainTo(j, x, "rename")
    BY <1>1, <1>3, TrainGoes, Zenon
  <1>5. /\ x4' \in [Revisions -> Train!Dirs] /\ x4'[x3[j].rev] = Train!NoDir
        /\ \A r \in Revisions : r # x3[j].rev => x4'[r] = x4[r]
    BY <1>1, <1>3, TrainHeld
  <1>6. x.pc = "rename" /\ x.rev = x3[j].rev /\ TrainAdded(x) = {} /\ TrainAdded(x3[j]) = {}
    BY <1>1, <1>4 DEF TrainTo, TrainAdded, Train!Late
  <1>7. TrainKept(x)
    <2> DEFINE R == {r \in Revisions : x4[r] # Train!NoDir}
               Q == {r \in Revisions : x4'[r] # Train!NoDir}
    <2>1. Q \subseteq R /\ IsFiniteSet(R)
      BY <1>5, BackgroundAssumption, FS_Subset
    <2>2. Cardinality(Q) <= Cardinality(R) /\ Cardinality(Q) \in Nat /\ Cardinality(R) \in Nat
      BY <2>1, FS_Subset, FS_CardinalityType
    <2>3. x9.faults = 0 => Cardinality(R) <= KeepReleases
      BY <1>3, <1>6, TrainHeld
    <2> HIDE DEF Q, R
    <2>4. x9'.faults = 0 => Cardinality(Q) <= KeepReleases
      BY <1>1, <2>2, <2>3, BackgroundAssumption
    <2> QED BY <1>6, <2>4 DEF TrainKept, Q
  <1>8. TrainAges(x)
    <2>6. \A r \in Revisions : x4[r].age < x5[x3[j].rev].age
      BY <1>1 DEF Train!Inductive, Train!Ages
    <2>1. \A r \in Revisions : /\ x4[r].age \in Nat /\ x4[r].age <= x9.runs /\ x5[r].age <= x9.runs
                               /\ x4[r].age < x5[x3[j].rev].age /\ 0 <= x9.runs /\ x5[r].age \in Nat
      BY <2>6, TrainCounts
    <2>2. \A r \in Revisions : x4'[r].age <= x9.runs /\ x4'[r].age < x5[x3[j].rev].age
      BY <2>1, <1>3, <1>5
    <2>3. \A r \in Revisions : x4[r] # Train!NoDir => x4[r].age >= 1
      BY <2>1 DEF Train!Inductive, Train!Forward, Train!Published
    <2>4. \A r, s \in Revisions : r # s /\ x4[r] # Train!NoDir => x4[r].age # x4[s].age
      BY DEF Train!Inductive, Train!Ages
    <2>5. \A r, s \in Revisions : r # s /\ x4'[r] # Train!NoDir => x4'[r].age # x4'[s].age
      BY <2>3, <2>4, <1>3, <1>5
    <2> QED BY <1>1, <1>6, <2>1, <2>2, <2>5 DEF TrainAges
  <1>9. TrainHas(x)
    BY <1>1, <1>2, <1>6 DEF TrainHas, Train!Progress, Train!Early, Train!Late
  <1>10. TrainDisk
    <2>1. Train!Forward'
      BY <1>1, <1>5 DEF Train!Inductive, Train!Forward, Train!Published
    <2>2. Train!SiteServed'
      BY <1>1, <1>2, <1>3, <1>5, TrainHeld
      DEF Train!Inductive, Train!SiteServed, Train!Progress, Train!Early, Train!None
    <2> QED BY <1>1, <1>3, <1>5, <2>1, <2>2, TrainHeld DEF TrainDisk
  <1> QED BY <1>4, <1>7, <1>8, <1>9, <1>10, TrainStepKeeps DEF TrainTo

LEMMA TrainRename ==
    ASSUME Train!Inductive, NEW j \in Dispatches, Train!RenameStaging(j) PROVE Train!Inductive'
  <1>1. /\ x3[j].pc = "rename" /\ UNCHANGED <<x1, x2, x6, x7, x8, x9>> /\ Train!Goto(j, "switch")
        /\ x4' = [x4 EXCEPT ![x3[j].rev] = x5[x3[j].rev]]
        /\ x5' = [x5 EXCEPT ![x3[j].rev] = Train!NoDir]
    BY DEF Train!RenameStaging, Train!At, Train!marks
  <1>2. Train!Progress(j)
    BY DEF Train!Inductive
  <1>3. /\ x3[j].rev \in Revisions /\ Train!NoDir \in Train!Dirs /\ Train!NoDir.age = 0
        /\ x3[j].pc # "idle" /\ "switch" \in {"info"} \cup Train!Early \cup Train!Late
        /\ x5[x3[j].rev] # Train!NoDir
    BY <1>1, <1>2 DEF Train!Progress, Train!Early, Train!NoDir, Train!Dirs, Train!None
  <1>4. PICK x : TrainTo(j, x, "switch")
    BY <1>1, <1>3, TrainGoes, Zenon
  <1>5. /\ x4' \in [Revisions -> Train!Dirs] /\ x4'[x3[j].rev] = x5[x3[j].rev]
        /\ \A r \in Revisions : r # x3[j].rev => x4'[r] = x4[r]
        /\ x5' \in [Revisions -> Train!Dirs] /\ x5'[x3[j].rev] = Train!NoDir
        /\ \A r \in Revisions : r # x3[j].rev => x5'[r] = x5[r]
    BY <1>1, <1>3, TrainHeld
  <1>6. /\ x.pc = "switch" /\ x.rev = x3[j].rev /\ TrainAdded(x) = {x3[j].rev}
        /\ TrainAdded(x3[j]) = {}
    BY <1>1, <1>4 DEF TrainTo, TrainAdded, Train!Late
  <1>7. TrainKept(x)
    <2> DEFINE R == {r \in Revisions : x4[r] # Train!NoDir}
               Q == {r \in Revisions : x4'[r] # Train!NoDir} \ {x3[j].rev}
    <2>1. Q \subseteq R /\ IsFiniteSet(R)
      BY <1>5, BackgroundAssumption, FS_Subset
    <2>2. Cardinality(Q) <= Cardinality(R) /\ Cardinality(Q) \in Nat /\ Cardinality(R) \in Nat
      BY <2>1, FS_Subset, FS_CardinalityType
    <2>3. x9.faults = 0 => Cardinality(R) <= KeepReleases
      BY <1>3, <1>6, TrainHeld
    <2> HIDE DEF Q, R
    <2>4. x9'.faults = 0 => Cardinality(Q) <= KeepReleases
      BY <1>1, <2>2, <2>3, BackgroundAssumption
    <2> QED BY <1>6, <2>4 DEF TrainKept, Q
  <1>8. TrainAges(x)
    <2>6. \A r \in Revisions : x4[r].age < x5[x3[j].rev].age
      BY <1>1 DEF Train!Inductive, Train!Ages
    <2>1. \A r \in Revisions : /\ x4[r].age \in Nat /\ x4[r].age <= x9.runs /\ x5[r].age <= x9.runs
                               /\ x4[r].age < x5[x3[j].rev].age /\ 0 <= x9.runs /\ x5[r].age \in Nat
      BY <2>6, TrainCounts
    <2>2. \A r \in Revisions : x4'[r].age <= x9.runs /\ x5'[r].age <= x9.runs
      BY <2>1, <1>3, <1>5
    <2>4. \A r, s \in Revisions : r # s /\ x4[r] # Train!NoDir => x4[r].age # x4[s].age
      BY DEF Train!Inductive, Train!Ages
    <2>5. \A r, s \in Revisions : r # s /\ x4'[r] # Train!NoDir => x4'[r].age # x4'[s].age
      BY <2>1, <2>4, <1>3, <1>5
    <2> QED BY <1>1, <1>6, <2>2, <2>5 DEF TrainAges
  <1>9. TrainHas(x)
    BY <1>1, <1>2, <1>3, <1>5, <1>6 DEF TrainHas, Train!Progress, Train!Early, Train!Late
  <1>10. TrainDisk
    <2>1. Train!Forward'
      BY <1>1, <1>3, <1>5 DEF Train!Inductive, Train!Forward, Train!Published
    <2>2. Train!SiteServed'
      BY <1>1, <1>3, <1>5, TrainHeld DEF Train!Inductive, Train!SiteServed, Train!None
    <2> QED BY <1>1, <1>3, <1>5, <2>1, <2>2, TrainHeld DEF TrainDisk
  <1> QED BY <1>4, <1>7, <1>8, <1>9, <1>10, TrainStepKeeps DEF TrainTo

(* Ages when no release changes.                                           *)
LEMMA TrainSameAges ==
    ASSUME Train!Inductive, UNCHANGED <<x4, x5, x9>>, NEW x,
           x.pc \notin {"info", "archive", "checksum", "extract", "remove", "rename"}
    PROVE  TrainAges(x)
  BY DEF TrainAges, Train!Inductive, Train!Ages

LEMMA TrainSwitch ==
    ASSUME Train!Inductive, NEW j \in Dispatches, Train!SwitchCurrent(j) PROVE Train!Inductive'
  <1>1. /\ x3[j].pc = "switch" /\ UNCHANGED <<x1, x2, x4, x5, x7, x8, x9>> /\ Train!Goto(j, "mark")
        /\ x6' = x3[j].rev
    BY DEF Train!SwitchCurrent, Train!At, Train!marks
  <1>2. Train!Progress(j)
    BY DEF Train!Inductive
  <1>3. /\ x3[j].rev \in Revisions /\ x4[x3[j].rev] # Train!NoDir /\ x6 <= x3[j].rev
        /\ x3[j].rev <= x1.rev
        /\ x3[j].pc # "idle" /\ "mark" \in {"info"} \cup Train!Early \cup Train!Late
    BY <1>1, <1>2 DEF Train!Progress, Train!Early, Train!Late
  <1>4. PICK x : TrainTo(j, x, "mark")
    BY <1>1, <1>3, TrainGoes, Zenon
  <1>5. x.pc = "mark" /\ x.rev = x3[j].rev /\ TrainAdded(x) = TrainAdded(x3[j])
    BY <1>1, <1>4 DEF TrainTo, TrainAdded, Train!Late
  <1>6. TrainKept(x)
    BY <1>1, <1>3, <1>5, TrainHeld DEF TrainKept
  <1>7. TrainAges(x)
    BY <1>1, <1>5, TrainSameAges
  <1>8. TrainHas(x)
    BY <1>1, <1>3, <1>5 DEF TrainHas, Train!Early, Train!Late
  <1>9. TrainDisk
    <2>1. /\ x7 <= x6 /\ x8 <= x6 /\ x6 \in Nat /\ x7 \in Nat /\ x8 \in Nat /\ x3[j].rev \in Nat
          /\ \A r \in Revisions : Train!Published(x4[r], r) /\ Train!Published(x5[r], r)
      BY <1>3, TrainHeld, BackgroundAssumption DEF Train!Inductive, Train!Forward
    <2>2. x7 <= x3[j].rev /\ x8 <= x3[j].rev
      BY <2>1, <1>3
    <2>3. Train!Forward'
      BY <1>1, <1>3, <2>1, <2>2 DEF Train!Forward, Train!Published
    <2>4. Train!SiteServed'
      BY <1>1, <1>3 DEF Train!SiteServed
    <2> QED BY <1>1, <1>3, <2>3, <2>4, TrainHeld DEF TrainDisk
  <1> QED BY <1>4, <1>6, <1>7, <1>8, <1>9, TrainStepKeeps DEF TrainTo

LEMMA TrainWrite ==
    ASSUME Train!Inductive, NEW j \in Dispatches, Train!WriteRevision(j) PROVE Train!Inductive'
  <1>1. /\ x3[j].pc = "mark" /\ UNCHANGED <<x1, x2, x4, x5, x6, x9>> /\ Train!Goto(j, "prune")
        /\ x7' = x3[j].rev /\ x8' \in {x8, x3[j].rev}
    BY DEF Train!WriteRevision, Train!At, Train!disk
  <1>2. Train!Progress(j)
    BY DEF Train!Inductive
  <1>3. /\ x3[j].rev \in Revisions /\ x4[x3[j].rev] # Train!NoDir /\ x6 = x3[j].rev
        /\ x3[j].rev <= x1.rev
        /\ x3[j].pc # "idle" /\ "prune" \in {"info"} \cup Train!Early \cup Train!Late
    BY <1>1, <1>2 DEF Train!Progress, Train!Early, Train!Late
  <1>4. PICK x : TrainTo(j, x, "prune")
    BY <1>1, <1>3, TrainGoes, Zenon
  <1>5. x.pc = "prune" /\ x.rev = x3[j].rev /\ TrainAdded(x) = TrainAdded(x3[j])
    BY <1>1, <1>4 DEF TrainTo, TrainAdded, Train!Late
  <1>6. TrainKept(x)
    BY <1>1, <1>3, <1>5, TrainHeld DEF TrainKept
  <1>7. TrainAges(x)
    BY <1>1, <1>5, TrainSameAges
  <1>8. TrainHas(x)
    BY <1>1, <1>3, <1>5 DEF TrainHas, Train!Early, Train!Late
  <1>9. TrainDisk
    <2>0. /\ x8 <= x6 /\ x6 \in Nat /\ x6 <= x1.rev
          /\ \A r \in Revisions : Train!Published(x4[r], r) /\ Train!Published(x5[r], r)
      BY <1>3, TrainHeld DEF Train!Inductive, Train!Forward
    <2>1. x3[j].rev <= x6
      BY <1>3, <2>0
    <2>3. Train!Forward'
      BY <1>1, <2>0, <2>1 DEF Train!Forward, Train!Published
    <2>4. Train!SiteServed'
      BY <1>1, <1>3 DEF Train!SiteServed
    <2> QED BY <1>1, <1>3, <2>3, <2>4, TrainHeld DEF TrainDisk
  <1> QED BY <1>4, <1>6, <1>7, <1>8, <1>9, TrainStepKeeps DEF TrainTo

(* KEEP_RELEASES - 1 others, and the one that is served.                   *)
LEMMA TrainPrune ==
    ASSUME Train!Inductive, NEW j \in Dispatches, Train!PruneOldReleases(j) PROVE Train!Inductive'
  <1> DEFINE R == x3[j].rev
             O == {r \in Revisions : x4[r] # Train!NoDir /\ r # R}
             Newer(r) == {s \in O : x4[s].age > x4[r].age}
             f == [r \in O |-> x4[r].age]
             K == {r \in O : Cardinality({s \in O : f[s] > f[r]}) < KeepReleases - 1}
             Q == {r \in Revisions : x4'[r] # Train!NoDir}
  <1>1. /\ x3[j].pc = "prune" /\ UNCHANGED <<x1, x5, x6, x7, x8, x9>> /\ Train!Leave(j)
        /\ x4' = [r \in Revisions |-> IF r \in O /\ Train!Cardinality(Newer(r)) >= KeepReleases - 1
                                       THEN Train!NoDir ELSE x4[r]]
    BY DEF Train!PruneOldReleases, Train!Prunable, Train!At, Train!marks
  <1>2. Train!Progress(j) /\ x3[j].pc # "idle"
    BY <1>1 DEF Train!Inductive
  <1>3. R \in Revisions /\ x4[R] # Train!NoDir /\ x6 = R
    BY <1>1, <1>2 DEF Train!Progress, Train!Late
  <1>4. /\ TrainHands(j, Train!Idle) /\ TrainHas(Train!Idle) /\ TrainAdded(Train!Idle) = {}
        /\ Train!Idle.pc = "idle" /\ Train!NoDir \in Train!Dirs /\ Train!NoDir.age = 0
    BY <1>1, <1>2, TrainLeaves DEF Train!Idle, Train!NoDir, Train!Dirs, Train!None
  <1>5. \A r \in O : Cardinality(Newer(r)) \in Nat
    <2>1. IsFiniteSet(O)
      BY BackgroundAssumption, FS_Subset
    <2> QED BY <2>1, FS_Subset, FS_CardinalityType
  <1>6. /\ x4' \in [Revisions -> Train!Dirs] /\ x4'[R] = x4[R]
        /\ \A r \in Revisions : x4'[r] = x4[r] \/ x4'[r] = Train!NoDir
    BY <1>1, <1>2, <1>3, <1>4, TrainHeld
  <1>7. Q \subseteq K \cup {R}
    <2> SUFFICES ASSUME NEW r \in Revisions, x4'[r] # Train!NoDir, r # R PROVE r \in K
      OBVIOUS
    <2>1. r \in O
      BY <1>6
    <2>2. ~(Train!Cardinality(Newer(r)) >= KeepReleases - 1)
      BY <1>1, <2>1
    <2>3. Train!Cardinality(Newer(r)) = Cardinality(Newer(r))
      BY DEF Train!Cardinality, Cardinality
    <2>4. {s \in O : f[s] > f[r]} = Newer(r)
      BY <2>1
    <2>5. Cardinality(Newer(r)) < KeepReleases - 1
      BY <2>1, <2>2, <2>3, <1>5, BackgroundAssumption
    <2> QED BY <2>1, <2>4, <2>5
  <1>8. Cardinality(K) <= KeepReleases - 1 /\ IsFiniteSet(K) /\ Cardinality(K) \in Nat
    <2>0. f \in [O -> Nat]
      BY TrainCounts
    <2>1. IsFiniteSet(O) /\ f \in [O -> Nat] /\ KeepReleases - 1 \in Nat
      <3>1. IsFiniteSet(O)
        BY BackgroundAssumption, FS_Subset
      <3>2. KeepReleases - 1 \in Nat
        BY BackgroundAssumption
      <3> QED BY <2>0, <3>1, <3>2
    <2>2. \A r, s \in O : r # s => f[r] # f[s]
      BY DEF Train!Inductive, Train!Ages
    <2>3. IsFiniteSet(K)
      BY <2>1, FS_Subset
    <2> HIDE DEF O, f
    <2>4. Cardinality(K) <= KeepReleases - 1
      BY <2>1, <2>2, NewestKept
    <2> QED BY <2>3, <2>4, FS_CardinalityType
  <1> HIDE DEF K
  <1>9. Cardinality(Q) <= KeepReleases
    <2>1. IsFiniteSet(K \cup {R}) /\ Cardinality(K \cup {R}) \in Nat
      BY <1>8, FS_AddElement, FS_CardinalityType
    <2>2. Cardinality(K \cup {R}) <= Cardinality(K) + 1
      <3> HIDE DEF R
      <3>1. \/ Cardinality(K \cup {R}) = Cardinality(K)
            \/ Cardinality(K \cup {R}) = Cardinality(K) + 1
        BY <1>8, FS_AddElement
      <3> QED BY <1>8, <3>1
    <2>3. Cardinality(Q) <= Cardinality(K \cup {R}) /\ Cardinality(Q) \in Nat
      BY <1>7, <2>1, FS_Subset, FS_CardinalityType
    <2> HIDE DEF Q, R
    <2> QED BY <2>1, <2>2, <2>3, <1>8, BackgroundAssumption
  <1>10. TrainKept(Train!Idle)
    BY <1>4, <1>9 DEF TrainKept
  <1>11. TrainAges(Train!Idle)
    <2>1. \A r \in Revisions : x4'[r].age <= x9.runs /\ x5[r].age <= x9.runs
      BY <1>4, <1>6, TrainCounts
    <2>2. \A r \in Revisions : x4[r] # Train!NoDir => x4[r].age >= 1
      BY DEF Train!Inductive, Train!Forward, Train!Published
    <2>3. \A r, s \in Revisions : r # s /\ x4[r] # Train!NoDir => x4[r].age # x4[s].age
      BY DEF Train!Inductive, Train!Ages
    <2>4. \A r, s \in Revisions : r # s /\ x4'[r] # Train!NoDir => x4'[r].age # x4'[s].age
      <3> HIDE DEF O, R
      <3> QED BY <1>4, <1>6, <2>2, <2>3
    <2> QED BY <1>1, <1>4, <2>1, <2>4 DEF TrainAges
  <1>12. TrainDisk
    <2>1. Train!Forward'
      BY <1>1, <1>6 DEF Train!Inductive, Train!Forward, Train!Published
    <2>2. Train!SiteServed'
      BY <1>1, <1>3, <1>6 DEF Train!SiteServed
    <2> QED BY <1>1, <1>2, <1>6, <2>1, <2>2, TrainHeld DEF TrainDisk
  <1> QED BY <1>4, <1>10, <1>11, <1>12, TrainStepKeeps

(* A run begins, or finds the lock taken and is done.                      *)
LEMMA TrainRun ==
    ASSUME Train!Inductive, NEW j \in Dispatches, Train!Run(j) PROVE Train!Inductive'
  <1>1. /\ x3[j].pc = "idle" /\ UNCHANGED <<x1, x4, x5, x6, x7, x8>>
        /\ x9' = [x9 EXCEPT !["runs"] = @ + 1]
    BY DEF Train!Run, Train!At, Train!Count, Train!disk, Train!marks
  <1>2. x9' \in [runs : Nat, faults : Nat, bad : Nat] /\ x9'.runs = x9.runs + 1 /\ x9'.faults = x9.faults
    BY <1>1 DEF Train!Inductive, Train!Types
  <1>3. \A r \in Revisions : x4[r].age < x9'.runs /\ x4[r].age <= x9'.runs /\ x5[r].age <= x9'.runs
    BY <1>2, TrainCounts
  <1>4. Train!Forward' /\ Train!SiteServed'
    BY <1>1 DEF Train!Inductive, Train!Forward, Train!Published, Train!SiteServed
  <1>5. Train!Types
    BY DEF Train!Inductive
  <1>6. CASE x2 = "none"
    <2> DEFINE x == [x3[j] EXCEPT !.pc = "info"]
    <2>1. x \in TrainJob /\ x.pc = "info" /\ x3 \in [Dispatches -> TrainJob]
      BY <1>5 DEF Train!Types, TrainJob, Train!None
    <2>2. x3' = [x3 EXCEPT ![j] = x] /\ x2' = j
      BY <1>6 DEF Train!Run, Train!Goto
    <2> HIDE DEF x
    <2>3. TrainHands(j, x)
      BY <1>6, <2>1, <2>2 DEF TrainHands
    <2>4. TrainAdded(x) = {} /\ TrainHas(x)
      BY <2>1 DEF TrainAdded, TrainHas, Train!Early, Train!Late
    <2>5. TrainKept(x)
      <3>1. Train!Added = {}
        BY <1>6, BackgroundAssumption DEF Train!Inductive, Train!Locked, Train!At, Train!Added, Train!Late
      <3>2. Train!Releases = {r \in Revisions : x4[r] # Train!NoDir}
        BY DEF Train!Releases
      <3>3. \A S : Train!Cardinality(S) = Cardinality(S)
        BY DEF Train!Cardinality, Cardinality
      <3>4. x9.faults = 0 => Cardinality({r \in Revisions : x4[r] # Train!NoDir} \ {}) <= KeepReleases
        BY <3>1, <3>2, <3>3 DEF Train!Inductive, Train!Kept
      <3> QED BY <1>1, <1>2, <2>4, <3>4 DEF TrainKept
    <2>6. TrainAges(x)
      BY <1>1, <1>3, <2>1 DEF TrainAges, Train!Inductive, Train!Ages
    <2>7. TrainDisk
      BY <1>1, <1>2, <1>4, <1>5 DEF TrainDisk, Train!Types, Train!None
    <2> QED BY <2>3, <2>4, <2>5, <2>6, <2>7, TrainStepKeeps
  <1>7. CASE x2 # "none"
    <2>1. UNCHANGED <<x2, x3>>
      BY <1>7 DEF Train!Run
    <2>2. Train!Types'
      BY <1>1, <1>2, <1>5, <2>1 DEF Train!Types
    <2>3. Train!Locked' /\ \A u \in Dispatches : Train!Progress(u)'
      BY <1>1, <2>1 DEF Train!Inductive, Train!Locked, Train!At, Train!Progress
    <2>4. Train!Ages'
      BY <1>1, <1>3, <2>1 DEF Train!Inductive, Train!Ages
    <2>5. Train!Kept'
      BY <1>1, <1>2, <2>1 DEF Train!Inductive, Train!Kept, Train!Releases, Train!Added
    <2> QED BY <1>4, <2>2, <2>3, <2>4, <2>5 DEF Train!Inductive
  <1> QED BY <1>6, <1>7

(* A fault leaves what was done; releases are not counted any more.        *)
LEMMA TrainAborts ==
    ASSUME Train!Inductive, NEW j \in Dispatches, Train!Abort(j) PROVE Train!Inductive'
  <1>1. /\ x3[j].pc # "idle" /\ UNCHANGED <<x1, x4, x5, x6, x7, x8>> /\ Train!Leave(j)
        /\ x9' = [x9 EXCEPT !["faults"] = @ + 1]
    BY DEF Train!Abort, Train!Count, Train!disk, Train!marks
  <1>2. /\ x9' \in [runs : Nat, faults : Nat, bad : Nat] /\ x9'.runs = x9.runs
        /\ x9.faults \in Nat /\ x9'.faults = x9.faults + 1
    BY <1>1 DEF Train!Inductive, Train!Types
  <1>3. /\ TrainHands(j, Train!Idle) /\ TrainHas(Train!Idle) /\ Train!Idle.pc = "idle"
    BY <1>1, TrainLeaves DEF Train!Idle
  <1>4. TrainKept(Train!Idle)
    BY <1>2 DEF TrainKept
  <1>5. TrainAges(Train!Idle)
    BY <1>1, <1>2, <1>3 DEF TrainAges, Train!Inductive, Train!Ages
  <1>6. TrainDisk
    <2>1. Train!Forward' /\ Train!SiteServed'
      BY <1>1 DEF Train!Inductive, Train!Forward, Train!Published, Train!SiteServed
    <2> QED BY <1>1, <1>2, <2>1, TrainHeld DEF TrainDisk
  <1> QED BY <1>3, <1>4, <1>5, <1>6, TrainStepKeeps

LEMMA TrainCrash ==
    ASSUME Train!Inductive, Train!Crash PROVE Train!Inductive'
  <1>1. /\ UNCHANGED <<x1, x4, x5, x6, x7, x8>> /\ x3' = [u \in Dispatches |-> Train!Idle]
        /\ x2' = "none" /\ x9' = [x9 EXCEPT !["faults"] = @ + 1]
    BY DEF Train!Crash, Train!Count, Train!disk, Train!marks
  <1>2. /\ x9' \in [runs : Nat, faults : Nat, bad : Nat] /\ x9'.runs = x9.runs
        /\ x9.faults \in Nat /\ x9'.faults = x9.faults + 1
    BY <1>1 DEF Train!Inductive, Train!Types
  <1>3. Train!Idle \in TrainJob /\ Train!Idle.pc = "idle"
    BY DEF Train!Idle, TrainJob, Train!None
  <1>4. x3' \in [Dispatches -> TrainJob] /\ \A u \in Dispatches : x3'[u] = Train!Idle
    BY <1>1, <1>3
  <1>5. Train!Types'
    BY <1>1, <1>2, <1>4 DEF Train!Inductive, Train!Types, TrainJob, Train!None
  <1>6. Train!Locked'
    BY <1>3, <1>4 DEF Train!Locked, Train!At
  <1>7. \A u \in Dispatches : Train!Progress(u)'
    BY <1>3, <1>4 DEF Train!Progress, Train!Early, Train!Late
  <1>8. Train!Forward' /\ Train!SiteServed'
    BY <1>1 DEF Train!Inductive, Train!Forward, Train!Published, Train!SiteServed
  <1>9. Train!Ages'
    BY <1>1, <1>2, <1>3, <1>4 DEF Train!Inductive, Train!Ages
  <1>10. Train!Kept'
    BY <1>2 DEF Train!Kept
  <1> QED BY <1>5, <1>6, <1>7, <1>8, <1>9, <1>10 DEF Train!Inductive

(* Upstream moves on under a run.                                          *)
LEMMA TrainPublish ==
    ASSUME Train!Inductive, Train!Publish PROVE Train!Inductive'
  <1>1. /\ UNCHANGED <<x2, x3, x4, x5, x6, x7, x8>> /\ x1.rev + 1 \in Revisions
        /\ x1'.rev = x1.rev + 1 /\ x1' \in [rev : Revisions, sound : BOOLEAN]
        /\ x9' = x9 \/ x9' = [x9 EXCEPT !["bad"] = @ + 1]
    <2>1. /\ UNCHANGED <<x2, x3, x4, x5, x6, x7, x8>> /\ x1.rev + 1 \in Revisions
          /\ x9' = x9 \/ x9' = [x9 EXCEPT !["bad"] = @ + 1]
      BY DEF Train!Publish, Train!Count, Train!disk, Train!marks
    <2>2. PICK sound \in BOOLEAN : x1' = [rev |-> x1.rev + 1, sound |-> sound]
      BY DEF Train!Publish
    <2> QED BY <2>1, <2>2
  <1>2. Train!Types
    BY DEF Train!Inductive
  <1>3. x9' \in [runs : Nat, faults : Nat, bad : Nat] /\ x9'.runs = x9.runs /\ x9'.faults = x9.faults
    BY <1>1, <1>2 DEF Train!Types
  <1>4. x1.rev \in Nat /\ \A r \in Revisions \cup {0} : r \in Nat /\ (r <= x1.rev => r <= x1'.rev)
    <2>1. \A r \in Revisions \cup {0} : r \in Nat
      BY BackgroundAssumption
    <2>2. x1.rev \in Revisions
      BY <1>2 DEF Train!Types
    <2> QED BY <1>1, <2>1, <2>2
  <1>5. Train!Types'
    BY <1>1, <1>2, <1>3 DEF Train!Types
  <1>6. Train!Locked' /\ Train!SiteServed'
    BY <1>1 DEF Train!Inductive, Train!Locked, Train!At, Train!SiteServed
  <1>7. Train!Forward'
    <2>1. \A r \in Revisions : x4[r].data \in Revisions \cup {0} /\ x5[r].data \in Revisions \cup {0}
      BY <1>2 DEF Train!Types, Train!Dirs, Train!None
    <2>2. x6 \in Revisions \cup {0}
      BY <1>2 DEF Train!Types, Train!None
    <2> QED BY <1>1, <1>4, <2>1, <2>2 DEF Train!Inductive, Train!Forward, Train!Published
  <1>8. ASSUME NEW u \in Dispatches PROVE Train!Progress(u)'
    <2>1. x3[u].rev \in Revisions \cup {0} /\ x3[u].data \in Revisions \cup {0}
      BY <1>2 DEF Train!Types, Train!None
    <2>2. Train!Progress(u)
      BY DEF Train!Inductive
    <2> QED BY <1>1, <1>4, <2>1, <2>2 DEF Train!Progress
  <1>9. Train!Ages' /\ Train!Kept'
    BY <1>1, <1>3 DEF Train!Inductive, Train!Ages, Train!Kept, Train!Releases, Train!Added
  <1> QED BY <1>5, <1>6, <1>7, <1>8, <1>9 DEF Train!Inductive

(* Every step of the training site.                                        *)
LEMMA TrainNext == ASSUME Train!Inductive, Train!Next PROVE Train!Inductive'
  BY TrainBuildInfo, TrainArchive, TrainChecksum, TrainExtract, TrainRemove, TrainRename, TrainSwitch,
     TrainWrite, TrainPrune, TrainRun, TrainAborts, TrainCrash, TrainPublish
     DEF Train!Next, Train!Sync

(* What the inductive invariant says of the training site.                 *)
LEMMA TrainResults ==
    ASSUME Train!Inductive
    PROVE  /\ Train!TypeOK /\ Train!SiteServed /\ Train!ServesWhatItSays /\ Train!ReleasesBounded
  <1>1. Train!Types /\ Train!Forward
    BY DEF Train!Inductive
  <1>2. Train!TypeOK
    BY <1>1 DEF Train!Types, Train!TypeOK, Train!Dirs
  <1>3. Train!ServesWhatItSays
    <2> SUFFICES ASSUME Train!UpToDate(x1.rev) PROVE x4[x6].data = x1.rev
      BY DEF Train!ServesWhatItSays
    <2>1. /\ x6 \in Revisions /\ x4[x6] # Train!NoDir /\ (x7 = x1.rev \/ x8 = x1.rev)
      BY <1>1 DEF Train!UpToDate, Train!CurrentExists, Train!CurrentRevision, Train!Types, Train!None
    <2>2. /\ x1.rev \in Nat /\ x6 \in Nat /\ x4[x6].data \in Revisions \cup {0}
      BY <1>1, <2>1, BackgroundAssumption DEF Train!Types, Train!Dirs, Train!None
    <2>3. x4[x6].data \in Nat
      <3>1. \A r \in Revisions \cup {0} : r \in Nat
        BY BackgroundAssumption
      <3> QED BY <2>2, <3>1
    <2>4. x1.rev <= x6 /\ x6 <= x1.rev /\ x6 <= x4[x6].data /\ x4[x6].data <= x1.rev
      BY <1>1, <2>1 DEF Train!Forward, Train!Published
    <2> QED BY <2>2, <2>3, <2>4
  <1>4. Train!ReleasesBounded
    <2> SUFFICES ASSUME \A j \in Dispatches : x3[j] = Train!Idle, x9.faults = 0
                 PROVE  Train!Cardinality({r \in Revisions : x4[r] # Train!NoDir}) <= KeepReleases
      BY DEF Train!ReleasesBounded
    <2>1. Train!Added = {}
      BY DEF Train!Added, Train!Idle, Train!Late
    <2>2. Train!Releases \ {} = {r \in Revisions : x4[r] # Train!NoDir}
      BY DEF Train!Releases
    <2> QED BY <2>1, <2>2 DEF Train!Inductive, Train!Kept
  <1> QED BY <1>2, <1>3, <1>4 DEF Train!Inductive

----------------------------------------------------------------------------
(* TaskEngine: rows and their dispatches *)

TaskRow == [st : Tasks!States, at : {"never", "later", "due"}, enabled : BOOLEAN,
            expired : BOOLEAN, attempts : Nat, id : Nat]
TaskJob == [task : Tasks!Tasks \cup {"none"}, id : Nat, pc : {"none", "wait", "run", "ok", "error"},
            attempts : Nat, expired : BOOLEAN]

(* What the variables are.                                                 *)
LEMMA TaskTyped ==
    ASSUME Tasks!Inductive
    PROVE  /\ x1 \in TaskSettings /\ x4 \in BOOLEAN /\ x6 \subseteq Tasks!Tasks
           /\ x7 \subseteq Tasks!Tasks \cup {"none"}
           /\ x2 \in [Tasks!Tasks -> TaskRow] /\ x3 \in [Dispatches -> TaskJob]
           /\ x5 \in [Tasks!Tasks -> Nat] /\ x8 \in [fails : Nat, edits : Nat, crashes : Nat]
           /\ x8.crashes \in Nat /\ MaxAttempts \in Nat /\ MaxAttempts >= 1 /\ "none" \notin Tasks!Tasks
  <1>1. MaxAttempts \in Nat /\ MaxAttempts >= 1 /\ "none" \notin Tasks!Tasks
    BY BackgroundAssumption DEF Tasks!Tasks
  <1> QED BY <1>1 DEF Tasks!Inductive, Tasks!Types, TaskRow, TaskJob

LEMMA TaskInit == Tasks!Init => Tasks!Inductive
  <1> SUFFICES ASSUME Tasks!Init PROVE Tasks!Inductive
    OBVIOUS
  <1>1. /\ Tasks!NoRow \in TaskRow /\ Tasks!NoRow.st = "none" /\ Tasks!NoRow.expired = FALSE
        /\ Tasks!NoJob \in TaskJob /\ Tasks!NoJob.pc = "none" /\ Tasks!NoJob.task = "none"
    BY DEF Tasks!NoRow, Tasks!NoJob, TaskRow, TaskJob, Tasks!States
  <1>2. \A k : /\ Tasks!Seeded(k) \in TaskRow /\ Tasks!Seeded(k).st = "pending"
               /\ Tasks!Seeded(k).attempts = 0 /\ Tasks!Seeded(k).expired = FALSE
    BY DEF Tasks!Seeded, Tasks!Pending, TaskRow, Tasks!States
  <1>3. /\ x2 \in [Tasks!Tasks -> TaskRow]
        /\ \A k \in Tasks!Tasks : /\ ~x2[k].expired /\ x2[k].st \in {"none", "pending"}
                                  /\ x2[k].st = "pending" => x2[k].attempts = 0
                                  /\ (x2[k].st = "none" /\ k \notin Once) => k \notin x1.tasks
    BY <1>1, <1>2 DEF Tasks!Init, Tasks!Seed
  <1>4. /\ x3 \in [Dispatches -> TaskJob] /\ \A j \in Dispatches : x3[j].pc = "none" /\ x3[j].task = "none"
    BY <1>1 DEF Tasks!Init
  <1>5. "none" \notin Tasks!Tasks /\ MaxAttempts \in Nat /\ MaxAttempts >= 1
    BY BackgroundAssumption DEF Tasks!Tasks
  <1>6. Tasks!Types
    BY <1>3, <1>4 DEF Tasks!Init, Tasks!Types, TaskRow, TaskJob
  <1>7. Tasks!JobsKnown
    BY <1>4, <1>5 DEF Tasks!JobsKnown
  <1>8. Tasks!SeededStays
    BY <1>3, <1>4, <1>5 DEF Tasks!SeededStays, Tasks!Tasks
  <1>9. ASSUME NEW k \in Tasks!Watched PROVE Tasks!Single(k) /\ Tasks!Counted(k)
    <2>1. k \in Tasks!Tasks /\ x5[k] = 0 /\ x8.crashes = 0
      BY DEF Tasks!Watched, Tasks!Init
    <2>2. Tasks!JobsOf(k) = {}
      BY <1>4, <1>5, <2>1 DEF Tasks!JobsOf
    <2>3. ~Tasks!Erred(k)
      BY <2>2 DEF Tasks!Erred
    <2>4. Tasks!Single(k)
      BY <2>2 DEF Tasks!Single
    <2> QED BY <1>3, <1>5, <2>1, <2>2, <2>3, <2>4 DEF Tasks!Counted
  <1> QED BY <1>6, <1>7, <1>8, <1>9 DEF Tasks!Inductive

(* A task whose row, failures and jobs are as before.                      *)
TaskSame(k) ==
    /\ x2'[k] = x2[k] /\ x5'[k] = x5[k] /\ x8'.crashes = x8.crashes
    /\ Tasks!JobsOf(k)' = Tasks!JobsOf(k) /\ \A j \in Tasks!JobsOf(k) : x3'[j] = x3[j]

LEMMA TaskSameKeeps ==
    ASSUME NEW k, TaskSame(k), Tasks!Single(k), Tasks!Counted(k)
    PROVE  Tasks!Single(k)' /\ Tasks!Counted(k)'
  <1>1. Tasks!Erred(k)' <=> Tasks!Erred(k)
    BY DEF TaskSame, Tasks!Erred
  <1>2. Tasks!Single(k)'
    BY DEF TaskSame, Tasks!Single
  <1> QED BY <1>1, <1>2 DEF TaskSame, Tasks!Counted

(* What an edit makes of the row of k, while the jobs go on: a new row with*)
(* a new id, a replaced row nobody has claimed, a deleted one, or the same *)
(* with other columns; of a task that is run by hand nothing is asked.     *)
TaskEdited(k, r) ==
    \/ r.id = x2[k].id + 1 /\ r.st = "pending" /\ r.attempts = 0 /\ x5'[k] = 0
    \/ r.id = x2[k].id /\ x2[k].st = "pending" /\ r.st = "pending" /\ r.attempts = 0 /\ x5'[k] = 0
    \/ r.id = x2[k].id /\ r.st = "none" /\ x5'[k] = x5[k]
    \/ r.id = x2[k].id /\ r.st = x2[k].st /\ r.attempts = x2[k].attempts /\ x5'[k] = x5[k]

LEMMA TaskEditKeeps ==
    ASSUME Tasks!Inductive, NEW k \in Tasks!Tasks, NEW r \in TaskRow, x2' = [x2 EXCEPT ![k] = r],
           UNCHANGED <<x1, x3, x4, x7>>,
           x5' \in [Tasks!Tasks -> Nat], \A i \in Tasks!Tasks : i # k => x5'[i] = x5[i],
           x6' = x6 \/ x6' = x6 \cup {k},
           x8' \in [fails : Nat, edits : Nat, crashes : Nat], x8'.crashes = x8.crashes,
           r.id >= x2[k].id, (k \in Once \/ r.st # "none" \/ x2[k].st = "none"), k \in Cron => ~r.expired,
           k \in x6' \/ TaskEdited(k, r)
    PROVE  Tasks!Inductive'
  <1>1. /\ x2' \in [Tasks!Tasks -> TaskRow] /\ x2'[k] = r
        /\ \A i \in Tasks!Tasks : i # k => x2'[i] = x2[i]
    BY TaskTyped
  <1>2. Tasks!Types'
    BY <1>1 DEF Tasks!Inductive, Tasks!Types, TaskRow
  <1>3. Tasks!JobsKnown'
    <2>1. ASSUME NEW j \in Dispatches, x3[j].task \in Tasks!Tasks
          PROVE  x3[j].id <= x2'[x3[j].task].id
      <3>1. x3[j].id <= x2[x3[j].task].id /\ x3[j].id \in Nat /\ x2[k].id \in Nat /\ r.id \in Nat
        BY <2>1, TaskTyped DEF Tasks!Inductive, Tasks!JobsKnown, TaskRow, TaskJob
      <3> QED BY <1>1, <2>1, <3>1
    <2> QED BY <2>1 DEF Tasks!Inductive, Tasks!JobsKnown
  <1>4. Tasks!SeededStays'
    BY <1>1 DEF Tasks!Inductive, Tasks!SeededStays, Tasks!Tasks
  <1>5. ASSUME NEW i \in Tasks!Watched' PROVE Tasks!Single(i)' /\ Tasks!Counted(i)'
    <2>1. i \in Tasks!Watched /\ i \in Tasks!Tasks /\ Tasks!Single(i) /\ Tasks!Counted(i) /\ i \notin x6'
      BY <1>5 DEF Tasks!Inductive, Tasks!Watched
    <2>2. CASE i # k
      <3>1. TaskSame(i)
        BY <1>1, <2>1, <2>2 DEF TaskSame, Tasks!JobsOf
      <3> QED BY <2>1, <3>1, TaskSameKeeps
    <2>3. CASE i = k
      <3>1. TaskEdited(k, r)
        BY <2>1, <2>3
      <3>2. /\ x2[k] \in TaskRow /\ x2[k].id \in Nat /\ x2[k].attempts \in Nat /\ x5[k] \in Nat
            /\ r.id \in Nat /\ r.attempts \in Nat
        BY TaskTyped DEF TaskRow
      <3>3. CASE r.id = x2[k].id + 1 /\ r.st = "pending" /\ r.attempts = 0 /\ x5'[k] = 0
        <4>1. Tasks!JobsOf(k)' = {}
          <5> SUFFICES ASSUME NEW j \in Dispatches, x3[j].task = k, x3[j].id = r.id PROVE FALSE
            BY <1>1 DEF Tasks!JobsOf
          <5>1. x3[j].id <= x2[k].id /\ x3[j].id \in Nat
            BY TaskTyped DEF Tasks!Inductive, Tasks!JobsKnown, TaskJob
          <5> QED BY <3>2, <3>3, <5>1
        <4>2. ~Tasks!Erred(k)'
          BY <4>1 DEF Tasks!Erred
        <4>3. Tasks!Single(k)'
          BY <4>1 DEF Tasks!Single
        <4> QED BY <1>1, <2>3, <3>3, <4>1, <4>2, <4>3, TaskTyped DEF Tasks!Counted
      <3>4. CASE r.id = x2[k].id
        <4>1. Tasks!JobsOf(k)' = Tasks!JobsOf(k)
          BY <1>1, <3>4 DEF Tasks!JobsOf
        <4>2. Tasks!Erred(k)' <=> Tasks!Erred(k)
          BY <4>1 DEF Tasks!Erred
        <4>3. CASE x2[k].st = "pending" /\ r.st = "pending" /\ r.attempts = 0 /\ x5'[k] = 0
          <5>1. Tasks!JobsOf(k) = {}
            BY <2>1, <2>3, <4>3 DEF Tasks!Single
          <5>2. Tasks!Single(k)'
            BY <4>1, <5>1 DEF Tasks!Single
          <5>3. ~Tasks!Erred(k)
            BY <5>1 DEF Tasks!Erred
          <5> QED BY <1>1, <2>3, <4>1, <4>2, <4>3, <5>1, <5>2, <5>3, TaskTyped DEF Tasks!Counted
        <4>4. CASE r.st = "none" /\ x5'[k] = x5[k]
          BY <1>1, <2>1, <2>3, <4>1, <4>4 DEF Tasks!Single, Tasks!Counted
        <4>5. CASE r.st = x2[k].st /\ r.attempts = x2[k].attempts /\ x5'[k] = x5[k]
          BY <1>1, <2>1, <2>3, <4>1, <4>2, <4>5 DEF Tasks!Single, Tasks!Counted
        <4> QED BY <3>1, <3>2, <3>4, <4>3, <4>4, <4>5 DEF TaskEdited
      <3> QED BY <3>1, <3>3, <3>4 DEF TaskEdited
    <2> QED BY <2>2, <2>3
  <1> QED BY <1>2, <1>3, <1>4, <1>5 DEF Tasks!Inductive

(* What counting in `spent' leaves.                                        *)
LEMMA TaskCounts ==
    ASSUME Tasks!Inductive, NEW f \in {"fails", "edits", "crashes"}, Tasks!Count(f)
    PROVE  /\ x8' \in [fails : Nat, edits : Nat, crashes : Nat]
           /\ x8'.crashes = IF f = "crashes" THEN x8.crashes + 1 ELSE x8.crashes
  <1>1. x8 \in [fails : Nat, edits : Nat, crashes : Nat]
    BY TaskTyped
  <1> QED BY <1>1 DEF Tasks!Count

TaskEdit(k) ==
    \/ Tasks!CreateScheduledTask(k) \/ Tasks!ScheduleEventStart(k) \/ Tasks!ScheduleAutoPrecheck(k)
    \/ Tasks!ReplaceEventStart(k) \/ Tasks!ReplaceAutoPrecheck(k) \/ Tasks!CancelPending(k)
    \/ Tasks!DeleteScheduledTask(k) \/ Tasks!PatchScheduledTask(k) \/ Tasks!RunScheduledTask(k)
    \/ Tasks!Due(k) \/ Tasks!Expire(k)

(* Edits of a row by administrators and by events, and the passing of time.*)
LEMMA TaskEdits ==
    ASSUME Tasks!Inductive, NEW k \in Tasks!Tasks, TaskEdit(k)
    PROVE  Tasks!Inductive'
  <1>1. /\ x2 \in [Tasks!Tasks -> TaskRow] /\ x5 \in [Tasks!Tasks -> Nat]
        /\ x2[k] \in TaskRow /\ x2[k].id \in Nat /\ x2[k].attempts \in Nat /\ x5[k] \in Nat
        /\ x8 \in [fails : Nat, edits : Nat, crashes : Nat]
    BY TaskTyped DEF TaskRow
  <1>2. x2[k].id >= x2[k].id /\ x2[k].id + 1 >= x2[k].id /\ x2[k].id + 1 \in Nat
    BY <1>1
  <1>3. Tasks!Edits => /\ x8' \in [fails : Nat, edits : Nat, crashes : Nat] /\ x8'.crashes = x8.crashes
    BY TaskCounts DEF Tasks!Edits
  <1>4. k \in Once => k \notin Cron
    BY BackgroundAssumption
  <1>5. k \in Cron => ~x2[k].expired
    BY DEF Tasks!Inductive, Tasks!SeededStays
  <1>6. CASE /\ Tasks!Edits /\ Tasks!Insert(k)
    <2> DEFINE r == Tasks!Pending("later", x2[k].id + 1)
    <2>1. x2' = [x2 EXCEPT ![k] = r] /\ x5' = [x5 EXCEPT ![k] = 0] /\ UNCHANGED <<x1, x3, x4, x6, x7>> /\ k \in Once
      BY <1>6 DEF Tasks!Insert
    <2>2. r \in TaskRow /\ r.id = x2[k].id + 1 /\ r.st = "pending" /\ r.attempts = 0
      BY <1>2 DEF Tasks!Pending, TaskRow, Tasks!States
    <2>3. x5' \in [Tasks!Tasks -> Nat] /\ x5'[k] = 0 /\ \A i \in Tasks!Tasks : i # k => x5'[i] = x5[i]
      BY <1>1, <2>1
    <2> HIDE DEF r
    <2>4. TaskEdited(k, r)
      BY <2>2, <2>3 DEF TaskEdited
    <2> QED BY <1>2, <1>3, <1>4, <1>6, <2>1, <2>2, <2>3, <2>4, TaskEditKeeps
  <1>7. CASE Tasks!Edits /\ Tasks!Replace(k)
    <2> DEFINE r == Tasks!Pending("later", x2[k].id)
    <2>1. /\ x2' = [x2 EXCEPT ![k] = r] /\ x5' = [x5 EXCEPT ![k] = 0] /\ UNCHANGED <<x1, x3, x4, x6, x7>> /\ k \in Once
          /\ x2[k].st = "pending"
      BY <1>7 DEF Tasks!Replace
    <2>2. r \in TaskRow /\ r.id = x2[k].id /\ r.st = "pending" /\ r.attempts = 0
      BY <1>1 DEF Tasks!Pending, TaskRow, Tasks!States
    <2>3. x5' \in [Tasks!Tasks -> Nat] /\ x5'[k] = 0 /\ \A i \in Tasks!Tasks : i # k => x5'[i] = x5[i]
      BY <1>1, <2>1
    <2> HIDE DEF r
    <2>4. TaskEdited(k, r)
      BY <2>1, <2>2, <2>3 DEF TaskEdited
    <2> QED BY <1>2, <1>3, <1>4, <1>7, <2>1, <2>2, <2>3, <2>4, TaskEditKeeps
  <1>8. CASE Tasks!CancelPending(k) \/ Tasks!DeleteScheduledTask(k)
    <2> DEFINE r == [Tasks!NoRow EXCEPT !.id = x2[k].id]
    <2>1. /\ x2' = [x2 EXCEPT ![k] = r] /\ UNCHANGED <<x1, x3, x4, x5, x6, x7>> /\ k \in Once
          /\ Tasks!Edits
      BY <1>8 DEF Tasks!CancelPending, Tasks!DeleteScheduledTask
    <2>2. r \in TaskRow /\ r.id = x2[k].id /\ r.st = "none"
      BY <1>1 DEF Tasks!NoRow, TaskRow, Tasks!States
    <2> HIDE DEF r
    <2>3. TaskEdited(k, r)
      BY <2>1, <2>2 DEF TaskEdited
    <2> QED BY <1>1, <1>2, <1>3, <1>4, <2>1, <2>2, <2>3, TaskEditKeeps
  <1>9. CASE Tasks!PatchScheduledTask(k)
    <2> DEFINE r == [x2[k] EXCEPT !.enabled = ~x2[k].enabled]
    <2>1. /\ x2' = [x2 EXCEPT ![k] = r] /\ UNCHANGED <<x1, x3, x4, x5, x6, x7>> /\ x2[k].st # "none"
          /\ Tasks!Edits
      BY <1>9 DEF Tasks!PatchScheduledTask
    <2>2. r \in TaskRow /\ r.id = x2[k].id /\ r.st = x2[k].st /\ r.attempts = x2[k].attempts /\ r.expired = x2[k].expired
      BY <1>1 DEF TaskRow
    <2> HIDE DEF r
    <2>3. TaskEdited(k, r)
      BY <2>1, <2>2 DEF TaskEdited
    <2> QED BY <1>1, <1>2, <1>3, <1>5, <2>1, <2>2, <2>3, TaskEditKeeps
  <1>10. CASE Tasks!RunScheduledTask(k)
    <2> DEFINE r == [x2[k] EXCEPT !.st = "pending", !.at = "due"]
    <2>1. /\ x2' = [x2 EXCEPT ![k] = r] /\ x5' = [x5 EXCEPT ![k] = 0] /\ UNCHANGED <<x1, x3, x4, x7>>
          /\ x6' = x6 \cup {k} /\ Tasks!Edits
      BY <1>10, <1>1 DEF Tasks!RunScheduledTask
    <2>2. r \in TaskRow /\ r.id = x2[k].id /\ r.st = "pending" /\ r.expired = x2[k].expired
      BY <1>1 DEF TaskRow, Tasks!States
    <2>3. x5' \in [Tasks!Tasks -> Nat] /\ \A i \in Tasks!Tasks : i # k => x5'[i] = x5[i]
      BY <1>1, <2>1
    <2> HIDE DEF r
    <2> QED BY <1>1, <1>2, <1>3, <1>5, <2>1, <2>2, <2>3, TaskEditKeeps
  <1>11. CASE Tasks!Due(k)
    <2> DEFINE r == [x2[k] EXCEPT !.at = "due"]
    <2>1. /\ x2' = [x2 EXCEPT ![k] = r] /\ UNCHANGED <<x1, x3, x4, x5, x6, x7, x8>>
      BY <1>11 DEF Tasks!Due
    <2>2. r \in TaskRow /\ r.id = x2[k].id /\ r.st = x2[k].st /\ r.attempts = x2[k].attempts /\ r.expired = x2[k].expired
      BY <1>1 DEF TaskRow
    <2> HIDE DEF r
    <2>3. TaskEdited(k, r)
      BY <2>1, <2>2 DEF TaskEdited
    <2>4. k \in Once \/ r.st # "none" \/ x2[k].st = "none"
      BY <2>2
    <2> QED BY <1>1, <1>2, <1>5, <2>1, <2>2, <2>3, <2>4, TaskEditKeeps
  <1>12. CASE Tasks!Expire(k)
    <2> DEFINE r == [x2[k] EXCEPT !.expired = TRUE]
    <2>1. /\ x2' = [x2 EXCEPT ![k] = r] /\ UNCHANGED <<x1, x3, x4, x5, x6, x7>> /\ k \in Once
          /\ Tasks!Edits
      BY <1>12 DEF Tasks!Expire
    <2>2. r \in TaskRow /\ r.id = x2[k].id /\ r.st = x2[k].st /\ r.attempts = x2[k].attempts
      BY <1>1 DEF TaskRow
    <2> HIDE DEF r
    <2>3. TaskEdited(k, r)
      BY <2>1, <2>2 DEF TaskEdited
    <2> QED BY <1>1, <1>2, <1>3, <1>4, <2>1, <2>2, <2>3, TaskEditKeeps
  <1> QED BY <1>6, <1>7, <1>8, <1>9, <1>10, <1>11, <1>12
          DEF TaskEdit, Tasks!CreateScheduledTask, Tasks!ScheduleEventStart, Tasks!ScheduleAutoPrecheck,
              Tasks!ReplaceEventStart, Tasks!ReplaceAutoPrecheck

(* A step of one job, j, of one task, k: its row may change, it becomes w. *)
TaskJobStep(j, w, k) ==
    /\ x3' = [x3 EXCEPT ![j] = w] /\ x3[j].task \in {k, "none"} /\ w.task \in {k, "none"}
    /\ w.pc # "none" => x4 /\ w.task = k
    /\ x2' \in [Tasks!Tasks -> TaskRow] /\ \A i \in Tasks!Tasks : i # k => x2'[i] = x2[i]
    /\ x2'[k].id = x2[k].id /\ (x2'[k].st = "none" => x2[k].st = "none") /\ (k \in Cron => ~x2'[k].expired)
    /\ w.task = k => w.id <= x2[k].id /\ (k \in Cron => ~w.expired)
    /\ UNCHANGED <<x1, x4, x6>> /\ x7' \subseteq Tasks!Tasks \cup {"none"}
    /\ x5' \in [Tasks!Tasks -> Nat] /\ \A i \in Tasks!Tasks : i # k => x5'[i] = x5[i]
    /\ x8' \in [fails : Nat, edits : Nat, crashes : Nat] /\ x8'.crashes = x8.crashes
    /\ k \in Tasks!Watched => Tasks!Single(k)' /\ Tasks!Counted(k)'

LEMMA TaskJobKeeps ==
    ASSUME Tasks!Inductive, NEW j \in Dispatches, NEW w \in TaskJob, NEW k \in Tasks!Tasks, TaskJobStep(j, w, k)
    PROVE  Tasks!Inductive'
  <1>1. /\ x3' \in [Dispatches -> TaskJob] /\ x3'[j] = w
        /\ \A i \in Dispatches : i # j => x3'[i] = x3[i]
        /\ "none" \notin Tasks!Tasks
        /\ x2' \in [Tasks!Tasks -> TaskRow] /\ \A i \in Tasks!Tasks : i # k => x2'[i] = x2[i]
    BY TaskTyped DEF TaskJobStep
  <1>2. Tasks!Types'
    BY <1>1 DEF TaskJobStep, Tasks!Inductive, Tasks!Types, TaskRow, TaskJob
  <1>3. Tasks!JobsKnown'
    <2>1. \A i \in Tasks!Tasks : x2'[i].id = x2[i].id
      BY <1>1 DEF TaskJobStep
    <2> QED BY <1>1, <2>1 DEF TaskJobStep, Tasks!Inductive, Tasks!JobsKnown
  <1>4. Tasks!SeededStays'
    <2>1. ASSUME NEW i \in Tasks!Tasks \ Once, x2'[i].st = "none" PROVE i \notin x1'.tasks
      BY <1>1, <2>1 DEF TaskJobStep, Tasks!Inductive, Tasks!SeededStays
    <2>2. ASSUME NEW i \in Cron PROVE ~x2'[i].expired
      BY <1>1, <2>2 DEF TaskJobStep, Tasks!Inductive, Tasks!SeededStays, Tasks!Tasks
    <2>3. ASSUME NEW i \in Cron, NEW y \in Dispatches, x3'[y].task = i PROVE ~x3'[y].expired
      BY <1>1, <2>3 DEF TaskJobStep, Tasks!Inductive, Tasks!SeededStays, Tasks!Tasks
    <2> QED BY <2>1, <2>2, <2>3 DEF Tasks!SeededStays
  <1>5. ASSUME NEW i \in Tasks!Watched' PROVE Tasks!Single(i)' /\ Tasks!Counted(i)'
    <2>1. i \in Tasks!Watched /\ i \in Tasks!Tasks /\ Tasks!Single(i) /\ Tasks!Counted(i)
      BY <1>5 DEF TaskJobStep, Tasks!Inductive, Tasks!Watched
    <2>2. CASE i # k
      <3>1. TaskSame(i)
        BY <1>1, <2>1, <2>2 DEF TaskSame, TaskJobStep, Tasks!JobsOf
      <3> QED BY <2>1, <3>1, TaskSameKeeps
    <2>3. CASE i = k
      BY <2>1, <2>3 DEF TaskJobStep
    <2> QED BY <2>2, <2>3
  <1> QED BY <1>2, <1>3, <1>4, <1>5 DEF TaskJobStep, Tasks!Inductive

(* fetch_and_run: the claim that dispatches a task.                        *)
LEMMA TaskClaims ==
    ASSUME Tasks!Inductive, NEW k \in Tasks!Tasks, Tasks!FetchAndRun(k)
    PROVE  Tasks!Inductive'
  <1> DEFINE r == [x2[k] EXCEPT !.st = "running"]
             w == Tasks!Dispatched(k)
  <1>1. PICK j \in Tasks!Free : x3' = [x3 EXCEPT ![j] = w]
    BY DEF Tasks!FetchAndRun
  <1>2. /\ x2 \in [Tasks!Tasks -> TaskRow] /\ x3 \in [Dispatches -> TaskJob]
        /\ x2[k] \in TaskRow /\ x2[k].id \in Nat /\ x2[k].attempts \in Nat /\ x5 \in [Tasks!Tasks -> Nat]
        /\ x7 \subseteq Tasks!Tasks \cup {"none"}
        /\ x8 \in [fails : Nat, edits : Nat, crashes : Nat] /\ "none" \notin Tasks!Tasks
    BY TaskTyped DEF TaskRow
  <1>3. j \in Dispatches /\ x3[j].task = "none"
    BY DEF Tasks!Free, Tasks!NoJob
  <1>4. /\ r \in TaskRow /\ r.id = x2[k].id /\ r.st = "running" /\ r.attempts = x2[k].attempts
        /\ r.expired = x2[k].expired
    BY <1>2 DEF TaskRow, Tasks!States
  <1>5. /\ w \in TaskJob /\ w.task = k /\ w.id = x2[k].id /\ w.pc = "wait"
        /\ w.attempts = x2[k].attempts /\ w.expired = x2[k].expired
    BY <1>2 DEF TaskRow, TaskJob, Tasks!Dispatched
  <1>6. /\ x2' = [x2 EXCEPT ![k] = r] /\ UNCHANGED <<x1, x4, x5, x6, x7, x8>> /\ x4 /\ x2[k].st = "pending"
    BY DEF Tasks!FetchAndRun
  <1>7. k \in Cron => ~x2[k].expired
    BY DEF Tasks!Inductive, Tasks!SeededStays
  <1> HIDE DEF r, w
  <1>8. ASSUME k \in Tasks!Watched PROVE Tasks!Single(k)' /\ Tasks!Counted(k)'
    <2>1. Tasks!Single(k) /\ Tasks!Counted(k)
      BY <1>8 DEF Tasks!Inductive
    <2>2. Tasks!JobsOf(k) = {}
      BY <1>6, <2>1 DEF Tasks!Single
    <2>3. x2'[k] = r /\ x3'[j] = w /\ \A i \in Dispatches : i # j => x3'[i] = x3[i]
      BY <1>1, <1>2, <1>3, <1>6
    <2>4. Tasks!JobsOf(k)' = {j}
      BY <1>3, <1>4, <1>5, <2>2, <2>3 DEF Tasks!JobsOf
    <2>5. ~Tasks!Erred(k) /\ ~Tasks!Erred(k)'
      BY <1>5, <2>2, <2>3, <2>4 DEF Tasks!Erred
    <2>6. Tasks!Single(k)'
      BY <1>4, <2>3, <2>4 DEF Tasks!Single
    <2> QED BY <1>4, <1>5, <1>6, <2>1, <2>3, <2>4, <2>5, <2>6 DEF Tasks!Counted
  <1>10. x2' \in [Tasks!Tasks -> TaskRow] /\ x2'[k] = r /\ \A i \in Tasks!Tasks : i # k => x2'[i] = x2[i]
    BY <1>2, <1>4, <1>6
  <1>11. x3[j].task \in {k, "none"} /\ w.task \in {k, "none"} /\ w.id <= x2[k].id
    BY <1>2, <1>3, <1>5
  <1>12. TaskJobStep(j, w, k)
    BY <1>1, <1>2, <1>3, <1>4, <1>5, <1>6, <1>7, <1>8, <1>10, <1>11 DEF TaskJobStep
  <1> QED BY <1>3, <1>5, <1>12, TaskJobKeeps

(* What is known of a job that is not free, and of the row it came from.   *)
LEMMA TaskJobHas ==
    ASSUME Tasks!Inductive, NEW j \in Dispatches, x3[j].pc # "none"
    PROVE  /\ x4 /\ x3[j].task \in Tasks!Tasks /\ x3[j] \in TaskJob /\ x3[j].id \in Nat /\ x3[j].attempts \in Nat
           /\ x3[j].id <= x2[x3[j].task].id
           /\ x3[j].task \in Cron => ~x3[j].expired
           /\ x2[x3[j].task] \in TaskRow /\ x2[x3[j].task].id \in Nat /\ x2[x3[j].task].attempts \in Nat
           /\ x2 = [x2 EXCEPT ![x3[j].task] = x2[x3[j].task]]
           /\ x5[x3[j].task] \in Nat /\ x3[j].task # "none"
           /\ x3[j].task \in Cron => ~x2[x3[j].task].expired
  <1>1. x4 /\ x3[j].task \in Tasks!Tasks
    BY DEF Tasks!Inductive, Tasks!JobsKnown
  <1>2. x3[j].id <= x2[x3[j].task].id
    BY <1>1 DEF Tasks!Inductive, Tasks!JobsKnown
  <1>3. x3[j].task \in Cron => ~x3[j].expired /\ ~x2[x3[j].task].expired
    BY DEF Tasks!Inductive, Tasks!SeededStays
  <1> QED BY <1>1, <1>2, <1>3, TaskTyped DEF TaskJob, TaskRow

(* The other jobs of k while j becomes w.                                  *)
TaskJobsAre(j, w, k) ==
    /\ x3'[j] = w /\ \A i \in Dispatches : i # j => x3'[i] = x3[i]
    /\ (w.task = k /\ w.id = x2[k].id) => Tasks!JobsOf(k)' = Tasks!JobsOf(k) \cup {j}
    /\ ~(w.task = k /\ w.id = x2[k].id) => Tasks!JobsOf(k)' = Tasks!JobsOf(k) \ {j}
LEMMA TaskJobsOf ==
    ASSUME Tasks!Inductive, NEW j \in Dispatches, NEW w \in TaskJob, x3' = [x3 EXCEPT ![j] = w],
           NEW k \in Tasks!Tasks, x2'[k].id = x2[k].id
    PROVE  TaskJobsAre(j, w, k)
  <1>1. x3'[j] = w /\ \A i \in Dispatches : i # j => x3'[i] = x3[i]
    BY TaskTyped
  <1> QED BY <1>1 DEF Tasks!JobsOf, TaskJobsAre

(* ... when no row changes.                                                *)
LEMMA TaskJobAlone ==
    ASSUME Tasks!Inductive, NEW j \in Dispatches, NEW w \in TaskJob, x3' = [x3 EXCEPT ![j] = w],
           NEW k \in Tasks!Tasks, x3[j].task = k, w.task \in {k, "none"}, w.pc # "none" => x4 /\ w.task = k,
           w.task = k => w.id <= x2[k].id, w.task = k => (k \in Cron => ~w.expired),
           UNCHANGED <<x1, x2, x4, x6>>, x7' \subseteq Tasks!Tasks \cup {"none"},
           x5' \in [Tasks!Tasks -> Nat], \A i \in Tasks!Tasks : i # k => x5'[i] = x5[i],
           x8' \in [fails : Nat, edits : Nat, crashes : Nat], x8'.crashes = x8.crashes,
           k \in Tasks!Watched => Tasks!Single(k)' /\ Tasks!Counted(k)'
    PROVE  Tasks!Inductive'
  <1>1. x2' \in [Tasks!Tasks -> TaskRow] /\ x2' = x2
    BY TaskTyped
  <1>2. k \in Cron => ~x2'[k].expired
    BY DEF Tasks!Inductive, Tasks!SeededStays
  <1>3. x3[j].task \in {k, "none"}
    OBVIOUS
  <1>4. TaskJobStep(j, w, k)
    BY <1>1, <1>2, <1>3 DEF TaskJobStep
  <1> QED BY <1>4, TaskJobKeeps

LEMMA TaskDispatches ==
    ASSUME Tasks!Inductive, NEW j \in Dispatches, Tasks!DispatchWithPrecision(j)
    PROVE  Tasks!Inductive'
  <1>a. x3[j].pc # "none"
    BY DEF Tasks!DispatchWithPrecision
  <1>b. PICK k \in Tasks!Tasks : x3[j].task = k
    BY <1>a, TaskJobHas
  <1> DEFINE w == [x3[j] EXCEPT !.pc = IF x3[j].expired THEN "ok" ELSE "run"]
  <1>1. x3[j].pc = "wait" /\ x3' = [x3 EXCEPT ![j] = w] /\ UNCHANGED <<x1, x2, x4, x5, x6, x7, x8>>
    BY <1>b DEF Tasks!DispatchWithPrecision
  <1>2. /\ x4 /\ k \in Tasks!Tasks /\ x3[j] \in TaskJob /\ x3[j].id <= x2[k].id /\ x2[k] \in TaskRow
        /\ x2 = [x2 EXCEPT ![k] = x2[k]] /\ (k \in Cron => ~x3[j].expired /\ ~x2[k].expired)
    BY <1>1, <1>b, TaskJobHas
  <1>3. /\ w \in TaskJob /\ w.task = k /\ w.id = x3[j].id /\ w.attempts = x3[j].attempts
        /\ w.expired = x3[j].expired /\ w.pc = (IF x3[j].expired THEN "ok" ELSE "run")
    BY <1>b, <1>2 DEF TaskJob
  <1>4. w.pc \in {"ok", "run"} /\ (w.pc = "ok" => w.expired)
    BY <1>3
  <1>5. x7 \subseteq Tasks!Tasks \cup {"none"} /\ x5 \in [Tasks!Tasks -> Nat] /\ x8 \in [fails : Nat, edits : Nat, crashes : Nat]
    BY TaskTyped
  <1> HIDE DEF w
  <1>6. ASSUME k \in Tasks!Watched PROVE Tasks!Single(k)' /\ Tasks!Counted(k)'
    <2>1. Tasks!Single(k) /\ Tasks!Counted(k)
      BY <1>6 DEF Tasks!Inductive
    <2>2. x3'[j] = w /\ \A i \in Dispatches : i # j => x3'[i] = x3[i]
      BY <1>1, <1>2, <1>3, TaskJobsOf DEF TaskJobsAre
    <2>3. Tasks!JobsOf(k)' = Tasks!JobsOf(k)
      BY <1>b, <1>1, <1>3, <2>2 DEF Tasks!JobsOf
    <2>4. Tasks!Erred(k)' <=> Tasks!Erred(k)
      BY <1>1, <1>4, <2>2, <2>3 DEF Tasks!Erred, Tasks!JobsOf
    <2>5. Tasks!Single(k)'
      BY <1>1, <2>1, <2>3 DEF Tasks!Single
    <2>6. \A i \in Tasks!JobsOf(k) : /\ x3'[i].attempts = x3[i].attempts
                                     /\ x3'[i].pc = "ok" => x3'[i].expired \/ x3[i].pc = "ok"
                                     /\ x3'[i].expired = x3[i].expired
      BY <1>3, <1>4, <2>2 DEF Tasks!JobsOf
    <2> QED BY <1>1, <2>1, <2>3, <2>4, <2>5, <2>6 DEF Tasks!Counted
  <1> QED BY <1>b, <1>1, <1>2, <1>3, <1>4, <1>5, <1>6, TaskJobAlone

LEMMA TaskRuns ==
    ASSUME Tasks!Inductive, NEW j \in Dispatches, Tasks!RunHandler(j)
    PROVE  Tasks!Inductive'
  <1>a. x3[j].pc # "none"
    BY DEF Tasks!RunHandler
  <1>b. PICK k \in Tasks!Tasks : x3[j].task = k
    BY <1>a, TaskJobHas
  <1>1. x3[j].pc = "run" /\ UNCHANGED <<x1, x2, x4, x6, x7>>
    BY <1>b DEF Tasks!RunHandler
  <1>2. /\ x4 /\ k \in Tasks!Tasks /\ x3[j] \in TaskJob /\ x3[j].id <= x2[k].id /\ x2[k] \in TaskRow
        /\ x2 = [x2 EXCEPT ![k] = x2[k]] /\ (k \in Cron => ~x3[j].expired /\ ~x2[k].expired)
        /\ x5[k] \in Nat /\ x2[k].attempts \in Nat
    BY <1>1, <1>b, TaskJobHas
  <1>3. /\ x7 \subseteq Tasks!Tasks \cup {"none"} /\ x5 \in [Tasks!Tasks -> Nat] /\ x8 \in [fails : Nat, edits : Nat, crashes : Nat]
        /\ x8.crashes \in Nat /\ MaxAttempts \in Nat
    BY TaskTyped
  <1>4. PICK p \in {"ok", "error"} :
            /\ x3' = [x3 EXCEPT ![j].pc = p]
            /\ p = "ok" => x8' = x8 /\ x5' = IF Tasks!Gone(j) THEN x5 ELSE [x5 EXCEPT ![k] = 0]
            /\ p = "error" => Tasks!Count("fails") /\ x5' = IF Tasks!Gone(j) THEN x5 ELSE [x5 EXCEPT ![k] = @ + 1]
    BY <1>b DEF Tasks!RunHandler
  <1>5. x8' \in [fails : Nat, edits : Nat, crashes : Nat] /\ x8'.crashes = x8.crashes
    BY <1>3, <1>4, TaskCounts
  <1>6. /\ x5' \in [Tasks!Tasks -> Nat] /\ \A i \in Tasks!Tasks : i # k => x5'[i] = x5[i]
        /\ Tasks!Gone(j) => x5'[k] = x5[k]
        /\ ~Tasks!Gone(j) => x5'[k] = IF p = "ok" THEN 0 ELSE x5[k] + 1
    BY <1>2, <1>3, <1>4
  <1> DEFINE w == [x3[j] EXCEPT !.pc = p]
  <1>7. x3' = [x3 EXCEPT ![j] = w]
    BY <1>4
  <1>8. /\ w \in TaskJob /\ w.task = k /\ w.id = x3[j].id /\ w.attempts = x3[j].attempts
        /\ w.expired = x3[j].expired /\ w.pc = p
    BY <1>b, <1>2 DEF TaskJob
  <1>9. Tasks!Gone(j) <=> x2[k].st = "none" \/ x2[k].id # x3[j].id
    BY <1>b DEF Tasks!Gone
  <1>10. x3[j].task = k
    BY <1>b
  <1> HIDE DEF w
  <1>11. ASSUME k \in Tasks!Watched PROVE Tasks!Single(k)' /\ Tasks!Counted(k)'
    <2>1. Tasks!Single(k) /\ Tasks!Counted(k)
      BY <1>11 DEF Tasks!Inductive
    <2>2. x3'[j] = w /\ \A i \in Dispatches : i # j => x3'[i] = x3[i]
      BY <1>2, <1>7, <1>8, <1>1, TaskJobsOf DEF TaskJobsAre
    <2>3. Tasks!JobsOf(k)' = Tasks!JobsOf(k)
      BY <1>1, <1>8, <1>10, <2>2 DEF Tasks!JobsOf
    <2>4. Tasks!Single(k)'
      BY <1>1, <2>1, <2>3 DEF Tasks!Single
    <2>5. \A i \in Tasks!JobsOf(k) : x3'[i].attempts = x3[i].attempts /\ x3'[i].expired = x3[i].expired
      BY <1>8, <2>2 DEF Tasks!JobsOf
    <2>6. CASE x2[k].st = "none"
      BY <1>1, <1>5, <1>6, <1>9, <2>1, <2>3, <2>4, <2>6 DEF Tasks!Counted
    <2>7. CASE x2[k].st # "none" /\ x2[k].id # x3[j].id
      <3>1. TaskSame(k)
        BY <1>1, <1>5, <1>6, <1>9, <2>2, <2>3, <2>7 DEF TaskSame, Tasks!JobsOf
      <3> QED BY <2>1, <3>1, TaskSameKeeps
    <2>8. CASE x2[k].st # "none" /\ x2[k].id = x3[j].id
      <3>1. j \in Tasks!JobsOf(k)
        BY <1>10, <2>8 DEF Tasks!JobsOf
      <3>2. Tasks!JobsOf(k) = {j} /\ x2[k].st = "running"
        BY <2>1, <2>8, <3>1 DEF Tasks!Single
      <3>3. ~Tasks!Erred(k)
        BY <1>1, <3>2 DEF Tasks!Erred
      <3>4. Tasks!Erred(k)' <=> p = "error"
        BY <1>8, <2>2, <2>3, <3>2 DEF Tasks!Erred
      <3>5. x5[k] <= x2[k].attempts + x8.crashes /\ x2[k].attempts < MaxAttempts
        BY <1>3, <1>2, <2>1, <3>2, <3>3 DEF Tasks!Counted
      <3>6. p = "ok" => x5'[k] = 0
        BY <1>6, <1>9, <2>8
      <3>7. p # "ok" => x5'[k] = x5[k] + 1
        BY <1>6, <1>9, <2>8
      <3>8. x5'[k] <= x2[k].attempts + x8.crashes + (IF p = "error" THEN 1 ELSE 0) /\ x5'[k] <= MaxAttempts + x8.crashes
        BY <1>2, <1>3, <1>4, <3>5, <3>6, <3>7
      <3>9. \A i \in Tasks!JobsOf(k) : x3'[i].pc = "ok" => x5'[k] = 0
        BY <1>8, <2>2, <3>2, <3>6
      <3> QED BY <1>1, <1>5, <2>1, <2>3, <2>4, <2>5, <3>4, <3>5, <3>8, <3>9 DEF Tasks!Counted
    <2> QED BY <2>6, <2>7, <2>8
  <1>12. w.pc # "none" /\ w.task \in {k, "none"} /\ w.id <= x2[k].id
    BY <1>1, <1>2, <1>8
  <1> QED BY <1>1, <1>2, <1>3, <1>5, <1>6, <1>7, <1>8, <1>10, <1>11, <1>12, TaskJobAlone

LEMMA TaskPanics ==
    ASSUME Tasks!Inductive, NEW j \in Dispatches, Tasks!Panic(j)
    PROVE  Tasks!Inductive'
  <1>a. x3[j].pc # "none"
    BY DEF Tasks!Panic
  <1>b. PICK k \in Tasks!Tasks : x3[j].task = k
    BY <1>a, TaskJobHas
  <1> DEFINE w == Tasks!NoJob
  <1>1. /\ x3[j].pc = "run" /\ x3' = [x3 EXCEPT ![j] = w] /\ UNCHANGED <<x1, x2, x4, x5, x6>>
        /\ Tasks!Count("fails") /\ x7' = x7 \cup {k}
    BY <1>b DEF Tasks!Panic
  <1>2. /\ x4 /\ k \in Tasks!Tasks /\ x3[j] \in TaskJob /\ x2[k] \in TaskRow /\ k # "none"
        /\ x2 = [x2 EXCEPT ![k] = x2[k]] /\ (k \in Cron => ~x2[k].expired)
    BY <1>1, <1>b, TaskJobHas
  <1>3. w \in TaskJob /\ w.task = "none" /\ w.pc = "none" /\ w.task # k
    BY <1>2 DEF TaskJob, Tasks!NoJob
  <1>4. /\ x7' \subseteq Tasks!Tasks \cup {"none"} /\ x5 \in [Tasks!Tasks -> Nat]
        /\ x8' \in [fails : Nat, edits : Nat, crashes : Nat] /\ x8'.crashes = x8.crashes
    BY <1>1, <1>2, TaskTyped, TaskCounts
  <1>5. x3[j].task = k
    BY <1>b
  <1> HIDE DEF w
  <1>6. ASSUME k \in Tasks!Watched PROVE Tasks!Single(k)' /\ Tasks!Counted(k)'
    <2>1. Tasks!Single(k) /\ Tasks!Counted(k)
      BY <1>6 DEF Tasks!Inductive
    <2>2. /\ x3'[j] = w /\ \A i \in Dispatches : i # j => x3'[i] = x3[i]
          /\ Tasks!JobsOf(k)' = Tasks!JobsOf(k) \ {j}
      BY <1>1, <1>2, <1>3, TaskJobsOf DEF TaskJobsAre
    <2>3. Tasks!Single(k)'
      BY <1>1, <2>1, <2>2 DEF Tasks!Single
    <2>4. Tasks!Erred(k)' <=> Tasks!Erred(k)
      BY <1>1, <2>2 DEF Tasks!Erred, Tasks!JobsOf
    <2>5. \A i \in Tasks!JobsOf(k)' : i \in Tasks!JobsOf(k) /\ x3'[i] = x3[i]
      BY <2>2 DEF Tasks!JobsOf
    <2> QED BY <1>1, <1>4, <2>1, <2>3, <2>4, <2>5 DEF Tasks!Counted
  <1>7. w.task \in {k, "none"}
    BY <1>3
  <1> QED BY <1>1, <1>2, <1>3, <1>4, <1>5, <1>6, <1>7, TaskJobAlone

(* What a job reports: completed, tried again, or failed for good.         *)
LEMMA TaskEnds ==
    ASSUME Tasks!Inductive, NEW j \in Dispatches, Tasks!MarkDone(j)
    PROVE  Tasks!Inductive'
  <1>a. x3[j].pc # "none"
    BY DEF Tasks!MarkDone
  <1>b. PICK k \in Tasks!Tasks : x3[j].task = k
    BY <1>a, TaskJobHas
  <1> DEFINE w == Tasks!NoJob
             o == Tasks!Outcome(k, x3[j].pc = "ok", x3[j].attempts, x3[j].expired)
  <1>1. /\ x3[j].pc \in {"ok", "error"} /\ x3' = [x3 EXCEPT ![j] = w] /\ UNCHANGED <<x1, x4, x5, x6, x7, x8>>
        /\ x2' = IF Tasks!Gone(j) THEN x2 ELSE [x2 EXCEPT ![k] = o]
    BY <1>b DEF Tasks!MarkDone
  <1>2. /\ x4 /\ k \in Tasks!Tasks /\ x3[j] \in TaskJob /\ x2[k] \in TaskRow /\ k # "none"
        /\ x2 = [x2 EXCEPT ![k] = x2[k]] /\ (k \in Cron => ~x2[k].expired /\ ~x3[j].expired)
        /\ x3[j].attempts \in Nat /\ x5[k] \in Nat /\ x2[k].attempts \in Nat
    BY <1>1, <1>b, TaskJobHas
  <1>3. w \in TaskJob /\ w.task = "none" /\ w.pc = "none" /\ w.task # k
    BY <1>2 DEF TaskJob, Tasks!NoJob
  <1>4. /\ x7 \subseteq Tasks!Tasks \cup {"none"} /\ x5 \in [Tasks!Tasks -> Nat]
        /\ x8 \in [fails : Nat, edits : Nat, crashes : Nat] /\ x8.crashes \in Nat /\ MaxAttempts \in Nat
        /\ MaxAttempts >= 1
    BY TaskTyped
  <1>5. x3[j].task = k /\ (Tasks!Gone(j) <=> x2[k].st = "none" \/ x2[k].id # x3[j].id)
    BY <1>b DEF Tasks!Gone
  <1>6. o \in TaskRow /\ o.id = x2[k].id /\ o.expired = x2[k].expired /\ o.st # "none"
    <2>1. x3[j].attempts + 1 \in Nat
      BY <1>2
    <2>2. /\ Tasks!OnError(x2[k], x3[j].attempts) \in TaskRow /\ Tasks!OnError(x2[k], x3[j].attempts).id = x2[k].id
          /\ Tasks!OnError(x2[k], x3[j].attempts).expired = x2[k].expired
          /\ Tasks!OnError(x2[k], x3[j].attempts).st # "none"
      BY <1>2, <2>1 DEF Tasks!OnError, TaskRow, Tasks!States
    <2>3. \A b \in BOOLEAN :
            /\ Tasks!OnSuccess(x2[k], b) \in TaskRow /\ Tasks!OnSuccess(x2[k], b).id = x2[k].id
            /\ Tasks!OnSuccess(x2[k], b).expired = x2[k].expired
            /\ Tasks!OnSuccess(x2[k], b).st # "none"
      BY <1>2 DEF Tasks!OnSuccess, TaskRow, Tasks!States
    <2>4. (k \in Cron /\ ~x3[j].expired) \in BOOLEAN
      OBVIOUS
    <2> QED BY <2>2, <2>3, <2>4 DEF Tasks!Outcome
  <1>7. CASE Tasks!Gone(j)
    <2>1. x2' = [x2 EXCEPT ![k] = x2[k]] /\ x2' = x2
      BY <1>1, <1>2, <1>7
    <2> HIDE DEF w, o
    <2>2. ASSUME k \in Tasks!Watched PROVE Tasks!Single(k)' /\ Tasks!Counted(k)'
      <3>1. Tasks!Single(k) /\ Tasks!Counted(k)
        BY <2>2 DEF Tasks!Inductive
      <3>2. /\ x3'[j] = w /\ \A i \in Dispatches : i # j => x3'[i] = x3[i]
            /\ Tasks!JobsOf(k)' = Tasks!JobsOf(k) \ {j}
        BY <1>1, <1>2, <1>3, <2>1, TaskJobsOf DEF TaskJobsAre
      <3>3. Tasks!Single(k)'
        BY <2>1, <3>1, <3>2 DEF Tasks!Single
      <3>4. CASE x2[k].st = "none"
        BY <1>1, <2>1, <3>1, <3>3, <3>4 DEF Tasks!Counted
      <3>5. CASE x2[k].id # x3[j].id
        <4>1. TaskSame(k)
          BY <1>1, <2>1, <3>2, <3>5 DEF TaskSame, Tasks!JobsOf
        <4> QED BY <3>1, <4>1, TaskSameKeeps
      <3> QED BY <1>5, <1>7, <3>4, <3>5
    <2>3. w.task \in {k, "none"} /\ x7' \subseteq Tasks!Tasks \cup {"none"}
      BY <1>1, <1>3, <1>4
    <2> QED BY <1>1, <1>2, <1>3, <1>4, <1>5, <2>1, <2>2, <2>3, TaskJobAlone
  <1>8. CASE ~Tasks!Gone(j)
    <2>1. x2' = [x2 EXCEPT ![k] = o]
      BY <1>1, <1>8
    <2>2. x2[k].st # "none" /\ x2[k].id = x3[j].id
      BY <1>5, <1>8
    <2>3. x3[j].pc = "ok" => /\ o.st \in {"pending", "completed"} /\ o.attempts = 0
                             /\ o.st = "pending" => ~x3[j].expired
      BY <1>2 DEF Tasks!Outcome, Tasks!OnSuccess, TaskRow
    <2>4. x3[j].pc # "ok" => /\ o.attempts = x3[j].attempts + 1 /\ o.st \in {"pending", "failed"}
                             /\ o.st = "pending" => x3[j].attempts + 1 < MaxAttempts
      BY <1>2 DEF Tasks!Outcome, Tasks!OnError, TaskRow
    <2> HIDE DEF w, o
    <2>5. ASSUME k \in Tasks!Watched PROVE Tasks!Single(k)' /\ Tasks!Counted(k)'
      <3>1. Tasks!Single(k) /\ Tasks!Counted(k)
        BY <2>5 DEF Tasks!Inductive
      <3>2. j \in Tasks!JobsOf(k)
        BY <1>5, <2>2 DEF Tasks!JobsOf
      <3>3. Tasks!JobsOf(k) = {j} /\ x2[k].st = "running"
        BY <2>2, <3>1, <3>2 DEF Tasks!Single
      <3>4. x2'[k] = o
        BY <1>2, <2>1, TaskTyped
      <3>5. Tasks!JobsOf(k)' = {}
        <4>1. Tasks!JobsOf(k)' = Tasks!JobsOf(k) \ {j}
          <5>1. x2'[k].id = x2[k].id
            BY <1>6, <3>4
          <5>2. ~(w.task = k /\ w.id = x2[k].id) => Tasks!JobsOf(k)' = Tasks!JobsOf(k) \ {j}
            <6>1. k \in Tasks!Tasks /\ w \in TaskJob /\ x3' = [x3 EXCEPT ![j] = w]
              BY <1>1, <1>2, <1>3
            <6>2. TaskJobsAre(j, w, k)
              BY <5>1, <6>1, TaskJobsOf
            <6> QED BY <6>2 DEF TaskJobsAre
          <5> QED BY <1>3, <5>2
        <4> QED BY <3>3, <4>1
      <3>6. ~Tasks!Erred(k)' /\ Tasks!Single(k)'
        BY <3>5 DEF Tasks!Erred, Tasks!Single
      <3>7. /\ x5[k] <= MaxAttempts + x8.crashes /\ x3[j].attempts = x2[k].attempts
            /\ x3[j].pc = "ok" => x3[j].expired \/ x5[k] = 0
        BY <3>1, <3>3, <2>2 DEF Tasks!Counted
      <3>8. x5[k] <= x2[k].attempts + x8.crashes + 1
        BY <1>2, <1>4, <3>1, <3>3 DEF Tasks!Counted
      <3>9. o.st \in {"pending", "running"} => o.attempts < MaxAttempts /\ x5[k] <= o.attempts + x8.crashes
        <4>1. CASE x3[j].pc = "ok"
          BY <1>4, <2>3, <3>7, <4>1
        <4>2. CASE x3[j].pc # "ok"
          BY <1>2, <1>4, <2>4, <3>7, <3>8, <4>2
        <4> QED BY <4>1, <4>2
      <3>10. o.attempts \in Nat
        BY <1>6 DEF TaskRow
      <3>11. o.st \in {"pending", "running"} => x5[k] <= o.attempts + x8.crashes + 0
        BY <1>4, <3>9, <3>10
      <3> QED BY <1>1, <3>4, <3>5, <3>6, <3>7, <3>9, <3>11 DEF Tasks!Counted
    <2>6. (o.st = "none" => x2[k].st = "none") /\ (k \in Cron => ~o.expired) /\ w.task # k
      BY <1>2, <1>3, <1>6
    <2>7. x3[j].task \in {k, "none"} /\ w.task \in {k, "none"} /\ x7' \subseteq Tasks!Tasks \cup {"none"}
      BY <1>1, <1>4, <1>3, <1>5
    <2>8. k \in Tasks!Tasks /\ w \in TaskJob /\ x3' = [x3 EXCEPT ![j] = w] /\ UNCHANGED <<x1, x4, x5, x6, x7, x8>>
      BY <1>1, <1>2, <1>3
    <2>9. x2' \in [Tasks!Tasks -> TaskRow] /\ x2'[k] = o /\ \A i \in Tasks!Tasks : i # k => x2'[i] = x2[i]
      BY <1>2, <1>6, <2>1, TaskTyped
    <2>10. TaskJobStep(j, w, k)
      BY <1>3, <1>4, <1>6, <2>5, <2>6, <2>7, <2>8, <2>9 DEF TaskJobStep
    <2> QED BY <2>8, <2>10, TaskJobKeeps
  <1> QED BY <1>7, <1>8

LEMMA TaskCrash ==
    ASSUME Tasks!Inductive, Tasks!Crash
    PROVE  Tasks!Inductive'
  <1>1. /\ x3' = [j \in Dispatches |-> Tasks!NoJob] /\ x4' = FALSE /\ x7' = {}
        /\ UNCHANGED <<x1, x2, x5, x6>> /\ Tasks!Count("crashes")
    BY DEF Tasks!Crash
  <1>2. /\ x8' \in [fails : Nat, edits : Nat, crashes : Nat] /\ x8'.crashes = x8.crashes + 1
    BY <1>1, TaskCounts
  <1>3. Tasks!NoJob \in TaskJob /\ Tasks!NoJob.pc = "none" /\ Tasks!NoJob.task = "none" /\ "none" \notin Tasks!Tasks
    BY TaskTyped DEF TaskJob, Tasks!NoJob
  <1>4. x3' \in [Dispatches -> TaskJob] /\ \A j \in Dispatches : x3'[j].pc = "none" /\ x3'[j].task = "none"
    BY <1>1, <1>3
  <1>5. Tasks!Types'
    BY <1>1, <1>2, <1>4 DEF Tasks!Inductive, Tasks!Types, TaskJob
  <1>6. Tasks!JobsKnown'
    BY <1>3, <1>4 DEF Tasks!JobsKnown
  <1>7. Tasks!SeededStays'
    BY <1>1, <1>3, <1>4 DEF Tasks!Inductive, Tasks!SeededStays, Tasks!Tasks
  <1>8. ASSUME NEW k \in Tasks!Watched' PROVE Tasks!Single(k)' /\ Tasks!Counted(k)'
    <2>1. k \in Tasks!Tasks /\ Tasks!Counted(k)
      BY <1>1, <1>8 DEF Tasks!Inductive, Tasks!Watched
    <2>2. Tasks!JobsOf(k)' = {}
      BY <1>3, <1>4, <2>1 DEF Tasks!JobsOf
    <2>3. ~Tasks!Erred(k)' /\ Tasks!Single(k)'
      BY <2>2 DEF Tasks!Erred, Tasks!Single
    <2>4. x5[k] \in Nat /\ x2[k].attempts \in Nat /\ x8.crashes \in Nat /\ MaxAttempts \in Nat
      BY <2>1, TaskTyped DEF TaskRow
    <2>5. \A e \in {0, 1} : x5[k] <= x2[k].attempts + x8.crashes + e => x5[k] <= x2[k].attempts + (x8.crashes + 1) + 0
      BY <2>4
    <2>6. x5[k] <= MaxAttempts + x8.crashes => x5[k] <= MaxAttempts + (x8.crashes + 1)
      BY <2>4
    <2> QED BY <1>1, <1>2, <2>1, <2>2, <2>3, <2>5, <2>6 DEF Tasks!Counted
  <1> QED BY <1>5, <1>6, <1>7, <1>8 DEF Tasks!Inductive

(* What the boot makes of a row.                                           *)
LEMMA TaskRevived ==
    ASSUME NEW r \in TaskRow, NEW k
    PROVE  LET s == Tasks!RecoverRecurringTask(r, k) IN
           /\ s \in TaskRow /\ s.id = r.id /\ s.expired = r.expired /\ (s.st = "none" <=> r.st = "none")
           /\ s.st # "running"
           /\ s.st = "pending" => \/ r.st \in {"pending", "running"} /\ s.attempts = r.attempts
                                  \/ r.st = "failed" /\ s.attempts = 0
  <1>1. CASE r.st = "running"
    <2> DEFINE s == [r EXCEPT !.st = "pending"]
    <2>1. Tasks!RecoverRecurringTask(r, k) = s
      BY <1>1 DEF Tasks!RecoverRecurringTask
    <2>2. s \in TaskRow /\ s.id = r.id /\ s.expired = r.expired /\ s.st = "pending" /\ s.attempts = r.attempts
      BY DEF TaskRow, Tasks!States
    <2> HIDE DEF s
    <2> QED BY <1>1, <2>1, <2>2
  <1>2. CASE r.st = "failed" /\ k \in Cron /\ r.enabled
    <2> DEFINE s == [r EXCEPT !.st = "pending", !.at = "later", !.attempts = 0]
    <2>1. Tasks!RecoverRecurringTask(r, k) = s
      BY <1>2 DEF Tasks!RecoverRecurringTask
    <2>2. s \in TaskRow /\ s.id = r.id /\ s.expired = r.expired /\ s.st = "pending" /\ s.attempts = 0
      BY DEF TaskRow, Tasks!States
    <2> HIDE DEF s
    <2> QED BY <1>2, <2>1, <2>2
  <1>3. CASE r.st # "running" /\ ~(r.st = "failed" /\ k \in Cron /\ r.enabled)
    <2>1. Tasks!RecoverRecurringTask(r, k) = r
      BY <1>3 DEF Tasks!RecoverRecurringTask
    <2> QED BY <1>3, <2>1
  <1> QED BY <1>1, <1>2, <1>3

(* The start of the process: recovery of what ran before.                  *)
LEMMA TaskBoot ==
    ASSUME Tasks!Inductive, Tasks!InitAndRecover
    PROVE  Tasks!Inductive'
  <1>1. /\ ~x4 /\ x4' = TRUE /\ UNCHANGED <<x1, x6, x7, x8>>
        /\ x2' = [k \in Tasks!Tasks |-> Tasks!RecoverRecurringTask(Tasks!Seed(x2)[k], k)]
        /\ x5' = [k \in Tasks!Tasks |-> IF x2[k].st = "failed" /\ x2'[k].st = "pending" THEN 0 ELSE x5[k]]
    BY DEF Tasks!InitAndRecover
  <1>2. /\ x2 \in [Tasks!Tasks -> TaskRow] /\ x5 \in [Tasks!Tasks -> Nat] /\ "none" \notin Tasks!Tasks
        /\ x8 \in [fails : Nat, edits : Nat, crashes : Nat] /\ x8.crashes \in Nat /\ MaxAttempts \in Nat
        /\ MaxAttempts >= 1
    BY TaskTyped
  <1>3. \A k \in Tasks!Tasks : Tasks!Seed(x2)[k] = x2[k]
    <2> SUFFICES ASSUME NEW k \in Tasks!Tasks PROVE Tasks!Seed(x2)[k] = x2[k]
      OBVIOUS
    <2>1. ~(k \in x1.tasks \ Once /\ x2[k].st = "none")
      BY DEF Tasks!Inductive, Tasks!SeededStays
    <2> QED BY <2>1 DEF Tasks!Seed
  <1>4. \A k \in Tasks!Tasks : x2'[k] = Tasks!RecoverRecurringTask(x2[k], k)
    BY <1>1, <1>3
  <1>5. ASSUME NEW k \in Tasks!Tasks
        PROVE  /\ x2'[k] \in TaskRow /\ x2'[k].id = x2[k].id /\ x2'[k].expired = x2[k].expired
               /\ (x2'[k].st = "none" <=> x2[k].st = "none") /\ x2'[k].st # "running"
               /\ x2'[k].st = "pending" => \/ x2[k].st \in {"pending", "running"} /\ x2'[k].attempts = x2[k].attempts
                                           \/ x2[k].st = "failed" /\ x2'[k].attempts = 0
    <2>1. x2[k] \in TaskRow
      BY <1>2
    <2> QED BY <1>4, <2>1, TaskRevived
  <1>6. x2' \in [Tasks!Tasks -> TaskRow]
    BY <1>1, <1>5
  <1>7. x5' \in [Tasks!Tasks -> Nat]
    BY <1>1, <1>2
  <1>8. /\ x3' \in [Dispatches -> TaskJob]
        /\ \A j \in Dispatches : \/ x3'[j].task = "none" /\ x3'[j].pc = "none"
                                 \/ x3'[j].task \in Startup /\ x3'[j].id = x2[x3'[j].task].id
    <2>1. PICK slot \in [Startup -> Dispatches] :
             x3' = [j \in Dispatches |-> IF \E k \in Startup : slot[k] = j /\ x2[k].st # "none" /\ x2[k].enabled
                                         THEN Tasks!Dispatched(CHOOSE x \in Startup : slot[x] = j)
                                         ELSE Tasks!NoJob]
      BY DEF Tasks!InitAndRecover
    <2>2. Tasks!NoJob \in TaskJob /\ Tasks!NoJob.task = "none" /\ Tasks!NoJob.pc = "none"
      BY DEF Tasks!NoJob, TaskJob
    <2>3. \A k \in Startup : Tasks!Dispatched(k) \in TaskJob /\ Tasks!Dispatched(k).task = k /\ Tasks!Dispatched(k).id = x2[k].id
      BY <1>2 DEF Tasks!Dispatched, TaskJob, TaskRow, Tasks!Tasks
    <2>4. ASSUME NEW j \in Dispatches
          PROVE  x3'[j] = Tasks!NoJob \/ \E k \in Startup : x3'[j] = Tasks!Dispatched(k)
      BY <2>1
    <2>5. \A j \in Dispatches : x3'[j] \in TaskJob
      BY <2>2, <2>3, <2>4
    <2> QED BY <2>1, <2>2, <2>3, <2>4, <2>5
  <1>9. Tasks!Types'
    BY <1>1, <1>6, <1>7, <1>8 DEF Tasks!Inductive, Tasks!Types, TaskRow, TaskJob
  <1>10. Tasks!JobsKnown'
    <2> SUFFICES ASSUME NEW j \in Dispatches
                 PROVE  /\ x3'[j].pc # "none" => x3'[j].task \in Tasks!Tasks
                        /\ x3'[j].task \in Tasks!Tasks => x3'[j].id <= x2'[x3'[j].task].id
      BY <1>1 DEF Tasks!JobsKnown
    <2>1. CASE x3'[j].task = "none" /\ x3'[j].pc = "none"
      BY <1>2, <2>1
    <2>2. CASE x3'[j].task \in Startup /\ x3'[j].id = x2[x3'[j].task].id
      <3>1. x3'[j].task \in Tasks!Tasks
        BY <2>2 DEF Tasks!Tasks
      <3>2. x2'[x3'[j].task].id = x2[x3'[j].task].id /\ x2[x3'[j].task].id \in Nat
        BY <1>2, <1>5, <3>1 DEF TaskRow
      <3> QED BY <2>2, <3>1, <3>2
    <2> QED BY <1>8, <2>1, <2>2
  <1>11. Tasks!SeededStays'
    <2>1. ASSUME NEW k \in Tasks!Tasks \ Once, x2'[k].st = "none" PROVE k \notin x1'.tasks
      BY <1>1, <1>5, <2>1 DEF Tasks!Inductive, Tasks!SeededStays
    <2>2. ASSUME NEW k \in Cron PROVE ~x2'[k].expired
      BY <1>5, <2>2 DEF Tasks!Inductive, Tasks!SeededStays, Tasks!Tasks
    <2>3. ASSUME NEW k \in Cron, NEW j \in Dispatches PROVE x3'[j].task # k
      BY <1>2, <1>8, <2>3, BackgroundAssumption DEF Tasks!Tasks
    <2> QED BY <2>1, <2>2, <2>3 DEF Tasks!SeededStays
  <1>12. ASSUME NEW k \in Tasks!Watched' PROVE Tasks!Single(k)' /\ Tasks!Counted(k)'
    <2>1. k \in Tasks!Tasks /\ k \notin Startup /\ Tasks!Counted(k)
      BY <1>1, <1>12 DEF Tasks!Inductive, Tasks!Watched
    <2>2. Tasks!JobsOf(k)' = {}
      BY <1>2, <1>8, <2>1 DEF Tasks!JobsOf
    <2>3. ~Tasks!Erred(k)' /\ Tasks!Single(k)'
      BY <2>2 DEF Tasks!Erred, Tasks!Single
    <2>4. ~Tasks!Erred(k)
      BY <1>1 DEF Tasks!Erred, Tasks!JobsOf, Tasks!Inductive, Tasks!JobsKnown
    <2>5. x5[k] \in Nat /\ x2[k].attempts \in Nat /\ x5'[k] \in Nat /\ x2'[k].attempts \in Nat
      BY <1>2, <1>6, <1>7, <2>1 DEF TaskRow
    <2>6. x5'[k] \in {0, x5[k]} /\ (x2[k].st = "failed" /\ x2'[k].st = "pending" => x5'[k] = 0)
      BY <1>1, <2>1
    <2>7. x5'[k] <= MaxAttempts + x8.crashes
      BY <1>2, <2>1, <2>5, <2>6 DEF Tasks!Counted
    <2>8. ASSUME x2'[k].st \in {"pending", "running"}
          PROVE  x2'[k].attempts < MaxAttempts /\ x5'[k] <= x2'[k].attempts + x8.crashes + 0
      <3>1. x2'[k].st = "pending"
        BY <1>5, <2>1, <2>8
      <3>2. CASE x2[k].st \in {"pending", "running"} /\ x2'[k].attempts = x2[k].attempts
        BY <1>2, <2>1, <2>4, <2>5, <2>6, <3>2 DEF Tasks!Counted
      <3>3. CASE x2[k].st = "failed" /\ x2'[k].attempts = 0
        BY <1>2, <2>6, <3>1, <3>3
      <3> QED BY <1>5, <2>1, <3>1, <3>2, <3>3
    <2> QED BY <1>1, <2>2, <2>3, <2>7, <2>8 DEF Tasks!Counted
  <1> QED BY <1>9, <1>10, <1>11, <1>12 DEF Tasks!Inductive

(* Every step of the task engine.                                          *)
LEMMA TaskNext ==
    ASSUME Tasks!Inductive, Tasks!Next
    PROVE  Tasks!Inductive'
  <1>1. ASSUME NEW k \in Tasks!Tasks, Tasks!FetchAndRun(k) \/ TaskEdit(k) PROVE Tasks!Inductive'
    BY <1>1, TaskClaims, TaskEdits
  <1>2. ASSUME NEW j \in Dispatches, Tasks!Work(j) \/ Tasks!Panic(j) PROVE Tasks!Inductive'
    BY <1>2, TaskDispatches, TaskRuns, TaskEnds, TaskPanics DEF Tasks!Work
  <1> QED BY <1>1, <1>2, TaskCrash, TaskBoot DEF Tasks!Next, TaskEdit

(* What follows from the invariant.                                        *)
LEMMA TaskResults == Tasks!Inductive => Tasks!TypeOK /\ Tasks!OneJobPerTask /\ Tasks!AttemptsBounded
  <1> SUFFICES ASSUME Tasks!Inductive PROVE Tasks!TypeOK /\ Tasks!OneJobPerTask /\ Tasks!AttemptsBounded
    OBVIOUS
  <1>1. Tasks!TypeOK
    BY TaskTyped DEF Tasks!TypeOK, TaskRow, TaskJob, Tasks!States
  <1>2. ASSUME NEW k \in Tasks!Watched PROVE Tasks!Cardinality(Tasks!JobsOf(k)) <= 1
    <2>1. \A i, j \in Tasks!JobsOf(k) : i = j
      BY DEF Tasks!Inductive, Tasks!Single
    <2>2. Tasks!Cardinality(Tasks!JobsOf(k)) = Cardinality(Tasks!JobsOf(k))
      BY DEF Tasks!Cardinality, Cardinality
    <2>3. CASE Tasks!JobsOf(k) = {}
      BY <2>2, <2>3, FS_EmptySet
    <2>4. CASE Tasks!JobsOf(k) # {}
      <3>1. PICK j : Tasks!JobsOf(k) = {j}
        BY <2>1, <2>4
      <3>2. Cardinality({j}) = 1
        BY FS_Singleton
      <3> QED BY <2>2, <3>1, <3>2
    <2> QED BY <2>3, <2>4
  <1>3. Tasks!OneJobPerTask
    BY <1>2 DEF Tasks!OneJobPerTask, Tasks!Inductive, Tasks!Watched, Tasks!Single
  <1>4. Tasks!AttemptsBounded
    BY DEF Tasks!AttemptsBounded, Tasks!Inductive, Tasks!Watched, Tasks!Counted
  <1> QED BY <1>1, <1>3, <1>4

----------------------------------------------------------------------------
(* JeopardyInstances: rows, containers and the threads between them *)

InstRow == [st : Inst!States, name : Inst!Names \cup {Inst!NoName}, age : {"new", "old", "expired"}]
InstThread == [pc : Inst!RequestPcs \cup Inst!TaskPcs, name : Inst!Names \cup {Inst!NoName},
               id : Ids \cup {"none"}, st : Inst!States,
               todo : SUBSET (Ids \X Inst!States \X Inst!Names), err : BOOLEAN]
InstSpent == [requests : Nat, fails : Nat, deaths : Nat, crashes : Nat, tries : Nat]

(* The bounds of a setting.                                                *)
LEMMA InstSetting ==
    ASSUME NEW c \in InstanceSettings
    PROVE  c.max \in Nat /\ c.max >= 1 /\ IsFiniteSet(c.threads) /\ c.challenges \subseteq {"c", "d"}
  <1>1. c.max = 1 /\ c.threads \in {{"t1"}, {"t1", "t2"}} /\ c.challenges \subseteq {"c", "d"}
    BY DEF InstanceSettings, Play
  <1>2. IsFiniteSet({"t1"}) /\ IsFiniteSet({"t1"} \cup {"t2"})
    BY FS_Singleton, FS_AddElement
  <1>3. {"t1", "t2"} = {"t1"} \cup {"t2"}
    OBVIOUS
  <1>4. IsFiniteSet(c.threads)
    BY <1>1, <1>2, <1>3
  <1> QED BY <1>1, <1>4

LEMMA InstNames == "none" \notin Ids /\ Inst!NoName \notin Inst!Names /\ Cleaner \notin Threads
  BY BackgroundAssumption DEF Inst!NoName, Inst!Names

(* What the variables are.                                                 *)
LEMMA InstTyped ==
    ASSUME Inst!Inductive
    PROVE  /\ x1 \in InstanceSettings /\ x2 \in {"live", "deleted"} /\ x3 \subseteq {"c", "d"}
           /\ x4 \in [Ids -> InstRow] /\ x5 \in [Inst!Names -> Ids \cup {"none"}] /\ x6 \subseteq Ids
           /\ x7 \subseteq Ids /\ x8 \in [Inst!Workers -> InstThread] /\ x9 \in InstSpent
           /\ x10 \subseteq {"c", "d"}
  BY DEF Inst!Inductive, Inst!Types, InstRow, InstThread, InstSpent, Inst!None

(* The sets that the limit counts, and what they count.                    *)
LEMMA InstCounted ==
    ASSUME x1 \in InstanceSettings, NEW s
    PROVE  /\ IsFiniteSet(Inst!RunningOf(s)) /\ IsFiniteSet(Inst!LaunchesOf(s)) /\ IsFiniteSet(x1.threads)
           /\ Cardinality(Inst!RunningOf(s)) \in Nat /\ Cardinality(Inst!LaunchesOf(s)) \in Nat
           /\ Cardinality(x1.threads) \in Nat /\ x1.max \in Nat /\ x1.max >= 1
           /\ Cardinality(Inst!LaunchesOf(s)) <= Cardinality(x1.threads)
  <1>1. x1.max \in Nat /\ x1.max >= 1 /\ IsFiniteSet(x1.threads)
    BY InstSetting
  <1>2. Inst!RunningOf(s) \subseteq Ids /\ Inst!LaunchesOf(s) \subseteq x1.threads /\ IsFiniteSet(Ids)
    BY BackgroundAssumption DEF Inst!RunningOf, Inst!LaunchesOf
  <1>3. IsFiniteSet(Inst!RunningOf(s)) /\ IsFiniteSet(Inst!LaunchesOf(s))
    BY <1>1, <1>2, FS_Subset
  <1>4. Cardinality(Inst!LaunchesOf(s)) <= Cardinality(x1.threads)
    BY <1>1, <1>2, FS_Subset
  <1> QED BY <1>1, <1>3, <1>4, FS_CardinalityType

(* LimitHolds, with the Cardinality of this module.                        *)
LEMMA InstLimit ==
    Inst!LimitHolds <=> \A s \in Subjects :
        Cardinality(Inst!RunningOf(s)) + Cardinality(Inst!LaunchesOf(s)) < x1.max + Cardinality(x1.threads)
  BY DEF Inst!LimitHolds, Inst!MaxConcurrentInstances, Inst!Cardinality, Cardinality

LEMMA InstInit == Inst!Init => Inst!Inductive
  <1> SUFFICES ASSUME Inst!Init PROVE Inst!Inductive
    OBVIOUS
  <1>1. /\ Inst!NoRow \in InstRow /\ Inst!NoRow.st = "none" /\ Inst!NoRow.name = Inst!NoName
        /\ Inst!Idle \in InstThread /\ Inst!Idle.pc = "idle" /\ Inst!Idle.todo = {}
    BY DEF Inst!NoRow, Inst!Idle, InstRow, InstThread, Inst!States, Inst!RequestPcs, Inst!Launching, Inst!TaskPcs,
           Inst!None
  <1>2. /\ x4 \in [Ids -> InstRow] /\ \A i \in Ids : x4[i].st = "none" /\ x4[i].name = Inst!NoName
        /\ x8 \in [Inst!Workers -> InstThread] /\ \A t \in Inst!Workers : x8[t].pc = "idle" /\ x8[t].todo = {}
        /\ x5 \in [Inst!Names -> {"none"}] /\ x1 \in InstanceSettings
    BY <1>1 DEF Inst!Init, Inst!None
  <1>3. x9 \in InstSpent
    BY DEF Inst!Init, InstSpent
  <1>4. x3 \subseteq {"c", "d"} /\ x10 \subseteq {"c", "d"}
    BY <1>2, InstSetting DEF Inst!Init
  <1>5. Inst!Types
    BY <1>2, <1>3, <1>4 DEF Inst!Init, Inst!Types, InstRow, InstThread, InstSpent, Inst!None
  <1>6. Inst!Roles
    BY <1>2, InstNames DEF Inst!Roles, Inst!Workers, Inst!TaskPcs, Inst!RequestPcs, Inst!Launching
  <1>7. Inst!OneName
    BY <1>2 DEF Inst!OneName, Inst!None
  <1>8. Inst!LimitHolds
    <2> SUFFICES ASSUME NEW s \in Subjects
                 PROVE  Cardinality(Inst!RunningOf(s)) + Cardinality(Inst!LaunchesOf(s)) < x1.max + Cardinality(x1.threads)
      BY InstLimit
    <2>1. Inst!RunningOf(s) = {} /\ Inst!LaunchesOf(s) = {}
      BY <1>2 DEF Inst!RunningOf, Inst!LaunchesOf, Inst!Workers, Inst!Launching
    <2>2. Cardinality({}) = 0
      BY FS_EmptySet
    <2>3. Cardinality(x1.threads) \in Nat /\ x1.max \in Nat /\ x1.max >= 1
      BY <1>2, InstCounted
    <2> QED BY <2>1, <2>2, <2>3
  <1>9. Inst!ContainersAccounted /\ Inst!CompletedIsGone
    BY <1>2 DEF Inst!ContainersAccounted, Inst!CompletedIsGone, Inst!None
  <1> QED BY <1>5, <1>6, <1>7, <1>8, <1>9 DEF Inst!Inductive

(* What a thread may be, with what in hand.                                *)
InstRole(t, w) ==
    /\ t = Cleaner => w.pc \in Inst!TaskPcs
    /\ t \in Threads => w.pc \in Inst!RequestPcs /\ (w.pc # "idle" => t \in x1.threads)
    /\ w.pc \in Inst!Launching \cup {"compensate", "remove"} => w.name \in Inst!Names
    /\ w.pc \in {"persist", "persistPlain", "compensate", "find", "remove", "complete", "fail"} => w.id \in Ids
    /\ w.pc \in {"remove", "complete", "fail"} => w.st # "none"
    /\ \A c \in w.todo : c[2] # "none"

LEMMA InstRoleHas ==
    ASSUME Inst!Inductive, NEW t \in Inst!Workers
    PROVE  InstRole(t, x8[t]) /\ x8[t] \in InstThread
  <1>1. x8[t] \in InstThread
    BY InstTyped
  <1>2. InstRole(t, x8[t])
    BY DEF Inst!Inductive, Inst!Roles, InstRole
  <1> QED BY <1>1, <1>2

(* What an id is to a thread in its hand and on its list, with the         *)
(* containers of con and those forgotten.                                  *)
InstName(w, con, forgot) ==
    /\ w.pc \in {"persist", "persistPlain", "compensate", "remove"} => \A n \in Inst!Names : con[n] = w.id => n = w.name
    /\ w.pc = "complete" => \A n \in Inst!Names : con[n] = w.id => w.id \in forgot
InstTodo(w, con) == \A c \in w.todo : \A n \in Inst!Names : con[n] = c[1] => n = c[3]

(* A thread that answers for a container, and the row that does.           *)
InstAnswers(w, i) == w.pc \in {"persist", "compensate"} /\ w.id = i
InstKept(r) == r.st \in {"running", "failed"}
InstHeld(n) == InstKept(x4[x5[n]]) /\ x4[x5[n]].name = n /\ n[2] \notin x11

(* A step of the thread t, which becomes w: it creates neither a row nor a *)
(* container.                                                              *)
InstFrame(t, w) ==
    /\ x1' = x1 /\ x2' \in {"live", "deleted"} /\ x3' \subseteq {"c", "d"} /\ x4' \in [Ids -> InstRow]
    /\ x5' \in [Inst!Names -> Ids \cup {"none"}] /\ x6' \subseteq Ids /\ x7' \subseteq Ids /\ x7 \subseteq x7'
    /\ x8' = [x8 EXCEPT ![t] = w] /\ x9' \in InstSpent /\ x10' \subseteq {"c", "d"} /\ x11 \subseteq x11'
InstShrinks ==
    /\ \A n \in Inst!Names : x5'[n] \in {x5[n], "none"}
    /\ \A i \in Ids : /\ x4'[i].st # "none" <=> x4'[i].name \in Inst!Names
                      /\ x4'[i].st # "none" => x4[i].st # "none" /\ x4'[i].name = x4[i].name
                      /\ x4'[i].st = "running" => x4[i].st = "running"
InstFaultless == x9.crashes = 0 /\ x9.fails = 0 /\ x2 = "live"
InstAnswered(t, w) ==
    /\ InstFaultless' =>
         /\ InstFaultless
         /\ \A n \in Inst!Names : x5'[n] # "none" /\ x5[n] \notin x7' =>
              /\ InstHeld(n) => InstHeld(n)'
              /\ InstAnswers(x8[t], x5[n]) => InstAnswers(w, x5[n])
    /\ \A n \in Inst!Names : x5'[n] # "none" /\ x5[n] \notin x7' =>
         (x4'[x5[n]].st = "completed" => x4[x5[n]].st = "completed")
InstStep(t, w) ==
    /\ InstFrame(t, w) /\ InstShrinks /\ InstRole(t, w) /\ InstName(w, x5', x7') /\ InstAnswered(t, w)
    /\ w.todo \subseteq x8[t].todo \/ InstTodo(w, x5)
    /\ \/ w.pc \in Inst!Launching => x8[t].pc \in Inst!Launching /\ w.name = x8[t].name
       \/ Inst!LimitHolds'

(* Fewer instances and launches.                                           *)
LEMMA InstLimitKeeps ==
    ASSUME Inst!Inductive, x1' = x1,
           \A s \in Subjects : /\ Inst!RunningOf(s)' \subseteq Inst!RunningOf(s)
                               /\ Inst!LaunchesOf(s)' \subseteq Inst!LaunchesOf(s)
    PROVE  Inst!LimitHolds'
  <1> SUFFICES ASSUME NEW s \in Subjects
               PROVE  (Cardinality(Inst!RunningOf(s)) + Cardinality(Inst!LaunchesOf(s)) < x1.max + Cardinality(x1.threads))'
    BY DEF Inst!LimitHolds, Inst!MaxConcurrentInstances, Inst!Cardinality, Cardinality
  <1>1. /\ IsFiniteSet(Inst!RunningOf(s)) /\ IsFiniteSet(Inst!LaunchesOf(s))
        /\ Cardinality(Inst!RunningOf(s)) \in Nat /\ Cardinality(Inst!LaunchesOf(s)) \in Nat
        /\ Cardinality(x1.threads) \in Nat /\ x1.max \in Nat
    BY InstTyped, InstCounted
  <1>2. Cardinality(Inst!RunningOf(s)) + Cardinality(Inst!LaunchesOf(s)) < x1.max + Cardinality(x1.threads)
    BY InstLimit DEF Inst!Inductive
  <1>3. Cardinality(Inst!RunningOf(s)') <= Cardinality(Inst!RunningOf(s)) /\ IsFiniteSet(Inst!RunningOf(s)')
    BY <1>1, FS_Subset
  <1>4. Cardinality(Inst!LaunchesOf(s)') <= Cardinality(Inst!LaunchesOf(s)) /\ IsFiniteSet(Inst!LaunchesOf(s)')
    BY <1>1, FS_Subset
  <1>5. Cardinality(Inst!RunningOf(s)') \in Nat /\ Cardinality(Inst!LaunchesOf(s)') \in Nat
    BY <1>3, <1>4, FS_CardinalityType
  <1> QED BY <1>1, <1>2, <1>3, <1>4, <1>5

(* The parts together: a step that keeps each keeps the invariant.         *)
LEMMA InstStepKeeps ==
    ASSUME Inst!Inductive, NEW t \in Inst!Workers, NEW w \in InstThread, InstStep(t, w)
    PROVE  Inst!Inductive'
  <1>1. /\ x4 \in [Ids -> InstRow] /\ x5 \in [Inst!Names -> Ids \cup {"none"}]
        /\ x8 \in [Inst!Workers -> InstThread] /\ "none" \notin Ids
    BY InstTyped, InstNames
  <1>2. x8' \in [Inst!Workers -> InstThread] /\ x8'[t] = w /\ \A u \in Inst!Workers : u # t => x8'[u] = x8[u]
    BY <1>1 DEF InstStep, InstFrame
  <1>3. Inst!Types'
    BY <1>2, InstTyped DEF InstStep, InstFrame, Inst!Types, InstRow, InstThread, InstSpent, Inst!None
  <1>4. Inst!Roles'
    <2>1. \A u \in Inst!Workers : InstRole(u, x8'[u])
      BY <1>2, InstRoleHas DEF InstStep
    <2>2. x1' = x1 /\ \A i \in Ids : x4'[i].st # "none" <=> x4'[i].name \in Inst!Names
      BY DEF InstStep, InstFrame, InstShrinks
    <2> QED BY <2>1, <2>2 DEF InstRole, Inst!Roles, Inst!Workers
  <1>5. Inst!OneName'
    <2>1. ASSUME NEW n \in Inst!Names, x5'[n] # "none", x4'[x5'[n]].st # "none" PROVE x4'[x5'[n]].name = n
      <3>1. x5'[n] = x5[n] /\ x5[n] \in Ids
        BY <1>1, <2>1 DEF InstStep, InstShrinks
      <3>2. x4[x5[n]].st # "none" /\ x4'[x5[n]].name = x4[x5[n]].name
        BY <2>1, <3>1 DEF InstStep, InstShrinks
      <3> QED BY <2>1, <3>1, <3>2 DEF Inst!Inductive, Inst!OneName, Inst!None
    <2>2. ASSUME NEW u \in Inst!Workers PROVE InstName(x8'[u], x5', x7')
      <3>1. CASE u = t
        BY <1>2, <3>1 DEF InstStep
      <3>2. CASE u # t
        <4>1. InstName(x8[u], x5, x7)
          BY DEF Inst!Inductive, Inst!OneName, InstName
        <4>2. /\ x8'[u] = x8[u] /\ x7 \subseteq x7'
              /\ x8[u].pc \in {"persist", "persistPlain", "compensate", "remove", "complete"} => x8[u].id # "none"
          BY <1>1, <1>2, <3>2, InstRoleHas DEF InstRole, InstStep, InstFrame
        <4> QED BY <4>1, <4>2 DEF InstName, InstStep, InstShrinks
      <3> QED BY <3>1, <3>2
    <2>3. ASSUME NEW u \in Inst!Workers PROVE InstTodo(x8'[u], x5')
      <3>1. \A v \in Inst!Workers : InstTodo(x8[v], x5)
        BY DEF Inst!Inductive, Inst!OneName, InstTodo
      <3>2. InstTodo(x8'[u], x5)
        BY <1>2, <3>1 DEF InstStep, InstTodo
      <3>3. \A c \in x8'[u].todo : c[1] \in Ids
        BY <1>2 DEF InstThread
      <3> QED BY <1>1, <3>2, <3>3 DEF InstTodo, InstStep, InstShrinks
    <2> QED BY <2>1, <2>2, <2>3 DEF Inst!OneName, InstName, InstTodo, Inst!None
  <1>6. Inst!LimitHolds'
    <2>1. CASE w.pc \in Inst!Launching => x8[t].pc \in Inst!Launching /\ w.name = x8[t].name
      <3>1. x1' = x1
        BY DEF InstStep, InstFrame
      <3>2. ASSUME NEW s \in Subjects
            PROVE  /\ Inst!RunningOf(s)' \subseteq Inst!RunningOf(s)
                   /\ Inst!LaunchesOf(s)' \subseteq Inst!LaunchesOf(s)
        <4>1. Inst!RunningOf(s)' \subseteq Inst!RunningOf(s)
          BY DEF Inst!RunningOf, Inst!Joined, InstStep, InstShrinks, InstFrame
        <4>2. Inst!LaunchesOf(s)' \subseteq Inst!LaunchesOf(s)
          BY <1>2, <2>1, <3>1 DEF Inst!LaunchesOf, Inst!Workers
        <4> QED BY <4>1, <4>2
      <3> QED BY <3>1, <3>2, InstLimitKeeps
    <2> QED BY <2>1 DEF InstStep
  <1>7. Inst!ContainersAccounted'
    <2> SUFFICES ASSUME InstFaultless', NEW n \in Inst!Names, x5'[n] # "none", x5'[n] \notin x7'
                 PROVE  Inst!Accounted(n)'
      BY DEF Inst!ContainersAccounted, InstFaultless, Inst!None
    <2>1. x5'[n] = x5[n] /\ x5[n] \in Ids /\ x5[n] \notin x7' /\ x5[n] \notin x7
      BY <1>1 DEF InstStep, InstShrinks, InstFrame
    <2>2. /\ InstFaultless /\ (InstHeld(n) => InstHeld(n)')
          /\ InstAnswers(x8[t], x5[n]) => InstAnswers(w, x5[n])
      BY <2>1 DEF InstStep, InstAnswered
    <2>3. Inst!Accounted(n)
      BY <1>1, <2>1, <2>2 DEF Inst!Inductive, Inst!ContainersAccounted, InstFaultless, Inst!None
    <2>4. CASE InstHeld(n)
      BY <2>2, <2>4 DEF Inst!Accounted, InstHeld, InstKept
    <2>5. CASE \E u \in Inst!Workers : InstAnswers(x8[u], x5[n])
      <3>1. \E u \in Inst!Workers : InstAnswers(x8'[u], x5[n])
        BY <1>2, <2>2, <2>5
      <3> QED BY <2>1, <3>1 DEF Inst!Accounted, InstAnswers
    <2> QED BY <2>3, <2>4, <2>5 DEF Inst!Accounted, InstHeld, InstKept, InstAnswers
  <1>8. Inst!CompletedIsGone'
    <2> SUFFICES ASSUME NEW n \in Inst!Names, x5'[n] # "none", x5'[n] \notin x7', x4'[x5'[n]].st = "completed"
                 PROVE  FALSE
      BY DEF Inst!CompletedIsGone, Inst!None
    <2>1. x5'[n] = x5[n] /\ x5[n] # "none" /\ x5[n] \notin x7
      BY DEF InstStep, InstShrinks, InstFrame
    <2>2. x4[x5[n]].st = "completed"
      BY <2>1 DEF InstStep, InstAnswered
    <2> QED BY <2>1, <2>2 DEF Inst!Inductive, Inst!CompletedIsGone, Inst!None
  <1> QED BY <1>3, <1>4, <1>5, <1>6, <1>7, <1>8 DEF Inst!Inductive

(* ... and changes neither rows nor containers.                            *)
InstLocal(t, w) ==
    /\ UNCHANGED <<x1, x2, x4, x5, x11>> /\ x3' \subseteq {"c", "d"} /\ x6' \subseteq Ids
    /\ x7' \subseteq Ids /\ x7 \subseteq x7' /\ x10' \subseteq {"c", "d"}
    /\ x8' = [x8 EXCEPT ![t] = w] /\ x9' \in InstSpent /\ (InstFaultless' => InstFaultless)
    /\ InstRole(t, w) /\ InstName(w, x5, x7') /\ (w.todo \subseteq x8[t].todo \/ InstTodo(w, x5))
    /\ InstFaultless' => \A i \in Ids : InstAnswers(x8[t], i) => InstAnswers(w, i)
    /\ \/ w.pc \in Inst!Launching => x8[t].pc \in Inst!Launching /\ w.name = x8[t].name
       \/ Inst!LimitHolds'

LEMMA InstLocalKeeps ==
    ASSUME Inst!Inductive, NEW t \in Inst!Workers, NEW w \in InstThread, InstLocal(t, w)
    PROVE  Inst!Inductive'
  <1>1. /\ x1 \in InstanceSettings /\ x2 \in {"live", "deleted"} /\ x4 \in [Ids -> InstRow]
        /\ x5 \in [Inst!Names -> Ids \cup {"none"}] /\ "none" \notin Ids
    BY InstTyped, InstNames
  <1>2. InstFrame(t, w)
    BY <1>1 DEF InstFrame, InstLocal
  <1>3. InstShrinks
    BY DEF InstShrinks, InstLocal, Inst!Inductive, Inst!Roles
  <1>4. InstAnswered(t, w)
    <2>1. \A n \in Inst!Names : InstHeld(n)' <=> InstHeld(n)
      BY DEF InstHeld, InstLocal
    <2> QED BY <1>1, <2>1 DEF InstAnswered, InstLocal
  <1>5. InstStep(t, w)
    BY <1>2, <1>3, <1>4 DEF InstStep, InstLocal
  <1> QED BY <1>5, InstStepKeeps

LEMMA InstCounts ==
    ASSUME Inst!Inductive, NEW f \in {"requests", "fails", "deaths", "crashes"}, Inst!Count(f)
    PROVE  /\ x9' \in InstSpent
           /\ x9'.fails = 0 /\ x9'.crashes = 0 => x9.fails = 0 /\ x9.crashes = 0 /\ f \notin {"fails", "crashes"}
  <1>1. x9 \in InstSpent
    BY InstTyped
  <1>2. /\ x9' \in InstSpent /\ x9'.fails = x9.fails + (IF f = "fails" THEN 1 ELSE 0)
        /\ x9'.crashes = x9.crashes + (IF f = "crashes" THEN 1 ELSE 0)
    BY <1>1 DEF Inst!Count, InstSpent
  <1>3. x9.fails \in Nat /\ x9.crashes \in Nat
    BY <1>1 DEF InstSpent
  <1> QED BY <1>2, <1>3

(* Threads that are idle, done, or go on.                                  *)
LEMMA InstIdle ==
    /\ Inst!Idle \in InstThread /\ Inst!Idle.pc = "idle" /\ Inst!Idle.todo = {}
    /\ \A t \in Inst!Workers : InstRole(t, Inst!Idle) /\ \A con, forgot : InstName(Inst!Idle, con, forgot)
  <1>1. Inst!Idle \in InstThread /\ Inst!Idle.pc = "idle" /\ Inst!Idle.todo = {}
    BY DEF Inst!Idle, InstThread, Inst!States, Inst!RequestPcs, Inst!Launching, Inst!TaskPcs, Inst!None
  <1> QED BY <1>1 DEF InstRole, InstName, Inst!RequestPcs, Inst!TaskPcs, Inst!Launching

LEMMA InstGoes ==
    ASSUME Inst!Inductive, NEW t \in Inst!Workers, NEW pc \in Inst!RequestPcs \cup Inst!TaskPcs
    PROVE  LET w == [x8[t] EXCEPT !.pc = pc] IN
           /\ w \in InstThread /\ w.pc = pc /\ w.name = x8[t].name /\ w.id = x8[t].id /\ w.st = x8[t].st
           /\ w.todo = x8[t].todo
  <1>1. x8[t] \in InstThread
    BY InstTyped
  <1> QED BY <1>1 DEF InstThread

InstOver(t, w) ==
    /\ w \in InstThread /\ w.pc \in {"idle", "clean"} /\ w.todo \subseteq x8[t].todo
    /\ InstRole(t, w) /\ (\A con, forgot : InstName(w, con, forgot)) /\ x8' = [x8 EXCEPT ![t] = w]
LEMMA InstDone ==
    ASSUME Inst!Inductive, NEW t \in Inst!Workers, Inst!Done(t) \/ Inst!Failed(t)
    PROVE  \E w \in InstThread : InstOver(t, w)
  <1>1. CASE t = Cleaner
    <2>1. x8[t] \in InstThread /\ InstRole(t, x8[t])
      BY InstRoleHas
    <2>2. PICK e \in BOOLEAN : x8' = [x8 EXCEPT ![t] = [x8[t] EXCEPT !.pc = "clean", !.err = e]]
      <3>1. CASE Inst!Done(t)
        <4>1. x8[t].err \in BOOLEAN
          BY <2>1 DEF InstThread
        <4>2. [x8[t] EXCEPT !.pc = "clean"] = [x8[t] EXCEPT !.pc = "clean", !.err = x8[t].err]
          BY <2>1 DEF InstThread
        <4> QED BY <1>1, <3>1, <4>1, <4>2 DEF Inst!Done
      <3>2. CASE Inst!Failed(t)
        BY <1>1, <3>2 DEF Inst!Failed
      <3> QED BY <3>1, <3>2
    <2>5. PICK w : w = [x8[t] EXCEPT !.pc = "clean", !.err = e]
      OBVIOUS
    <2>3. w \in InstThread /\ w.pc = "clean" /\ w.todo = x8[t].todo
      BY <2>1, <2>5 DEF InstThread, Inst!TaskPcs
    <2>4. InstRole(t, w) /\ \A con, forgot : InstName(w, con, forgot)
      BY <1>1, <2>1, <2>3, InstNames DEF InstRole, InstName, Inst!TaskPcs, Inst!Launching
    <2> QED BY <2>2, <2>3, <2>4, <2>5 DEF InstOver
  <1>2. CASE t # Cleaner
    <2>1. x8' = [x8 EXCEPT ![t] = Inst!Idle]
      BY <1>2 DEF Inst!Done, Inst!Failed
    <2> QED BY <2>1, InstIdle DEF InstOver
  <1> QED BY <1>1, <1>2

LEMMA InstAsks ==
    ASSUME Inst!Inductive, NEW t \in Threads, Inst!Asks(t)
    PROVE  /\ t \in Inst!Workers /\ x8[t].pc = "idle" /\ t \in x1.threads /\ x9' \in InstSpent
           /\ x2' = x2 => (InstFaultless' => InstFaultless)
           /\ \A i : ~InstAnswers(x8[t], i)
  <1>1. x9' \in InstSpent /\ (x9'.fails = 0 /\ x9'.crashes = 0 => x9.fails = 0 /\ x9.crashes = 0)
    BY InstCounts DEF Inst!Asks
  <1> QED BY <1>1 DEF Inst!Asks, Inst!At, Inst!Workers, InstFaultless, InstAnswers

(* A request that will look for the row i.                                 *)
LEMMA InstSeeks ==
    ASSUME Inst!Inductive, NEW t \in Threads, NEW i \in Ids, x8[t].pc = "idle", t \in x1.threads,
           UNCHANGED <<x1, x2, x3, x4, x5, x7, x10, x11>>, x6' \subseteq Ids, x9' \in InstSpent,
           InstFaultless' => InstFaultless,
           x8' = [x8 EXCEPT ![t] = [Inst!Idle EXCEPT !.pc = "find", !.id = i]]
    PROVE  Inst!Inductive'
  <1> DEFINE w == [Inst!Idle EXCEPT !.pc = "find", !.id = i]
  <1>1. w \in InstThread /\ w.pc = "find" /\ w.id = i /\ w.todo = {}
    BY InstIdle DEF InstThread, Inst!RequestPcs
  <1>2. x8' = [x8 EXCEPT ![t] = w]
    OBVIOUS
  <1> HIDE DEF w
  <1>3. InstRole(t, w) /\ InstName(w, x5, x7')
    BY <1>1, InstNames DEF InstRole, InstName, Inst!RequestPcs, Inst!Launching
  <1>4. InstLocal(t, w)
    BY <1>1, <1>2, <1>3, InstTyped DEF InstLocal, InstAnswers, Inst!Launching
  <1>5. t \in Inst!Workers
    BY DEF Inst!Workers
  <1> QED BY <1>1, <1>4, <1>5, InstLocalKeeps

LEMMA InstDestroys ==
    ASSUME Inst!Inductive, NEW t \in Threads, NEW i \in Ids,
           Inst!DestroyInstance(t, i) \/ Inst!Submit(t, i) \/ Inst!TimerFires(t, i)
    PROVE  Inst!Inductive'
  <1>1. CASE Inst!DestroyInstance(t, i)
    BY <1>1, InstAsks, InstSeeks, InstTyped DEF Inst!DestroyInstance
  <1>2. CASE Inst!Submit(t, i)
    BY <1>2, InstAsks, InstSeeks, InstTyped DEF Inst!Submit
  <1>3. CASE Inst!TimerFires(t, i)
    <2>1. x6' \subseteq Ids /\ x9' \in InstSpent
      BY <1>3, InstTyped DEF Inst!TimerFires
    <2> QED BY <1>3, <2>1, InstSeeks DEF Inst!TimerFires, Inst!At, InstFaultless
  <1> QED BY <1>1, <1>2, <1>3

LEMMA InstPublishes ==
    ASSUME Inst!Inductive, NEW t \in Threads, NEW c \in x1.challenges,
           Inst!Publish(t, c) \/ Inst!PatchPort(t, c)
    PROVE  Inst!Inductive'
  <1>1. Inst!Asks(t) /\ UNCHANGED <<x1, x2, x4, x5, x6, x7, x8, x11>>
    BY DEF Inst!Publish, Inst!PatchPort, Inst!Administrates
  <1>2. t \in Inst!Workers /\ x9' \in InstSpent /\ (InstFaultless' => InstFaultless)
    BY <1>1, InstAsks
  <1>3. x3' \subseteq {"c", "d"} /\ x10' \subseteq {"c", "d"}
    BY InstTyped, InstSetting DEF Inst!Publish, Inst!PatchPort
  <1>4. PICK w : w = x8[t]
    OBVIOUS
  <1>5. w \in InstThread /\ x8' = [x8 EXCEPT ![t] = w] /\ InstRole(t, w) /\ InstName(w, x5, x7')
    BY <1>1, <1>2, <1>4, InstRoleHas, InstTyped DEF Inst!Inductive, Inst!OneName, InstName
  <1>6. InstLocal(t, w)
    BY <1>1, <1>2, <1>3, <1>4, <1>5, InstTyped DEF InstLocal
  <1> QED BY <1>2, <1>5, <1>6, InstLocalKeeps

(* launch_instance: one more launch below the limit.                       *)
LEMMA InstLaunches ==
    ASSUME Inst!Inductive, NEW t \in Threads, NEW n \in Inst!Names, Inst!LaunchInstance(t, n)
    PROVE  Inst!Inductive'
  <1> DEFINE w == [Inst!Idle EXCEPT !.pc = "forget", !.name = n]
  <1>1. /\ t \in Inst!Workers /\ x9' \in InstSpent /\ UNCHANGED <<x1, x2, x3, x4, x5, x6, x7, x10, x11>>
        /\ (InstFaultless' => InstFaultless) /\ Inst!Asks(t) /\ t \in x1.threads /\ (\A i : ~InstAnswers(x8[t], i))
    BY InstAsks DEF Inst!LaunchInstance
  <1>2. w \in InstThread /\ w.pc = "forget" /\ w.name = n /\ w.todo = {}
    BY InstIdle DEF InstThread, Inst!RequestPcs, Inst!Launching
  <1>3. x8' = [x8 EXCEPT ![t] = w]
    BY DEF Inst!LaunchInstance
  <1> HIDE DEF w
  <1>4. InstRole(t, w) /\ InstName(w, x5, x7')
    BY <1>1, <1>2, InstNames DEF InstRole, InstName, Inst!RequestPcs, Inst!Launching
  <1>5. x8'[t] = w /\ \A u \in Inst!Workers : u # t => x8'[u] = x8[u]
    BY <1>1, <1>3, InstTyped
  <1>6. Inst!LimitHolds'
    <2> SUFFICES ASSUME NEW s \in Subjects
                 PROVE  Cardinality(Inst!RunningOf(s)') + Cardinality(Inst!LaunchesOf(s)') < x1.max + Cardinality(x1.threads)
      BY <1>1 DEF Inst!LimitHolds, Inst!MaxConcurrentInstances, Inst!Cardinality, Cardinality
    <2>1. Inst!RunningOf(s)' = Inst!RunningOf(s)
      BY <1>1 DEF Inst!RunningOf, Inst!Joined
    <2>2. /\ IsFiniteSet(x1.threads) /\ Cardinality(Inst!RunningOf(s)) \in Nat /\ Cardinality(Inst!LaunchesOf(s)) \in Nat
          /\ Cardinality(x1.threads) \in Nat /\ x1.max \in Nat
      BY InstTyped, InstCounted
    <2>3. CASE s = n[1]
      <3>1. Cardinality(Inst!RunningOf(s)) < x1.max
        BY <2>3 DEF Inst!LaunchInstance, Inst!MaxConcurrentInstances, Inst!Cardinality, Cardinality
      <3>2. Inst!LaunchesOf(s)' \subseteq x1.threads
        BY <1>1 DEF Inst!LaunchesOf
      <3>3. Cardinality(Inst!LaunchesOf(s)') <= Cardinality(x1.threads) /\ IsFiniteSet(Inst!LaunchesOf(s)')
        BY <2>2, <3>2, FS_Subset
      <3>4. Cardinality(Inst!LaunchesOf(s)') \in Nat
        BY <3>3, FS_CardinalityType
      <3> QED BY <2>1, <2>2, <3>1, <3>3, <3>4
    <2>4. CASE s # n[1]
      <3>1. Inst!LaunchesOf(s)' = Inst!LaunchesOf(s)
        BY <1>1, <1>2, <1>5, <2>4 DEF Inst!LaunchesOf, Inst!Workers, Inst!Asks, Inst!At, Inst!Launching
      <3>2. Cardinality(Inst!RunningOf(s)) + Cardinality(Inst!LaunchesOf(s)) < x1.max + Cardinality(x1.threads)
        BY InstLimit DEF Inst!Inductive
      <3> QED BY <2>1, <3>1, <3>2
    <2> QED BY <2>3, <2>4
  <1>7. InstLocal(t, w)
    BY <1>1, <1>2, <1>3, <1>4, <1>6, InstTyped DEF InstLocal
  <1> QED BY <1>1, <1>2, <1>7, InstLocalKeeps

(* A failure is counted: then nothing is asked of containers.              *)
LEMMA InstFails ==
    ASSUME Inst!Inductive, Inst!MayFail
    PROVE  x9' \in InstSpent /\ ~InstFaultless'
  BY InstCounts DEF Inst!MayFail, InstFaultless

(* A thread that is done, with no container in hand or a failure.          *)
LEMMA InstStops ==
    ASSUME Inst!Inductive, NEW t \in Inst!Workers, Inst!Done(t) \/ Inst!Failed(t),
           UNCHANGED <<x1, x2, x3, x4, x5, x6, x7, x10, x11>>,
           \/ Inst!MayFail
           \/ x9' = x9 /\ x8[t].pc \notin {"persist", "compensate"}
    PROVE  Inst!Inductive'
  <1>1. x9' \in InstSpent /\ (InstFaultless' => InstFaultless /\ x8[t].pc \notin {"persist", "compensate"})
    BY InstFails, InstTyped DEF InstFaultless
  <1>2. PICK w \in InstThread : InstOver(t, w)
    BY InstDone
  <1>3. InstLocal(t, w)
    BY <1>1, <1>2, InstTyped DEF InstOver, InstLocal, InstAnswers, Inst!Launching
  <1> QED BY <1>3, InstLocalKeeps

LEMMA InstForgets ==
    ASSUME Inst!Inductive, NEW t \in Inst!Workers, Inst!DeleteCompletedByContainerName(t)
    PROVE  Inst!Inductive'
  <1>1. /\ x8[t].pc = "forget" /\ UNCHANGED <<x1, x2, x3, x5, x6, x7, x9, x10, x11>>
        /\ x8' = [x8 EXCEPT ![t].pc = "start"]
        /\ x4' = [i \in Ids |-> IF x4[i].st = "completed" /\ x4[i].name = x8[t].name THEN Inst!NoRow ELSE x4[i]]
    BY DEF Inst!DeleteCompletedByContainerName, Inst!At, Inst!Go
  <1>2. PICK w : w = [x8[t] EXCEPT !.pc = "start"]
    OBVIOUS
  <1>3. /\ w \in InstThread /\ w.pc = "start" /\ w.name = x8[t].name /\ w.todo = x8[t].todo
        /\ x8' = [x8 EXCEPT ![t] = w]
    <2>1. "start" \in Inst!RequestPcs \cup Inst!TaskPcs
      BY DEF Inst!RequestPcs, Inst!Launching
    <2> QED BY <1>1, <1>2, <2>1, InstGoes
  <1>4. InstRole(t, w) /\ InstName(w, x5', x7')
    BY <1>1, <1>3, InstRoleHas DEF InstRole, InstName, Inst!Launching, Inst!RequestPcs, Inst!TaskPcs
  <1>5. Inst!NoRow \in InstRow /\ Inst!NoRow.st = "none" /\ Inst!NoRow.name \notin Inst!Names
    BY InstNames DEF Inst!NoRow, InstRow, Inst!States
  <1>6. x4' \in [Ids -> InstRow] /\ \A i \in Ids : x4'[i] = x4[i] \/ (x4'[i] = Inst!NoRow /\ x4[i].st = "completed")
    BY <1>1, <1>5, InstTyped
  <1>7. InstFrame(t, w)
    BY <1>1, <1>3, <1>6, InstTyped DEF InstFrame
  <1>8. InstShrinks
    BY <1>1, <1>5, <1>6 DEF InstShrinks, Inst!Inductive, Inst!Roles
  <1>9. InstAnswered(t, w)
    <2>1. \A n \in Inst!Names : x5'[n] # "none" => x5[n] \in Ids
      BY <1>1, InstTyped
    <2>2. ASSUME NEW n \in Inst!Names, x5'[n] # "none", InstHeld(n) PROVE InstHeld(n)'
      BY <1>1, <1>6, <2>1, <2>2 DEF InstHeld, InstKept
    <2> QED BY <1>1, <1>5, <1>6, <2>1, <2>2 DEF InstAnswered, InstAnswers, InstFaultless
  <1>10. InstStep(t, w)
    BY <1>1, <1>3, <1>4, <1>7, <1>8, <1>9 DEF InstStep, Inst!Launching
  <1> QED BY <1>3, <1>10, InstStepKeeps

(* A container is removed by the thread t, whose id it may have.           *)
LEMMA InstRemoves ==
    ASSUME Inst!Inductive, NEW t \in Inst!Workers, NEW w \in InstThread,
           x8[t].pc \in {"compensate", "remove"}, x5' = [x5 EXCEPT ![x8[t].name] = "none"],
           x8' = [x8 EXCEPT ![t] = w], UNCHANGED <<x1, x2, x3, x4, x6, x7, x9, x10, x11>>,
           InstRole(t, w), w.pc \notin Inst!Launching \cup {"persist", "compensate", "remove"},
           w.todo \subseteq x8[t].todo,
           w.pc = "complete" => w.id = x8[t].id
    PROVE  Inst!Inductive'
  <1>1. x8[t].name \in Inst!Names /\ x8[t].id \in Ids
    BY InstRoleHas DEF InstRole
  <1>2. x5 \in [Inst!Names -> Ids \cup {"none"}] /\ "none" \notin Ids
    BY InstTyped, InstNames
  <1>3. /\ x5' \in [Inst!Names -> Ids \cup {"none"}] /\ x5'[x8[t].name] = "none"
        /\ \A n \in Inst!Names : n # x8[t].name => x5'[n] = x5[n]
    BY <1>1, <1>2
  <1>4. \A n \in Inst!Names : x5[n] = x8[t].id => n = x8[t].name
    BY DEF Inst!Inductive, Inst!OneName
  <1>5. \A n \in Inst!Names : x5'[n] # x8[t].id
    BY <1>1, <1>2, <1>3, <1>4
  <1>6. InstFrame(t, w)
    BY <1>3, InstTyped DEF InstFrame
  <1>7. InstShrinks
    BY <1>3 DEF InstShrinks, Inst!Inductive, Inst!Roles
  <1>8. InstName(w, x5', x7')
    BY <1>5 DEF InstName, Inst!Launching
  <1>9. InstAnswered(t, w)
    <2>1. \A n \in Inst!Names : x5'[n] # "none" => x5'[n] = x5[n]
      BY <1>3
    <2>2. ASSUME NEW n \in Inst!Names, x5'[n] # "none", InstHeld(n) PROVE InstHeld(n)'
      BY <2>1, <2>2 DEF InstHeld
    <2> QED BY <1>5, <2>1, <2>2 DEF InstAnswered, InstAnswers, InstFaultless
  <1>10. InstStep(t, w)
    BY <1>6, <1>7, <1>8, <1>9 DEF InstStep
  <1> QED BY <1>10, InstStepKeeps

LEMMA InstCompensates ==
    ASSUME Inst!Inductive, NEW t \in Inst!Workers, Inst!Compensate(t)
    PROVE  Inst!Inductive'
  <1>1. CASE x5' = [x5 EXCEPT ![x8[t].name] = "none"] /\ x9' = x9
    <2>1. PICK w \in InstThread : InstOver(t, w)
      BY InstDone DEF Inst!Compensate
    <2>2. w.pc \notin Inst!Launching \cup {"persist", "compensate", "remove"} /\ w.pc # "complete"
      BY <2>1 DEF InstOver, Inst!Launching
    <2> QED BY <1>1, <2>1, <2>2, InstRemoves DEF InstOver, Inst!Compensate, Inst!At
  <1>2. CASE Inst!MayFail /\ x5' = x5
    BY <1>2, InstStops DEF Inst!Compensate
  <1> QED BY <1>1, <1>2 DEF Inst!Compensate, Inst!None

LEMMA InstFinds ==
    ASSUME Inst!Inductive, NEW t \in Inst!Workers, Inst!FindOwnedRunning(t)
    PROVE  Inst!Inductive'
  <1>1. x8[t].pc = "find" /\ UNCHANGED <<x1, x2, x3, x4, x5, x6, x7, x9, x10, x11>>
    BY DEF Inst!FindOwnedRunning, Inst!At
  <1>2. x8[t] \in InstThread /\ InstRole(t, x8[t]) /\ x8[t].id \in Ids
    BY <1>1, InstRoleHas DEF InstRole
  <1>3. CASE x4[x8[t].id].st = "running" /\ Inst!Joined(x8[t].id)
    <2> DEFINE w == [x8[t] EXCEPT !.pc = "remove", !.st = "running", !.name = x4[x8[t].id].name]
    <2>1. x8' = [x8 EXCEPT ![t] = w]
      BY <1>3, InstTyped DEF Inst!FindOwnedRunning
    <2>2. x4[x8[t].id].name \in Inst!Names
      BY <1>2, <1>3 DEF Inst!Inductive, Inst!Roles
    <2>3. /\ w \in InstThread /\ w.pc = "remove" /\ w.st = "running" /\ w.name = x4[x8[t].id].name
          /\ w.id = x8[t].id /\ w.todo = x8[t].todo
      BY <1>2, <2>2 DEF InstThread, Inst!RequestPcs, Inst!States
    <2> HIDE DEF w
    <2>4. InstRole(t, w)
      BY <1>1, <1>2, <2>2, <2>3 DEF InstRole, Inst!RequestPcs, Inst!TaskPcs, Inst!Launching
    <2>5. InstName(w, x5, x7')
      <3>1. ASSUME NEW n \in Inst!Names, x5[n] = x8[t].id PROVE n = x4[x8[t].id].name
        BY <1>2, <1>3, <3>1, InstNames DEF Inst!Inductive, Inst!OneName, Inst!None
      <3> QED BY <2>3, <3>1 DEF InstName
    <2>6. InstLocal(t, w)
      BY <1>1, <2>1, <2>3, <2>4, <2>5, InstTyped DEF InstLocal, InstAnswers, InstFaultless, Inst!Launching
    <2> QED BY <2>3, <2>6, InstLocalKeeps
  <1>4. CASE ~(x4[x8[t].id].st = "running" /\ Inst!Joined(x8[t].id))
    BY <1>1, <1>4, InstStops DEF Inst!FindOwnedRunning
  <1> QED BY <1>3, <1>4

(* Removal of a container, by name.                                        *)
LEMMA InstRemovals ==
    ASSUME Inst!Inductive, NEW t \in Inst!Workers, Inst!RemoveRuntimeIfNeeded(t)
    PROVE  Inst!Inductive'
  <1>1. x8[t].pc = "remove" /\ UNCHANGED <<x1, x2, x3, x4, x6, x10, x11>>
    BY DEF Inst!RemoveRuntimeIfNeeded, Inst!At
  <1>2. \A pc \in {"complete", "fail"} : pc \in Inst!RequestPcs \cup Inst!TaskPcs
    BY DEF Inst!RequestPcs
  <1>3. ASSUME NEW pc \in {"complete", "fail"}, Inst!Go(t, pc)
        PROVE  \E w \in InstThread : /\ w.pc = pc /\ w.id = x8[t].id /\ w.todo \subseteq x8[t].todo
                                     /\ InstRole(t, w) /\ x8' = [x8 EXCEPT ![t] = w]
    <2>1. PICK w : w = [x8[t] EXCEPT !.pc = pc]
      OBVIOUS
    <2>2. w \in InstThread /\ w.pc = pc /\ w.id = x8[t].id /\ w.st = x8[t].st /\ w.todo = x8[t].todo
      BY <1>2, <2>1, InstGoes
    <2>3. InstRole(t, w)
      BY <1>1, <2>2, InstRoleHas DEF InstRole, Inst!RequestPcs, Inst!TaskPcs, Inst!Launching
    <2>4. x8' = [x8 EXCEPT ![t] = w]
      BY <1>3, <2>1 DEF Inst!Go
    <2> QED BY <2>2, <2>3, <2>4
  <1>4. CASE x5' = [x5 EXCEPT ![x8[t].name] = "none"] /\ UNCHANGED <<x7, x9>> /\ Inst!Go(t, "complete")
    <2>1. PICK w \in InstThread : /\ w.pc = "complete" /\ w.id = x8[t].id /\ w.todo \subseteq x8[t].todo
                                  /\ InstRole(t, w) /\ x8' = [x8 EXCEPT ![t] = w]
      BY <1>3, <1>4
    <2>2. w.pc \notin Inst!Launching \cup {"persist", "compensate", "remove"}
      BY <2>1 DEF Inst!Launching
    <2> QED BY <1>1, <1>4, <2>1, <2>2, InstRemoves
  <1>5. CASE x5' = x5 /\ x9' = x9 /\ Inst!Go(t, "complete") /\ x7' = x7 \cup {j \in {x8[t].id} : x5[x8[t].name] = j}
    <2>1. PICK w \in InstThread : /\ w.pc = "complete" /\ w.id = x8[t].id /\ w.todo \subseteq x8[t].todo
                                  /\ InstRole(t, w) /\ x8' = [x8 EXCEPT ![t] = w]
      BY <1>3, <1>5
    <2>2. \A n \in Inst!Names : x5[n] = x8[t].id => n = x8[t].name
      BY <1>1 DEF Inst!Inductive, Inst!OneName
    <2>3. InstName(w, x5, x7')
      BY <1>5, <2>1, <2>2 DEF InstName
    <2>4. x8[t].id \in Ids
      BY <1>1, InstRoleHas DEF InstRole
    <2>5. x7' \subseteq Ids /\ x7 \subseteq x7'
      BY <1>5, <2>4, InstTyped
    <2>6. InstLocal(t, w)
      BY <1>1, <1>5, <2>1, <2>3, <2>5, InstTyped DEF InstLocal, InstAnswers, InstFaultless, Inst!Launching
    <2> QED BY <2>6, InstLocalKeeps
  <1>6. CASE x7' = x7 /\ (IF x8[t].st = "running" THEN Inst!Go(t, "fail") ELSE Inst!Failed(t))
    <2>1. PICK w \in InstThread : /\ w.pc \in {"fail", "idle", "clean"} /\ w.todo \subseteq x8[t].todo
                                  /\ InstRole(t, w) /\ x8' = [x8 EXCEPT ![t] = w]
      BY <1>3, <1>6, InstDone DEF InstOver
    <2>2. CASE x5' = [x5 EXCEPT ![x8[t].name] = "none"] /\ x9' = x9
      <3>1. w.pc \notin Inst!Launching \cup {"persist", "compensate", "remove"} /\ w.pc # "complete"
        BY <2>1 DEF Inst!Launching
      <3> QED BY <1>1, <1>6, <2>1, <2>2, <3>1, InstRemoves
    <2>3. CASE x5' = x5 /\ (x9' = x9 \/ Inst!MayFail)
      <3>1. x9' \in InstSpent /\ (InstFaultless' => InstFaultless)
        BY <1>1, <2>3, InstFails, InstTyped DEF InstFaultless
      <3>2. InstName(w, x5, x7')
        BY <2>1 DEF InstName
      <3>3. InstLocal(t, w)
        BY <1>1, <1>6, <2>1, <2>3, <3>1, <3>2, InstTyped DEF InstLocal, InstAnswers, Inst!Launching
      <3> QED BY <3>3, InstLocalKeeps
    <2> QED BY <2>2, <2>3, <1>4, <1>5 DEF Inst!RemoveRuntimeIfNeeded, Inst!None
  <1> QED BY <1>4, <1>5, <1>6 DEF Inst!RemoveRuntimeIfNeeded, Inst!None

LEMMA InstMarks ==
    ASSUME Inst!Inductive, NEW t \in Inst!Workers, Inst!DestroyModel(t)
    PROVE  Inst!Inductive'
  <1>1. /\ x8[t].pc \in {"complete", "fail"} /\ (Inst!Done(t) \/ Inst!Failed(t))
        /\ UNCHANGED <<x1, x2, x3, x5, x6, x7, x9, x10, x11>>
    BY DEF Inst!DestroyModel, Inst!At
  <1>2. InstRole(t, x8[t]) /\ x8[t].id \in Ids /\ x8[t].st # "none" /\ x8[t] \in InstThread
    BY <1>1, InstRoleHas DEF InstRole
  <1>3. PICK i \in Ids : i = x8[t].id
    BY <1>2
  <1>4. PICK s \in {"completed", "failed"} :
           /\ x4' = x4 \/ (x4[i].st # "none" /\ x4' = [x4 EXCEPT ![i].st = s])
           /\ s = "completed" => x8[t].pc = "complete"
    BY <1>2, <1>3 DEF Inst!DestroyModel, Inst!At, Inst!TransitionRuntimeState
  <1>5. /\ x4' \in [Ids -> InstRow] /\ \A j \in Ids : j # i => x4'[j] = x4[j]
        /\ x4'[i].name = x4[i].name /\ (x4'[i].st = x4[i].st \/ (x4'[i].st = s /\ x4[i].st # "none"))
    <2>1. x4 \in [Ids -> InstRow]
      BY InstTyped
    <2> QED BY <1>4, <2>1 DEF InstRow, Inst!States
  <1>6. PICK w \in InstThread : InstOver(t, w)
    BY <1>1, InstDone
  <1>7. /\ w.pc \in {"idle", "clean"} /\ InstRole(t, w) /\ InstName(w, x5', x7') /\ w.todo \subseteq x8[t].todo
        /\ x8' = [x8 EXCEPT ![t] = w]
    BY <1>6 DEF InstOver
  <1>8. InstFrame(t, w)
    BY <1>1, <1>5, <1>7, InstTyped DEF InstFrame
  <1>9. InstShrinks
    <2>1. ASSUME NEW j \in Ids
          PROVE  /\ x4'[j].st # "none" <=> x4'[j].name \in Inst!Names
                 /\ x4'[j].st # "none" => x4[j].st # "none" /\ x4'[j].name = x4[j].name
                 /\ x4'[j].st = "running" => x4[j].st = "running"
      <3>1. x4[j].st # "none" <=> x4[j].name \in Inst!Names
        BY DEF Inst!Inductive, Inst!Roles
      <3>2. CASE j = i
        BY <1>5, <1>4, <3>1, <3>2
      <3>3. CASE j # i
        BY <1>5, <3>1, <3>3
      <3> QED BY <3>2, <3>3
    <2> QED BY <1>1, <2>1 DEF InstShrinks
  <1>10. InstAnswered(t, w)
    <2>1. ASSUME NEW n \in Inst!Names, x5'[n] # "none", x5[n] \notin x7'
          PROVE  /\ InstKept(x4[x5[n]]) => InstKept(x4'[x5[n]]) /\ x4'[x5[n]].name = x4[x5[n]].name
                 /\ x4'[x5[n]].st = "completed" => x4[x5[n]].st = "completed"
      <3>1. x5[n] \in Ids
        BY <1>1, <2>1, InstTyped
      <3>2. CASE x5[n] # i
        BY <1>5, <3>1, <3>2
      <3>3. CASE x5[n] = i
        <4>1. x8[t].pc # "complete"
          BY <1>1, <1>3, <2>1, <3>3 DEF Inst!Inductive, Inst!OneName
        <4>2. s = "failed"
          BY <1>4, <4>1
        <4> QED BY <1>5, <3>3, <4>2 DEF InstKept
      <3> QED BY <3>2, <3>3
    <2>2. ASSUME NEW n \in Inst!Names, x5'[n] # "none", x5[n] \notin x7', InstHeld(n) PROVE InstHeld(n)'
      BY <1>1, <2>1, <2>2 DEF InstHeld
    <2> QED BY <1>1, <2>1, <2>2 DEF InstAnswered, InstAnswers, InstFaultless
  <1>11. InstStep(t, w)
    BY <1>1, <1>7, <1>8, <1>9, <1>10 DEF InstStep, Inst!Launching
  <1> QED BY <1>7, <1>11, InstStepKeeps

(* A container under the name, with a launch that answers for it or a      *)
(* failure.                                                                *)
LEMMA InstCreates ==
    ASSUME Inst!Inductive, NEW t \in Inst!Workers, x8[t].pc = "start", UNCHANGED <<x1, x2, x3, x4, x6, x7, x10, x11>>,
           NEW n \in Inst!Names, NEW i \in Inst!Fresh, x5[n] = "none", x5' = [x5 EXCEPT ![n] = i],
           NEW w \in InstThread, x8' = [x8 EXCEPT ![t] = w], InstRole(t, w), w.todo \subseteq x8[t].todo,
           \/ w.pc = "persist" /\ w.id = i /\ w.name = n /\ x8[t].name = n
           \/ w.pc \in {"idle", "clean"},
           x9' \in InstSpent, InstFaultless' => InstFaultless /\ w.pc = "persist"
    PROVE  Inst!Inductive'
  <1>1. /\ i \in Ids /\ x4[i].st = "none" /\ (\A m \in Inst!Names : x5[m] # i)
        /\ \A u \in Inst!Workers : x8[u].id # i /\ \A c \in x8[u].todo : c[1] # i
    BY DEF Inst!Fresh
  <1>2. /\ x8 \in [Inst!Workers -> InstThread] /\ "none" \notin Ids
        /\ x5 \in [Inst!Names -> Ids \cup {"none"}] /\ x4 \in [Ids -> InstRow]
    BY InstTyped, InstNames
  <1>3. /\ x8' \in [Inst!Workers -> InstThread] /\ x8'[t] = w /\ \A u \in Inst!Workers : u # t => x8'[u] = x8[u]
    BY <1>2
  <1>4. /\ x5' \in [Inst!Names -> Ids \cup {"none"}] /\ x5'[n] = i
        /\ \A m \in Inst!Names : m # n => x5'[m] = x5[m]
    BY <1>1, <1>2
  <1>5. Inst!Types'
    BY <1>3, <1>4, InstTyped DEF Inst!Types, InstRow, InstThread, InstSpent, Inst!None
  <1>6. Inst!Roles'
    <2>1. \A u \in Inst!Workers : InstRole(u, x8'[u])
      BY <1>3, InstRoleHas
    <2>2. \A j \in Ids : x4'[j].st # "none" <=> x4'[j].name \in Inst!Names
      BY DEF Inst!Inductive, Inst!Roles
    <2> QED BY <2>1, <2>2 DEF InstRole, Inst!Roles, Inst!Workers
  <1>7. Inst!OneName'
    <2>1. ASSUME NEW m \in Inst!Names, x5'[m] # "none", x4'[x5'[m]].st # "none" PROVE x4'[x5'[m]].name = m
      <3>1. m # n
        BY <1>1, <1>4, <2>1
      <3> QED BY <1>4, <2>1, <3>1 DEF Inst!Inductive, Inst!OneName, Inst!None
    <2>2. ASSUME NEW u \in Inst!Workers PROVE InstName(x8'[u], x5', x7')
      <3>1. CASE u = t
        BY <1>1, <1>3, <1>4, <3>1 DEF InstName
      <3>2. CASE u # t
        <4>1. InstName(x8[u], x5, x7) /\ x8[u].id # i
          BY <1>1 DEF Inst!Inductive, Inst!OneName, InstName
        <4> QED BY <1>3, <1>4, <3>2, <4>1 DEF InstName
      <3> QED BY <3>1, <3>2
    <2>3. ASSUME NEW u \in Inst!Workers PROVE InstTodo(x8'[u], x5')
      <3>1. \A v \in Inst!Workers : InstTodo(x8[v], x5)
        BY DEF Inst!Inductive, Inst!OneName, InstTodo
      <3>2. x8'[u].todo \subseteq x8[u].todo
        BY <1>3
      <3> QED BY <1>1, <1>4, <3>1, <3>2 DEF InstTodo
    <2> QED BY <2>1, <2>2, <2>3 DEF Inst!OneName, InstName, InstTodo, Inst!None
  <1>8. Inst!LimitHolds'
    <2>1. ASSUME NEW s \in Subjects
          PROVE  Inst!RunningOf(s)' \subseteq Inst!RunningOf(s) /\ Inst!LaunchesOf(s)' \subseteq Inst!LaunchesOf(s)
      BY <1>3 DEF Inst!RunningOf, Inst!Joined, Inst!LaunchesOf, Inst!Launching, Inst!Workers
    <2> QED BY <2>1, InstLimitKeeps
  <1>9. Inst!ContainersAccounted'
    <2> SUFFICES ASSUME InstFaultless', NEW m \in Inst!Names, x5'[m] # "none", x5'[m] \notin x7'
                 PROVE  Inst!Accounted(m)'
      BY DEF Inst!ContainersAccounted, InstFaultless, Inst!None
    <2>1. CASE m = n
      BY <1>3, <1>4, <2>1 DEF Inst!Accounted
    <2>2. CASE m # n
      <3>1. x5'[m] = x5[m] /\ Inst!Accounted(m)
        BY <1>4, <2>2 DEF Inst!Inductive, Inst!ContainersAccounted, InstFaultless, Inst!None
      <3> QED BY <1>3, <3>1 DEF Inst!Accounted
    <2> QED BY <2>1, <2>2
  <1>10. Inst!CompletedIsGone'
    BY <1>1, <1>4 DEF Inst!Inductive, Inst!CompletedIsGone, Inst!None
  <1> QED BY <1>5, <1>6, <1>7, <1>8, <1>9, <1>10 DEF Inst!Inductive

LEMMA InstStarts ==
    ASSUME Inst!Inductive, NEW t \in Inst!Workers, Inst!StartContainer(t)
    PROVE  Inst!Inductive'
  <1>1. x8[t].pc = "start" /\ UNCHANGED <<x1, x2, x3, x4, x6, x7, x10, x11>>
    BY DEF Inst!StartContainer, Inst!At
  <1>2. PICK n \in Inst!Names : n = x8[t].name
    BY <1>1, InstRoleHas DEF InstRole, Inst!Launching
  <1>3. x8[t] \in InstThread /\ InstRole(t, x8[t]) /\ x8 \in [Inst!Workers -> InstThread]
    BY InstRoleHas, InstTyped
  <1>4. ASSUME NEW i \in Inst!Fresh, NEW pc \in {"persist", "persistPlain"},
               x8' = [x8 EXCEPT ![t].pc = pc, ![t].id = i]
        PROVE  \E w \in InstThread : /\ w.pc = pc /\ w.id = i /\ w.name = n /\ w.todo = x8[t].todo
                                     /\ InstRole(t, w) /\ x8' = [x8 EXCEPT ![t] = w]
    <2> DEFINE w == [x8[t] EXCEPT !.pc = pc, !.id = i]
    <2>1. i \in Ids
      BY DEF Inst!Fresh
    <2>2. w \in InstThread /\ w.pc = pc /\ w.id = i /\ w.name = n /\ w.todo = x8[t].todo
      BY <1>2, <1>3, <2>1 DEF InstThread, Inst!RequestPcs, Inst!Launching
    <2>3. x8' = [x8 EXCEPT ![t] = w]
      BY <1>3, <1>4
    <2> HIDE DEF w
    <2>4. InstRole(t, w)
      BY <1>1, <1>2, <1>3, <2>1, <2>2 DEF InstRole, Inst!Launching, Inst!RequestPcs, Inst!TaskPcs
    <2> QED BY <2>2, <2>3, <2>4
  <1>5. ASSUME NEW i \in Inst!Fresh, x5[n] = "none", x5' = [x5 EXCEPT ![n] = i],
               x8' = [x8 EXCEPT ![t].pc = "persist", ![t].id = i], x9' = x9
        PROVE  Inst!Inductive'
    <2>1. PICK w \in InstThread : /\ w.pc = "persist" /\ w.id = i /\ w.name = n /\ w.todo = x8[t].todo
                                  /\ InstRole(t, w) /\ x8' = [x8 EXCEPT ![t] = w]
      BY <1>4, <1>5
    <2>2. x9' \in InstSpent /\ (InstFaultless' => InstFaultless)
      BY <1>1, <1>5, InstTyped DEF InstFaultless
    <2> QED BY <1>1, <1>2, <1>5, <2>1, <2>2, InstCreates
  <1>6. ASSUME NEW i \in Inst!Fresh, x5[n] = "none", x5' = [x5 EXCEPT ![n] = i], Inst!MayFail, Inst!Failed(t)
        PROVE  Inst!Inductive'
    <2>1. PICK w \in InstThread : InstOver(t, w)
      BY <1>6, InstDone
    <2>2. x9' \in InstSpent /\ ~InstFaultless'
      BY <1>6, InstFails
    <2>3. w.pc \in {"idle", "clean"} /\ InstRole(t, w) /\ w.todo \subseteq x8[t].todo /\ x8' = [x8 EXCEPT ![t] = w]
      BY <2>1 DEF InstOver
    <2> QED BY <1>1, <1>6, <2>2, <2>3, InstCreates
  <1>7. ASSUME NEW i \in Inst!Fresh, x8' = [x8 EXCEPT ![t].pc = "persistPlain", ![t].id = i], UNCHANGED <<x5, x9>>
        PROVE  Inst!Inductive'
    <2>1. PICK w \in InstThread : /\ w.pc = "persistPlain" /\ w.id = i /\ w.name = n /\ w.todo = x8[t].todo
                                  /\ InstRole(t, w) /\ x8' = [x8 EXCEPT ![t] = w]
      BY <1>4, <1>7
    <2>2. InstName(w, x5, x7')
      BY <2>1 DEF InstName, Inst!Fresh
    <2>3. InstLocal(t, w)
      BY <1>1, <1>2, <1>7, <2>1, <2>2, InstTyped DEF InstLocal, InstAnswers, InstFaultless, Inst!Launching
    <2> QED BY <2>3, InstLocalKeeps
  <1>8. CASE Inst!Failed(t) /\ x5' = x5 /\ (x9' = x9 \/ Inst!MayFail)
    BY <1>1, <1>8, InstStops
  <1> QED BY <1>2, <1>5, <1>6, <1>7, <1>8 DEF Inst!StartContainer, Inst!None

(* The launch becomes a row: one fewer launch, one more running.           *)
LEMMA InstPersists ==
    ASSUME Inst!Inductive, NEW t \in Inst!Workers, Inst!Persist(t)
    PROVE  Inst!Inductive'
  <1>1. x8[t].pc \in {"persist", "persistPlain"} /\ UNCHANGED <<x1, x2, x3, x5, x7, x10, x11>>
    BY DEF Inst!Persist, Inst!At
  <1>2. PICK n \in Inst!Names : n = x8[t].name
    BY <1>1, InstRoleHas DEF InstRole, Inst!Launching
  <1>3. PICK i \in Ids : i = x8[t].id
    BY <1>1, InstRoleHas DEF InstRole, Inst!Launching
  <1>4. t \in Threads /\ t \in x1.threads
    BY <1>1, InstRoleHas DEF InstRole, Inst!TaskPcs, Inst!Workers
  <1>5. ASSUME x4' = [x4 EXCEPT ![i] = [Inst!NoRow EXCEPT !.st = "running", !.name = n]],
               x6' = x6 \cup {i}, Inst!Done(t), x9' = x9, n[2] \notin x11
        PROVE  Inst!Inductive'
    <2> DEFINE r == [Inst!NoRow EXCEPT !.st = "running", !.name = n]
    <2>1. r \in InstRow /\ r.st = "running" /\ r.name = n
      BY DEF Inst!NoRow, InstRow, Inst!States
    <2>2. x4' = [x4 EXCEPT ![i] = r]
      BY <1>5
    <2> HIDE DEF r
    <2>3. /\ x8[t] \in InstThread /\ x8 \in [Inst!Workers -> InstThread] /\ "none" \notin Ids
          /\ x5 \in [Inst!Names -> Ids \cup {"none"}] /\ x4 \in [Ids -> InstRow]
      BY InstTyped, InstNames
    <2>4. x4' \in [Ids -> InstRow] /\ x4'[i] = r /\ \A j \in Ids : j # i => x4'[j] = x4[j]
      BY <2>1, <2>2, <2>3
    <2>5. PICK w \in InstThread : InstOver(t, w)
      BY <1>5, InstDone
    <2>6. /\ w.pc \in {"idle", "clean"} /\ InstRole(t, w) /\ InstName(w, x5, x7) /\ w.todo \subseteq x8[t].todo
          /\ x8' = [x8 EXCEPT ![t] = w]
      BY <2>5 DEF InstOver
    <2>7. /\ x8' \in [Inst!Workers -> InstThread] /\ x8'[t] = w /\ \A u \in Inst!Workers : u # t => x8'[u] = x8[u]
      BY <2>3, <2>6
    <2>8. Inst!Types'
      BY <1>1, <1>5, <2>4, <2>7, InstTyped DEF Inst!Types, InstRow, InstThread, InstSpent, Inst!None
    <2>9. Inst!Roles'
      <3>1. \A u \in Inst!Workers : InstRole(u, x8'[u])
        BY <2>6, <2>7, InstRoleHas
      <3>2. \A j \in Ids : x4'[j].st # "none" <=> x4'[j].name \in Inst!Names
        BY <2>1, <2>4 DEF Inst!Inductive, Inst!Roles
      <3> QED BY <1>1, <3>1, <3>2 DEF InstRole, Inst!Roles, Inst!Workers
    <2>10. \A m \in Inst!Names : x5[m] = i => m = n
      BY <1>1, <1>2, <1>3 DEF Inst!Inductive, Inst!OneName
    <2>11. Inst!OneName'
      <3>1. ASSUME NEW m \in Inst!Names, x5[m] # "none", x4'[x5[m]].st # "none" PROVE x4'[x5[m]].name = m
        <4>1. x5[m] \in Ids
          BY <2>3, <3>1
        <4>2. CASE x5[m] = i
          BY <2>1, <2>4, <2>10, <4>2
        <4>3. CASE x5[m] # i
          BY <2>4, <3>1, <4>1, <4>3 DEF Inst!Inductive, Inst!OneName, Inst!None
        <4> QED BY <4>2, <4>3
      <3>2. ASSUME NEW u \in Inst!Workers PROVE InstName(x8'[u], x5, x7)
        <4>1. u # t => InstName(x8[u], x5, x7)
          BY DEF Inst!Inductive, Inst!OneName, InstName
        <4> QED BY <2>6, <2>7, <4>1
      <3>3. ASSUME NEW u \in Inst!Workers PROVE InstTodo(x8'[u], x5)
        <4>1. InstTodo(x8[u], x5)
          BY DEF Inst!Inductive, Inst!OneName, InstTodo
        <4> QED BY <2>6, <2>7, <4>1 DEF InstTodo
      <3> QED BY <1>1, <3>1, <3>2, <3>3 DEF Inst!OneName, InstName, InstTodo, Inst!None
    <2>12. Inst!LimitHolds'
      <3> SUFFICES ASSUME NEW s \in Subjects
                   PROVE  Cardinality(Inst!RunningOf(s)') + Cardinality(Inst!LaunchesOf(s)') < x1.max + Cardinality(x1.threads)
        BY <1>1 DEF Inst!LimitHolds, Inst!MaxConcurrentInstances, Inst!Cardinality, Cardinality
      <3>1. /\ IsFiniteSet(Inst!RunningOf(s)) /\ IsFiniteSet(Inst!LaunchesOf(s))
            /\ Cardinality(Inst!RunningOf(s)) \in Nat /\ Cardinality(Inst!LaunchesOf(s)) \in Nat
            /\ Cardinality(x1.threads) \in Nat /\ x1.max \in Nat
        BY InstTyped, InstCounted
      <3>2. Cardinality(Inst!RunningOf(s)) + Cardinality(Inst!LaunchesOf(s)) < x1.max + Cardinality(x1.threads)
        BY InstLimit DEF Inst!Inductive
      <3>3. CASE s = n[1]
        <4>1. Inst!RunningOf(s)' \subseteq Inst!RunningOf(s) \cup {i}
          BY <1>1, <2>4 DEF Inst!RunningOf, Inst!Joined
        <4>2. t \in Inst!LaunchesOf(s) /\ Inst!LaunchesOf(s)' \subseteq Inst!LaunchesOf(s) \ {t}
          BY <1>1, <1>2, <1>4, <2>6, <2>7, <3>3 DEF Inst!LaunchesOf, Inst!Workers, Inst!Launching
        <4>3. /\ IsFiniteSet(Inst!RunningOf(s) \cup {i})
              /\ \/ Cardinality(Inst!RunningOf(s) \cup {i}) = Cardinality(Inst!RunningOf(s))
                 \/ Cardinality(Inst!RunningOf(s) \cup {i}) = Cardinality(Inst!RunningOf(s)) + 1
          BY <3>1, FS_AddElement
        <4>4. /\ IsFiniteSet(Inst!LaunchesOf(s) \ {t})
              /\ Cardinality(Inst!LaunchesOf(s) \ {t}) = Cardinality(Inst!LaunchesOf(s)) - 1
          BY <3>1, <4>2, FS_RemoveElement
        <4>5. /\ Cardinality(Inst!RunningOf(s)') <= Cardinality(Inst!RunningOf(s) \cup {i}) /\ IsFiniteSet(Inst!RunningOf(s)')
          BY <4>1, <4>3, FS_Subset
        <4>6. /\ Cardinality(Inst!LaunchesOf(s)') <= Cardinality(Inst!LaunchesOf(s) \ {t}) /\ IsFiniteSet(Inst!LaunchesOf(s)')
          BY <4>2, <4>4, FS_Subset
        <4>7. Cardinality(Inst!RunningOf(s)') \in Nat /\ Cardinality(Inst!LaunchesOf(s)') \in Nat
          BY <4>5, <4>6, FS_CardinalityType
        <4>8. Cardinality(Inst!RunningOf(s)') <= Cardinality(Inst!RunningOf(s)) + 1
          BY <3>1, <4>3, <4>5, <4>7
        <4>9. Cardinality(Inst!LaunchesOf(s)') <= Cardinality(Inst!LaunchesOf(s)) - 1
          BY <3>1, <4>4, <4>6, <4>7
        <4> QED BY <3>1, <3>2, <4>7, <4>8, <4>9
      <3>4. CASE s # n[1]
        <4>1. Inst!RunningOf(s)' \subseteq Inst!RunningOf(s)
          BY <1>1, <2>1, <2>4, <3>4 DEF Inst!RunningOf, Inst!Joined
        <4>2. Inst!LaunchesOf(s)' \subseteq Inst!LaunchesOf(s)
          BY <1>1, <2>6, <2>7 DEF Inst!LaunchesOf, Inst!Workers, Inst!Launching
        <4>3. Cardinality(Inst!RunningOf(s)') <= Cardinality(Inst!RunningOf(s)) /\ IsFiniteSet(Inst!RunningOf(s)')
          BY <3>1, <4>1, FS_Subset
        <4>4. Cardinality(Inst!LaunchesOf(s)') <= Cardinality(Inst!LaunchesOf(s)) /\ IsFiniteSet(Inst!LaunchesOf(s)')
          BY <3>1, <4>2, FS_Subset
        <4>5. Cardinality(Inst!RunningOf(s)') \in Nat /\ Cardinality(Inst!LaunchesOf(s)') \in Nat
          BY <4>3, <4>4, FS_CardinalityType
        <4> QED BY <3>1, <3>2, <4>3, <4>4, <4>5
      <3> QED BY <3>3, <3>4
    <2>13. Inst!ContainersAccounted'
      <3> SUFFICES ASSUME InstFaultless', NEW m \in Inst!Names, x5[m] # "none", x5[m] \notin x7
                   PROVE  Inst!Accounted(m)'
        BY <1>1 DEF Inst!ContainersAccounted, InstFaultless, Inst!None
      <3>1. x5[m] \in Ids /\ Inst!Accounted(m)
        BY <1>1, <1>5, <2>3 DEF Inst!Inductive, Inst!ContainersAccounted, InstFaultless, Inst!None
      <3>2. CASE x5[m] = i
        BY <1>1, <1>5, <2>1, <2>4, <2>10, <3>2 DEF Inst!Accounted
      <3>3. CASE x5[m] # i
        BY <1>1, <1>3, <2>4, <2>7, <3>1, <3>3 DEF Inst!Accounted
      <3> QED BY <3>2, <3>3
    <2>14. Inst!CompletedIsGone'
      BY <1>1, <2>1, <2>3, <2>4 DEF Inst!Inductive, Inst!CompletedIsGone, Inst!None
    <2> QED BY <2>8, <2>9, <2>11, <2>12, <2>13, <2>14 DEF Inst!Inductive
  <1>6. CASE x8[t].pc = "persist" /\ Inst!Go(t, "compensate") /\ UNCHANGED <<x4, x6>> /\ (x9' = x9 \/ Inst!MayFail)
    <2>1. PICK w : w = [x8[t] EXCEPT !.pc = "compensate"]
      OBVIOUS
    <2>2. "compensate" \in Inst!RequestPcs \cup Inst!TaskPcs
      BY DEF Inst!RequestPcs
    <2>3. /\ w \in InstThread /\ w.pc = "compensate" /\ w.id = x8[t].id /\ w.name = x8[t].name /\ w.todo = x8[t].todo
      BY <2>1, <2>2, InstGoes
    <2>4. InstRole(t, w)
      BY <1>1, <2>3, InstRoleHas DEF InstRole, Inst!Launching, Inst!RequestPcs, Inst!TaskPcs
    <2>5. InstName(w, x5, x7')
      BY <1>6, <2>3 DEF InstName, Inst!Inductive, Inst!OneName
    <2>6. x9' \in InstSpent /\ (InstFaultless' => InstFaultless)
      BY <1>1, <1>6, InstFails, InstTyped DEF InstFaultless
    <2>7. x8' = [x8 EXCEPT ![t] = w]
      BY <1>6, <2>1 DEF Inst!Go
    <2>8. InstLocal(t, w)
      BY <1>1, <1>6, <2>3, <2>4, <2>5, <2>6, <2>7, InstTyped DEF InstLocal, InstAnswers, Inst!Launching
    <2> QED BY <2>3, <2>8, InstLocalKeeps
  <1>7. CASE x8[t].pc # "persist" /\ Inst!Failed(t) /\ UNCHANGED <<x4, x6>> /\ (x9' = x9 \/ Inst!MayFail)
    BY <1>1, <1>7, InstStops
  <1> QED BY <1>2, <1>3, <1>5, <1>6, <1>7 DEF Inst!Persist, Inst!Insertable, Inst!At

LEMMA InstContinues ==
    ASSUME Inst!Inductive, NEW t \in Inst!Workers, Inst!Continue(t)
    PROVE  Inst!Inductive'
  BY InstForgets, InstStarts, InstPersists, InstCompensates, InstFinds, InstRemovals, InstMarks DEF Inst!Continue

LEMMA InstCleaner == Cleaner \in Inst!Workers
  BY DEF Inst!Workers

LEMMA InstReconciles ==
    ASSUME Inst!Inductive, Inst!ReconcileMissingContainers
    PROVE  Inst!Inductive'
  <1>1. /\ x8[Cleaner].pc = "idle" /\ UNCHANGED <<x1, x2, x3, x5, x6, x7, x10, x11>>
        /\ x8' = [x8 EXCEPT ![Cleaner].pc = "reap"] /\ (x9' = x9 \/ Inst!MayFail)
        /\ \/ x4' = x4
           \/ x4' = [i \in Ids |-> IF i \in Inst!ListRunningOlderThan /\ x5[x4[i].name] = "none"
                                   THEN [x4[i] EXCEPT !.st = "failed"] ELSE x4[i]]
    BY DEF Inst!ReconcileMissingContainers, Inst!At, Inst!Go, Inst!None
  <1>2. PICK w : w = [x8[Cleaner] EXCEPT !.pc = "reap"]
    OBVIOUS
  <1>3. "reap" \in Inst!RequestPcs \cup Inst!TaskPcs
    BY DEF Inst!TaskPcs
  <1>4. /\ w \in InstThread /\ w.pc = "reap" /\ w.todo = x8[Cleaner].todo /\ x8' = [x8 EXCEPT ![Cleaner] = w]
    BY <1>1, <1>2, <1>3, InstCleaner, InstGoes
  <1>5. InstRole(Cleaner, w) /\ InstName(w, x5', x7')
    BY <1>4, InstCleaner, InstRoleHas, InstNames DEF InstRole, InstName, Inst!TaskPcs, Inst!Launching
  <1>6. ASSUME NEW i \in Ids
        PROVE  /\ x4'[i] \in InstRow /\ x4'[i].name = x4[i].name
               /\ x4'[i].st = x4[i].st \/ (x4[i].st = "running" /\ x4'[i].st = "failed")
    <2>1. x4[i] \in InstRow
      BY InstTyped
    <2>2. [x4[i] EXCEPT !.st = "failed"] \in InstRow /\ [x4[i] EXCEPT !.st = "failed"].name = x4[i].name
          /\ [x4[i] EXCEPT !.st = "failed"].st = "failed"
      BY <2>1 DEF InstRow, Inst!States
    <2>3. x4'[i] = x4[i] \/ (x4'[i] = [x4[i] EXCEPT !.st = "failed"] /\ x4[i].st = "running")
      BY <1>1 DEF Inst!ListRunningOlderThan
    <2> QED BY <2>1, <2>2, <2>3
  <1>7. x9' \in InstSpent /\ (InstFaultless' => InstFaultless)
    BY <1>1, InstFails, InstTyped DEF InstFaultless
  <1>8. x4' \in [Ids -> InstRow]
    <2>1. x4' = [i \in Ids |-> x4'[i]]
      BY <1>1, InstTyped
    <2> QED BY <1>6, <2>1
  <1>9. InstFrame(Cleaner, w)
    BY <1>1, <1>4, <1>7, <1>8, InstTyped DEF InstFrame
  <1>10. InstShrinks
    BY <1>1, <1>6 DEF InstShrinks, Inst!Inductive, Inst!Roles
  <1>11. InstAnswered(Cleaner, w)
    <2>1. \A n \in Inst!Names : x5'[n] # "none" => x5[n] \in Ids
      BY <1>1, InstTyped
    <2>2. ASSUME NEW n \in Inst!Names, x5'[n] # "none", InstHeld(n) PROVE InstHeld(n)'
      BY <1>1, <1>6, <2>1, <2>2 DEF InstHeld, InstKept
    <2> QED BY <1>1, <1>6, <1>7, <2>1, <2>2 DEF InstAnswered, InstAnswers
  <1>12. InstStep(Cleaner, w)
    BY <1>1, <1>4, <1>5, <1>9, <1>10, <1>11 DEF InstStep, Inst!Launching
  <1> QED BY <1>4, <1>12, InstCleaner, InstStepKeeps

(* The containers of a deleted event go.                                   *)
LEMMA InstReaps ==
    ASSUME Inst!Inductive, Inst!ReapOrphanContainers
    PROVE  Inst!Inductive'
  <1>1. /\ x8[Cleaner].pc = "reap" /\ UNCHANGED <<x1, x2, x3, x4, x6, x7, x10, x11>>
        /\ x8' = [x8 EXCEPT ![Cleaner].pc = "list"]
    BY DEF Inst!ReapOrphanContainers, Inst!At, Inst!Go
  <1>2. PICK w : w = [x8[Cleaner] EXCEPT !.pc = "list"]
    OBVIOUS
  <1>3. "list" \in Inst!RequestPcs \cup Inst!TaskPcs
    BY DEF Inst!TaskPcs
  <1>4. /\ w \in InstThread /\ w.pc = "list" /\ w.todo = x8[Cleaner].todo /\ x8' = [x8 EXCEPT ![Cleaner] = w]
    BY <1>1, <1>2, <1>3, InstCleaner, InstGoes
  <1>5. InstRole(Cleaner, w) /\ InstName(w, x5', x7')
    BY <1>4, InstCleaner, InstRoleHas, InstNames DEF InstRole, InstName, Inst!TaskPcs, Inst!Launching
  <1>6. x9' \in InstSpent /\ (InstFaultless' => InstFaultless)
    BY <1>1, InstFails, InstTyped DEF Inst!ReapOrphanContainers, InstFaultless
  <1>7. /\ x5' \in [Inst!Names -> Ids \cup {"none"}] /\ \A n \in Inst!Names : x5'[n] \in {x5[n], "none"}
    <2>1. x5' = x5 \/ x5' = [n \in Inst!Names |-> "none"]
      BY DEF Inst!ReapOrphanContainers, Inst!None
    <2> QED BY <2>1, InstTyped
  <1>8. InstFrame(Cleaner, w)
    BY <1>1, <1>4, <1>6, <1>7, InstTyped DEF InstFrame
  <1>9. InstShrinks
    BY <1>1, <1>7 DEF InstShrinks, Inst!Inductive, Inst!Roles
  <1>10. InstAnswered(Cleaner, w)
    <2>1. ASSUME NEW n \in Inst!Names, x5'[n] # "none", InstHeld(n) PROVE InstHeld(n)'
      BY <1>1, <1>7, <2>1 DEF InstHeld
    <2> QED BY <1>1, <1>6, <2>1 DEF InstAnswered, InstAnswers
  <1>11. InstStep(Cleaner, w)
    BY <1>1, <1>4, <1>5, <1>8, <1>9, <1>10 DEF InstStep, Inst!Launching
  <1> QED BY <1>4, <1>11, InstCleaner, InstStepKeeps

LEMMA InstLists ==
    ASSUME Inst!Inductive, Inst!CleanupList
    PROVE  Inst!Inductive'
  <1>1. x8[Cleaner].pc = "list" /\ UNCHANGED <<x1, x2, x3, x4, x5, x6, x7, x10, x11>>
    BY DEF Inst!CleanupList, Inst!At
  <1>2. CASE /\ x8' = [x8 EXCEPT ![Cleaner].pc = "clean", ![Cleaner].todo = Inst!ListCleanupCandidates]
             /\ x9' = x9
    <2> DEFINE w == [x8[Cleaner] EXCEPT !.pc = "clean", !.todo = Inst!ListCleanupCandidates]
    <2>1. x8' = [x8 EXCEPT ![Cleaner] = w]
      BY <1>2, InstTyped, InstCleaner
    <2>2. ASSUME NEW c \in Inst!ListCleanupCandidates
          PROVE  /\ c \in Ids \X Inst!States \X Inst!Names /\ c[2] # "none"
                 /\ \A n \in Inst!Names : x5[n] = c[1] => n = c[3]
      <3>1. PICK i \in Ids : c = <<i, x4[i].st, x4[i].name>> /\ x4[i].st \in {"failed", "running"}
        BY DEF Inst!ListCleanupCandidates
      <3>2. x4[i].name \in Inst!Names /\ x4[i].st \in Inst!States
        BY <3>1 DEF Inst!Inductive, Inst!Roles, Inst!States
      <3>3. \A n \in Inst!Names : x5[n] = i => n = x4[i].name
        BY <3>1, InstNames DEF Inst!Inductive, Inst!OneName, Inst!None
      <3> QED BY <3>1, <3>2, <3>3
    <2>3. w \in InstThread /\ w.pc = "clean" /\ w.todo = Inst!ListCleanupCandidates
      BY <2>2, InstTyped, InstCleaner DEF InstThread, Inst!TaskPcs
    <2> HIDE DEF w
    <2>4. InstRole(Cleaner, w) /\ InstName(w, x5, x7') /\ InstTodo(w, x5)
      BY <2>2, <2>3, InstNames DEF InstRole, InstName, InstTodo, Inst!TaskPcs, Inst!Launching
    <2>5. InstLocal(Cleaner, w)
      BY <1>1, <1>2, <2>1, <2>3, <2>4, InstTyped DEF InstLocal, InstAnswers, InstFaultless, Inst!Launching
    <2> QED BY <2>3, <2>5, InstCleaner, InstLocalKeeps
  <1>3. CASE /\ x8' = [x8 EXCEPT ![Cleaner] = Inst!Idle]
             /\ x9' = [x9 EXCEPT !.fails = @ + 1, !.tries = @ + 1]
    <2>1. x9' \in InstSpent /\ ~InstFaultless'
      <3>1. x9 \in InstSpent
        BY InstTyped
      <3>2. PICK n \in Nat : n = x9.fails + 1 /\ n # 0
        BY <3>1 DEF InstSpent
      <3>3. PICK m \in Nat : m = x9.tries + 1
        BY <3>1 DEF InstSpent
      <3>4. x9' = [x9 EXCEPT !.fails = n, !.tries = m]
        BY <1>3, <3>2, <3>3
      <3>5. x9' \in InstSpent /\ x9'.fails = n
        BY <3>1, <3>4 DEF InstSpent
      <3> QED BY <3>2, <3>5 DEF InstFaultless
    <2>2. InstLocal(Cleaner, Inst!Idle)
      BY <1>1, <1>3, <2>1, InstIdle, InstCleaner, InstTyped DEF InstLocal, Inst!Launching
    <2> QED BY <2>2, InstIdle, InstCleaner, InstLocalKeeps
  <1> QED BY <1>2, <1>3 DEF Inst!CleanupList

LEMMA InstCleans ==
    ASSUME Inst!Inductive, Inst!CleanupRunning
    PROVE  Inst!Inductive'
  <1>1. x8[Cleaner].pc = "clean" /\ UNCHANGED <<x1, x2, x3, x4, x5, x6, x7, x10, x11>>
    BY DEF Inst!CleanupRunning, Inst!At
  <1>2. x8[Cleaner] \in InstThread /\ InstRole(Cleaner, x8[Cleaner])
    BY InstCleaner, InstRoleHas
  <1>3. ASSUME NEW c \in x8[Cleaner].todo, x9' = x9,
               x8' = [x8 EXCEPT ![Cleaner] = [x8[Cleaner] EXCEPT !.pc = "remove", !.id = c[1], !.st = c[2],
                                              !.name = c[3], !.todo = @ \ {c}]]
        PROVE  Inst!Inductive'
    <2> DEFINE w == [x8[Cleaner] EXCEPT !.pc = "remove", !.id = c[1], !.st = c[2], !.name = c[3],
                                        !.todo = x8[Cleaner].todo \ {c}]
    <2>1. x8' = [x8 EXCEPT ![Cleaner] = w]
      BY <1>3
    <2>2. /\ c[1] \in Ids /\ c[2] \in Inst!States /\ c[2] # "none" /\ c[3] \in Inst!Names
          /\ x8[Cleaner].todo \ {c} \subseteq Ids \X Inst!States \X Inst!Names
      BY <1>2 DEF InstThread, InstRole
    <2>3. /\ w \in InstThread /\ w.pc = "remove" /\ w.id = c[1] /\ w.st = c[2] /\ w.name = c[3]
          /\ w.todo = x8[Cleaner].todo \ {c}
      BY <1>2, <2>2 DEF InstThread, Inst!TaskPcs
    <2> HIDE DEF w
    <2>4. InstRole(Cleaner, w)
      BY <1>2, <2>2, <2>3, InstNames DEF InstRole, Inst!TaskPcs, Inst!Launching
    <2>5. InstName(w, x5, x7')
      <3>1. \A n \in Inst!Names : x5[n] = c[1] => n = c[3]
        BY <1>3, InstCleaner DEF Inst!Inductive, Inst!OneName
      <3> QED BY <2>3, <3>1 DEF InstName
    <2>6. InstLocal(Cleaner, w)
      BY <1>1, <1>3, <2>1, <2>3, <2>4, <2>5, InstTyped DEF InstLocal, InstAnswers, InstFaultless, Inst!Launching
    <2> QED BY <2>3, <2>6, InstCleaner, InstLocalKeeps
  <1>4. CASE Inst!EndOfRun(x8[Cleaner].err)
    <2>1. /\ x8' = [x8 EXCEPT ![Cleaner] = Inst!Idle] /\ x9' \in InstSpent
          /\ x9'.fails = x9.fails /\ x9'.crashes = x9.crashes
      BY <1>4, InstTyped DEF Inst!EndOfRun, InstSpent
    <2>2. InstFaultless' => InstFaultless
      BY <1>1, <2>1 DEF InstFaultless
    <2>3. InstLocal(Cleaner, Inst!Idle)
      BY <1>1, <2>1, <2>2, InstIdle, InstCleaner, InstTyped DEF InstLocal, InstAnswers, Inst!Launching
    <2> QED BY <2>3, InstIdle, InstCleaner, InstLocalKeeps
  <1> QED BY <1>3, <1>4 DEF Inst!CleanupRunning

(* A step of no thread.                                                    *)
LEMMA InstAround ==
    ASSUME Inst!Inductive, InstFrame(Cleaner, x8[Cleaner]), InstShrinks, InstAnswered(Cleaner, x8[Cleaner])
    PROVE  Inst!Inductive'
  <1>1. x8[Cleaner] \in InstThread /\ InstRole(Cleaner, x8[Cleaner])
    BY InstCleaner, InstRoleHas
  <1>2. InstName(x8[Cleaner], x5', x7')
    <2>1. x8[Cleaner].pc \in {"persist", "persistPlain", "compensate", "remove", "complete"} => x8[Cleaner].id \in Ids
      BY <1>1 DEF InstRole
    <2>2. InstName(x8[Cleaner], x5, x7)
      BY InstCleaner DEF Inst!Inductive, Inst!OneName, InstName
    <2> QED BY <2>1, <2>2, InstNames DEF InstName, InstShrinks, InstFrame
  <1>3. InstStep(Cleaner, x8[Cleaner])
    BY <1>1, <1>2 DEF InstStep
  <1> QED BY <1>1, <1>3, InstCleaner, InstStepKeeps

LEMMA InstAges ==
    ASSUME Inst!Inductive, NEW i \in Ids, Inst!Age(i)
    PROVE  Inst!Inductive'
  <1>1. UNCHANGED <<x1, x2, x3, x5, x6, x7, x8, x9, x10, x11>>
    BY DEF Inst!Age
  <1>2. /\ x4' \in [Ids -> InstRow] /\ \A j \in Ids : x4'[j].st = x4[j].st /\ x4'[j].name = x4[j].name
    <2>1. PICK a \in {"old", "expired"} : x4' = [x4 EXCEPT ![i].age = a]
      BY DEF Inst!Age
    <2> QED BY <2>1, InstTyped DEF InstRow
  <1>3. InstFrame(Cleaner, x8[Cleaner])
    BY <1>1, <1>2, InstTyped, InstCleaner DEF InstFrame
  <1>4. InstShrinks
    BY <1>1, <1>2 DEF InstShrinks, Inst!Inductive, Inst!Roles
  <1>5. InstAnswered(Cleaner, x8[Cleaner])
    <2>1. \A n \in Inst!Names : x5'[n] # "none" => x5[n] \in Ids
      BY <1>1, InstTyped
    <2>2. ASSUME NEW n \in Inst!Names, x5'[n] # "none", InstHeld(n) PROVE InstHeld(n)'
      BY <1>1, <1>2, <2>1, <2>2 DEF InstHeld, InstKept
    <2> QED BY <1>1, <1>2, <2>1, <2>2 DEF InstAnswered, InstFaultless
  <1> QED BY <1>3, <1>4, <1>5, InstAround

LEMMA InstDeletes ==
    ASSUME Inst!Inductive, NEW t \in Threads, Inst!DeleteEvent(t)
    PROVE  Inst!Inductive'
  <1>1. /\ x2' = "deleted" /\ x4' = [i \in Ids |-> Inst!NoRow] /\ UNCHANGED <<x1, x3, x5, x6, x7, x8, x10, x11>>
        /\ x9' \in InstSpent
    BY InstAsks DEF Inst!DeleteEvent, Inst!Administrates
  <1>2. Inst!NoRow \in InstRow /\ Inst!NoRow.st = "none" /\ Inst!NoRow.name \notin Inst!Names
    BY InstNames DEF Inst!NoRow, InstRow, Inst!States
  <1>3. InstFrame(Cleaner, x8[Cleaner])
    BY <1>1, <1>2, InstTyped, InstCleaner DEF InstFrame
  <1>4. InstShrinks
    BY <1>1, <1>2 DEF InstShrinks
  <1>5. InstAnswered(Cleaner, x8[Cleaner])
    <2>1. \A n \in Inst!Names : x5'[n] # "none" => x5[n] \in Ids
      BY <1>1, InstTyped
    <2>2. ~InstFaultless'
      BY <1>1 DEF InstFaultless
    <2> QED BY <1>1, <1>2, <2>1, <2>2 DEF InstAnswered
  <1> QED BY <1>3, <1>4, <1>5, InstAround

(* A challenge is deleted: its instances are forgotten.                    *)
LEMMA InstDropsChallenge ==
    ASSUME Inst!Inductive, NEW t \in Threads, NEW c \in x1.challenges, Inst!DeleteChallenge(t, c)
    PROVE  Inst!Inductive'
  <1>1. /\ UNCHANGED <<x1, x2, x4, x5, x6, x8, x10>> /\ Inst!Asks(t) /\ x11' = x11 \cup {c} /\ x3' = x3 \ {c}
        /\ x7' = x7 \cup {i \in Inst!Rows : x4[i].name[2] = c}
    BY DEF Inst!DeleteChallenge, Inst!Administrates
  <1>2. x9' \in InstSpent /\ (InstFaultless' => InstFaultless)
    BY <1>1, InstAsks
  <1>3. InstFrame(Cleaner, x8[Cleaner])
    BY <1>1, <1>2, InstTyped, InstCleaner DEF InstFrame, Inst!Rows
  <1>4. InstShrinks
    BY <1>1 DEF InstShrinks, Inst!Inductive, Inst!Roles
  <1>5. InstAnswered(Cleaner, x8[Cleaner])
    <2>1. ASSUME NEW n \in Inst!Names, x5'[n] # "none", x5[n] \notin x7', InstHeld(n) PROVE InstHeld(n)'
      <3>1. x5[n] \in Ids
        BY <1>1, <2>1, InstTyped
      <3>2. x5[n] \in Inst!Rows
        BY <2>1, <3>1 DEF Inst!Rows, InstHeld, InstKept
      <3>3. n[2] # c
        BY <1>1, <2>1, <3>2 DEF InstHeld
      <3> QED BY <1>1, <2>1, <3>3 DEF InstHeld
    <2> QED BY <1>1, <1>2, <2>1 DEF InstAnswered
  <1> QED BY <1>3, <1>4, <1>5, InstAround

(* Rows go with their owner: their instances are forgotten.                *)
LEMMA InstDropsOwner ==
    ASSUME Inst!Inductive, NEW t \in Threads, NEW s \in Subjects, Inst!DeleteOwner(t, s)
    PROVE  Inst!Inductive'
  <1>1. UNCHANGED <<x1, x2, x3, x5, x6, x8, x10>> /\ Inst!Asks(t) /\ x11 \subseteq x11'
    BY DEF Inst!DeleteOwner, Inst!Administrates
  <1>2. PICK own \in SUBSET {i \in Inst!Rows : x4[i].name[1] = s} :
             /\ x4' = [i \in Ids |-> IF i \in own THEN Inst!NoRow ELSE x4[i]]
             /\ x7' = x7 \cup own /\ (x11' = x11 \cup {s} \/ x11' = x11)
    BY DEF Inst!DeleteOwner
  <1>3. x9' \in InstSpent /\ (InstFaultless' => InstFaultless)
    BY <1>1, InstAsks
  <1>4. Inst!NoRow \in InstRow /\ Inst!NoRow.st = "none" /\ Inst!NoRow.name \notin Inst!Names
    BY InstNames DEF Inst!NoRow, InstRow, Inst!States
  <1>5. x4' \in [Ids -> InstRow] /\ \A i \in Ids : x4'[i] = IF i \in own THEN Inst!NoRow ELSE x4[i]
    BY <1>2, <1>4, InstTyped
  <1>6. InstFrame(Cleaner, x8[Cleaner])
    <2>1. own \subseteq Ids
      BY <1>2 DEF Inst!Rows
    <2> QED BY <1>1, <1>2, <1>3, <1>5, <2>1, InstTyped, InstCleaner DEF InstFrame
  <1>7. InstShrinks
    BY <1>1, <1>4, <1>5 DEF InstShrinks, Inst!Inductive, Inst!Roles
  <1>8. InstAnswered(Cleaner, x8[Cleaner])
    <2>1. ASSUME NEW n \in Inst!Names, x5'[n] # "none", x5[n] \notin x7'
          PROVE  x4'[x5[n]] = x4[x5[n]] /\ x5'[n] = x5[n] /\ (n[2] \notin x11 => n[2] \notin x11')
      <3>1. x5[n] \in Ids /\ x5[n] \notin own
        BY <1>1, <1>2, <2>1, InstTyped
      <3>2. n[2] # s
        BY BackgroundAssumption DEF Inst!Names
      <3> QED BY <1>1, <1>2, <1>5, <3>1, <3>2
    <2>2. ASSUME NEW n \in Inst!Names, x5'[n] # "none", x5[n] \notin x7', InstHeld(n) PROVE InstHeld(n)'
      BY <2>1, <2>2 DEF InstHeld
    <2> QED BY <1>1, <1>3, <2>1, <2>2 DEF InstAnswered
  <1> QED BY <1>6, <1>7, <1>8, InstAround

LEMMA InstDies ==
    ASSUME Inst!Inductive, NEW n \in Inst!Names, Inst!ContainerDies(n)
    PROVE  Inst!Inductive'
  <1>1. /\ x5' = [x5 EXCEPT ![n] = "none"] /\ UNCHANGED <<x1, x2, x3, x4, x6, x7, x8, x10, x11>>
        /\ Inst!Count("deaths")
    BY DEF Inst!ContainerDies, Inst!None
  <1>2. x9' \in InstSpent /\ (InstFaultless' => InstFaultless)
    BY <1>1, InstCounts DEF InstFaultless
  <1>3. /\ x5' \in [Inst!Names -> Ids \cup {"none"}] /\ \A m \in Inst!Names : x5'[m] \in {x5[m], "none"}
    BY <1>1, InstTyped
  <1>4. InstFrame(Cleaner, x8[Cleaner])
    BY <1>1, <1>2, <1>3, InstTyped, InstCleaner DEF InstFrame
  <1>5. InstShrinks
    BY <1>1, <1>3 DEF InstShrinks, Inst!Inductive, Inst!Roles
  <1>6. InstAnswered(Cleaner, x8[Cleaner])
    <2>1. ASSUME NEW m \in Inst!Names, x5'[m] # "none", InstHeld(m) PROVE InstHeld(m)'
      BY <1>1, <1>3, <2>1 DEF InstHeld
    <2> QED BY <1>1, <1>2, <1>3, <2>1 DEF InstAnswered
  <1> QED BY <1>4, <1>5, <1>6, InstAround

LEMMA InstCrash ==
    ASSUME Inst!Inductive, Inst!Crash
    PROVE  Inst!Inductive'
  <1>1. /\ x8' = [t \in Inst!Workers |-> Inst!Idle] /\ x6' = {} /\ UNCHANGED <<x1, x2, x3, x4, x5, x7, x10, x11>>
    BY DEF Inst!Crash
  <1>2. x9' \in InstSpent /\ ~InstFaultless'
    <2>1. x9 \in InstSpent
      BY InstTyped
    <2>2. PICK n \in Nat : n = x9.crashes + 1 /\ n # 0
      BY <2>1 DEF InstSpent
    <2>3. PICK m \in Nat : m = IF x9.tries < MaxAttempts THEN x9.tries ELSE 0
      BY <2>1 DEF InstSpent
    <2>4. x9' = [x9 EXCEPT !.crashes = n, !.tries = m]
      BY <2>2, <2>3 DEF Inst!Crash
    <2>5. x9' \in InstSpent /\ x9'.crashes = n
      BY <2>1, <2>4 DEF InstSpent
    <2> QED BY <2>2, <2>5 DEF InstFaultless
  <1>3. x8' \in [Inst!Workers -> InstThread] /\ \A t \in Inst!Workers : x8'[t] = Inst!Idle
    BY <1>1, InstIdle
  <1>4. Inst!Types'
    BY <1>1, <1>2, <1>3, InstTyped DEF Inst!Types, InstRow, InstThread, InstSpent, Inst!None
  <1>5. Inst!Roles'
    <2>1. \A t \in Inst!Workers : InstRole(t, x8'[t])
      BY <1>3, InstIdle
    <2>2. \A i \in Ids : x4'[i].st # "none" <=> x4'[i].name \in Inst!Names
      BY <1>1 DEF Inst!Inductive, Inst!Roles
    <2> QED BY <1>1, <2>1, <2>2 DEF InstRole, Inst!Roles, Inst!Workers
  <1>6. Inst!OneName'
    <2>1. \A t \in Inst!Workers : InstName(x8'[t], x5, x7) /\ x8'[t].todo = {}
      BY <1>3, InstIdle
    <2> QED BY <1>1, <2>1 DEF InstName, Inst!OneName, Inst!Inductive
  <1>7. Inst!LimitHolds'
    <2>1. ASSUME NEW s \in Subjects
          PROVE  Inst!RunningOf(s)' \subseteq Inst!RunningOf(s) /\ Inst!LaunchesOf(s)' \subseteq Inst!LaunchesOf(s)
      BY <1>1, <1>3, InstIdle DEF Inst!RunningOf, Inst!Joined, Inst!LaunchesOf, Inst!Launching, Inst!Workers
    <2> QED BY <1>1, <2>1, InstLimitKeeps
  <1>8. Inst!ContainersAccounted'
    BY <1>2 DEF Inst!ContainersAccounted, InstFaultless
  <1>9. Inst!CompletedIsGone'
    BY <1>1 DEF Inst!Inductive, Inst!CompletedIsGone
  <1> QED BY <1>4, <1>5, <1>6, <1>7, <1>8, <1>9 DEF Inst!Inductive

(* Every step of the instances.                                            *)
LEMMA InstNext ==
    ASSUME Inst!Inductive, Inst!Next
    PROVE  Inst!Inductive'
  <1>1. ASSUME NEW t \in Threads, Inst!Begin(t) PROVE Inst!Inductive'
    <2>1. ASSUME NEW n \in Inst!Names, Inst!LaunchRequest(t, n) PROVE Inst!Inductive'
      BY <2>1, InstLaunches DEF Inst!LaunchRequest
    <2>2. ASSUME NEW i \in Ids, \/ Inst!DestroyRequest(t, i) \/ Inst!BulkDeletePracticeInstances(t, i)
                                \/ Inst!Submit(t, i) \/ Inst!TimerFires(t, i)
          PROVE  Inst!Inductive'
      BY <2>2, InstDestroys DEF Inst!DestroyRequest, Inst!BulkDeletePracticeInstances
    <2>3. ASSUME NEW c \in x1.challenges, Inst!Publish(t, c) \/ Inst!PatchPort(t, c) \/ Inst!DeleteChallenge(t, c)
          PROVE  Inst!Inductive'
      BY <2>3, InstPublishes, InstDropsChallenge
    <2> QED BY <1>1, <2>1, <2>2, <2>3, InstDropsOwner, InstDeletes DEF Inst!Begin
  <1>2. ASSUME NEW t \in Inst!Workers, Inst!Continue(t) PROVE Inst!Inductive'
    BY <1>2, InstContinues
  <1>3. CASE Inst!Task
    BY <1>2, <1>3, InstCleaner, InstReconciles, InstReaps, InstLists, InstCleans DEF Inst!Task
  <1>4. CASE Inst!TimePasses
    BY <1>4, InstAges DEF Inst!TimePasses
  <1>5. \A t \in Threads : t \in Inst!Workers
    BY DEF Inst!Workers
  <1> QED BY <1>1, <1>2, <1>3, <1>4, <1>5, InstDies, InstCrash DEF Inst!Next

(* What follows from the invariant.                                        *)
LEMMA InstResults ==
    Inst!Inductive => /\ Inst!TypeOK /\ Inst!RunningBounded /\ Inst!ContainersAccounted /\ Inst!CompletedIsGone
  <1> SUFFICES ASSUME Inst!Inductive PROVE Inst!TypeOK /\ Inst!RunningBounded
    BY DEF Inst!Inductive
  <1>1. Inst!TypeOK
    BY InstTyped DEF Inst!TypeOK, InstRow, Inst!States, Inst!None
  <1>2. ASSUME NEW s \in Subjects PROVE Cardinality(Inst!RunningOf(s)) < x1.max + Cardinality(x1.threads)
    <2>1. Cardinality(Inst!RunningOf(s)) + Cardinality(Inst!LaunchesOf(s)) < x1.max + Cardinality(x1.threads)
      BY InstLimit DEF Inst!Inductive
    <2>2. /\ Cardinality(Inst!RunningOf(s)) \in Nat /\ Cardinality(Inst!LaunchesOf(s)) \in Nat
          /\ Cardinality(x1.threads) \in Nat /\ x1.max \in Nat
      BY InstTyped, InstCounted
    <2> QED BY <2>1, <2>2
  <1>3. Inst!RunningBounded
    BY <1>2 DEF Inst!RunningBounded, Inst!MaxConcurrentInstances, Inst!Cardinality, Cardinality
  <1> QED BY <1>1, <1>3

----------------------------------------------------------------------------
(* OidcLogout: the outbox, and the logouts that fill and empty it *)

LogoutReq == [pc : Logout!Pcs, targets : SUBSET Devices, affected : SUBSET (Devices \X Apps), silent : SUBSET Apps,
              todo : SUBSET Logout!Keys, missed : BOOLEAN, synced : BOOLEAN]
LogoutClient == [uri : BOOLEAN, active : BOOLEAN]
LogoutSpent == [faults : Nat, crashes : Nat, binds : Nat]

(* What the variables are.                                                 *)
LEMMA LogoutTyped ==
    ASSUME Logout!Inductive
    PROVE  /\ x1 \in Worlds /\ x2 \in [Devices -> {"live", "revoked"}] /\ x3 \in [Devices -> SUBSET Apps]
           /\ x4 \in [Apps -> LogoutClient] /\ x5 \in [Batches -> {"none", "open", "done"}]
           /\ x6 \in [Batches -> LogoutReq] /\ x7 \in [Batches -> [Devices -> [Apps -> Logout!Rows]]]
           /\ x8 \subseteq Logout!Keys /\ x9 \in [Apps -> SUBSET Devices] /\ x10 \in LogoutSpent /\ x11 \subseteq Apps
           /\ MaxAttempts \in Nat /\ MaxAttempts >= 1
  BY BackgroundAssumption DEF Logout!Inductive, Logout!Types, LogoutReq, LogoutClient, LogoutSpent

(* Keys and the rows under them.                                           *)
LEMMA LogoutKey ==
    ASSUME NEW k \in Logout!Keys
    PROVE  k[1] \in Batches /\ k[2] \in Devices /\ k[3] \in Apps /\ k = <<k[1], k[2], k[3]>>
  BY DEF Logout!Keys

LEMMA LogoutKeyOf ==
    ASSUME NEW b \in Batches, NEW s \in Devices, NEW c \in Apps
    PROVE  <<b, s, c>> \in Logout!Keys /\ Logout!At(<<b, s, c>>) = x7[b][s][c]
  BY DEF Logout!Keys, Logout!At

LEMMA LogoutAt ==
    ASSUME Logout!Inductive, NEW k \in Logout!Keys
    PROVE  Logout!At(k) \in Logout!Rows /\ Logout!At(k).attempts \in Nat
  <1>1. Logout!At(k) \in Logout!Rows
    BY LogoutTyped, LogoutKey DEF Logout!At
  <1> QED BY <1>1 DEF Logout!Rows

LEMMA LogoutWrites ==
    ASSUME Logout!Inductive, NEW k \in Logout!Keys, NEW r \in Logout!Rows, x7' = Logout!Write(k, r)
    PROVE  /\ x7' \in [Batches -> [Devices -> [Apps -> Logout!Rows]]] /\ Logout!At(k)' = r
           /\ \A l \in Logout!Keys : l # k => Logout!At(l)' = Logout!At(l)
  <1>1. k[1] \in Batches /\ k[2] \in Devices /\ k[3] \in Apps /\ k = <<k[1], k[2], k[3]>>
    BY LogoutKey
  <1>2. x7 \in [Batches -> [Devices -> [Apps -> Logout!Rows]]]
    BY LogoutTyped
  <1>3. x7' = [x7 EXCEPT ![k[1]] = [x7[k[1]] EXCEPT ![k[2]] = [x7[k[1]][k[2]] EXCEPT ![k[3]] = r]]]
    BY DEF Logout!Write
  <1>4. [x7[k[1]][k[2]] EXCEPT ![k[3]] = r] \in [Apps -> Logout!Rows]
    BY <1>1, <1>2
  <1>5. [x7[k[1]] EXCEPT ![k[2]] = [x7[k[1]][k[2]] EXCEPT ![k[3]] = r]] \in [Devices -> [Apps -> Logout!Rows]]
    BY <1>1, <1>2, <1>4
  <1>6. x7' \in [Batches -> [Devices -> [Apps -> Logout!Rows]]]
    BY <1>2, <1>3, <1>5
  <1>7. x7'[k[1]][k[2]][k[3]] = r
    BY <1>1, <1>2, <1>3
  <1>8. ASSUME NEW b \in Batches, NEW s \in Devices, NEW c \in Apps, b # k[1] \/ s # k[2] \/ c # k[3]
        PROVE  x7'[b][s][c] = x7[b][s][c]
    BY <1>1, <1>2, <1>3, <1>8
  <1>9. ASSUME NEW l \in Logout!Keys, l # k PROVE Logout!At(l)' = Logout!At(l)
    <2>1. l[1] \in Batches /\ l[2] \in Devices /\ l[3] \in Apps /\ l = <<l[1], l[2], l[3]>>
      BY LogoutKey
    <2>2. l[1] # k[1] \/ l[2] # k[2] \/ l[3] # k[3]
      BY <1>1, <1>9, <2>1
    <2> QED BY <1>8, <2>1, <2>2 DEF Logout!At
  <1> QED BY <1>6, <1>7, <1>9 DEF Logout!At

LEMMA LogoutInit == Logout!Init => Logout!Inductive
  <1> SUFFICES ASSUME Logout!Init PROVE Logout!Inductive
    OBVIOUS
  <1>1. /\ Logout!NoRow \in Logout!Rows /\ Logout!NoRow.st = "none" /\ Logout!NoRow.attempts = 0
        /\ Logout!Idle \in LogoutReq /\ Logout!Idle.pc = "idle" /\ Logout!Idle.todo = {} /\ Logout!Idle.synced = FALSE
    BY DEF Logout!NoRow, Logout!Rows, Logout!Idle, LogoutReq, Logout!Pcs
  <1>2. /\ x7 \in [Batches -> [Devices -> [Apps -> Logout!Rows]]] /\ \A k \in Logout!Keys : Logout!At(k) = Logout!NoRow
    BY <1>1 DEF Logout!Init, Logout!At, Logout!Keys
  <1>3. x6 \in [Batches -> LogoutReq] /\ \A b \in Batches : x6[b] = Logout!Idle
    BY <1>1 DEF Logout!Init
  <1>4. \A v \in Worlds : v.held \subseteq Apps
    BY BackgroundAssumption DEF Worlds, World
  <1>5. Logout!Types
    <2>1. x3 \in [Devices -> SUBSET Apps]
      BY <1>4 DEF Logout!Init
    <2>2. x2 \in [Devices -> {"live", "revoked"}] /\ x4 \in [Apps -> [uri : BOOLEAN, active : BOOLEAN]]
      BY DEF Logout!Init
    <2> QED BY <1>2, <1>3, <2>1, <2>2 DEF Logout!Init, Logout!Types, LogoutReq
  <1>6. Logout!ConfirmedOnce
    BY <1>1, <1>2, <1>3 DEF Logout!ConfirmedOnce
  <1>7. Logout!Deliveries
    <2>1. MaxAttempts \in Nat /\ 0 <= MaxAttempts
      BY BackgroundAssumption
    <2> QED BY <1>1, <1>2, <1>3, <2>1 DEF Logout!Deliveries, Logout!Init
  <1>8. \A b \in Batches : Logout!Progress(b)
    BY <1>1, <1>3 DEF Logout!Progress
  <1>9. Logout!SyncedIsTold
    BY <1>1, <1>3 DEF Logout!SyncedIsTold
  <1> QED BY <1>5, <1>6, <1>7, <1>8, <1>9 DEF Logout!Inductive

(* A step of the logout b, which becomes q; rows stay as they are.         *)
LogoutMove(b, q) ==
    /\ UNCHANGED <<x1, x3, x4, x7, x8, x9, x10, x11>> /\ x2' \in [Devices -> {"live", "revoked"}]
    /\ x5' \in [Batches -> {"none", "open", "done"}] /\ \A a \in Batches : a # b => x5'[a] = x5[a]
    /\ x6' = [x6 EXCEPT ![b] = q] /\ (q.pc # "idle" => x5'[b] = "done")
    /\ (x5'[b] # "done" \/ q.pc \in {"revoke", "enqueue"}) =>
          (x5[b] # "done" \/ x6[b].pc \in {"revoke", "enqueue"})
    /\ q.todo = {} \/ (q.todo = x6[b].todo /\ q.pc = x6[b].pc)
    /\ Logout!Progress(b)'
    /\ q.synced => \A p \in q.affected : p[2] \notin x11 => p[1] \in x9[p[2]]

(* Such a step keeps the invariant.                                        *)
LEMMA LogoutMoves ==
    ASSUME Logout!Inductive, NEW b \in Batches, NEW q \in LogoutReq, LogoutMove(b, q)
    PROVE  Logout!Inductive'
  <1>1. /\ x6' \in [Batches -> LogoutReq] /\ x6'[b] = q /\ \A a \in Batches : a # b => x6'[a] = x6[a]
    BY LogoutTyped DEF LogoutMove
  <1>2. UNCHANGED <<x1, x3, x4, x7, x8, x9, x10, x11>>
    BY DEF LogoutMove
  <1>3. \A k : Logout!At(k)' = Logout!At(k)
    BY <1>2 DEF Logout!At
  <1>4. Logout!Types'
    BY <1>1, <1>2 DEF LogoutMove, Logout!Inductive, Logout!Types, LogoutReq
  <1>5. Logout!ConfirmedOnce'
    <2>1. ASSUME NEW a \in Batches, x6'[a].pc # "idle" PROVE x5'[a] = "done"
      BY <1>1, <2>1 DEF LogoutMove, Logout!Inductive, Logout!ConfirmedOnce
    <2>2. ASSUME NEW k \in Logout!Keys, x5'[k[1]] # "done" \/ x6'[k[1]].pc \in {"revoke", "enqueue"}
          PROVE  Logout!At(k).st = "none"
      <3>1. k[1] \in Batches
        BY LogoutKey
      <3>2. x5[k[1]] # "done" \/ x6[k[1]].pc \in {"revoke", "enqueue"}
        BY <1>1, <2>2, <3>1 DEF LogoutMove
      <3> QED BY <3>2 DEF Logout!Inductive, Logout!ConfirmedOnce
    <2> QED BY <1>3, <2>1, <2>2 DEF Logout!ConfirmedOnce
  <1>6. Logout!Deliveries'
    <2>1. ASSUME NEW a \in Batches
          PROVE  /\ x6'[a].pc # "deliver" => x6'[a].todo = {}
                 /\ \A k \in x6'[a].todo : k[1] = a /\ Logout!At(k).st = "pending" /\ Logout!At(k).at = "leased" /\ k \notin x8
      <3>1. /\ x6[a].pc # "deliver" => x6[a].todo = {}
            /\ \A k \in x6[a].todo : k[1] = a /\ Logout!At(k).st = "pending" /\ Logout!At(k).at = "leased" /\ k \notin x8
        BY DEF Logout!Inductive, Logout!Deliveries
      <3> QED BY <1>1, <3>1 DEF LogoutMove
    <2> QED BY <1>2, <1>3, <2>1 DEF Logout!Inductive, Logout!Deliveries
  <1>7. ASSUME NEW a \in Batches PROVE Logout!Progress(a)'
    <2>1. CASE a = b
      BY <2>1 DEF LogoutMove
    <2>2. CASE a # b
      <3>1. Logout!Progress(a)
        BY DEF Logout!Inductive
      <3> QED BY <1>1, <1>2, <2>2, <3>1 DEF Logout!Progress, Logout!Supports
    <2> QED BY <2>1, <2>2
  <1>8. Logout!SyncedIsTold'
    BY <1>1, <1>2 DEF LogoutMove, Logout!Inductive, Logout!SyncedIsTold
  <1> QED BY <1>4, <1>5, <1>6, <1>7, <1>8 DEF Logout!Inductive

(* A step of the pending row k, in no list of a logout any more.           *)
LogoutRow(k) ==
    /\ x7' \in [Batches -> [Devices -> [Apps -> Logout!Rows]]]
    /\ \A l \in Logout!Keys : l # k => Logout!At(l)' = Logout!At(l)
    /\ Logout!At(k).st = "pending" /\ Logout!At(k)'.st # "none" /\ Logout!At(k)'.attempts <= MaxAttempts
    /\ Logout!At(k)'.st = "pending" => Logout!At(k)'.attempts < MaxAttempts
    /\ Logout!At(k)'.st = "delivered" => k[2] \in x9'[k[3]]
    /\ x9' \in [Apps -> SUBSET Devices] /\ \A c \in Apps : x9[c] \subseteq x9'[c]
LogoutHands(k) ==
    /\ x6' \in [Batches -> LogoutReq] /\ \A a \in Batches : a # k[1] => x6'[a] = x6[a]
    /\ LET p == x6[k[1]] q == x6'[k[1]] IN
       /\ q.pc = p.pc /\ q.targets = p.targets /\ q.affected = p.affected /\ q.silent = p.silent /\ q.synced = p.synced
       /\ q.todo = p.todo \ {k} /\ (p.missed => q.missed)
       /\ k \in p.todo => q.missed \/ k[2] \in x9'[k[3]]
       /\ p.pc = "idle" => q = p
    /\ x8' \subseteq x8 \cup {k} /\ (k \in x8' => Logout!At(k)'.st = "pending" /\ Logout!At(k)'.at = "leased")
LogoutOne(k) ==
    /\ LogoutRow(k) /\ LogoutHands(k) /\ UNCHANGED <<x1, x2, x3, x4, x5, x11>> /\ x10' \in LogoutSpent

(* Such a step, with the lists it leaves, keeps the invariant.             *)
LEMMA LogoutOneKeeps ==
    ASSUME Logout!Inductive, NEW k \in Logout!Keys, LogoutOne(k)
    PROVE  Logout!Inductive'
  <1>1. k[1] \in Batches /\ k[2] \in Devices /\ k[3] \in Apps /\ k = <<k[1], k[2], k[3]>>
    BY LogoutKey
  <1>2. /\ x6' \in [Batches -> LogoutReq] /\ x8' \subseteq x8 \cup {k} /\ UNCHANGED <<x1, x2, x3, x4, x5, x11>>
        /\ \A a \in Batches : /\ x6'[a].pc = x6[a].pc /\ x6'[a].targets = x6[a].targets
                              /\ x6'[a].affected = x6[a].affected /\ x6'[a].silent = x6[a].silent
                              /\ x6'[a].synced = x6[a].synced /\ x6'[a].todo \subseteq x6[a].todo
                              /\ x6[a].missed => x6'[a].missed
                              /\ x6[a].pc = "idle" => x6'[a] = x6[a]
    BY <1>1 DEF LogoutOne, LogoutHands
  <1>3. Logout!Types'
    <2>1. x8' \subseteq Logout!Keys
      BY <1>2, LogoutTyped
    <2> QED BY <1>2, <2>1 DEF LogoutOne, LogoutRow, Logout!Inductive, Logout!Types, LogoutReq, LogoutSpent
  <1>4. x5[k[1]] = "done" /\ x6[k[1]].pc \notin {"revoke", "enqueue"}
    BY DEF LogoutOne, LogoutRow, Logout!Inductive, Logout!ConfirmedOnce
  <1>5. Logout!ConfirmedOnce'
    <2>1. ASSUME NEW l \in Logout!Keys, x5[l[1]] # "done" \/ x6[l[1]].pc \in {"revoke", "enqueue"}
          PROVE  Logout!At(l)'.st = "none"
      <3>1. l # k
        BY <1>4, <2>1
      <3> QED BY <2>1, <3>1 DEF LogoutOne, LogoutRow, Logout!Inductive, Logout!ConfirmedOnce
    <2>2. \A l \in Logout!Keys : l[1] \in Batches
      BY LogoutKey
    <2> QED BY <1>2, <2>1, <2>2 DEF Logout!Inductive, Logout!ConfirmedOnce
  <1>6. \A a \in Batches : k \notin x6'[a].todo
    <2>1. \A a \in Batches : a # k[1] => k \notin x6[a].todo
      BY DEF Logout!Inductive, Logout!Deliveries
    <2> QED BY <1>1, <2>1 DEF LogoutOne, LogoutHands
  <1>7. Logout!Deliveries'
    <2>1. ASSUME NEW l \in Logout!Keys
          PROVE  /\ Logout!At(l)'.attempts <= MaxAttempts
                 /\ Logout!At(l)'.st = "pending" => Logout!At(l)'.attempts < MaxAttempts
                 /\ Logout!At(l)'.st = "delivered" => l[2] \in x9'[l[3]]
      <3>1. CASE l = k
        BY <3>1 DEF LogoutOne, LogoutRow
      <3>2. CASE l # k
        <4>1. /\ Logout!At(l).attempts <= MaxAttempts
              /\ Logout!At(l).st = "pending" => Logout!At(l).attempts < MaxAttempts
              /\ Logout!At(l).st = "delivered" => l[2] \in x9[l[3]]
          BY DEF Logout!Inductive, Logout!Deliveries
        <4>2. l[3] \in Apps
          BY LogoutKey
        <4> QED BY <3>2, <4>1, <4>2 DEF LogoutOne, LogoutRow
      <3> QED BY <3>1, <3>2
    <2>2. ASSUME NEW l \in x8' PROVE Logout!At(l)'.st = "pending" /\ Logout!At(l)'.at = "leased"
      <3>1. CASE l = k
        BY <2>2, <3>1 DEF LogoutOne, LogoutHands
      <3>2. CASE l # k
        BY <1>2, <2>2, <3>2, LogoutTyped DEF LogoutOne, LogoutRow, Logout!Inductive, Logout!Deliveries
      <3> QED BY <3>1, <3>2
    <2>3. ASSUME NEW a \in Batches, NEW l \in x6'[a].todo
          PROVE  l[1] = a /\ Logout!At(l)'.st = "pending" /\ Logout!At(l)'.at = "leased" /\ l \notin x8'
      <3>1. l # k /\ l \in x6[a].todo
        BY <1>2, <1>6, <2>3
      <3>2. l \in Logout!Keys
        BY <3>1, LogoutTyped DEF LogoutReq
      <3>3. Logout!At(l)' = Logout!At(l)
        BY <3>1, <3>2 DEF LogoutOne, LogoutRow
      <3> QED BY <1>2, <3>1, <3>3 DEF Logout!Inductive, Logout!Deliveries
    <2>4. \A a \in Batches : x6'[a].pc # "deliver" => x6'[a].todo = {}
      BY <1>2 DEF Logout!Inductive, Logout!Deliveries
    <2> QED BY <2>1, <2>2, <2>3, <2>4 DEF Logout!Deliveries
  <1>8. ASSUME NEW a \in Batches, NEW p \in x6[a].affected
        PROVE  /\ p[1] \in Devices /\ p[2] \in Apps
               /\ x7[a][p[1]][p[2]].st # "none" => x7'[a][p[1]][p[2]].st # "none"
               /\ <<a, p[1], p[2]>> \in x6[a].todo =>
                     \/ <<a, p[1], p[2]>> \in x6'[a].todo \/ x6'[a].missed \/ p[1] \in x9'[p[2]]
    <2>1. p[1] \in Devices /\ p[2] \in Apps
      BY <1>8, LogoutTyped DEF LogoutReq
    <2>2. PICK l \in Logout!Keys : l = <<a, p[1], p[2]>>
      BY <2>1, LogoutKeyOf
    <2>3. l[1] = a /\ l[2] = p[1] /\ l[3] = p[2]
      BY <2>2
    <2>4. Logout!At(l) = x7[a][p[1]][p[2]] /\ Logout!At(l)' = x7'[a][p[1]][p[2]]
      BY <2>3 DEF Logout!At
    <2>5. CASE l = k
      BY <2>1, <2>2, <2>3, <2>4, <2>5 DEF LogoutOne, LogoutRow, LogoutHands
    <2>6. CASE l # k
      <3>1. l \in x6[a].todo => l \in x6'[a].todo
        BY <2>6 DEF LogoutOne, LogoutHands
      <3> QED BY <2>1, <2>2, <2>4, <2>6, <3>1 DEF LogoutOne, LogoutRow
    <2> QED BY <2>5, <2>6
  <1>9. \A c \in Apps : x9[c] \subseteq x9'[c]
    BY DEF LogoutOne, LogoutRow
  <1>10. ASSUME NEW a \in Batches PROVE Logout!Progress(a)'
    <2>1. Logout!Progress(a)
      BY DEF Logout!Inductive
    <2>2. x6'[a].pc \in {"revoke", "enqueue"} =>
            \A p \in x6'[a].affected : /\ p[1] \in x6'[a].targets /\ p[2] \in x3'[p[1]]
                                       /\ p[2] \in x6'[a].silent \/ p[2] \in x11' \/ Logout!Supports(p[2])'
      BY <1>2, <2>1 DEF Logout!Progress, Logout!Supports
    <2>3. x6'[a].pc \in {"deliver", "answered"} =>
            \A p \in x6'[a].affected : Logout!Supports(p[2])' => x7'[a][p[1]][p[2]].st # "none"
      BY <1>2, <1>8, <2>1 DEF Logout!Progress, Logout!Supports
    <2>4. x6'[a].pc = "deliver" =>
            \A p \in x6'[a].affected : \/ p[2] \in x6'[a].silent \/ p[2] \in x11' \/ x6'[a].missed
                                       \/ <<a, p[1], p[2]>> \in x6'[a].todo \/ p[1] \in x9'[p[2]]
      BY <1>2, <1>8, <1>9, <2>1 DEF Logout!Progress
    <2>5. (x6'[a].pc = "idle" => x6'[a] = Logout!Idle) /\ (x6'[a].synced => x6'[a].pc = "answered")
      BY <1>2, <2>1 DEF Logout!Progress
    <2> QED BY <2>2, <2>3, <2>4, <2>5 DEF Logout!Progress
  <1>11. Logout!SyncedIsTold'
    BY <1>2, <1>8, <1>9 DEF Logout!Inductive, Logout!SyncedIsTold
  <1> QED BY <1>3, <1>5, <1>7, <1>10, <1>11 DEF Logout!Inductive

LEMMA LogoutSpends ==
    ASSUME Logout!Inductive
    PROVE  [x10 EXCEPT !.binds = @ + 1] \in LogoutSpent /\ [x10 EXCEPT !.faults = @ + 1] \in LogoutSpent
           /\ [x10 EXCEPT !.crashes = @ + 1] \in LogoutSpent
  <1>1. x10 \in LogoutSpent
    BY LogoutTyped
  <1> QED BY <1>1 DEF LogoutSpent

(* The steps around a logout: tokens, reconfigured applications, requests. *)
LEMMA LogoutBinds ==
    ASSUME Logout!Inductive, NEW s \in Devices, NEW c \in Apps, Logout!RecordSessionClient(s, c)
    PROVE  Logout!Inductive'
  <1>1. UNCHANGED <<x1, x2, x4, x5, x6, x7, x8, x9, x11>>
    BY DEF Logout!RecordSessionClient
  <1>2. x3' \in [Devices -> SUBSET Apps] /\ \A d \in Devices : x3[d] \subseteq x3'[d]
    BY LogoutTyped DEF Logout!RecordSessionClient
  <1>3. x10' \in LogoutSpent
    BY LogoutSpends DEF Logout!RecordSessionClient
  <1>4. Logout!Types'
    BY <1>1, <1>2, <1>3 DEF Logout!Inductive, Logout!Types, LogoutSpent
  <1>5. Logout!ConfirmedOnce' /\ Logout!Deliveries' /\ Logout!SyncedIsTold'
    BY <1>1 DEF Logout!Inductive, Logout!ConfirmedOnce, Logout!Deliveries, Logout!SyncedIsTold, Logout!At
  <1>6. ASSUME NEW b \in Batches PROVE Logout!Progress(b)'
    <2>1. Logout!Progress(b) /\ \A p \in x6[b].affected : p[1] \in Devices
      BY LogoutTyped DEF Logout!Inductive, LogoutReq
    <2> QED BY <1>1, <1>2, <2>1 DEF Logout!Progress, Logout!Supports
  <1> QED BY <1>4, <1>5, <1>6 DEF Logout!Inductive

LEMMA LogoutReconfigures ==
    ASSUME Logout!Inductive, NEW c \in Apps, Logout!ClientChanges(c)
    PROVE  Logout!Inductive'
  <1>1. UNCHANGED <<x1, x2, x3, x5, x6, x7, x8, x9>> /\ x11' = x11 \cup {c}
    BY DEF Logout!ClientChanges
  <1>2. /\ x4' \in [Apps -> LogoutClient] /\ \A a \in Apps : a # c => x4'[a] = x4[a]
        /\ Logout!Supports(c)' => Logout!Supports(c)
    <2>1. x4 \in [Apps -> LogoutClient]
      BY LogoutTyped
    <2>2. CASE x4' = [x4 EXCEPT ![c].uri = FALSE]
      BY <2>1, <2>2 DEF LogoutClient, Logout!Supports
    <2>3. CASE x4' = [x4 EXCEPT ![c].active = FALSE]
      BY <2>1, <2>3 DEF LogoutClient, Logout!Supports
    <2> QED BY <2>2, <2>3 DEF Logout!ClientChanges
  <1>3. x10' \in LogoutSpent
    BY LogoutSpends DEF Logout!ClientChanges
  <1>4. Logout!Types'
    BY <1>1, <1>2, <1>3 DEF Logout!Inductive, Logout!Types, LogoutSpent, LogoutClient
  <1>5. Logout!ConfirmedOnce' /\ Logout!Deliveries' /\ Logout!SyncedIsTold'
    BY <1>1 DEF Logout!Inductive, Logout!ConfirmedOnce, Logout!Deliveries, Logout!SyncedIsTold, Logout!At
  <1>6. \A a \in Apps : /\ Logout!Supports(a)' => Logout!Supports(a)
                        /\ Logout!Supports(a) => Logout!Supports(a)' \/ a \in x11'
    BY <1>1, <1>2 DEF Logout!Supports
  <1>7. ASSUME NEW b \in Batches PROVE Logout!Progress(b)'
    <2>1. Logout!Progress(b) /\ \A p \in x6[b].affected : p[2] \in Apps
      BY LogoutTyped DEF Logout!Inductive, LogoutReq
    <2>2. x6[b].pc \in {"revoke", "enqueue"} =>
            \A p \in x6[b].affected : /\ p[1] \in x6[b].targets /\ p[2] \in x3[p[1]]
                                      /\ p[2] \in x6[b].silent \/ p[2] \in x11' \/ Logout!Supports(p[2])'
      BY <1>1, <1>6, <2>1 DEF Logout!Progress
    <2>3. x6[b].pc \in {"deliver", "answered"} =>
            \A p \in x6[b].affected : Logout!Supports(p[2])' => x7[b][p[1]][p[2]].st # "none"
      BY <1>6, <2>1 DEF Logout!Progress
    <2>4. x6[b].pc = "deliver" =>
            \A p \in x6[b].affected : \/ p[2] \in x6[b].silent \/ p[2] \in x11' \/ x6[b].missed
                                      \/ <<b, p[1], p[2]>> \in x6[b].todo \/ p[1] \in x9[p[2]]
      BY <1>1, <2>1 DEF Logout!Progress
    <2>5. (x6[b].pc = "idle" => x6[b] = Logout!Idle) /\ (x6[b].synced => x6[b].pc = "answered")
      BY <2>1 DEF Logout!Progress
    <2> QED BY <1>1, <2>2, <2>3, <2>4, <2>5 DEF Logout!Progress
  <1> QED BY <1>4, <1>5, <1>7 DEF Logout!Inductive

LEMMA LogoutAsked ==
    ASSUME Logout!Inductive, NEW b \in Batches, Logout!EndSession(b)
    PROVE  Logout!Inductive'
  <1>1. UNCHANGED <<x1, x2, x3, x4, x6, x7, x8, x9, x10, x11>> /\ x5[b] = "none" /\ x5' = [x5 EXCEPT ![b] = "open"]
    BY DEF Logout!EndSession
  <1>2. x5' \in [Batches -> {"none", "open", "done"}] /\ x5'[b] = "open" /\ \A a \in Batches : a # b => x5'[a] = x5[a]
    BY <1>1, LogoutTyped
  <1>3. PICK q \in LogoutReq : q = x6[b] /\ x6' = [x6 EXCEPT ![b] = q]
    BY <1>1, LogoutTyped
  <1>4. q.pc = "idle" /\ ~q.synced
    BY <1>1, <1>3 DEF Logout!Inductive, Logout!ConfirmedOnce, Logout!Progress
  <1>5. Logout!Progress(b)'
    <2>1. Logout!Progress(b)
      BY DEF Logout!Inductive
    <2> QED BY <1>1, <2>1 DEF Logout!Progress, Logout!Supports
  <1>6. LogoutMove(b, q)
    BY <1>1, <1>2, <1>3, <1>4, <1>5, LogoutTyped DEF LogoutMove
  <1> QED BY <1>6, LogoutMoves

(* affected_clients: who holds a token, and who of them cannot be told.    *)
LEMMA LogoutAffects ==
    ASSUME Logout!Inductive, NEW targets \in SUBSET Devices
    PROVE  /\ Logout!AffectedClients(targets) \subseteq Devices \X Apps
           /\ \A s \in Devices, c \in Apps :
                 <<s, c>> \in Logout!AffectedClients(targets) <=> s \in targets /\ c \in x3[s]
           /\ \A p \in Logout!AffectedClients(targets) : p[1] \in targets /\ p[2] \in Apps /\ p[2] \in x3[p[1]]
           /\ Logout!WithoutBackchannel(Logout!AffectedClients(targets)) \subseteq Apps
           /\ \A p \in Logout!AffectedClients(targets) :
                 p[2] \in Logout!WithoutBackchannel(Logout!AffectedClients(targets)) \/ Logout!Supports(p[2])
  <1>1. /\ Logout!AffectedClients(targets) \subseteq Devices \X Apps
        /\ \A p \in Logout!AffectedClients(targets) : p[1] \in targets /\ p[2] \in Apps /\ p[2] \in x3[p[1]]
    BY DEF Logout!AffectedClients
  <1>2. \A s \in Devices, c \in Apps :
           <<s, c>> \in Logout!AffectedClients(targets) <=> s \in targets /\ c \in x3[s]
    BY DEF Logout!AffectedClients
  <1>3. Logout!WithoutBackchannel(Logout!AffectedClients(targets)) \subseteq Apps
    BY <1>1 DEF Logout!WithoutBackchannel
  <1>4. \A p \in Logout!AffectedClients(targets) :
           p[2] \in Logout!WithoutBackchannel(Logout!AffectedClients(targets)) \/ Logout!Supports(p[2])
    BY DEF Logout!WithoutBackchannel
  <1> QED BY <1>1, <1>2, <1>3, <1>4

(* The steps of a logout: confirmed, revoked, queued, delivered, answered. *)
LEMMA LogoutConfirms ==
    ASSUME Logout!Inductive, NEW b \in Batches, NEW targets \in SUBSET Devices, NEW cancel \in BOOLEAN,
           Logout!EndSessionConfirm(b, targets, cancel)
    PROVE  Logout!Inductive'
  <1>1. /\ UNCHANGED <<x1, x2, x3, x4, x7, x8, x9, x10, x11>> /\ x5[b] = "open" /\ x6[b].pc = "idle"
        /\ x5' = [x5 EXCEPT ![b] = "done"]
    BY DEF Logout!EndSessionConfirm
  <1>2. x5' \in [Batches -> {"none", "open", "done"}] /\ x5'[b] = "done" /\ \A a \in Batches : a # b => x5'[a] = x5[a]
    BY <1>1, LogoutTyped
  <1>3. CASE cancel
    <2>1. PICK q \in LogoutReq : q = x6[b] /\ x6' = [x6 EXCEPT ![b] = q] /\ x6' = x6
      BY <1>3, LogoutTyped DEF Logout!EndSessionConfirm
    <2>2. Logout!Progress(b)' /\ ~q.synced
      <3>1. Logout!Progress(b)
        BY DEF Logout!Inductive
      <3> QED BY <1>1, <2>1, <3>1 DEF Logout!Progress, Logout!Supports
    <2>3. LogoutMove(b, q)
      BY <1>1, <1>2, <2>1, <2>2, LogoutTyped DEF LogoutMove
    <2> QED BY <2>3, LogoutMoves
  <1>4. CASE ~cancel
    <2> DEFINE f == Logout!AffectedClients(targets)
               q == [Logout!Idle EXCEPT !.pc = "revoke", !.targets = targets, !.affected = f,
                                        !.silent = Logout!WithoutBackchannel(f)]
    <2>1. x6' = [x6 EXCEPT ![b] = q]
      BY <1>4 DEF Logout!EndSessionConfirm
    <2>2. f \subseteq Devices \X Apps /\ Logout!WithoutBackchannel(f) \subseteq Apps
      BY LogoutAffects
    <2>3. /\ q \in LogoutReq /\ q.pc = "revoke" /\ q.targets = targets /\ q.affected = f
          /\ q.silent = Logout!WithoutBackchannel(f) /\ q.todo = {} /\ q.synced = FALSE
      BY <2>2 DEF LogoutReq, Logout!Idle, Logout!Pcs
    <2>4. \A p \in f : /\ p[1] \in targets /\ p[2] \in x3[p[1]]
                       /\ p[2] \in Logout!WithoutBackchannel(f) \/ Logout!Supports(p[2])
      BY LogoutAffects
    <2> HIDE DEF f, q
    <2>5. x6'[b] = q
      BY <2>1, <2>3, LogoutTyped
    <2>6. Logout!Progress(b)'
      BY <1>1, <2>3, <2>4, <2>5 DEF Logout!Progress, Logout!Supports
    <2>7. LogoutMove(b, q)
      BY <1>1, <1>2, <2>1, <2>3, <2>6, LogoutTyped DEF LogoutMove
    <2> QED BY <2>3, <2>7, LogoutMoves
  <1> QED BY <1>3, <1>4

LEMMA LogoutRevokes ==
    ASSUME Logout!Inductive, NEW b \in Batches, Logout!RevokeForLogout(b)
    PROVE  Logout!Inductive'
  <1> DEFINE q == [x6[b] EXCEPT !.pc = "enqueue"]
  <1>1. /\ UNCHANGED <<x1, x3, x4, x5, x7, x8, x9, x10, x11>> /\ x6[b].pc = "revoke" /\ x6' = [x6 EXCEPT ![b] = q]
        /\ x2' \in [Devices -> {"live", "revoked"}]
    BY LogoutTyped DEF Logout!RevokeForLogout
  <1>2. x6[b] \in LogoutReq
    BY LogoutTyped
  <1>3. /\ q \in LogoutReq /\ q.pc = "enqueue" /\ q.targets = x6[b].targets /\ q.affected = x6[b].affected
        /\ q.silent = x6[b].silent /\ q.todo = x6[b].todo /\ q.synced = x6[b].synced
    BY <1>2 DEF LogoutReq, Logout!Pcs
  <1> HIDE DEF q
  <1>4. Logout!Progress(b) /\ x5[b] = "done" /\ x6[b].todo = {} /\ x6'[b] = q
    BY <1>1, <1>3, LogoutTyped DEF Logout!Inductive, Logout!ConfirmedOnce, Logout!Deliveries
  <1>5. ~x6[b].synced
    BY <1>1, <1>4 DEF Logout!Progress
  <1>6. Logout!Progress(b)'
    BY <1>1, <1>3, <1>4, <1>5 DEF Logout!Progress, Logout!Supports
  <1>7. LogoutMove(b, q)
    BY <1>1, <1>3, <1>4, <1>5, <1>6, LogoutTyped DEF LogoutMove
  <1> QED BY <1>3, <1>7, LogoutMoves

LEMMA LogoutAnswers ==
    ASSUME Logout!Inductive, NEW b \in Batches, Logout!Answer(b)
    PROVE  Logout!Inductive'
  <1> DEFINE q == [x6[b] EXCEPT !.pc = "answered", !.synced = Logout!FullySynced(b)]
  <1>1. x6[b] \in LogoutReq /\ Logout!FullySynced(b) \in BOOLEAN
    BY LogoutTyped DEF Logout!FullySynced
  <1>2. /\ UNCHANGED <<x1, x2, x3, x4, x5, x7, x8, x9, x10, x11>> /\ x6[b].pc = "deliver" /\ x6[b].todo = {}
        /\ x6' = [x6 EXCEPT ![b] = q]
    BY LogoutTyped DEF Logout!Answer
  <1>3. /\ q \in LogoutReq /\ q.pc = "answered" /\ q.affected = x6[b].affected /\ q.todo = {}
        /\ q.synced = Logout!FullySynced(b)
    BY <1>1, <1>2 DEF LogoutReq, Logout!Pcs
  <1> HIDE DEF q
  <1>4. Logout!Progress(b) /\ x5[b] = "done" /\ x6'[b] = q
    BY <1>2, <1>3, LogoutTyped DEF Logout!Inductive, Logout!ConfirmedOnce
  <1>5. Logout!Progress(b)'
    BY <1>2, <1>3, <1>4 DEF Logout!Progress, Logout!Supports
  <1>6. q.synced => \A p \in q.affected : p[2] \notin x11 => p[1] \in x9[p[2]]
    BY <1>2, <1>3, <1>4 DEF Logout!Progress, Logout!FullySynced
  <1>7. LogoutMove(b, q)
    BY <1>2, <1>3, <1>4, <1>5, <1>6, LogoutTyped DEF LogoutMove
  <1> QED BY <1>3, <1>7, LogoutMoves

(* enqueue: whoever is affected and can be told has a row now.             *)
LEMMA LogoutEnqueues ==
    ASSUME Logout!Inductive, NEW b \in Batches, Logout!Enqueue(b)
    PROVE  Logout!Inductive'
  <1> DEFINE pairs == {p \in Logout!AffectedClients(x6[b].targets) : Logout!Supports(p[2])}
             fresh == [st |-> "pending", attempts |-> 0, at |-> "leased"]
             rows == [s \in Devices |-> [c \in Apps |-> IF <<s, c>> \in pairs THEN fresh ELSE Logout!NoRow]]
             todo == {<<b, p[1], p[2]>> : p \in pairs}
             q == [x6[b] EXCEPT !.pc = "deliver", !.todo = todo]
  <1>1. /\ UNCHANGED <<x1, x2, x3, x4, x5, x8, x9, x10, x11>> /\ x6[b].pc = "enqueue" /\ x7' = [x7 EXCEPT ![b] = rows]
        /\ x6' = [x6 EXCEPT ![b] = q]
    BY LogoutTyped DEF Logout!Enqueue
  <1>2. x6[b] \in LogoutReq /\ x6[b].targets \in SUBSET Devices
    BY LogoutTyped DEF LogoutReq
  <1>3. /\ fresh \in Logout!Rows /\ fresh.st = "pending" /\ fresh.attempts = 0 /\ fresh.at = "leased"
        /\ Logout!NoRow \in Logout!Rows /\ Logout!NoRow.st = "none" /\ Logout!NoRow.attempts = 0
    BY DEF Logout!Rows, Logout!NoRow
  <1>4. pairs \subseteq Devices \X Apps
    BY <1>2, LogoutAffects
  <1>5. \A s \in Devices, c \in Apps :
           s \in x6[b].targets /\ c \in x3[s] /\ Logout!Supports(c) => <<s, c>> \in pairs
    BY <1>2, LogoutAffects
  <1>6. todo \subseteq Logout!Keys
    BY <1>4 DEF Logout!Keys
  <1>7. /\ q \in LogoutReq /\ q.pc = "deliver" /\ q.todo = todo /\ q.affected = x6[b].affected
        /\ q.silent = x6[b].silent /\ q.missed = x6[b].missed /\ q.synced = x6[b].synced
    BY <1>2, <1>6 DEF LogoutReq, Logout!Pcs
  <1>8. /\ rows \in [Devices -> [Apps -> Logout!Rows]]
        /\ \A s \in Devices, c \in Apps : rows[s][c] = IF <<s, c>> \in pairs THEN fresh ELSE Logout!NoRow
    BY <1>3
  <1>9. \A k \in todo : k[1] = b /\ k[2] \in Devices /\ k[3] \in Apps /\ <<k[2], k[3]>> \in pairs
    BY <1>4
  <1>10. \A s \in Devices, c \in Apps : <<s, c>> \in pairs => <<b, s, c>> \in todo
    OBVIOUS
  <1> HIDE DEF pairs, fresh, rows, todo, q
  <1>11. /\ x7' \in [Batches -> [Devices -> [Apps -> Logout!Rows]]] /\ x7'[b] = rows
         /\ \A a \in Batches : a # b => x7'[a] = x7[a]
    BY <1>1, <1>8, LogoutTyped
  <1>12. /\ x6' \in [Batches -> LogoutReq] /\ x6'[b] = q /\ \A a \in Batches : a # b => x6'[a] = x6[a]
    BY <1>1, <1>7, LogoutTyped
  <1>13. \A k \in Logout!Keys : k[1] # b => Logout!At(k)' = Logout!At(k)
    BY <1>11, LogoutKey DEF Logout!At
  <1>14. \A k \in Logout!Keys : k[1] = b => Logout!At(k).st = "none" /\ k \notin x8
    BY <1>1 DEF Logout!Inductive, Logout!ConfirmedOnce, Logout!Deliveries
  <1>15. ASSUME NEW k \in Logout!Keys, k[1] = b
         PROVE  /\ Logout!At(k)' = IF <<k[2], k[3]>> \in pairs THEN fresh ELSE Logout!NoRow
                /\ Logout!At(k)'.attempts = 0 /\ Logout!At(k)'.st \in {"none", "pending"}
    <2>1. Logout!At(k)' = rows[k[2]][k[3]] /\ k[2] \in Devices /\ k[3] \in Apps
      BY <1>11, <1>15, LogoutKey DEF Logout!At
    <2>2. Logout!At(k)' = IF <<k[2], k[3]>> \in pairs THEN fresh ELSE Logout!NoRow
      BY <1>8, <2>1
    <2> QED BY <1>3, <2>2
  <1>16. Logout!Types'
    BY <1>1, <1>11, <1>12 DEF Logout!Inductive, Logout!Types, LogoutReq
  <1>17. x5[b] = "done" /\ Logout!Progress(b)
    BY <1>1 DEF Logout!Inductive, Logout!ConfirmedOnce
  <1>18. Logout!ConfirmedOnce'
    <2>1. ASSUME NEW k \in Logout!Keys, x5[k[1]] # "done" \/ x6'[k[1]].pc \in {"revoke", "enqueue"}
          PROVE  Logout!At(k)'.st = "none"
      <3>1. k[1] # b /\ k[1] \in Batches
        BY <1>7, <1>12, <1>17, <2>1, LogoutKey
      <3> QED BY <1>12, <1>13, <2>1, <3>1 DEF Logout!Inductive, Logout!ConfirmedOnce
    <2>2. ASSUME NEW a \in Batches, x6'[a].pc # "idle" PROVE x5[a] = "done"
      BY <1>12, <1>17, <2>2 DEF Logout!Inductive, Logout!ConfirmedOnce
    <2> QED BY <1>1, <2>1, <2>2 DEF Logout!ConfirmedOnce
  <1>19. Logout!Deliveries'
    <2>1. ASSUME NEW k \in Logout!Keys
          PROVE  /\ Logout!At(k)'.attempts <= MaxAttempts
                 /\ Logout!At(k)'.st = "pending" => Logout!At(k)'.attempts < MaxAttempts
                 /\ Logout!At(k)'.st = "delivered" => k[2] \in x9[k[3]]
      <3>1. CASE k[1] = b
        <4>1. MaxAttempts \in Nat /\ 0 <= MaxAttempts /\ 0 < MaxAttempts
          BY BackgroundAssumption
        <4>2. Logout!At(k)'.attempts = 0 /\ Logout!At(k)'.st \in {"none", "pending"}
          BY <1>15, <3>1
        <4> QED BY <4>1, <4>2
      <3>2. CASE k[1] # b
        BY <1>13, <3>2 DEF Logout!Inductive, Logout!Deliveries
      <3> QED BY <3>1, <3>2
    <2>2. ASSUME NEW k \in x8 PROVE Logout!At(k)'.st = "pending" /\ Logout!At(k)'.at = "leased"
      <3>1. k \in Logout!Keys
        BY LogoutTyped
      <3> QED BY <1>13, <1>14, <3>1 DEF Logout!Inductive, Logout!Deliveries
    <2>3. ASSUME NEW a \in Batches, NEW k \in x6'[a].todo
          PROVE  k[1] = a /\ Logout!At(k)'.st = "pending" /\ Logout!At(k)'.at = "leased" /\ k \notin x8
      <3>1. k \in Logout!Keys
        BY <1>12 DEF LogoutReq
      <3>2. CASE a = b
        <4>1. k[1] = b /\ <<k[2], k[3]>> \in pairs
          BY <1>7, <1>9, <1>12, <3>2
        <4> QED BY <1>3, <1>14, <1>15, <3>1, <3>2, <4>1
      <3>3. CASE a # b
        <4>1. k \in x6[a].todo
          BY <1>12, <3>3
        <4>2. k[1] = a /\ Logout!At(k).st = "pending" /\ Logout!At(k).at = "leased" /\ k \notin x8
          BY <4>1 DEF Logout!Inductive, Logout!Deliveries
        <4> QED BY <1>13, <3>1, <3>3, <4>2
      <3> QED BY <3>2, <3>3
    <2>4. \A a \in Batches : x6'[a].pc # "deliver" => x6'[a].todo = {}
      BY <1>7, <1>12 DEF Logout!Inductive, Logout!Deliveries
    <2> QED BY <1>1, <2>1, <2>2, <2>3, <2>4 DEF Logout!Deliveries
  <1>20. ASSUME NEW a \in Batches PROVE Logout!Progress(a)'
    <2>1. CASE a # b
      <3>1. Logout!Progress(a)
        BY DEF Logout!Inductive
      <3> QED BY <1>1, <1>11, <1>12, <2>1, <3>1 DEF Logout!Progress, Logout!Supports
    <2>2. CASE a = b
      <3>1. ~x6[b].synced
        BY <1>1, <1>17 DEF Logout!Progress
      <3>2. ASSUME NEW p \in x6[b].affected, Logout!Supports(p[2])
            PROVE  rows[p[1]][p[2]].st # "none" /\ <<b, p[1], p[2]>> \in todo
        <4>1. p[1] \in Devices /\ p[2] \in Apps
          BY <1>2 DEF LogoutReq
        <4>2. p[1] \in x6[b].targets /\ p[2] \in x3[p[1]]
          BY <1>1, <1>17 DEF Logout!Progress
        <4>3. <<p[1], p[2]>> \in pairs
          BY <1>5, <3>2, <4>1, <4>2
        <4> QED BY <1>3, <1>8, <1>10, <4>1, <4>3
      <3>3. \A p \in x6[b].affected : p[2] \in x6[b].silent \/ p[2] \in x11 \/ Logout!Supports(p[2])
        BY <1>1, <1>17 DEF Logout!Progress
      <3>4. \A c : Logout!Supports(c)' <=> Logout!Supports(c)
        BY <1>1 DEF Logout!Supports
      <3> QED BY <1>1, <1>7, <1>11, <1>12, <2>2, <3>1, <3>2, <3>3, <3>4 DEF Logout!Progress
    <2> QED BY <2>1, <2>2
  <1>21. Logout!SyncedIsTold'
    <2>1. ~x6[b].synced
      BY <1>1, <1>17 DEF Logout!Progress
    <2> QED BY <1>1, <1>7, <1>12, <2>1 DEF Logout!Inductive, Logout!SyncedIsTold
  <1> QED BY <1>16, <1>18, <1>19, <1>20, <1>21 DEF Logout!Inductive

(* One delivery of a pending row.                                          *)
LEMMA LogoutDelivers ==
    ASSUME Logout!Inductive, NEW k \in Logout!Keys, Logout!At(k).st = "pending", Logout!DeliverOne(k)
    PROVE  LogoutRow(k) /\ x10' \in LogoutSpent
  <1>1. k[1] \in Batches /\ k[2] \in Devices /\ k[3] \in Apps
    BY LogoutKey
  <1>2. /\ Logout!At(k) \in Logout!Rows /\ Logout!At(k).attempts \in Nat /\ Logout!At(k).attempts + 1 \in Nat
        /\ Logout!At(k).attempts < MaxAttempts /\ MaxAttempts \in Nat
    BY LogoutAt, LogoutTyped DEF Logout!Inductive, Logout!Deliveries
  <1>3. x10' \in LogoutSpent
    BY LogoutSpends, LogoutTyped DEF Logout!DeliverOne
  <1>4. x9' \in {x9, [x9 EXCEPT ![k[3]] = @ \cup {k[2]}]}
    BY DEF Logout!DeliverOne
  <1>5. x9' \in [Apps -> SUBSET Devices] /\ \A c \in Apps : x9[c] \subseteq x9'[c]
    <2>1. x9 \in [Apps -> SUBSET Devices]
      BY LogoutTyped
    <2>2. CASE x9' = x9
      BY <2>1, <2>2
    <2>3. CASE x9' = [x9 EXCEPT ![k[3]] = x9[k[3]] \cup {k[2]}]
      BY <1>1, <2>1, <2>3
    <2> QED BY <1>4, <2>2, <2>3
  <1>6. ASSUME NEW st \in {"failed", "delivered"}, x7' = Logout!Mark(k, st), st = "delivered" => k[2] \in x9'[k[3]]
        PROVE  LogoutRow(k)
    <2>1. PICK r : r = [Logout!At(k) EXCEPT !.st = st, !.attempts = Logout!At(k).attempts + 1]
      OBVIOUS
    <2>2. r \in Logout!Rows /\ r.st = st /\ r.attempts = Logout!At(k).attempts + 1
      BY <1>2, <2>1 DEF Logout!Rows
    <2>3. x7' = Logout!Write(k, r)
      BY <1>6, <2>1 DEF Logout!Mark
    <2>4. /\ x7' \in [Batches -> [Devices -> [Apps -> Logout!Rows]]] /\ Logout!At(k)' = r
          /\ \A l \in Logout!Keys : l # k => Logout!At(l)' = Logout!At(l)
      BY <2>2, <2>3, LogoutWrites
    <2>5. r.attempts <= MaxAttempts
      BY <1>2, <2>2
    <2> QED BY <1>5, <1>6, <2>2, <2>4, <2>5 DEF LogoutRow
  <1>7. ASSUME x7' = Logout!RetryOrFail(k) PROVE LogoutRow(k)
    <2>1. CASE Logout!At(k).attempts + 1 >= MaxAttempts
      BY <1>6, <1>7, <2>1 DEF Logout!RetryOrFail
    <2>2. CASE ~(Logout!At(k).attempts + 1 >= MaxAttempts)
      <3>1. PICK r : r = [Logout!At(k) EXCEPT !.attempts = Logout!At(k).attempts + 1, !.at = "wait"]
        OBVIOUS
      <3>2. r \in Logout!Rows /\ r.st = "pending" /\ r.attempts = Logout!At(k).attempts + 1
        BY <1>2, <3>1 DEF Logout!Rows
      <3>3. x7' = Logout!Write(k, r)
        BY <1>7, <2>2, <3>1 DEF Logout!RetryOrFail
      <3>4. /\ x7' \in [Batches -> [Devices -> [Apps -> Logout!Rows]]] /\ Logout!At(k)' = r
            /\ \A l \in Logout!Keys : l # k => Logout!At(l)' = Logout!At(l)
        BY <3>2, <3>3, LogoutWrites
      <3>5. r.attempts < MaxAttempts /\ r.attempts <= MaxAttempts
        BY <1>2, <2>2, <3>2
      <3> QED BY <1>5, <3>2, <3>4, <3>5 DEF LogoutRow
    <2> QED BY <2>1, <2>2
  <1>8. ASSUME x7' = x7 PROVE LogoutRow(k)
    <2>1. \A l : Logout!At(l)' = Logout!At(l)
      BY <1>8 DEF Logout!At
    <2>2. Logout!At(k).attempts <= MaxAttempts
      BY <1>2
    <2> QED BY <1>2, <1>5, <1>8, <2>1, <2>2, LogoutTyped DEF LogoutRow
  <1>9. x7' = Logout!Mark(k, "delivered") => k[2] \in x9'[k[3]] \/ x7' = Logout!Mark(k, "failed")
           \/ x7' = Logout!RetryOrFail(k) \/ x7' = x7
    BY <1>1, LogoutTyped DEF Logout!DeliverOne
  <1>10. \/ x7' = Logout!Mark(k, "failed") \/ x7' = Logout!RetryOrFail(k) \/ x7' = x7
         \/ x7' = Logout!Mark(k, "delivered") /\ k[2] \in x9'[k[3]]
    BY <1>9 DEF Logout!DeliverOne
  <1>11. LogoutRow(k)
    BY <1>6, <1>7, <1>8, <1>10
  <1> QED BY <1>3, <1>11

(* deliver_batch: the row leaves the list, told or missed.                 *)
LEMMA LogoutDelivery ==
    ASSUME Logout!Inductive, NEW b \in Batches, NEW k \in Logout!Keys, Logout!DeliverBatch(b, k)
    PROVE  Logout!Inductive'
  <1>1. UNCHANGED <<x1, x2, x3, x4, x5, x8, x11>> /\ k \in x6[b].todo /\ x6[b].pc = "deliver" /\ Logout!DeliverOne(k)
    BY DEF Logout!DeliverBatch
  <1>2. k[1] = b /\ Logout!At(k).st = "pending" /\ k \notin x8
    BY <1>1 DEF Logout!Inductive, Logout!Deliveries
  <1>3. LogoutRow(k) /\ x10' \in LogoutSpent
    BY <1>1, <1>2, LogoutDelivers
  <1>4. PICK m \in BOOLEAN : m = (x6[b].missed \/ Logout!At(k)'.st # "delivered")
    BY Zenon
  <1>5. PICK q : q = [x6[b] EXCEPT !.todo = x6[b].todo \ {k}, !.missed = m]
    OBVIOUS
  <1>6. x6[b] \in LogoutReq
    BY LogoutTyped
  <1>7. x6' = [x6 EXCEPT ![b] = q]
    <2>1. Logout!At(k)'.st # "delivered" <=> x7'[k[1]][k[2]][k[3]].st # "delivered"
      BY DEF Logout!At
    <2> QED BY <1>4, <1>5, <2>1, LogoutTyped DEF Logout!DeliverBatch
  <1>8. /\ q \in LogoutReq /\ q.pc = x6[b].pc /\ q.targets = x6[b].targets /\ q.affected = x6[b].affected
        /\ q.silent = x6[b].silent /\ q.synced = x6[b].synced /\ q.todo = x6[b].todo \ {k} /\ q.missed = m
    BY <1>5, <1>6 DEF LogoutReq
  <1>9. x6' \in [Batches -> LogoutReq] /\ x6'[b] = q /\ \A a \in Batches : a # b => x6'[a] = x6[a]
    BY <1>7, <1>8, LogoutTyped
  <1>10. m \/ k[2] \in x9'[k[3]]
    BY <1>3, <1>4 DEF LogoutRow
  <1>11. x6[b].missed => m
    BY <1>4
  <1>12. LogoutHands(k)
    BY <1>1, <1>2, <1>8, <1>9, <1>10, <1>11 DEF LogoutHands
  <1> QED BY <1>1, <1>3, <1>12, LogoutOneKeeps DEF LogoutOne

(* A step of a row no logout has in hand.                                  *)
LEMMA LogoutAlone ==
    ASSUME Logout!Inductive, NEW k \in Logout!Keys, k \notin x6[k[1]].todo, x6' = x6, LogoutRow(k),
           UNCHANGED <<x1, x2, x3, x4, x5, x11>>, x10' \in LogoutSpent,
           x8' \subseteq x8 \cup {k}, k \in x8' => Logout!At(k)'.st = "pending" /\ Logout!At(k)'.at = "leased"
    PROVE  Logout!Inductive'
  <1>1. x6 \in [Batches -> LogoutReq] /\ k[1] \in Batches
    BY LogoutTyped, LogoutKey
  <1>2. x6[k[1]].todo = x6[k[1]].todo \ {k}
    OBVIOUS
  <1>3. LogoutHands(k)
    BY <1>1, <1>2 DEF LogoutHands
  <1> QED BY <1>3, LogoutOneKeeps DEF LogoutOne

(* The worker: claim_due, a delivery, and the time of the next.            *)
LEMMA LogoutRetries ==
    ASSUME Logout!Inductive, NEW k \in Logout!Keys, Logout!RetryDue(k)
    PROVE  Logout!Inductive'
  <1>1. /\ UNCHANGED <<x1, x2, x3, x4, x5, x6, x11>> /\ k \in x8 /\ x8' = x8 \ {k} /\ Logout!DeliverOne(k)
    BY DEF Logout!RetryDue
  <1>2. k[1] \in Batches /\ Logout!At(k).st = "pending"
    BY <1>1, LogoutKey DEF Logout!Inductive, Logout!Deliveries
  <1>3. k \notin x6[k[1]].todo
    BY <1>1, <1>2 DEF Logout!Inductive, Logout!Deliveries
  <1>4. LogoutRow(k) /\ x10' \in LogoutSpent
    BY <1>1, <1>2, LogoutDelivers
  <1>5. x8' \subseteq x8 \cup {k} /\ k \notin x8'
    BY <1>1
  <1> QED BY <1>1, <1>3, <1>4, <1>5, LogoutAlone

(* The time of a pending row is set: claimed, or due.                      *)
LEMMA LogoutTimes ==
    ASSUME Logout!Inductive, NEW k \in Logout!Keys, NEW at \in {"leased", "due"},
           Logout!At(k).st = "pending", x7' = Logout!Write(k, [Logout!At(k) EXCEPT !.at = at]), x9' = x9
    PROVE  LogoutRow(k) /\ Logout!At(k)'.st = "pending" /\ Logout!At(k)'.at = at
  <1>1. PICK r : r = [Logout!At(k) EXCEPT !.at = at]
    OBVIOUS
  <1>2. Logout!At(k) \in Logout!Rows
    BY LogoutAt
  <1>3. r \in Logout!Rows /\ r.st = "pending" /\ r.at = at /\ r.attempts = Logout!At(k).attempts
    BY <1>1, <1>2 DEF Logout!Rows
  <1>4. /\ x7' \in [Batches -> [Devices -> [Apps -> Logout!Rows]]] /\ Logout!At(k)' = r
        /\ \A l \in Logout!Keys : l # k => Logout!At(l)' = Logout!At(l)
    BY <1>1, <1>3, LogoutWrites
  <1>5. Logout!At(k).attempts <= MaxAttempts /\ Logout!At(k).attempts < MaxAttempts
    BY DEF Logout!Inductive, Logout!Deliveries
  <1>6. x9 \in [Apps -> SUBSET Devices]
    BY LogoutTyped
  <1> QED BY <1>3, <1>4, <1>5, <1>6 DEF LogoutRow

LEMMA LogoutClaims ==
    ASSUME Logout!Inductive, NEW k \in Logout!Keys, Logout!ClaimDue(k)
    PROVE  Logout!Inductive'
  <1>1. /\ UNCHANGED <<x1, x2, x3, x4, x5, x6, x9, x10, x11>> /\ x8' = x8 \cup {k} /\ Logout!At(k).at = "due"
        /\ Logout!At(k).st = "pending" /\ x7' = Logout!Write(k, [Logout!At(k) EXCEPT !.at = "leased"])
    BY DEF Logout!ClaimDue
  <1>2. k[1] \in Batches
    BY LogoutKey
  <1>3. k \notin x6[k[1]].todo
    BY <1>1, <1>2 DEF Logout!Inductive, Logout!Deliveries
  <1>4. LogoutRow(k) /\ Logout!At(k)'.st = "pending" /\ Logout!At(k)'.at = "leased"
    BY <1>1, LogoutTimes
  <1>5. x10' \in LogoutSpent
    BY <1>1, LogoutTyped
  <1> QED BY <1>1, <1>3, <1>4, <1>5, LogoutAlone

LEMMA LogoutFallsDue ==
    ASSUME Logout!Inductive, NEW k \in Logout!Keys, Logout!Due(k)
    PROVE  Logout!Inductive'
  <1>1. /\ UNCHANGED <<x1, x2, x3, x4, x5, x6, x8, x9, x10, x11>> /\ k \notin x8 /\ k \notin x6[k[1]].todo
        /\ Logout!At(k).st = "pending" /\ x7' = Logout!Write(k, [Logout!At(k) EXCEPT !.at = "due"])
    BY DEF Logout!Due, Logout!Delivering
  <1>2. LogoutRow(k)
    BY <1>1, LogoutTimes
  <1>3. x10' \in LogoutSpent
    BY <1>1, LogoutTyped
  <1> QED BY <1>1, <1>2, <1>3, LogoutAlone

(* A crash leaves the rows; of the logouts only what was answered.         *)
LEMMA LogoutCrashes ==
    ASSUME Logout!Inductive, Logout!Crash
    PROVE  Logout!Inductive'
  <1>1. UNCHANGED <<x1, x2, x3, x4, x5, x7, x9, x11>> /\ x8' = {}
    BY DEF Logout!Crash
  <1>2. /\ Logout!Idle \in LogoutReq /\ Logout!Idle.pc = "idle" /\ Logout!Idle.todo = {} /\ Logout!Idle.synced = FALSE
    BY DEF Logout!Idle, LogoutReq, Logout!Pcs
  <1>3. /\ x6' \in [Batches -> LogoutReq]
        /\ \A a \in Batches : \/ x6'[a] = x6[a] /\ x6[a].pc = "answered"
                              \/ x6'[a] = Logout!Idle
    BY <1>2, LogoutTyped DEF Logout!Crash
  <1>4. x10' \in LogoutSpent
    BY LogoutSpends DEF Logout!Crash
  <1>5. \A k : Logout!At(k)' = Logout!At(k)
    BY <1>1 DEF Logout!At
  <1>6. Logout!Types'
    BY <1>1, <1>3, <1>4 DEF Logout!Inductive, Logout!Types, LogoutReq, LogoutSpent
  <1>7. Logout!ConfirmedOnce'
    <2>1. ASSUME NEW k \in Logout!Keys, x5[k[1]] # "done" \/ x6'[k[1]].pc \in {"revoke", "enqueue"}
          PROVE  Logout!At(k).st = "none"
      <3>1. k[1] \in Batches
        BY LogoutKey
      <3>2. x5[k[1]] # "done"
        BY <1>2, <1>3, <2>1, <3>1
      <3> QED BY <3>2 DEF Logout!Inductive, Logout!ConfirmedOnce
    <2>2. \A a \in Batches : x6'[a].pc # "idle" => x5[a] = "done"
      BY <1>2, <1>3 DEF Logout!Inductive, Logout!ConfirmedOnce
    <2> QED BY <1>1, <1>5, <2>1, <2>2 DEF Logout!ConfirmedOnce
  <1>8. Logout!Deliveries'
    <2>1. \A a \in Batches : x6'[a].todo = {}
      BY <1>2, <1>3 DEF Logout!Inductive, Logout!Deliveries
    <2> QED BY <1>1, <1>5, <2>1 DEF Logout!Inductive, Logout!Deliveries
  <1>9. ASSUME NEW a \in Batches PROVE Logout!Progress(a)'
    <2>1. Logout!Progress(a)
      BY DEF Logout!Inductive
    <2>2. CASE x6'[a] = Logout!Idle
      BY <1>2, <2>2 DEF Logout!Progress
    <2>3. CASE x6'[a] = x6[a]
      <3>1. x6[a].pc = "answered" \/ x6'[a] = Logout!Idle
        BY <1>3
      <3> QED BY <1>1, <2>1, <2>2, <2>3, <3>1 DEF Logout!Progress, Logout!Supports
    <2> QED BY <1>3, <2>2, <2>3
  <1>10. Logout!SyncedIsTold'
    BY <1>1, <1>2, <1>3 DEF Logout!Inductive, Logout!SyncedIsTold
  <1> QED BY <1>6, <1>7, <1>8, <1>9, <1>10 DEF Logout!Inductive

(* Every step of the outbox and of the logouts.                            *)
LEMMA LogoutNext ==
    ASSUME Logout!Inductive, Logout!Next
    PROVE  Logout!Inductive'
  <1>1. CASE \E s \in Devices, c \in Apps : Logout!RecordSessionClient(s, c)
    BY <1>1, LogoutBinds
  <1>2. CASE \E c \in Apps : Logout!ClientChanges(c)
    BY <1>2, LogoutReconfigures
  <1>3. CASE \E b \in Batches : Logout!EndSession(b) \/ Logout!Steps(b)
    <2>1. PICK b \in Batches : Logout!EndSession(b) \/ Logout!Steps(b)
      BY <1>3
    <2>2. ASSUME NEW s \in Devices, NEW c \in Apps, Logout!DeliverBatch(b, <<b, s, c>>)
          PROVE  Logout!Inductive'
      <3>1. <<b, s, c>> \in Logout!Keys
        BY LogoutKeyOf
      <3> QED BY <2>2, <3>1, LogoutDelivery
    <2> QED BY <2>1, <2>2, LogoutAsked, LogoutRevokes, LogoutEnqueues, LogoutAnswers DEF Logout!Steps
  <1>4. CASE \E b \in Batches, targets \in SUBSET Logout!Live \ {{}}, cancel \in BOOLEAN :
               Logout!EndSessionConfirm(b, targets, cancel)
    <2>1. SUBSET Logout!Live \subseteq SUBSET Devices
      BY DEF Logout!Live
    <2> QED BY <1>4, <2>1, LogoutConfirms
  <1>5. CASE \E k \in Logout!Keys : Logout!Worker(k) \/ Logout!Due(k)
    BY <1>5, LogoutClaims, LogoutRetries, LogoutFallsDue DEF Logout!Worker
  <1>6. CASE Logout!Crash
    BY <1>6, LogoutCrashes
  <1> QED BY <1>1, <1>2, <1>3, <1>4, <1>5, <1>6 DEF Logout!Next

(* What follows from the invariant.                                        *)
LEMMA LogoutResults ==
    ASSUME Logout!Inductive
    PROVE  Logout!TypeOK /\ Logout!RevokedIsQueued /\ Logout!SyncedIsTold
  <1>1. Logout!TypeOK
    <2>1. \A k \in Logout!Keys : /\ Logout!At(k).st \in {"none", "pending", "delivered", "failed"}
                                 /\ Logout!At(k).attempts <= MaxAttempts
      BY LogoutAt DEF Logout!Rows, Logout!Inductive, Logout!Deliveries
    <2>2. \A b \in Batches : x6[b].pc \in Logout!Pcs
      BY LogoutTyped DEF LogoutReq
    <2> QED BY <2>1, <2>2 DEF Logout!TypeOK, Logout!Pcs, Logout!Inductive, Logout!Deliveries
  <1>2. Logout!RevokedIsQueued
    BY DEF Logout!Inductive, Logout!Progress, Logout!RevokedIsQueued
  <1> QED BY <1>1, <1>2 DEF Logout!Inductive

----------------------------------------------------------------------------
(* The specification: a behaviour is of one component *)

(* What the component of the scene keeps.                                  *)
BackgroundInv ==
    /\ scene \in {"instances", "tasks", "training", "logout", "terminal"}
    /\ (scene = "instances" => Inst!Inductive) /\ (scene = "tasks" => Tasks!Inductive)
    /\ (scene = "training" => Train!Inductive) /\ (scene = "logout" => Logout!Inductive)
    /\ (scene = "terminal" => Shell!Inductive)

(* A step is of the component of the scene, or none.                       *)
LEMMA SceneSteps ==
    ASSUME [Next]_vars
    PROVE  /\ scene' = scene
           /\ scene = "instances" => Inst!Next \/ UNCHANGED vars
           /\ scene = "tasks" => Tasks!Next \/ UNCHANGED vars
           /\ scene = "training" => Train!Next \/ UNCHANGED vars
           /\ scene = "logout" => Logout!Next \/ UNCHANGED vars
           /\ scene = "terminal" => Shell!Next \/ UNCHANGED vars
  <1>1. CASE InInst(Inst!Next)
    BY <1>1 DEF InInst
  <1>2. CASE InTasks(Tasks!Next)
    BY <1>2 DEF InTasks
  <1>3. CASE InTrain(Train!Next)
    BY <1>3 DEF InTrain
  <1>4. CASE InLogout(Logout!Next)
    BY <1>4 DEF InLogout
  <1>5. CASE InShell(Shell!Next)
    BY <1>5 DEF InShell
  <1>6. CASE UNCHANGED vars
    BY <1>6 DEF vars
  <1> QED BY <1>1, <1>2, <1>3, <1>4, <1>5, <1>6 DEF Next

(* Nothing that is about the state changes without it.                     *)
LEMMA InstStutters == ASSUME Inst!Inductive, UNCHANGED vars PROVE Inst!Inductive'
  <1>1. UNCHANGED <<x1, x2, x3, x4, x5, x6, x7, x8, x9, x10, x11>>
    BY DEF vars
  <1>2. Inst!Types' /\ Inst!Roles'
    BY <1>1 DEF Inst!Inductive, Inst!Types, Inst!Roles
  <1>3. Inst!OneName' /\ Inst!CompletedIsGone'
    BY <1>1 DEF Inst!Inductive, Inst!OneName, Inst!CompletedIsGone
  <1>4. Inst!ContainersAccounted'
    BY <1>1 DEF Inst!Inductive, Inst!ContainersAccounted, Inst!Accounted
  <1>5. \A s : Inst!RunningOf(s)' = Inst!RunningOf(s) /\ Inst!LaunchesOf(s)' = Inst!LaunchesOf(s)
    BY <1>1 DEF Inst!RunningOf, Inst!Joined, Inst!LaunchesOf
  <1>6. Inst!LimitHolds'
    BY <1>1, <1>5 DEF Inst!Inductive, Inst!LimitHolds, Inst!MaxConcurrentInstances
  <1> QED BY <1>2, <1>3, <1>4, <1>6 DEF Inst!Inductive

LEMMA TaskStutters == ASSUME Tasks!Inductive, UNCHANGED vars PROVE Tasks!Inductive'
  <1>1. UNCHANGED <<x1, x2, x3, x4, x5, x6, x7, x8>>
    BY DEF vars
  <1>2. Tasks!Types' /\ Tasks!JobsKnown' /\ Tasks!SeededStays'
    BY <1>1 DEF Tasks!Inductive, Tasks!Types, Tasks!JobsKnown, Tasks!SeededStays
  <1>3. ASSUME NEW k \in Tasks!Watched PROVE Tasks!Single(k)' /\ Tasks!Counted(k)'
    <2>1. Tasks!Single(k) /\ Tasks!Counted(k)
      BY DEF Tasks!Inductive
    <2>2. Tasks!JobsOf(k)' = Tasks!JobsOf(k)
      BY <1>1 DEF Tasks!JobsOf
    <2>3. Tasks!Erred(k)' <=> Tasks!Erred(k)
      BY <1>1, <2>2 DEF Tasks!Erred
    <2> QED BY <1>1, <2>1, <2>2, <2>3 DEF Tasks!Single, Tasks!Counted
  <1>4. Tasks!Watched' = Tasks!Watched
    BY <1>1 DEF Tasks!Watched
  <1> QED BY <1>2, <1>3, <1>4 DEF Tasks!Inductive

LEMMA TrainStutters == ASSUME Train!Inductive, UNCHANGED vars PROVE Train!Inductive'
  <1>1. UNCHANGED <<x1, x2, x3, x4, x5, x6, x7, x8, x9>>
    BY DEF vars
  <1>2. Train!Types' /\ Train!Locked' /\ Train!SiteServed'
    BY <1>1 DEF Train!Inductive, Train!Types, Train!Locked, Train!At, Train!SiteServed
  <1>3. Train!Forward' /\ Train!Ages'
    BY <1>1 DEF Train!Inductive, Train!Forward, Train!Published, Train!Ages
  <1>4. ASSUME NEW j \in Dispatches PROVE Train!Progress(j)'
    BY <1>1 DEF Train!Inductive, Train!Progress
  <1>5. Train!Releases' = Train!Releases /\ Train!Added' = Train!Added
    BY <1>1 DEF Train!Releases, Train!Added
  <1>6. Train!Kept'
    BY <1>1, <1>5 DEF Train!Inductive, Train!Kept
  <1> QED BY <1>2, <1>3, <1>4, <1>6 DEF Train!Inductive

LEMMA LogoutStutters == ASSUME Logout!Inductive, UNCHANGED vars PROVE Logout!Inductive'
  <1>1. UNCHANGED <<x1, x2, x3, x4, x5, x6, x7, x8, x9, x10, x11>>
    BY DEF vars
  <1>2. Logout!Types' /\ Logout!ConfirmedOnce'
    BY <1>1 DEF Logout!Inductive, Logout!Types, Logout!ConfirmedOnce, Logout!At
  <1>3. Logout!Deliveries' /\ Logout!SyncedIsTold'
    BY <1>1 DEF Logout!Inductive, Logout!Deliveries, Logout!SyncedIsTold, Logout!At
  <1>4. ASSUME NEW b \in Batches PROVE Logout!Progress(b)'
    <2>1. Logout!Progress(b)
      BY DEF Logout!Inductive
    <2> QED BY <1>1, <2>1 DEF Logout!Progress, Logout!Supports
  <1> QED BY <1>2, <1>3, <1>4 DEF Logout!Inductive

LEMMA ShellStutters == ASSUME Shell!Inductive, UNCHANGED vars PROVE Shell!Inductive'
  <1>1. UNCHANGED <<x1, x2, x3, x4, x5>>
    BY DEF vars
  <1> QED BY <1>1 DEF Shell!Inductive, Shell!Types, Shell!TicketsSpent, Shell!ShellsOpened, Shell!Admitted

(* The two halves of the induction.                                        *)
LEMMA BackgroundStarts == Init => BackgroundInv
  BY InstInit, TaskInit, TrainInit, LogoutInit, ShellInit DEF Init, BackgroundInv

LEMMA BackgroundSteps == BackgroundInv /\ [Next]_vars => BackgroundInv'
  <1> SUFFICES ASSUME BackgroundInv, [Next]_vars PROVE BackgroundInv'
    OBVIOUS
  <1>1. scene = "instances" => Inst!Inductive'
    BY SceneSteps, InstNext, InstStutters DEF BackgroundInv
  <1>2. scene = "tasks" => Tasks!Inductive'
    BY SceneSteps, TaskNext, TaskStutters DEF BackgroundInv
  <1>3. scene = "training" => Train!Inductive'
    BY SceneSteps, TrainNext, TrainStutters DEF BackgroundInv
  <1>4. scene = "logout" => Logout!Inductive'
    BY SceneSteps, LogoutNext, LogoutStutters DEF BackgroundInv
  <1>5. scene = "terminal" => Shell!Inductive'
    BY SceneSteps, ShellNext, ShellStutters DEF BackgroundInv
  <1> QED BY <1>1, <1>2, <1>3, <1>4, <1>5, SceneSteps DEF BackgroundInv

(* Work in the background leaves nothing behind and says nothing false,    *)
(* for any number of subjects, requests, tasks, dispatches, revisions,     *)
(* devices, applications, logouts, tickets and sockets: launches that      *)
(* overlap overshoot the limit of instances by at most one each, every     *)
(* container is accounted for while nothing failed (launch_instance and    *)
(* its compensation) and a completed instance has none, but for those that *)
(* a deleted owner or challenge or a cleared port leaves behind; a         *)
(* task has one job and fails no more than max_attempts times beside       *)
(* crashes (claim, finish); the training site serves what it says and      *)
(* keeps no more than KEEP_RELEASES; a logout queued what it owes and      *)
(* reports only what was delivered; a ticket opens one shell.              *)
THEOREM BackgroundAlwaysHolds == Spec => []BackgroundHolds
  <1>1. BackgroundInv => BackgroundHolds
    <2>1. ASSUME BackgroundInv PROVE TypeOK
      BY <2>1, InstResults, TaskResults, TrainResults, LogoutResults, ShellResults DEF BackgroundInv, TypeOK
    <2> QED BY <2>1, InstResults, TaskResults, TrainResults, LogoutResults, ShellResults
            DEF BackgroundInv, BackgroundHolds
  <1> QED BY <1>1, BackgroundStarts, BackgroundSteps, PTL DEF Spec
=============================================================================

------------------------ MODULE AwdPreparationProofs ------------------------
(***************************************************************************)
(* Proofs about AwdPreparation, for any number of requests that overlap at *)
(* any statement, of teams, of configuration changes, docker failures and  *)
(* crashes.                                                                *)
(***************************************************************************)
EXTENDS AwdPreparation, TLAPS

(* What the settings have to be.                                           *)
PreparationConstants ==
    \A s \in Settings : s.teams \subseteq Teams /\ s.moves \in Nat

Statuses == {"Draft", "Configuring", "Deploying", "Deployed", "DeployFailed", "Prechecking",
             "Verified", "VerificationFailed", "StartBlocked", "Running", "Finished", "Archived"}
OnNetwork == {"track", "infra", "record", "teams", "boxes", "create", "ready", "access"}
PastLock == OnNetwork \cup {"dnet", "boxFailed", "mark"}
Removing == {"remove", "removeNet", "archive", "reconcile", "release"}
PCs == PastLock \cup Removing
       \cup {"idle", "realloc", "lock", "failed", "unlock", "checks", "verdict", "start"}
Frames == [pc : PCs, st : Teams \cup {"none"}, sub : Nat, ok : BOOLEAN, todo : SUBSET Teams]

\* Everything has its type; a request about a box knows whose it is.
RowTypes ==
    /\ conf \in Settings /\ status \in Statuses
    /\ cfg \in Nat /\ ver \in Nat /\ checked \in Nat
    /\ net \in [sub : Nat, locked : BOOLEAN] /\ dnet \in [sub : Nat, tracked : BOOLEAN]
    /\ infra \in [st : {"none", "up", "down"}, tracked : BOOLEAN]
    /\ teams \subseteq Teams /\ tnet \in [Teams -> Nat] /\ con \in [Teams -> Nat]
    /\ spent \in [moves : Nat, fails : Nat, crashes : Nat]
Types == RowTypes /\ thr \in [Threads -> Frames]
BoxKnown == \A t \in Threads : thr[t].pc \in {"create", "ready", "boxFailed"} => thr[t].st \in Teams

\* Generations and subnets are bounded by the changes that may be made; a request
\* goes on with a subnet the network row had.
Bounds ==
    /\ spent.moves <= conf.moves
    /\ 1 <= cfg /\ cfg <= spent.moves + 1 /\ ver <= cfg /\ checked <= cfg
    /\ 1 <= net.sub /\ net.sub <= conf.moves + 1 /\ dnet.sub <= conf.moves + 1
    /\ \A x \in Teams : tnet[x] <= conf.moves + 1 /\ con[x] \in {0, tnet[x]}
    /\ \A t \in Threads : thr[t].pc # "idle" => 1 <= thr[t].sub /\ thr[t].sub <= conf.moves + 1

\* Until the event is over: containers and forward rules are in the docker network,
\* and a deployment past it goes on with its subnet.  Unless a reallocation came late
\* or the forward rules were not looked at, a precheck works on the subnet of the
\* network row and what it passes is in it.
Trusted == late \cap {"realloc", "skipped"} = {}
NetworkOK ==
    status \notin {"Finished", "Archived"} =>
        /\ \A x \in Teams : con[x] \in {0, dnet.sub}
        /\ \A s \in fwd : s = dnet.sub /\ s # 0
        /\ \A t \in Threads : thr[t].pc \in OnNetwork => dnet.sub = thr[t].sub
        /\ Trusted =>
            /\ \A t \in Threads : thr[t].pc = "checks" => thr[t].sub = net.sub
            /\ \A t \in Threads : thr[t].pc = "verdict" /\ thr[t].ok => dnet.sub = net.sub
            /\ status \in {"Verified", "Running"} => dnet.sub = net.sub

\* Whoever deploys has locked the network, unless its lock was taken away after a
\* failure and the next deployment is about to take it again.
LockOK ==
    \/ late \cap {"unlock", "lock"} # {}
    \/ net.locked
    \/ \E t \in Threads : At(t, "lock")
    \/ status # "Deployed" /\ (status = "Deploying" => \A t \in Threads : thr[t].pc \notin PastLock)

\* No change since the checks: the verdict and the start are about what was checked.
CheckOK ==
    "config" \notin late =>
        /\ \A t \in Threads : thr[t].pc \in {"verdict", "start"} => checked = cfg
        /\ ver = cfg => checked = cfg

\* The archive removes containers, then the network, while nobody deploys and
\* docker fails to remove nothing; a network that is not on record stays.
NoContainer == infra.st = "none" /\ \A x \in Teams : con[x] = 0
NoNetwork == dnet.sub = 0 \/ ~dnet.tracked
Removed == late \cap {"deploy", "left"} = {}
ArchiveOK ==
    /\ \A t \in Threads : thr[t].pc \in Removing => status \in {"Finished", "Archived"}
    /\ "deploy" \in late \/ \A u \in Threads : ~Deploys(u)
       \/ (status # "Archived" /\ \A t \in Threads : thr[t].pc \notin Removing)
    /\ Removed =>
        /\ \A t \in Threads : thr[t].pc \in {"removeNet", "archive"} => NoContainer
        /\ \A t \in Threads : thr[t].pc = "archive" => NoNetwork
        /\ status = "Archived" => NoContainer /\ NoNetwork

\* What was met stays on record; only a request that was cut off is repeated.
Lasts == late \ {"cut"} \subseteq late'

Inv == Types /\ BoxKnown /\ Bounds /\ NetworkOK /\ LockOK /\ CheckOK /\ ArchiveOK

----------------------------------------------------------------------------
(* What the steps of a request do to its frame *)

\* The frame of t becomes x, the others stay.
Becomes(t, x) == x \in Frames /\ thr'[t] = x /\ thr' \in [Threads -> Frames]
                 /\ \A u \in Threads : u # t => thr'[u] = thr[u]

\* The frame of t goes to pc and is otherwise as before.
Goes(t, pc) == /\ thr' \in [Threads -> Frames] /\ \A u \in Threads : u # t => thr'[u] = thr[u]
               /\ thr'[t].pc = pc /\ thr'[t].ok = thr[t].ok /\ thr'[t].st = thr[t].st
               /\ thr'[t].sub = thr[t].sub

LEMMA StepGoes ==
  ASSUME Types, NEW t \in Threads, NEW pc \in PCs, Step(t, pc) PROVE Goes(t, pc)
  <1> DEFINE x == [thr[t] EXCEPT !.pc = pc]
  <1>1. thr[t] \in Frames BY DEF Types
  <1>2. x \in Frames /\ x.pc = pc /\ x.ok = thr[t].ok /\ x.st = thr[t].st /\ x.sub = thr[t].sub BY <1>1 DEF Frames
  <1>3. thr' = [thr EXCEPT ![t] = x] BY DEF Step
  <1> HIDE DEF x
  <1> QED BY <1>2, <1>3 DEF Types, Goes

LEMMA IdleFrame == Idle \in Frames /\ Idle.pc = "idle" BY DEF Idle, Frames, PCs

LEMMA DoneBecomes == ASSUME Types, NEW t \in Threads, Done(t) PROVE Becomes(t, Idle)
  BY IdleFrame DEF Types, Done, Becomes

LEMMA BeginGoes ==
  ASSUME Types, NEW t \in Threads, NEW pc \in PCs, Begin(t, pc)
  PROVE  /\ thr' \in [Threads -> Frames] /\ \A u \in Threads : u # t => thr'[u] = thr[u]
         /\ thr[t].pc = "idle" /\ thr'[t].pc = pc /\ thr'[t].sub = net.sub
  <1> DEFINE x == [Idle EXCEPT !.pc = pc, !.sub = net.sub]
  <1>1. x \in Frames /\ x.pc = pc /\ x.sub = net.sub BY DEF Idle, Frames, Types, RowTypes
  <1>2. thr' = [thr EXCEPT ![t] = x] /\ thr[t].pc = "idle" BY DEF Begin, At
  <1> HIDE DEF x
  <1> QED BY <1>1, <1>2 DEF Types

\* The other requests stay where they are, this one goes from pc to one of S, with
\* the subnet it has read or, when it begins, reads.
From(t, pc, S) ==
    /\ t \in Threads /\ thr[t].pc = pc /\ thr'[t].pc \in S
    /\ thr' \in [Threads -> Frames] /\ \A u \in Threads : u # t => thr'[u] = thr[u]
    /\ thr'[t].pc # "idle" => thr'[t].sub = IF pc = "idle" THEN net.sub ELSE thr[t].sub

LEMMA TransitionIs ==
  ASSUME NEW from, NEW to
  PROVE  /\ TransitionEvent(from, to) => status = from /\ status' = to
         /\ Refused(from, to) => status' = status
  BY DEF TransitionEvent, Refused

LEMMA CountIs ==
  ASSUME Types, NEW k \in {"moves", "fails", "crashes"}, Count(k)
  PROVE  /\ spent' \in [moves : Nat, fails : Nat, crashes : Nat]
         /\ spent[k] < conf[k] /\ spent'[k] = spent[k] + 1
         /\ \A j \in {"moves", "fails", "crashes"} : j # k => spent'[j] = spent[j]
  BY DEF Types, RowTypes, Count

\* The frames NextBox and Checks leave.
BoxFrame(t, x) == [thr[t] EXCEPT !.pc = "create", !.st = x, !.todo = @ \ {x}]
CheckFrame(t, ok) == [thr[t] EXCEPT !.pc = "verdict", !.ok = ok]

LEMMA BoxFrameIs ==
  ASSUME Types, NEW t \in Threads, NEW x \in thr[t].todo
  PROVE  BoxFrame(t, x) \in Frames /\ BoxFrame(t, x).pc = "create" /\ BoxFrame(t, x).st = x /\ x \in Teams
         /\ BoxFrame(t, x).sub = thr[t].sub
  <1>1. thr[t] \in Frames BY DEF Types
  <1>2. x \in Teams BY <1>1 DEF Frames
  <1> QED BY <1>1, <1>2 DEF BoxFrame, Frames, PCs, PastLock, OnNetwork

LEMMA CheckFrameIs ==
  ASSUME Types, NEW t \in Threads, NEW ok \in BOOLEAN
  PROVE  /\ CheckFrame(t, ok) \in Frames /\ CheckFrame(t, ok).pc = "verdict" /\ CheckFrame(t, ok).ok = ok
         /\ CheckFrame(t, ok).sub = thr[t].sub
  <1>1. thr[t] \in Frames BY DEF Types
  <1> QED BY <1>1 DEF CheckFrame, Frames, PCs

\* What a precheck leaves, the forward rules looked at or not.
LEMMA ChecksLeave ==
  ASSUME Types, NEW t \in Threads, Checks(t)
  PROVE  \E ok \in BOOLEAN :
            /\ thr' = [thr EXCEPT ![t] = CheckFrame(t, ok)]
            /\ ok => thr[t].sub \in fwd \/ "skipped" \in late'
  <1>1. ChecksPass \in BOOLEAN BY DEF ChecksPass
  <1>2. CASE thr' = [thr EXCEPT ![t] = CheckFrame(t, ChecksPass /\ thr[t].sub \in fwd)]
    <2> WITNESS (ChecksPass /\ thr[t].sub \in fwd) \in BOOLEAN
    <2> QED BY <1>2
  <1>3. CASE thr' = [thr EXCEPT ![t] = CheckFrame(t, ChecksPass)] /\ (ChecksPass => "skipped" \in late')
    BY <1>1, <1>3
  <1> QED BY <1>2, <1>3 DEF Checks, CheckFrame, Late

LEMMA FromStep ==
  ASSUME Types, NEW t \in Threads, NEW pc \in PCs, thr[t].pc # "idle", Step(t, pc)
  PROVE  From(t, thr[t].pc, {pc})
  BY StepGoes DEF Goes, From
LEMMA FromDone == ASSUME Types, NEW t \in Threads, Done(t) PROVE From(t, thr[t].pc, {"idle"})
  BY DoneBecomes, IdleFrame DEF Becomes, From
LEMMA FromBegin ==
  ASSUME Types, NEW t \in Threads, NEW pc \in PCs, Begin(t, pc) PROVE From(t, "idle", {pc})
  BY BeginGoes DEF From
LEMMA Widen == ASSUME NEW t, NEW pc, NEW S, NEW T, S \subseteq T, From(t, pc, S) PROVE From(t, pc, T)
  BY DEF From

(* From where to where each operation takes its request.                   *)
LEMMA Flow ==
  ASSUME Types, NEW t \in Threads
  PROVE  /\ ReallocateCommit(t) => From(t, "realloc", {"idle"})
         /\ Lock(t) => From(t, "lock", {"dnet"})
         /\ EnsureDockerNetwork(t) => From(t, "dnet", {"infra", "track", "failed"})
         /\ TrackNetwork(t) => From(t, "track", {"infra"})
         /\ EnsureInfraContainer(t) => From(t, "infra", {"teams", "failed", "record"})
         /\ RecordInfra(t) => From(t, "record", {"failed", "teams"})
         /\ EnsureTeamNetworks(t) => From(t, "teams", {"boxes"})
         /\ NextBox(t) => From(t, "boxes", {"boxes", "create", "access"})
         /\ CreateGamebox(t) => From(t, "create", {"ready", "boxFailed"})
         /\ RecordBox(t) => From(t, "ready", {"boxes"})
         /\ BoxFailed(t) => From(t, "boxFailed", {"failed"})
         /\ EnsureAccess(t) => From(t, "access", {"mark", "failed"})
         /\ MarkDeployed(t) => From(t, "mark", {"idle", "failed"})
         /\ MarkDeployFailed(t) => From(t, "failed", {"unlock", "idle"})
         /\ Unlock(t) => From(t, "unlock", {"idle"})
         /\ Checks(t) => From(t, "checks", {"verdict"})
         /\ Verdict(t) => From(t, "verdict", {"idle"})
         /\ StartCommit(t) => From(t, "start", {"idle"})
         /\ ArchiveContainers(t) => From(t, "remove", {"removeNet"})
         /\ ArchiveNetwork(t) => From(t, "removeNet", {"archive"})
         /\ MarkArchived(t) => From(t, "archive", {"reconcile", "idle"})
         /\ ArchiveReconcile(t) => From(t, "reconcile", {"release", "idle"})
         /\ ReleaseAllocations(t) => From(t, "release", {"idle"})
         /\ Reallocate(t) => From(t, "idle", {"realloc"})
         /\ DeployEvent(t) => From(t, "idle", {"lock"})
         /\ RunPrecheck(t) => From(t, "idle", {"checks"})
         /\ StartEvent(t) => From(t, "idle", {"start", "idle"})
         /\ ArchiveEvent(t) => From(t, "idle", {"release", "remove"})
  <1>1. ReallocateCommit(t) => From(t, "realloc", {"idle"})
    BY FromDone DEF ReallocateCommit, At, PCs, PastLock, OnNetwork, Removing
  <1>2. Lock(t) => From(t, "lock", {"dnet"})
    BY FromStep DEF Lock, At, PCs, PastLock, OnNetwork, Removing
  <1>3. EnsureDockerNetwork(t) => From(t, "dnet", {"infra", "track", "failed"})
    BY FromStep, Widen DEF EnsureDockerNetwork, At, PCs, PastLock, OnNetwork, Removing
  <1>4. TrackNetwork(t) => From(t, "track", {"infra"})
    BY FromStep DEF TrackNetwork, At, PCs, PastLock, OnNetwork, Removing
  <1>5. EnsureInfraContainer(t) => From(t, "infra", {"teams", "failed", "record"})
    BY FromStep, Widen DEF EnsureInfraContainer, At, PCs, PastLock, OnNetwork, Removing
  <1>6. RecordInfra(t) => From(t, "record", {"failed", "teams"})
    BY FromStep, Widen DEF RecordInfra, At, PCs, PastLock, OnNetwork, Removing
  <1>7. EnsureTeamNetworks(t) => From(t, "teams", {"boxes"})
    <2> SUFFICES ASSUME EnsureTeamNetworks(t) PROVE From(t, "teams", {"boxes"}) OBVIOUS
    <2> DEFINE x == [thr[t] EXCEPT !.pc = "boxes", !.todo = teams]
    <2>1. thr[t] \in Frames /\ thr[t].pc = "teams" BY DEF EnsureTeamNetworks, At, Types
    <2>2. x \in Frames /\ x.pc = "boxes" /\ x.sub = thr[t].sub BY <2>1 DEF Frames, PCs, PastLock, OnNetwork, Types, RowTypes
    <2>3. thr' = [thr EXCEPT ![t] = x] BY DEF EnsureTeamNetworks
    <2> HIDE DEF x
    <2> QED BY <2>1, <2>2, <2>3 DEF Types, From
  <1>8. NextBox(t) => From(t, "boxes", {"boxes", "create", "access"})
    <2> SUFFICES ASSUME NextBox(t) PROVE From(t, "boxes", {"boxes", "create", "access"}) OBVIOUS
    <2>1. thr[t] \in Frames /\ thr[t].pc = "boxes" BY DEF NextBox, At, Types
    <2>2. CASE Step(t, "access")
      <3>1. "access" \in PCs BY DEF PCs, PastLock, OnNetwork
      <3>2. From(t, "boxes", {"access"}) BY <2>1, <2>2, <3>1, FromStep
      <3> QED BY <3>2, Widen
    <2>3. CASE \E x \in thr[t].todo : thr' = [thr EXCEPT ![t].todo = @ \ {x}]
      <3>1. PICK x \in thr[t].todo : thr' = [thr EXCEPT ![t].todo = @ \ {x}] BY <2>3
      <3> DEFINE y == [thr[t] EXCEPT !.todo = @ \ {x}]
      <3>2. y \in Frames /\ y.pc = "boxes" /\ y.sub = thr[t].sub BY <2>1 DEF Frames
      <3>3. thr' = [thr EXCEPT ![t] = y] BY <3>1
      <3> HIDE DEF y
      <3> QED BY <2>1, <3>2, <3>3 DEF Types, From
    <2>4. CASE \E x \in thr[t].todo :
                 thr' = [thr EXCEPT ![t] = [thr[t] EXCEPT !.pc = "create", !.st = x, !.todo = @ \ {x}]]
      <3>1. PICK x \in thr[t].todo :
               thr' = [thr EXCEPT ![t] = [thr[t] EXCEPT !.pc = "create", !.st = x, !.todo = @ \ {x}]]
        BY <2>4
      <3>2. BoxFrame(t, x) \in Frames /\ BoxFrame(t, x).pc = "create" /\ BoxFrame(t, x).sub = thr[t].sub BY <2>1, BoxFrameIs
      <3>3. thr' = [thr EXCEPT ![t] = BoxFrame(t, x)] BY <3>1 DEF BoxFrame
      <3> QED BY <2>1, <3>2, <3>3 DEF Types, From
    <2> QED BY <2>2, <2>3, <2>4 DEF NextBox
  <1>9. CreateGamebox(t) => From(t, "create", {"ready", "boxFailed"})
    BY FromStep, Widen DEF CreateGamebox, At, PCs, PastLock, OnNetwork, Removing
  <1>10. RecordBox(t) => From(t, "ready", {"boxes"})
    BY FromStep DEF RecordBox, At, PCs, PastLock, OnNetwork, Removing
  <1>11. BoxFailed(t) => From(t, "boxFailed", {"failed"})
    BY FromStep DEF BoxFailed, At, PCs, PastLock, OnNetwork, Removing
  <1>12. EnsureAccess(t) => From(t, "access", {"mark", "failed"})
    BY FromStep, Widen DEF EnsureAccess, At, PCs, PastLock, OnNetwork, Removing
  <1>13. MarkDeployed(t) => From(t, "mark", {"idle", "failed"})
    BY FromStep, FromDone, Widen DEF MarkDeployed, At, PCs, PastLock, OnNetwork, Removing
  <1>14. MarkDeployFailed(t) => From(t, "failed", {"unlock", "idle"})
    BY FromStep, FromDone, Widen DEF MarkDeployFailed, At, PCs, PastLock, OnNetwork, Removing
  <1>15. Unlock(t) => From(t, "unlock", {"idle"})
    BY FromDone DEF Unlock, At, PCs, PastLock, OnNetwork, Removing
  <1>16. Checks(t) => From(t, "checks", {"verdict"})
    <2> SUFFICES ASSUME Checks(t) PROVE From(t, "checks", {"verdict"}) OBVIOUS
    <2>1. thr[t].pc = "checks" BY DEF Checks, At
    <2>2. PICK ok \in BOOLEAN : thr' = [thr EXCEPT ![t] = CheckFrame(t, ok)] BY ChecksLeave
    <2>3. CheckFrame(t, ok) \in Frames /\ CheckFrame(t, ok).pc = "verdict" /\ CheckFrame(t, ok).sub = thr[t].sub
      BY CheckFrameIs
    <2> QED BY <2>1, <2>2, <2>3 DEF Types, From
  <1>17. Verdict(t) => From(t, "verdict", {"idle"})
    BY FromDone DEF Verdict, At, PCs, PastLock, OnNetwork, Removing
  <1>18. StartCommit(t) => From(t, "start", {"idle"})
    BY FromDone DEF StartCommit, At, PCs, PastLock, OnNetwork, Removing
  <1>19. ArchiveContainers(t) => From(t, "remove", {"removeNet"})
    BY FromStep DEF ArchiveContainers, At, PCs, PastLock, OnNetwork, Removing
  <1>20. ArchiveNetwork(t) => From(t, "removeNet", {"archive"})
    BY FromStep DEF ArchiveNetwork, At, PCs, PastLock, OnNetwork, Removing
  <1>21. MarkArchived(t) => From(t, "archive", {"reconcile", "idle"})
    BY FromStep, FromDone, Widen DEF MarkArchived, At, PCs, PastLock, OnNetwork, Removing
  <1>28. ArchiveReconcile(t) => From(t, "reconcile", {"release", "idle"})
    <2> SUFFICES ASSUME ArchiveReconcile(t) PROVE From(t, "reconcile", {"release", "idle"}) OBVIOUS
    <2>1. thr[t].pc = "reconcile" /\ "release" \in PCs /\ (Step(t, "release") \/ Done(t))
      BY DEF ArchiveReconcile, At, PCs, Removing
    <2>2. From(t, "reconcile", {"release"}) \/ From(t, "reconcile", {"idle"}) BY <2>1, FromStep, FromDone
    <2> QED BY <2>2, Widen
  <1>22. ReleaseAllocations(t) => From(t, "release", {"idle"})
    BY FromDone DEF ReleaseAllocations, At, PCs, PastLock, OnNetwork, Removing
  <1>23. Reallocate(t) => From(t, "idle", {"realloc"})
    BY FromBegin DEF Reallocate, At, PCs, PastLock, OnNetwork, Removing
  <1>24. DeployEvent(t) => From(t, "idle", {"lock"})
    BY FromBegin DEF DeployEvent, At, PCs, PastLock, OnNetwork, Removing
  <1>25. RunPrecheck(t) => From(t, "idle", {"checks"})
    BY FromBegin DEF RunPrecheck, At, PCs, PastLock, OnNetwork, Removing
  <1>26. StartEvent(t) => From(t, "idle", {"start", "idle"})
    <2>1. ASSUME Begin(t, "start") PROVE From(t, "idle", {"start", "idle"})
      <3>1. From(t, "idle", {"start"}) BY <2>1, FromBegin DEF PCs
      <3> QED BY <3>1, Widen
    <2>2. ASSUME At(t, "idle"), thr' = thr PROVE From(t, "idle", {"start", "idle"})
      BY <2>2 DEF From, At, Types
    <2> QED BY <2>1, <2>2 DEF StartEvent
  <1>27. ArchiveEvent(t) => From(t, "idle", {"release", "remove"})
    BY FromBegin, Widen DEF ArchiveEvent, At, PCs, PastLock, OnNetwork, Removing
  <1> QED BY <1>1, <1>2, <1>3, <1>4, <1>5, <1>6, <1>7, <1>8, <1>9, <1>10, <1>11, <1>12, <1>13, <1>14, <1>15, <1>16, <1>17, <1>18, <1>19, <1>20, <1>21, <1>22, <1>23, <1>24, <1>25, <1>26, <1>27, <1>28

----------------------------------------------------------------------------
(* Types *)

LEMMA RowsTyped ==
  ASSUME PreparationConstants, Types, Next PROVE RowTypes'
  <1> USE DEF row, host, Lasts
  <1>1. CASE \E t \in Threads : ReallocateCommit(t)
    BY <1>1 DEF ReallocateCommit, Types, RowTypes, Statuses
  <1>2. CASE \E t \in Threads : Lock(t)
    BY <1>2 DEF Lock, Types, RowTypes, Statuses
  <1>3. CASE \E t \in Threads : EnsureDockerNetwork(t)
    <2>1. PICK t \in Threads : EnsureDockerNetwork(t) BY <1>3
    <2>2. spent' \in [moves : Nat, fails : Nat, crashes : Nat]
      BY <2>1, CountIs DEF EnsureDockerNetwork, Types, RowTypes
    <2>3. dnet' \in {dnet, [sub |-> thr[t].sub, tracked |-> FALSE], [dnet EXCEPT !.tracked = FALSE]}
      BY <2>1 DEF EnsureDockerNetwork
    <2>4. dnet' \in [sub : Nat, tracked : BOOLEAN]
      <3>1. dnet \in [sub : Nat, tracked : BOOLEAN] /\ thr[t].sub \in Nat BY <2>1 DEF Types, RowTypes, Frames
      <3>2. [dnet EXCEPT !.tracked = FALSE] \in [sub : Nat, tracked : BOOLEAN] BY <3>1
      <3>3. [sub |-> thr[t].sub, tracked |-> FALSE] \in [sub : Nat, tracked : BOOLEAN] BY <3>1
      <3> QED BY <2>3, <3>1, <3>2, <3>3
    <2> QED BY <2>1, <2>2, <2>4 DEF EnsureDockerNetwork, Types, RowTypes
  <1>4. CASE \E t \in Threads : TrackNetwork(t)
    BY <1>4 DEF TrackNetwork, Types, RowTypes, Statuses
  <1>5. CASE \E t \in Threads : EnsureInfraContainer(t)
    BY <1>5, CountIs DEF EnsureInfraContainer, Types, RowTypes, Statuses
  <1>6. CASE \E t \in Threads : RecordInfra(t)
    BY <1>6 DEF RecordInfra, Types, RowTypes, Statuses
  <1>7. CASE \E t \in Threads : EnsureTeamNetworks(t)
    BY <1>7 DEF EnsureTeamNetworks, Types, RowTypes, Statuses
  <1>8. CASE \E t \in Threads : NextBox(t)
    BY <1>8 DEF NextBox, Types, RowTypes, Statuses
  <1>9. CASE \E t \in Threads : CreateGamebox(t)
    BY <1>9, CountIs DEF CreateGamebox, Types, RowTypes, Statuses
  <1>10. CASE \E t \in Threads : RecordBox(t)
    BY <1>10 DEF RecordBox, Types, RowTypes, Statuses
  <1>11. CASE \E t \in Threads : BoxFailed(t)
    BY <1>11 DEF BoxFailed, Types, RowTypes, Statuses
  <1>12. CASE \E t \in Threads : EnsureAccess(t)
    BY <1>12, CountIs DEF EnsureAccess, Types, RowTypes, Statuses
  <1>13. CASE \E t \in Threads : MarkDeployed(t)
    BY <1>13, TransitionIs DEF MarkDeployed, Types, RowTypes, Statuses
  <1>14. CASE \E t \in Threads : MarkDeployFailed(t)
    BY <1>14, TransitionIs DEF MarkDeployFailed, Types, RowTypes, Statuses
  <1>15. CASE \E t \in Threads : Unlock(t)
    BY <1>15 DEF Unlock, Types, RowTypes, Statuses
  <1>16. CASE \E t \in Threads : Checks(t)
    BY <1>16, CountIs DEF Checks, Types, RowTypes, Statuses
  <1>17. CASE \E t \in Threads : Verdict(t)
    BY <1>17, TransitionIs DEF Verdict, Types, RowTypes, Statuses
  <1>18. CASE \E t \in Threads : StartCommit(t)
    BY <1>18, TransitionIs DEF StartCommit, Types, RowTypes, Statuses
  <1>19. CASE \E t \in Threads : ArchiveContainers(t)
    <2>1. PICK t \in Threads : ArchiveContainers(t) BY <1>19
    <2>2. spent' \in [moves : Nat, fails : Nat, crashes : Nat]
      BY <2>1, CountIs DEF ArchiveContainers, Types, RowTypes
    <2>3. con' \in [Teams -> Nat]
      <3>1. con \in [Teams -> Nat] BY DEF Types, RowTypes
      <3>2. CASE con' = [x \in Teams |-> 0] BY <3>2
      <3>3. ASSUME NEW left, con' = [x \in Teams |-> IF x \in left THEN con[x] ELSE 0] PROVE con' \in [Teams -> Nat]
        BY <3>1, <3>3
      <3> QED BY <2>1, <3>2, <3>3 DEF ArchiveContainers
    <2>4. infra' \in [st : {"none", "up", "down"}, tracked : BOOLEAN]
      <3>1. [infra EXCEPT !.st = "none"] \in [st : {"none", "up", "down"}, tracked : BOOLEAN]
            /\ infra \in [st : {"none", "up", "down"}, tracked : BOOLEAN]
        BY DEF Types, RowTypes
      <3> QED BY <2>1, <3>1 DEF ArchiveContainers
    <2> QED BY <2>1, <2>2, <2>3, <2>4 DEF ArchiveContainers, Types, RowTypes
  <1>20. CASE \E t \in Threads : ArchiveNetwork(t)
    <2>1. PICK t \in Threads : ArchiveNetwork(t) BY <1>20
    <2>2. spent' \in [moves : Nat, fails : Nat, crashes : Nat]
      BY <2>1, CountIs DEF ArchiveNetwork, Types, RowTypes
    <2>3. dnet' \in [sub : Nat, tracked : BOOLEAN]
      <3>1. [dnet EXCEPT !.sub = 0] \in [sub : Nat, tracked : BOOLEAN] /\ dnet \in [sub : Nat, tracked : BOOLEAN]
        BY DEF Types, RowTypes
      <3> QED BY <2>1, <3>1 DEF ArchiveNetwork
    <2> QED BY <2>1, <2>2, <2>3 DEF ArchiveNetwork, Types, RowTypes
  <1>21. CASE \E t \in Threads : MarkArchived(t)
    BY <1>21, TransitionIs DEF MarkArchived, Types, RowTypes, Statuses
  <1>22. CASE \E t \in Threads : ReleaseAllocations(t)
    BY <1>22 DEF ReleaseAllocations, Types, RowTypes, Statuses
  <1>34. CASE \E t \in Threads : ArchiveReconcile(t)
    BY <1>34, CountIs DEF ArchiveReconcile, Types, RowTypes, Statuses
  <1>23. CASE \E t \in Threads : Reallocate(t)
    BY <1>23, CountIs DEF Reallocate, Types, RowTypes, Statuses
  <1>24. CASE \E t \in Threads : DeployEvent(t)
    BY <1>24, TransitionIs DEF DeployEvent, Types, RowTypes, Statuses
  <1>25. CASE \E t \in Threads : RunPrecheck(t)
    BY <1>25, TransitionIs DEF RunPrecheck, Types, RowTypes, Statuses
  <1>26. CASE \E t \in Threads : StartEvent(t)
    BY <1>26, TransitionIs DEF StartEvent, Types, RowTypes, Statuses
  <1>27. CASE \E t \in Threads : ArchiveEvent(t)
    BY <1>27 DEF ArchiveEvent, Types, RowTypes, Statuses
  <1>28. CASE UpdateEventConfig
    BY <1>28, CountIs DEF UpdateEventConfig, Types, RowTypes, Statuses
  <1>29. CASE TouchConfiguration
    BY <1>29, CountIs DEF TouchConfiguration, Types, RowTypes, Statuses
  <1>30. CASE Finish
    BY <1>30, TransitionIs DEF Finish, Types, RowTypes, Statuses
  <1>31. CASE Crash
    BY <1>31, CountIs DEF Crash, Types, RowTypes, Statuses
  <1>32. CASE \E x \in Teams : TeamJoins(x)
    BY <1>32, CountIs DEF TeamJoins, Types, RowTypes, Statuses
  <1>33. CASE \E x \in Teams : ContainerDies(x)
    BY <1>33, CountIs DEF ContainerDies, Types, RowTypes, Statuses
  <1> QED BY <1>1, <1>2, <1>3, <1>4, <1>5, <1>6, <1>7, <1>8, <1>9, <1>10, <1>11, <1>12, <1>13, <1>14, <1>15, <1>16, <1>17, <1>18, <1>19, <1>20, <1>21, <1>22, <1>23, <1>24, <1>25, <1>26, <1>27, <1>28, <1>29, <1>30, <1>31, <1>32, <1>33, <1>34 DEF Next, Continue

LEMMA FramesTyped ==
  ASSUME PreparationConstants, Types, BoxKnown, Next PROVE thr' \in [Threads -> Frames] /\ BoxKnown'
  <1>1. ASSUME NEW t \in Threads,
               \/ ReallocateCommit(t) \/ Lock(t) \/ EnsureDockerNetwork(t) \/ TrackNetwork(t) \/ EnsureInfraContainer(t)
               \/ RecordInfra(t) \/ EnsureTeamNetworks(t) \/ RecordBox(t) \/ BoxFailed(t) \/ EnsureAccess(t)
               \/ MarkDeployed(t) \/ MarkDeployFailed(t) \/ Unlock(t) \/ Checks(t) \/ Verdict(t)
               \/ StartCommit(t) \/ ArchiveContainers(t) \/ ArchiveNetwork(t) \/ MarkArchived(t) \/ ArchiveReconcile(t) \/ ReleaseAllocations(t)
               \/ Reallocate(t) \/ DeployEvent(t) \/ RunPrecheck(t) \/ StartEvent(t) \/ ArchiveEvent(t)
        PROVE  thr' \in [Threads -> Frames] /\ BoxKnown'
    <2>1. /\ thr' \in [Threads -> Frames] /\ thr'[t].pc \notin {"create", "ready", "boxFailed"}
          /\ \A u \in Threads : u # t => thr'[u] = thr[u]
      BY <1>1, Flow DEF From
    <2> QED BY <2>1 DEF BoxKnown
  <1>2. ASSUME NEW t \in Threads, NextBox(t) PROVE thr' \in [Threads -> Frames] /\ BoxKnown'
    <2>1. From(t, "boxes", {"boxes", "create", "access"}) BY <1>2, Flow
    <2>2. thr'[t].pc = "create" => thr'[t].st \in Teams
      <3> SUFFICES ASSUME thr'[t].pc = "create" PROVE thr'[t].st \in Teams OBVIOUS
      <3>1. PICK x \in thr[t].todo : thr' = [thr EXCEPT ![t] = BoxFrame(t, x)]
        <4>1. ~Step(t, "access") BY StepGoes DEF Goes, PCs, PastLock, OnNetwork
        <4>2. ASSUME NEW x \in thr[t].todo, thr' = [thr EXCEPT ![t].todo = @ \ {x}] PROVE FALSE
          <5>1. thr[t] \in Frames /\ thr[t].pc = "boxes" BY <2>1 DEF From, Types
          <5>2. [thr[t] EXCEPT !.todo = @ \ {x}].pc = "boxes" BY <5>1 DEF Frames
          <5> QED BY <4>2, <5>2 DEF Types
        <4> QED BY <1>2, <4>1, <4>2 DEF NextBox, BoxFrame
      <3> QED BY <3>1, BoxFrameIs DEF Types
    <2> QED BY <2>1, <2>2 DEF From, BoxKnown
  <1>3. ASSUME NEW t \in Threads, CreateGamebox(t) PROVE thr' \in [Threads -> Frames] /\ BoxKnown'
    <2>1. Goes(t, "ready") \/ Goes(t, "boxFailed")
      BY <1>3, StepGoes DEF CreateGamebox, PCs, PastLock, OnNetwork
    <2>2. thr[t].st \in Teams BY <1>3 DEF CreateGamebox, At, BoxKnown
    <2> QED BY <2>1, <2>2 DEF Goes, BoxKnown
  <1>4. CASE Crash BY <1>4, IdleFrame DEF Crash, BoxKnown
  <1>5. CASE UpdateEventConfig \/ TouchConfiguration \/ Finish \/ \E x \in Teams : TeamJoins(x) \/ ContainerDies(x)
    BY <1>5 DEF UpdateEventConfig, TouchConfiguration, Finish, TeamJoins, ContainerDies, BoxKnown, Types
  <1> QED BY <1>1, <1>2, <1>3, <1>4, <1>5 DEF Next, Continue

----------------------------------------------------------------------------
(* Bounds *)

Fits(n) == n <= conf.moves + 1

LEMMA BoundsKept ==
  ASSUME PreparationConstants, Types, Types', Bounds, conf' = conf,
         spent'.moves = spent.moves \/ Count("moves"),
         cfg' = cfg, ver' <= cfg, checked' <= cfg, 1 <= net'.sub, Fits(net'.sub), Fits(dnet'.sub),
         \A x \in Teams : Fits(tnet'[x]) /\ con'[x] \in {0, tnet'[x]},
         \A u \in Threads : thr'[u].pc # "idle" => 1 <= thr'[u].sub /\ Fits(thr'[u].sub)
  PROVE  Bounds'
  <1>1. conf.moves \in Nat BY DEF PreparationConstants, Types, RowTypes
  <1>2. spent.moves \in Nat /\ spent'.moves \in Nat /\ spent.moves <= spent'.moves /\ spent'.moves <= conf.moves
    BY <1>1, CountIs DEF Bounds, Types, RowTypes
  <1>3. cfg \in Nat BY DEF Types, RowTypes
  <1>4. 1 <= cfg' /\ cfg' <= spent'.moves + 1 BY <1>2, <1>3 DEF Bounds
  <1> QED BY <1>2, <1>4 DEF Bounds, Fits

\* A request goes on with the subnet it has read.
LEMMA SubnetsRead ==
  ASSUME Bounds, NEW t, NEW pc, NEW S, From(t, pc, S), t \in Threads
  PROVE  \A u \in Threads : thr'[u].pc # "idle" => 1 <= thr'[u].sub /\ Fits(thr'[u].sub)
  BY DEF Bounds, From, Fits

\* What the operations write stays within the bounds.
LEMMA RequestBounds ==
  ASSUME PreparationConstants, Types, Types', Bounds, BoxKnown, NEW t \in Threads,
         \/ Lock(t) \/ EnsureDockerNetwork(t) \/ TrackNetwork(t) \/ EnsureInfraContainer(t) \/ RecordInfra(t)
         \/ EnsureTeamNetworks(t) \/ NextBox(t) \/ CreateGamebox(t) \/ RecordBox(t) \/ BoxFailed(t)
         \/ EnsureAccess(t) \/ MarkDeployed(t) \/ MarkDeployFailed(t) \/ Unlock(t) \/ Checks(t)
         \/ Verdict(t) \/ StartCommit(t) \/ ArchiveContainers(t) \/ ArchiveNetwork(t) \/ MarkArchived(t)
         \/ ArchiveReconcile(t) \/ ReleaseAllocations(t) \/ DeployEvent(t) \/ RunPrecheck(t)
         \/ StartEvent(t) \/ ArchiveEvent(t) \/ Reallocate(t)
  PROVE  Bounds'
  <1>1. \A u \in Threads : thr'[u].pc # "idle" => 1 <= thr'[u].sub /\ Fits(thr'[u].sub)
    BY Flow, SubnetsRead
  <1>2. /\ cfg \in Nat /\ ver \in Nat /\ checked \in Nat /\ net.sub \in Nat /\ dnet.sub \in Nat
        /\ ver <= cfg /\ checked <= cfg /\ 1 <= net.sub /\ Fits(net.sub) /\ Fits(dnet.sub) /\ Fits(0)
        /\ \A x \in Teams : Fits(tnet[x]) /\ con[x] \in {0, tnet[x]}
    BY DEF PreparationConstants, Types, RowTypes, Bounds, Fits
  <1> USE DEF row, host
  <1> DEFINE Kept == /\ UNCHANGED <<conf, cfg, tnet, con>> /\ ver' <= cfg /\ checked' <= cfg
                     /\ spent'.moves = spent.moves \/ Count("moves")
                     /\ net'.sub = net.sub /\ dnet'.sub = dnet.sub
  <1>3. Lock(t) => Kept BY <1>2, CountIs DEF Lock, Types, RowTypes
  <1>4. TrackNetwork(t) => Kept BY <1>2, CountIs DEF TrackNetwork, Types, RowTypes
  <1>5. EnsureInfraContainer(t) => Kept BY <1>2, CountIs DEF EnsureInfraContainer, Types, RowTypes
  <1>6. RecordInfra(t) => Kept BY <1>2, CountIs DEF RecordInfra, Types, RowTypes
  <1>7. NextBox(t) => Kept BY <1>2, CountIs DEF NextBox, Types, RowTypes
  <1>8. RecordBox(t) => Kept BY <1>2, CountIs DEF RecordBox, Types, RowTypes
  <1>9. BoxFailed(t) => Kept BY <1>2, CountIs DEF BoxFailed, Types, RowTypes
  <1>10. EnsureAccess(t) => Kept BY <1>2, CountIs DEF EnsureAccess, Types, RowTypes
  <1>11. MarkDeployed(t) => Kept BY <1>2, CountIs DEF MarkDeployed, Types, RowTypes
  <1>12. MarkDeployFailed(t) => Kept BY <1>2, CountIs DEF MarkDeployFailed, Types, RowTypes
  <1>13. Unlock(t) => Kept BY <1>2, CountIs DEF Unlock, Types, RowTypes
  <1>14. Checks(t) => Kept BY <1>2, CountIs DEF Checks, Types, RowTypes
  <1>15. Verdict(t) => Kept BY <1>2, CountIs DEF Verdict, Types, RowTypes
  <1>16. StartCommit(t) => Kept BY <1>2, CountIs DEF StartCommit, Types, RowTypes
  <1>17. MarkArchived(t) => Kept BY <1>2, CountIs DEF MarkArchived, Types, RowTypes
  <1>18. ArchiveReconcile(t) => Kept BY <1>2, CountIs DEF ArchiveReconcile, Types, RowTypes
  <1>19. ReleaseAllocations(t) => Kept BY <1>2, CountIs DEF ReleaseAllocations, Types, RowTypes
  <1>20. DeployEvent(t) => Kept BY <1>2, CountIs DEF DeployEvent, Types, RowTypes
  <1>21. RunPrecheck(t) => Kept BY <1>2, CountIs DEF RunPrecheck, Types, RowTypes
  <1>22. StartEvent(t) => Kept BY <1>2, CountIs DEF StartEvent, Types, RowTypes
  <1>23. ArchiveEvent(t) => Kept BY <1>2, CountIs DEF ArchiveEvent, Types, RowTypes
  <1>24. Reallocate(t) => Kept BY <1>2, CountIs DEF Reallocate, Types, RowTypes
  <1>25. CASE Kept BY <1>1, <1>2, <1>25, BoundsKept
  <1>26. CASE EnsureDockerNetwork(t)
    <2>1. UNCHANGED <<conf, cfg, ver, checked, net>> /\ spent'.moves = spent.moves
      BY <1>26, CountIs DEF EnsureDockerNetwork
    <2>2. Fits(dnet'.sub) 
      <3>1. Fits(thr[t].sub) BY <1>26 DEF EnsureDockerNetwork, At, Bounds, Fits
      <3> QED BY <1>2, <3>1, <1>26 DEF EnsureDockerNetwork, Types, RowTypes
    <2>3. \A x \in Teams : Fits(tnet'[x]) /\ con'[x] \in {0, tnet'[x]}
      BY <1>2, <1>26 DEF EnsureDockerNetwork
    <2> QED BY <1>1, <1>2, <2>1, <2>2, <2>3, BoundsKept
  <1>27. CASE EnsureTeamNetworks(t)
    <2>1. UNCHANGED <<conf, cfg, ver, checked, net>> /\ spent'.moves = spent.moves
      BY <1>27, CountIs DEF EnsureTeamNetworks
    <2>2. Fits(dnet'.sub) BY <1>2, <1>27 DEF EnsureTeamNetworks
    <2>3. \A x \in Teams : Fits(tnet'[x]) /\ con'[x] \in {0, tnet'[x]}
      BY <1>2, <1>27 DEF EnsureTeamNetworks, Types, RowTypes
    <2> QED BY <1>1, <1>2, <2>1, <2>2, <2>3, BoundsKept
  <1>28. CASE CreateGamebox(t)
    <2>1. UNCHANGED <<conf, cfg, ver, checked, net>> /\ spent'.moves = spent.moves
      BY <1>28, CountIs DEF CreateGamebox
    <2>2. Fits(dnet'.sub) BY <1>2, <1>28 DEF CreateGamebox
    <2>3. \A x \in Teams : Fits(tnet'[x]) /\ con'[x] \in {0, tnet'[x]}
      BY <1>2, <1>28 DEF CreateGamebox, Types, RowTypes, BoxKnown, At
    <2> QED BY <1>1, <1>2, <2>1, <2>2, <2>3, BoundsKept
  <1>29. CASE ArchiveContainers(t)
    <2>1. UNCHANGED <<conf, cfg, ver, checked, net>> /\ spent'.moves = spent.moves
      BY <1>29, CountIs DEF ArchiveContainers
    <2>2. Fits(dnet'.sub) BY <1>2, <1>29 DEF ArchiveContainers
    <2>3. \A x \in Teams : Fits(tnet'[x]) /\ con'[x] \in {0, tnet'[x]}
      <3>1. tnet' = tnet /\ \A x \in Teams : con'[x] \in {0, con[x]} BY <1>29 DEF ArchiveContainers
      <3> QED BY <1>2, <3>1
    <2> QED BY <1>1, <1>2, <2>1, <2>2, <2>3, BoundsKept
  <1>30. CASE ArchiveNetwork(t)
    <2>1. UNCHANGED <<conf, cfg, ver, checked, net>> /\ spent'.moves = spent.moves
      BY <1>30, CountIs DEF ArchiveNetwork
    <2>2. Fits(dnet'.sub) BY <1>2, <1>30 DEF ArchiveNetwork, Types, RowTypes
    <2>3. \A x \in Teams : Fits(tnet'[x]) /\ con'[x] \in {0, tnet'[x]}
      BY <1>2, <1>30 DEF ArchiveNetwork
    <2> QED BY <1>1, <1>2, <2>1, <2>2, <2>3, BoundsKept
  <1> QED BY <1>3, <1>4, <1>5, <1>6, <1>7, <1>8, <1>9, <1>10, <1>11, <1>12, <1>13, <1>14, <1>15, <1>16, <1>17, <1>18, <1>19, <1>20, <1>21, <1>22, <1>23, <1>24, <1>25, <1>26, <1>27, <1>28, <1>29, <1>30

LEMMA BoundsStep ==
  ASSUME PreparationConstants, Types, Types', Bounds, BoxKnown, Next PROVE Bounds'
  <1> USE DEF row, host
  <1>1. /\ cfg \in Nat /\ ver \in Nat /\ checked \in Nat /\ net.sub \in Nat /\ dnet.sub \in Nat
        /\ conf.moves \in Nat /\ spent.moves \in Nat /\ spent'.moves \in Nat
    BY DEF PreparationConstants, Types, RowTypes
  <1>2. /\ ver <= cfg /\ checked <= cfg /\ 1 <= net.sub /\ Fits(net.sub) /\ Fits(dnet.sub)
        /\ \A x \in Teams : Fits(tnet[x]) /\ con[x] \in {0, tnet[x]}
        /\ \A u \in Threads : thr[u].pc # "idle" => 1 <= thr[u].sub /\ Fits(thr[u].sub)
    BY DEF Bounds, Fits
  <1>3. ASSUME NEW t \in Threads, ReallocateCommit(t) PROVE Bounds'
    <2>1. From(t, "realloc", {"idle"}) BY <1>3, Flow
    <2>2. UNCHANGED <<conf, cfg, ver, checked, dnet, tnet, con, spent>> BY <1>3 DEF ReallocateCommit
    <2>3. 1 <= net'.sub /\ Fits(net'.sub) BY <1>1, <1>3 DEF ReallocateCommit, Types, RowTypes, Fits
    <2> QED BY <1>2, <2>1, <2>2, <2>3, SubnetsRead, BoundsKept
  <1>4. CASE UpdateEventConfig \/ TouchConfiguration
    <2>1. UNCHANGED <<conf, checked, net, dnet, tnet, con, thr>> /\ cfg' = cfg + 1 /\ ver' \in {0, ver}
      BY <1>4 DEF UpdateEventConfig, TouchConfiguration
    <2>2. spent'.moves = spent.moves + 1 /\ spent.moves < conf.moves
      BY <1>4, CountIs DEF UpdateEventConfig, TouchConfiguration
    <2> QED BY <1>1, <2>1, <2>2 DEF Bounds
  <1>5. CASE Finish \/ Crash \/ \E x \in Teams : TeamJoins(x) \/ ContainerDies(x)
    <2>1. /\ UNCHANGED <<conf, cfg, ver, checked, net, dnet, tnet, con>>
          /\ spent'.moves = spent.moves \/ Count("moves")
      BY <1>5, CountIs DEF Finish, Crash, TeamJoins, ContainerDies
    <2>2. thr' = thr \/ \A u \in Threads : thr'[u] = Idle BY <1>5 DEF Finish, Crash, TeamJoins, ContainerDies
    <2>3. \A u \in Threads : thr'[u].pc # "idle" => 1 <= thr'[u].sub /\ Fits(thr'[u].sub)
      BY <1>2, <2>2, IdleFrame
    <2> QED BY <1>2, <2>1, <2>3, BoundsKept
  <1> QED BY <1>3, <1>4, <1>5, RequestBounds DEF Next, Continue

----------------------------------------------------------------------------
(* The network an event is in *)

Over == status \in {"Finished", "Archived"}

\* A step that leaves the host's networks alone.
LEMMA NetworkKept ==
  ASSUME NetworkOK, UNCHANGED <<con, fwd>>, net'.sub = net.sub, dnet'.sub = dnet.sub, Lasts,
         Over => Over', status' \in {"Verified", "Running"} => status \in {"Verified", "Running"},
         \A t \in Threads : thr'[t].pc \in OnNetwork => thr[t].pc \in OnNetwork /\ thr'[t].sub = thr[t].sub,
         \A t \in Threads : thr'[t].pc = "checks" => thr'[t].sub = net.sub \/ thr'[t] = thr[t],
         \A t \in Threads : thr'[t].pc = "verdict" /\ thr'[t].ok => thr[t].pc = "verdict" /\ thr[t].ok
  PROVE  NetworkOK'
  <1> SUFFICES ASSUME ~Over' PROVE NetworkOK' BY DEF NetworkOK, Over
  <1>1. ~Over OBVIOUS
  <1>2. Trusted' => Trusted BY DEF Lasts, Trusted
  <1>3. \A x \in Teams : con'[x] \in {0, dnet'.sub} BY <1>1 DEF NetworkOK, Over
  <1>4. \A n \in fwd' : n = dnet'.sub /\ n # 0 BY <1>1 DEF NetworkOK, Over
  <1>5. \A t \in Threads : thr'[t].pc \in OnNetwork => dnet'.sub = thr'[t].sub BY <1>1 DEF NetworkOK, Over
  <1>6. ASSUME Trusted'
        PROVE  /\ \A t \in Threads : thr'[t].pc = "checks" => thr'[t].sub = net'.sub
               /\ \A t \in Threads : thr'[t].pc = "verdict" /\ thr'[t].ok => dnet'.sub = net'.sub
               /\ status' \in {"Verified", "Running"} => dnet'.sub = net'.sub
    BY <1>1, <1>2, <1>6 DEF NetworkOK, Over
  <1> QED BY <1>3, <1>4, <1>5, <1>6 DEF NetworkOK

\* Operations that leave containers, subnets and forward rules alone.
LEMMA QuietNetwork ==
  ASSUME Types, NetworkOK, NEW t \in Threads,
         \/ Lock(t) \/ TrackNetwork(t) \/ EnsureInfraContainer(t) \/ RecordInfra(t) \/ EnsureTeamNetworks(t)
         \/ NextBox(t) \/ RecordBox(t) \/ BoxFailed(t) \/ MarkDeployed(t) \/ MarkDeployFailed(t)
         \/ Unlock(t) \/ StartCommit(t) \/ MarkArchived(t) \/ ArchiveReconcile(t) \/ ReleaseAllocations(t)
         \/ Reallocate(t) \/ DeployEvent(t) \/ RunPrecheck(t) \/ StartEvent(t) \/ ArchiveEvent(t)
  PROVE  NetworkOK'
  <1> USE DEF row, host, Lasts
  <1>1. /\ thr'[t].pc \in OnNetwork => thr[t].pc \in OnNetwork /\ thr'[t].sub = thr[t].sub
        /\ thr'[t].pc = "checks" => thr'[t].sub = net.sub
        /\ thr'[t].pc # "verdict" /\ \A u \in Threads : u # t => thr'[u] = thr[u]
    BY Flow DEF From, OnNetwork
  <1> DEFINE Kept == /\ UNCHANGED <<con, fwd>> /\ net'.sub = net.sub /\ dnet'.sub = dnet.sub /\ Lasts
                     /\ Over => Over'
                     /\ status' \in {"Verified", "Running"} => status \in {"Verified", "Running"}
  <1>2. Lock(t) => Kept BY TransitionIs DEF Lock, Over, Types, RowTypes
  <1>3. TrackNetwork(t) => Kept BY TransitionIs DEF TrackNetwork, Over, Types, RowTypes
  <1>4. EnsureInfraContainer(t) => Kept BY TransitionIs DEF EnsureInfraContainer, Over, Types, RowTypes
  <1>5. RecordInfra(t) => Kept BY TransitionIs DEF RecordInfra, Over, Types, RowTypes
  <1>6. EnsureTeamNetworks(t) => Kept BY TransitionIs DEF EnsureTeamNetworks, Over, Types, RowTypes
  <1>7. NextBox(t) => Kept BY TransitionIs DEF NextBox, Over, Types, RowTypes
  <1>8. RecordBox(t) => Kept BY TransitionIs DEF RecordBox, Over, Types, RowTypes
  <1>9. BoxFailed(t) => Kept BY TransitionIs DEF BoxFailed, Over, Types, RowTypes
  <1>10. MarkDeployed(t) => Kept BY TransitionIs DEF MarkDeployed, Over, Types, RowTypes
  <1>11. MarkDeployFailed(t) => Kept BY TransitionIs DEF MarkDeployFailed, Over, Types, RowTypes
  <1>12. Unlock(t) => Kept BY TransitionIs DEF Unlock, Over, Types, RowTypes, Late
  <1>13. StartCommit(t) => Kept BY TransitionIs DEF StartCommit, Over, Types, RowTypes
  <1>14. MarkArchived(t) => Kept BY TransitionIs DEF MarkArchived, Over, Types, RowTypes
  <1>15. ArchiveReconcile(t) => Kept BY TransitionIs DEF ArchiveReconcile, Over, Types, RowTypes, Late
  <1>16. ReleaseAllocations(t) => Kept BY TransitionIs DEF ReleaseAllocations, Over, Types, RowTypes
  <1>17. Reallocate(t) => Kept BY TransitionIs DEF Reallocate, Over, Types, RowTypes
  <1>18. DeployEvent(t) => Kept BY TransitionIs DEF DeployEvent, Over, Types, RowTypes
  <1>19. RunPrecheck(t) => Kept BY TransitionIs DEF RunPrecheck, Over, Types, RowTypes, IsConfigurable
  <1>20. StartEvent(t) => Kept BY TransitionIs DEF StartEvent, Over, Types, RowTypes
  <1>21. ArchiveEvent(t) => Kept BY TransitionIs DEF ArchiveEvent, Over, Types, RowTypes
  <1>22. Kept BY <1>2, <1>3, <1>4, <1>5, <1>6, <1>7, <1>8, <1>9, <1>10, <1>11, <1>12, <1>13, <1>14, <1>15, <1>16, <1>17, <1>18, <1>19, <1>20, <1>21
  <1> QED BY <1>1, <1>22, NetworkKept

LEMMA NetworkStep ==
  ASSUME Types, Types', BoxKnown, Bounds, NetworkOK, ArchiveOK, Next PROVE NetworkOK'
  <1> USE DEF row, host, Lasts
  <1> SUFFICES ASSUME ~Over' PROVE NetworkOK' BY DEF NetworkOK, Over
  <1>1. /\ net.sub \in Nat /\ dnet.sub \in Nat /\ \A x \in Teams : con[x] \in Nat
        /\ \A u \in Threads : thr[u].pc # "idle" => thr[u].sub \in Nat /\ thr[u].sub # 0
    BY DEF Types, RowTypes, Frames, Bounds
  <1>2. ASSUME NEW t \in Threads, ReallocateCommit(t) PROVE NetworkOK'
    <2>1. From(t, "realloc", {"idle"}) BY <1>2, Flow
    <2>2. UNCHANGED <<status, dnet, con, fwd>> /\ Lasts BY <1>2 DEF ReallocateCommit, Late
    <2>3. ~Over BY <2>2 DEF Over
    <2>4. \A u \in Threads : thr'[u].pc # "idle" => thr'[u] = thr[u] BY <2>1 DEF From
    <2>5. \/ ~Trusted'
          \/ /\ status \in {"Draft", "Configuring"}
             /\ \A u \in Threads : thr[u].pc \notin {"checks", "verdict"}
      BY <1>2 DEF ReallocateCommit, Late, Trusted
    <2>6. "idle" \notin OnNetwork BY DEF OnNetwork
    <2> QED BY <2>2, <2>3, <2>4, <2>5, <2>6 DEF NetworkOK, Over
  <1>3. ASSUME NEW t \in Threads, EnsureDockerNetwork(t) PROVE NetworkOK'
    <2>1. From(t, "dnet", {"infra", "track", "failed"}) BY <1>3, Flow
    <2>2. UNCHANGED <<status, net, con, fwd, late>> BY <1>3 DEF EnsureDockerNetwork
    <2>3. \/ dnet'.sub = dnet.sub /\ (thr'[t].pc \in OnNetwork => dnet.sub = thr[t].sub)
          \/ dnet.sub = 0 /\ dnet'.sub = thr[t].sub
      <3>1. "infra" \in PCs /\ "track" \in PCs /\ "failed" \in PCs BY DEF PCs, PastLock, OnNetwork
      <3>2. CASE dnet.tracked /\ dnet.sub = thr[t].sub /\ UNCHANGED dnet BY <3>2
      <3>3. CASE dnet.sub = 0 /\ dnet' = [sub |-> thr[t].sub, tracked |-> FALSE] BY <3>3
      <3>4. CASE Step(t, "failed") /\ dnet' \in {dnet, [dnet EXCEPT !.tracked = FALSE]}
        <4>1. thr'[t].pc = "failed" BY <3>1, <3>4, StepGoes DEF Goes
        <4>2. dnet'.sub = dnet.sub BY <3>4 DEF Types, RowTypes
        <4> QED BY <4>1, <4>2 DEF OnNetwork
      <3> QED BY <1>3, <3>2, <3>3, <3>4 DEF EnsureDockerNetwork
    <2>4. /\ thr'[t].pc \notin {"verdict", "checks"} /\ \A u \in Threads : u # t => thr'[u] = thr[u]
          /\ thr[t].pc = "dnet" /\ thr'[t].sub = thr[t].sub
      BY <2>1 DEF From
    <2>5. ~Over BY <2>2 DEF Over
    <2>6. CASE dnet'.sub = dnet.sub /\ (thr'[t].pc \in OnNetwork => dnet.sub = thr[t].sub)
      BY <2>2, <2>4, <2>5, <2>6 DEF NetworkOK, Over, Trusted
    <2>7. CASE dnet.sub = 0 /\ dnet'.sub = thr[t].sub
      <3>1. fwd = {} /\ \A x \in Teams : con[x] = 0 BY <2>5, <2>7 DEF NetworkOK, Over
      <3>2. \A u \in Threads : thr[u].pc \notin OnNetwork
        <4>1. "idle" \notin OnNetwork BY DEF OnNetwork
        <4> QED BY <1>1, <2>5, <2>7, <4>1 DEF NetworkOK, Over
      <3>3. Trusted => /\ \A u \in Threads : thr[u].pc # "verdict" \/ ~thr[u].ok
                       /\ status \notin {"Verified", "Running"}
        <4>1. dnet.sub # net.sub BY <1>1, <2>7 DEF Bounds
        <4> QED BY <2>5, <4>1 DEF NetworkOK, Over
      <3>4. \A x \in Teams : con'[x] \in {0, dnet'.sub} BY <2>2, <3>1
      <3>5. \A u \in Threads : thr'[u].pc \in OnNetwork => dnet'.sub = thr'[u].sub BY <2>4, <2>7, <3>2
      <3>6. Trusted' = Trusted BY <2>2 DEF Trusted
      <3>7. Trusted => \A u \in Threads : thr'[u].pc = "checks" => thr'[u].sub = net'.sub
        BY <2>2, <2>4, <2>5 DEF NetworkOK, Over
      <3>8. Trusted => \A u \in Threads : thr'[u].pc # "verdict" \/ ~thr'[u].ok BY <2>4, <3>3
      <3> QED BY <2>2, <3>1, <3>3, <3>4, <3>5, <3>6, <3>7, <3>8 DEF NetworkOK
    <2> QED BY <2>3, <2>6, <2>7
  <1>4. ASSUME NEW t \in Threads, CreateGamebox(t) PROVE NetworkOK'
    <2>1. From(t, "create", {"ready", "boxFailed"}) BY <1>4, Flow
    <2>2. UNCHANGED <<status, net, dnet, fwd, late>> BY <1>4 DEF CreateGamebox
    <2>3. \A x \in Teams : con'[x] \in {con[x], dnet.sub} BY <1>4 DEF CreateGamebox, Types, RowTypes
    <2>4. /\ thr[t].pc \in OnNetwork /\ thr'[t].sub = thr[t].sub /\ thr'[t].pc \notin {"checks", "verdict"}
          /\ \A u \in Threads : u # t => thr'[u] = thr[u]
      BY <2>1 DEF From, OnNetwork
    <2>5. ~Over BY <2>2 DEF Over
    <2> QED BY <2>2, <2>3, <2>4, <2>5 DEF NetworkOK, Over, Trusted
  <1>5. ASSUME NEW t \in Threads, EnsureAccess(t) PROVE NetworkOK'
    <2>1. From(t, "access", {"mark", "failed"}) BY <1>5, Flow
    <2>2. UNCHANGED <<status, net, dnet, con, late>> /\ fwd' \in {fwd, fwd \cup {thr[t].sub}}
      BY <1>5 DEF EnsureAccess
    <2>3. /\ thr[t].pc \in OnNetwork /\ thr[t].pc # "idle" /\ thr'[t].pc \notin OnNetwork \cup {"checks", "verdict"}
          /\ \A u \in Threads : u # t => thr'[u] = thr[u]
      BY <2>1 DEF From, OnNetwork
    <2>4. ~Over BY <2>2 DEF Over
    <2>5. \A n \in fwd' : n = dnet.sub /\ n # 0 BY <1>1, <2>2, <2>3, <2>4 DEF NetworkOK, Over
    <2> QED BY <2>2, <2>3, <2>4, <2>5 DEF NetworkOK, Over, Trusted
  <1>6. ASSUME NEW t \in Threads, Checks(t) PROVE NetworkOK'
    <2>1. From(t, "checks", {"verdict"}) BY <1>6, Flow
    <2>2. UNCHANGED <<status, net, dnet, con, fwd>> /\ Lasts BY <1>6 DEF Checks, Late
    <2>3. PICK ok \in BOOLEAN : /\ thr' = [thr EXCEPT ![t] = CheckFrame(t, ok)]
                                /\ ok => thr[t].sub \in fwd \/ "skipped" \in late'
      BY <1>6, ChecksLeave
    <2>4. thr'[t].ok = ok BY <2>3, CheckFrameIs DEF Types
    <2>5. ~Over BY <2>2 DEF Over
    <2>6. Trusted' => Trusted /\ "skipped" \notin late' BY <2>2 DEF Trusted
    <2>7. Trusted' /\ thr'[t].ok => dnet.sub = net.sub
      BY <2>1, <2>3, <2>4, <2>5, <2>6 DEF NetworkOK, Over, From
    <2>8. /\ thr'[t].pc = "verdict" /\ thr'[t].pc \notin OnNetwork
          /\ \A u \in Threads : u # t => thr'[u] = thr[u]
      BY <2>1 DEF From, OnNetwork
    <2> QED BY <2>2, <2>5, <2>6, <2>7, <2>8 DEF NetworkOK, Over
  <1>7. ASSUME NEW t \in Threads, Verdict(t) PROVE NetworkOK'
    <2>1. From(t, "verdict", {"idle"}) BY <1>7, Flow
    <2>2. UNCHANGED <<net, dnet, con, fwd, late>> BY <1>7 DEF Verdict
    <2>3. \/ status' = status
          \/ status = "Prechecking" /\ status' = IF thr[t].ok THEN "Verified" ELSE "VerificationFailed"
      BY <1>7, TransitionIs DEF Verdict
    <2>4. ~Over /\ thr[t].pc = "verdict" /\ \A u \in Threads : thr'[u].pc # "idle" => thr'[u] = thr[u]
      BY <2>1, <2>3 DEF Over, From
    <2>5. "idle" \notin OnNetwork BY DEF OnNetwork
    <2> QED BY <2>2, <2>3, <2>4, <2>5 DEF NetworkOK, Over, Trusted
  <1>8. ASSUME NEW t \in Threads, ArchiveContainers(t) \/ ArchiveNetwork(t) PROVE NetworkOK'
    <2>1. Over /\ status' = status BY <1>8 DEF ArchiveContainers, ArchiveNetwork, At, ArchiveOK, Removing, Over
    <2> QED BY <2>1 DEF NetworkOK, Over
  <1>9. CASE UpdateEventConfig \/ TouchConfiguration \/ \E x \in Teams : TeamJoins(x) \/ ContainerDies(x)
    <2>1. UNCHANGED <<net, dnet, con, fwd, thr>> /\ Lasts /\ (Over => Over')
          /\ (status' \in {"Verified", "Running"} => status \in {"Verified", "Running"})
      BY <1>9 DEF UpdateEventConfig, TouchConfiguration, TeamJoins, ContainerDies, Late, AssertConfigEditable, Over
    <2> QED BY <2>1, NetworkKept
  <1>10. CASE Finish BY <1>10, TransitionIs DEF Finish, Over
  <1>11. CASE Crash
    <2>1. UNCHANGED <<status, net, dnet, con, fwd>> /\ Lasts /\ \A u \in Threads : thr'[u] = Idle
      BY <1>11 DEF Crash
    <2>2. \A u \in Threads : thr'[u].pc \notin OnNetwork \cup {"verdict", "checks"}
      BY <2>1, IdleFrame DEF OnNetwork
    <2>3. Over => Over' BY <2>1 DEF Over
    <2> QED BY <2>1, <2>2, <2>3, NetworkKept
  <1> QED BY <1>2, <1>3, <1>4, <1>5, <1>6, <1>7, <1>8, <1>9, <1>10, <1>11, QuietNetwork DEF Next, Continue

----------------------------------------------------------------------------
(* The lock of the network *)

LEMMA LockKept ==
  ASSUME LockOK, net'.locked = net.locked, Lasts,
         \A t \in Threads : At(t, "lock") => At(t, "lock")',
         status' \in {"Deployed", "Deploying"} => status' = status,
         \A t \in Threads : thr'[t].pc \in PastLock => thr[t].pc \in PastLock
  PROVE  LockOK'
  <1>1. late \cap {"unlock", "lock"} # {} => late' \cap {"unlock", "lock"} # {} BY DEF Lasts
  <1> QED BY <1>1 DEF LockOK

\* Operations that neither lock nor deploy.
LEMMA QuietLock ==
  ASSUME Types, LockOK, NEW t \in Threads,
         \/ ReallocateCommit(t) \/ EnsureDockerNetwork(t) \/ TrackNetwork(t) \/ EnsureInfraContainer(t) \/ RecordInfra(t)
         \/ EnsureTeamNetworks(t) \/ NextBox(t) \/ CreateGamebox(t) \/ RecordBox(t) \/ BoxFailed(t)
         \/ EnsureAccess(t) \/ MarkDeployFailed(t) \/ Checks(t) \/ Verdict(t) \/ StartCommit(t)
         \/ ArchiveContainers(t) \/ ArchiveNetwork(t) \/ MarkArchived(t) \/ ArchiveReconcile(t) \/ ReleaseAllocations(t) \/ Reallocate(t)
         \/ RunPrecheck(t) \/ StartEvent(t) \/ ArchiveEvent(t)
  PROVE  LockOK'
  <1> USE DEF row, host, Lasts
  <1>1. /\ thr'[t].pc \in PastLock => thr[t].pc \in PastLock
        /\ thr[t].pc # "lock" /\ \A u \in Threads : u # t => thr'[u] = thr[u]
    BY Flow DEF From, PastLock, OnNetwork
  <1> DEFINE Kept == /\ net'.locked = net.locked /\ Lasts
                     /\ status' \in {"Deployed", "Deploying"} => status' = status
  <1>2. ReallocateCommit(t) => Kept BY DEF ReallocateCommit, Types, RowTypes, Late
  <1>3. EnsureDockerNetwork(t) => Kept BY DEF EnsureDockerNetwork
  <1>4. TrackNetwork(t) => Kept BY DEF TrackNetwork
  <1>5. EnsureInfraContainer(t) => Kept BY DEF EnsureInfraContainer
  <1>6. RecordInfra(t) => Kept BY DEF RecordInfra
  <1>7. EnsureTeamNetworks(t) => Kept BY DEF EnsureTeamNetworks
  <1>8. NextBox(t) => Kept BY DEF NextBox
  <1>9. CreateGamebox(t) => Kept BY DEF CreateGamebox
  <1>10. RecordBox(t) => Kept BY DEF RecordBox
  <1>11. BoxFailed(t) => Kept BY DEF BoxFailed
  <1>12. EnsureAccess(t) => Kept BY DEF EnsureAccess
  <1>13. MarkDeployFailed(t) => Kept BY TransitionIs DEF MarkDeployFailed
  <1>14. Checks(t) => Kept BY DEF Checks, Late
  <1>15. Verdict(t) => Kept BY TransitionIs DEF Verdict
  <1>16. StartCommit(t) => Kept BY TransitionIs DEF StartCommit
  <1>17. ArchiveContainers(t) => Kept BY DEF ArchiveContainers, Late
  <1>18. ArchiveNetwork(t) => Kept BY DEF ArchiveNetwork, Late
  <1>19. MarkArchived(t) => Kept BY TransitionIs DEF MarkArchived
  <1>20. ReleaseAllocations(t) => Kept BY DEF ReleaseAllocations
  <1>21. Reallocate(t) => Kept BY DEF Reallocate
  <1>22. RunPrecheck(t) => Kept BY TransitionIs DEF RunPrecheck
  <1>23. StartEvent(t) => Kept BY TransitionIs DEF StartEvent
  <1>24. ArchiveEvent(t) => Kept BY DEF ArchiveEvent
  <1>26. ArchiveReconcile(t) => Kept BY DEF ArchiveReconcile, Late
  <1>25. Kept BY <1>2, <1>3, <1>4, <1>5, <1>6, <1>7, <1>8, <1>9, <1>10, <1>11, <1>12, <1>13, <1>14, <1>15, <1>16, <1>17, <1>18, <1>19, <1>20, <1>21, <1>22, <1>23, <1>24, <1>26
  <1> QED BY <1>1, <1>25, LockKept DEF At

LEMMA LockStep ==
  ASSUME Types, LockOK, Next PROVE LockOK'
  <1> USE DEF row, host, Lasts
  <1>1. ASSUME NEW t \in Threads, Lock(t) PROVE LockOK'
    <2>1. net'.locked BY <1>1 DEF Lock, Types, RowTypes
    <2> QED BY <2>1 DEF LockOK
  <1>2. ASSUME NEW t \in Threads, DeployEvent(t) PROVE LockOK'
    <2>1. At(t, "lock")' BY <1>2, Flow DEF From, At
    <2> QED BY <2>1 DEF LockOK
  <1>3. ASSUME NEW t \in Threads, MarkDeployed(t) PROVE LockOK'
    <2>1. From(t, "mark", {"idle", "failed"}) BY <1>3, Flow
    <2>2. UNCHANGED <<net, late>> /\ (status' = status \/ status = "Deploying") BY <1>3, TransitionIs DEF MarkDeployed
    <2>3. thr[t].pc \in PastLock /\ thr'[t].pc \notin PastLock BY <2>1 DEF From, PastLock, OnNetwork
    <2>4. \A u \in Threads : (At(u, "lock") => At(u, "lock")') /\ (thr'[u].pc \in PastLock => thr[u].pc \in PastLock)
      BY <2>1, <2>3 DEF From, At
    <2>5. CASE status' = status BY <2>2, <2>4, <2>5, LockKept
    <2>6. CASE status = "Deploying" BY <2>2, <2>3, <2>4, <2>6 DEF LockOK
    <2> QED BY <2>2, <2>5, <2>6
  <1>4. ASSUME NEW t \in Threads, Unlock(t) PROVE LockOK'
    <2>1. status' = status /\ (status = "DeployFailed" \/ "unlock" \in late') BY <1>4 DEF Unlock, Late
    <2> QED BY <2>1 DEF LockOK
  <1>5. CASE UpdateEventConfig \/ TouchConfiguration \/ Finish \/ \E x \in Teams : TeamJoins(x) \/ ContainerDies(x)
    <2>1. UNCHANGED <<net, thr>> /\ Lasts /\ (status' \in {"Deployed", "Deploying"} => status' = status)
      BY <1>5, TransitionIs DEF UpdateEventConfig, TouchConfiguration, Finish, TeamJoins, ContainerDies, Late
    <2> QED BY <2>1, LockKept DEF At
  <1>6. CASE Crash
    <2>1. UNCHANGED <<net, status>> /\ \A u \in Threads : thr'[u] = Idle BY <1>6 DEF Crash
    <2>2. Lasts /\ ((\E u \in Threads : At(u, "lock")) => "lock" \in late') BY <1>6 DEF Crash
    <2>3. \A u \in Threads : thr'[u].pc \notin PastLock BY <2>1, IdleFrame DEF PastLock, OnNetwork
    <2> QED BY <2>1, <2>2, <2>3 DEF LockOK
  <1> QED BY <1>1, <1>2, <1>3, <1>4, <1>5, <1>6, QuietLock DEF Next, Continue

----------------------------------------------------------------------------
(* What was checked *)

\* Operations that neither check nor start.
LEMMA QuietCheck ==
  ASSUME Types, CheckOK, NEW t \in Threads,
         \/ ReallocateCommit(t) \/ Lock(t) \/ EnsureDockerNetwork(t) \/ TrackNetwork(t) \/ EnsureInfraContainer(t)
         \/ RecordInfra(t) \/ EnsureTeamNetworks(t) \/ NextBox(t) \/ CreateGamebox(t) \/ RecordBox(t)
         \/ BoxFailed(t) \/ EnsureAccess(t) \/ MarkDeployed(t) \/ MarkDeployFailed(t) \/ Unlock(t)
         \/ StartCommit(t) \/ ArchiveContainers(t) \/ ArchiveNetwork(t) \/ MarkArchived(t) \/ ArchiveReconcile(t) \/ ReleaseAllocations(t)
         \/ Reallocate(t) \/ DeployEvent(t) \/ ArchiveEvent(t)
  PROVE  CheckOK'
  <1> USE DEF row, host, Lasts
  <1>1. thr'[t].pc \notin {"verdict", "start"} /\ \A u \in Threads : u # t => thr'[u] = thr[u]
    BY Flow DEF From
  <1> DEFINE Kept == UNCHANGED <<cfg, ver, checked>> /\ Lasts
  <1>2. ReallocateCommit(t) => Kept BY DEF ReallocateCommit, Late
  <1>3. Lock(t) => Kept BY DEF Lock
  <1>4. EnsureDockerNetwork(t) => Kept BY DEF EnsureDockerNetwork
  <1>5. TrackNetwork(t) => Kept BY DEF TrackNetwork
  <1>6. EnsureInfraContainer(t) => Kept BY DEF EnsureInfraContainer
  <1>7. RecordInfra(t) => Kept BY DEF RecordInfra
  <1>8. EnsureTeamNetworks(t) => Kept BY DEF EnsureTeamNetworks
  <1>9. NextBox(t) => Kept BY DEF NextBox
  <1>10. CreateGamebox(t) => Kept BY DEF CreateGamebox
  <1>11. RecordBox(t) => Kept BY DEF RecordBox
  <1>12. BoxFailed(t) => Kept BY DEF BoxFailed
  <1>13. EnsureAccess(t) => Kept BY DEF EnsureAccess
  <1>14. MarkDeployed(t) => Kept BY DEF MarkDeployed
  <1>15. MarkDeployFailed(t) => Kept BY DEF MarkDeployFailed
  <1>16. Unlock(t) => Kept BY DEF Unlock, Late
  <1>17. StartCommit(t) => Kept BY DEF StartCommit
  <1>18. ArchiveContainers(t) => Kept BY DEF ArchiveContainers, Late
  <1>19. ArchiveNetwork(t) => Kept BY DEF ArchiveNetwork, Late
  <1>20. MarkArchived(t) => Kept BY DEF MarkArchived
  <1>21. ReleaseAllocations(t) => Kept BY DEF ReleaseAllocations
  <1>22. Reallocate(t) => Kept BY DEF Reallocate
  <1>23. DeployEvent(t) => Kept BY DEF DeployEvent
  <1>24. ArchiveEvent(t) => Kept BY DEF ArchiveEvent
  <1>26. ArchiveReconcile(t) => Kept BY DEF ArchiveReconcile, Late
  <1>25. Kept BY <1>2, <1>3, <1>4, <1>5, <1>6, <1>7, <1>8, <1>9, <1>10, <1>11, <1>12, <1>13, <1>14, <1>15, <1>16, <1>17, <1>18, <1>19, <1>20, <1>21, <1>22, <1>23, <1>24, <1>26
  <1> QED BY <1>1, <1>25 DEF CheckOK

LEMMA CheckStep ==
  ASSUME Types, Bounds, CheckOK, Next PROVE CheckOK'
  <1> USE DEF row, host, Lasts
  <1>1. cfg \in Nat /\ ver \in Nat /\ checked \in Nat /\ 1 <= cfg /\ ver <= cfg BY DEF Types, RowTypes, Bounds
  <1>2. ASSUME NEW t \in Threads, Checks(t) PROVE CheckOK'
    BY <1>2 DEF Checks, CheckOK
  <1>3. ASSUME NEW t \in Threads, Verdict(t) PROVE CheckOK'
    <2>1. From(t, "verdict", {"idle"}) BY <1>3, Flow
    <2>2. UNCHANGED <<cfg, checked, late>> /\ ver' \in {ver, cfg} BY <1>3 DEF Verdict
    <2> QED BY <2>1, <2>2 DEF CheckOK, From
  <1>4. ASSUME NEW t \in Threads, StartEvent(t) PROVE CheckOK'
    <2>1. From(t, "idle", {"start", "idle"}) BY <1>4, Flow
    <2>2. UNCHANGED <<cfg, ver, checked, late>> /\ (ver = cfg \/ thr' = thr) BY <1>4 DEF StartEvent
    <2> QED BY <2>1, <2>2 DEF CheckOK, From
  <1>5. ASSUME NEW t \in Threads, RunPrecheck(t) PROVE CheckOK'
    <2>1. From(t, "idle", {"checks"}) BY <1>5, Flow
    <2>2. UNCHANGED <<cfg, checked, late>> /\ ver' \in {ver, 0} BY <1>5 DEF RunPrecheck
    <2> QED BY <1>1, <2>1, <2>2 DEF CheckOK, From
  <1>6. CASE UpdateEventConfig \/ TouchConfiguration
    <2> SUFFICES ASSUME "config" \notin late' PROVE CheckOK' BY DEF CheckOK
    <2>1. thr' = thr /\ cfg' = cfg + 1 /\ ver' \in {0, ver} /\ ~UnderWay
      BY <1>6 DEF UpdateEventConfig, TouchConfiguration, Late
    <2>2. \A u \in Threads : thr'[u].pc \notin {"verdict", "start"} BY <2>1 DEF UnderWay
    <2>3. ver' # cfg' BY <1>1, <2>1
    <2> QED BY <2>2, <2>3 DEF CheckOK
  <1>7. CASE Finish \/ \E x \in Teams : TeamJoins(x) \/ ContainerDies(x)
    BY <1>7 DEF Finish, TeamJoins, ContainerDies, CheckOK
  <1>8. CASE Crash BY <1>8, IdleFrame DEF Crash, CheckOK
  <1> QED BY <1>2, <1>3, <1>4, <1>5, <1>6, <1>7, <1>8, QuietCheck DEF Next, Continue

----------------------------------------------------------------------------
(* The archive *)

\* While somebody deploys, nobody archives, unless that is on record.
LEMMA DeployingArchive ==
  ASSUME Types, ArchiveOK, NEW t \in Threads,
         \/ Lock(t) \/ EnsureDockerNetwork(t) \/ TrackNetwork(t) \/ EnsureInfraContainer(t) \/ RecordInfra(t)
         \/ EnsureTeamNetworks(t) \/ NextBox(t) \/ CreateGamebox(t) \/ RecordBox(t) \/ EnsureAccess(t)
  PROVE  ArchiveOK'
  <1>1. Deploys(t) /\ thr'[t].pc \notin Removing /\ \A u \in Threads : u # t => thr'[u] = thr[u]
    BY Flow DEF From, Deploys, Removing
  <1>2. UNCHANGED <<status, late>>
    BY DEF row, Lock, EnsureDockerNetwork, TrackNetwork, EnsureInfraContainer, RecordInfra, EnsureTeamNetworks,
           NextBox, CreateGamebox, RecordBox, EnsureAccess
  <1>3. "deploy" \in late \/ (status # "Archived" /\ \A u \in Threads : thr[u].pc \notin Removing)
    BY <1>1 DEF ArchiveOK
  <1>4. \A u \in Threads : thr'[u].pc \in Removing => thr[u].pc \in Removing BY <1>1
  <1>5. {"removeNet", "archive"} \subseteq Removing BY DEF Removing
  <1>6. (Removed' => Removed) /\ (Removed => "deploy" \notin late) BY <1>2 DEF Removed
  <1> QED BY <1>2, <1>3, <1>4, <1>5, <1>6 DEF ArchiveOK

\* A step that leaves the host alone and begins neither a deployment nor an archive.
LEMMA ArchiveKept ==
  ASSUME ArchiveOK, UNCHANGED <<con, infra, dnet>>, Lasts, Over => Over',
         status' = "Archived" => status = "Archived",
         \A t \in Threads : thr'[t].pc \in Removing \cup {"removeNet", "archive"} => thr'[t].pc = thr[t].pc,
         \A t \in Threads : Deploys(t)' => Deploys(t)
  PROVE  ArchiveOK'
  <1>1. \A u \in Threads : thr'[u].pc \in Removing => thr[u].pc \in Removing OBVIOUS
  <1>2. "deploy" \notin late' => "deploy" \notin late BY DEF Lasts
  <1>3. Removed' => Removed BY DEF Lasts, Removed
  <1>4. NoContainer' = NoContainer /\ NoNetwork' = NoNetwork BY DEF NoContainer, NoNetwork
  <1> QED BY <1>1, <1>2, <1>3, <1>4 DEF ArchiveOK, Over

LEMMA QuietArchive ==
  ASSUME Types, ArchiveOK, NEW t \in Threads,
         \/ ReallocateCommit(t) \/ BoxFailed(t) \/ MarkDeployed(t) \/ MarkDeployFailed(t) \/ Unlock(t)
         \/ Checks(t) \/ Verdict(t) \/ StartCommit(t) \/ ReleaseAllocations(t) \/ Reallocate(t)
         \/ RunPrecheck(t) \/ StartEvent(t)
  PROVE  ArchiveOK'
  <1> USE DEF row, host, Lasts
  <1>1. thr'[t].pc \notin Removing \cup {"lock"} \cup (PastLock \ {"boxFailed", "mark"})
        /\ \A u \in Threads : u # t => thr'[u] = thr[u]
    BY Flow DEF From, Removing, PastLock, OnNetwork
  <1>2. {"removeNet", "archive"} \subseteq Removing BY DEF Removing
  <1>3. \A u \in Threads : Deploys(u)' => Deploys(u) BY <1>1 DEF Deploys, PastLock, OnNetwork
  <1> DEFINE Kept == /\ UNCHANGED <<con, infra, dnet>> /\ Lasts /\ (Over => Over')
                     /\ status' = "Archived" => status = "Archived"
  <1>4. ReallocateCommit(t) => Kept BY DEF ReallocateCommit, Over, Late
  <1>5. BoxFailed(t) => Kept BY DEF BoxFailed, Over
  <1>6. MarkDeployed(t) => Kept BY TransitionIs DEF MarkDeployed, Over
  <1>7. MarkDeployFailed(t) => Kept BY TransitionIs DEF MarkDeployFailed, Over
  <1>8. Unlock(t) => Kept BY DEF Unlock, Over, Late
  <1>9. Checks(t) => Kept BY DEF Checks, Over, Late
  <1>10. Verdict(t) => Kept BY TransitionIs DEF Verdict, Over
  <1>11. StartCommit(t) => Kept BY TransitionIs DEF StartCommit, Over
  <1>12. ReleaseAllocations(t) => Kept BY DEF ReleaseAllocations, Over
  <1>13. Reallocate(t) => Kept BY DEF Reallocate, Over
  <1>14. RunPrecheck(t) => Kept BY TransitionIs DEF RunPrecheck, Over, IsConfigurable
  <1>15. StartEvent(t) => Kept BY TransitionIs DEF StartEvent, Over
  <1>16. Kept BY <1>4, <1>5, <1>6, <1>7, <1>8, <1>9, <1>10, <1>11, <1>12, <1>13, <1>14, <1>15
  <1> QED BY <1>1, <1>2, <1>3, <1>16, ArchiveKept

LEMMA ArchiveStep ==
  ASSUME Types, ArchiveOK, Next PROVE ArchiveOK'
  <1> USE DEF row, host, Lasts
  <1>1. {"removeNet", "archive"} \subseteq Removing /\ "idle" \notin Removing BY DEF Removing
  <1>2. ASSUME NEW t \in Threads, DeployEvent(t) PROVE ArchiveOK'
    <2>1. From(t, "idle", {"lock"}) BY <1>2, Flow
    <2>2. status \in {"Deploying", "Configuring"} /\ status' = "Deploying" BY <1>2, TransitionIs DEF DeployEvent
    <2>3. \A u \in Threads : thr[u].pc \notin Removing BY <2>2 DEF ArchiveOK
    <2>4. \A u \in Threads : thr'[u].pc \notin Removing BY <2>1, <2>3 DEF From, Removing
    <2> QED BY <1>1, <2>2, <2>4 DEF ArchiveOK
  <1>3. ASSUME NEW t \in Threads, ArchiveEvent(t) PROVE ArchiveOK'
    <2>1. From(t, "idle", {"remove", "release"}) BY <1>3, Flow
    <2>2. /\ status \in {"Finished", "Archived"} /\ UNCHANGED <<status, con, infra, dnet>> /\ Lasts
          /\ "deploy" \notin late' => \A u \in Threads : ~Deploys(u)
      BY <1>3 DEF ArchiveEvent
    <2>3. "deploy" \notin late' => \A u \in Threads : ~Deploys(u)' BY <2>1, <2>2 DEF From, Deploys
    <2>4. \A u \in Threads : thr'[u].pc \in {"removeNet", "archive"} => thr'[u] = thr[u] BY <2>1 DEF From
    <2>5. Removed' => Removed BY <2>2 DEF Removed
    <2> QED BY <2>2, <2>3, <2>4, <2>5 DEF ArchiveOK, NoContainer, NoNetwork
  <1>4. ASSUME NEW t \in Threads, ArchiveContainers(t) PROVE ArchiveOK'
    <2>1. From(t, "remove", {"removeNet"}) BY <1>4, Flow
    <2>2. UNCHANGED <<status, dnet>> /\ Lasts BY <1>4 DEF ArchiveContainers, Late
    <2>3. Removed' => infra'.st = "none" /\ \A x \in Teams : con'[x] = 0
      BY <1>4 DEF ArchiveContainers, Late, Removed, Types, RowTypes
    <2>4. Removed' => NoContainer' BY <2>3 DEF NoContainer
    <2>5. thr[t].pc \in Removing BY <2>1 DEF From, Removing
    <2>6. \A u \in Threads : (Deploys(u)' => Deploys(u)) /\ (thr'[u].pc = "archive" => thr[u].pc = "archive")
          /\ (thr'[u].pc \in Removing => status \in {"Finished", "Archived"})
      BY <2>1, <2>5 DEF From, Deploys, ArchiveOK
    <2>7. (Removed' => Removed) /\ ("deploy" \notin late' => "deploy" \notin late) /\ NoNetwork' = NoNetwork
      BY <2>2 DEF Removed, NoNetwork
    <2> QED BY <2>2, <2>4, <2>5, <2>6, <2>7 DEF ArchiveOK
  <1>5. ASSUME NEW t \in Threads, ArchiveNetwork(t) PROVE ArchiveOK'
    <2>1. From(t, "removeNet", {"archive"}) BY <1>5, Flow
    <2>2. UNCHANGED <<status, con, infra>> /\ Lasts BY <1>5 DEF ArchiveNetwork, Late
    <2>3. thr[t].pc \in Removing BY <2>1 DEF From, Removing
    <2>4. (Removed' => Removed) /\ ("deploy" \notin late' => "deploy" \notin late) /\ NoContainer' = NoContainer
      BY <2>2 DEF Removed, NoContainer
    <2>5. Removed => NoContainer BY <2>1 DEF ArchiveOK, From
    <2>6. Removed' => NoNetwork'
      BY <1>5, <2>4, <2>5 DEF ArchiveNetwork, Late, Removed, NoContainer, NoNetwork, Types, RowTypes
    <2>7. \A u \in Threads : (Deploys(u)' => Deploys(u))
          /\ (thr'[u].pc \in Removing => status \in {"Finished", "Archived"})
      BY <2>1, <2>3 DEF From, Deploys, ArchiveOK
    <2> QED BY <2>2, <2>3, <2>4, <2>5, <2>6, <2>7 DEF ArchiveOK
  <1>6. ASSUME NEW t \in Threads, MarkArchived(t) PROVE ArchiveOK'
    <2>1. From(t, "archive", {"reconcile", "idle"}) BY <1>6, Flow
    <2>2. UNCHANGED <<late, con, infra, dnet>> /\ (status' = status \/ status' = "Archived")
      BY <1>6, TransitionIs DEF MarkArchived
    <2>3. thr[t].pc \in Removing BY <2>1 DEF From, Removing
    <2>4. Removed' = Removed /\ NoContainer' = NoContainer /\ NoNetwork' = NoNetwork
      BY <2>2 DEF Removed, NoContainer, NoNetwork
    <2>5. Removed => NoContainer /\ NoNetwork BY <2>1 DEF ArchiveOK, From
    <2>6. \A u \in Threads : (Deploys(u)' => Deploys(u))
          /\ (thr'[u].pc \in Removing => status \in {"Finished", "Archived"})
      BY <2>1, <2>3 DEF From, Deploys, ArchiveOK
    <2> QED BY <2>2, <2>3, <2>4, <2>5, <2>6 DEF ArchiveOK
  <1>10. ASSUME NEW t \in Threads, ArchiveReconcile(t) PROVE ArchiveOK'
    <2>1. From(t, "reconcile", {"release", "idle"}) BY <1>10, Flow
    <2>2. UNCHANGED <<status, con, infra, dnet>> /\ Lasts BY <1>10 DEF ArchiveReconcile, Late
    <2>3. thr[t].pc \in Removing BY <2>1 DEF From, Removing
    <2>4. /\ (Removed' => Removed) /\ ("deploy" \notin late' => "deploy" \notin late)
          /\ NoContainer' = NoContainer /\ NoNetwork' = NoNetwork
      BY <2>2 DEF Removed, NoContainer, NoNetwork
    <2>5. \A u \in Threads : /\ Deploys(u)' => Deploys(u)
                             /\ thr'[u].pc \in {"removeNet", "archive"} => thr'[u].pc = thr[u].pc
                             /\ thr'[u].pc \in Removing => thr[u].pc \in Removing
      BY <2>1, <2>3 DEF From, Deploys
    <2> QED BY <2>2, <2>4, <2>5 DEF ArchiveOK
  <1>7. CASE UpdateEventConfig \/ TouchConfiguration \/ Finish \/ \E x \in Teams : TeamJoins(x)
    <2>1. UNCHANGED <<con, infra, dnet, thr>> /\ Lasts /\ (Over => Over')
          /\ (status' = "Archived" => status = "Archived")
      BY <1>7, TransitionIs DEF UpdateEventConfig, TouchConfiguration, Finish, TeamJoins, Late, Over, AssertConfigEditable
    <2> QED BY <2>1, ArchiveKept DEF Deploys
  <1>8. CASE \E x \in Teams : ContainerDies(x)
    <2>1. UNCHANGED <<status, infra, dnet, thr, late>> /\ status \notin {"Finished", "Archived"}
      BY <1>8 DEF ContainerDies
    <2>2. \A u \in Threads : thr[u].pc \notin Removing BY <2>1 DEF ArchiveOK
    <2> QED BY <1>1, <2>1, <2>2 DEF ArchiveOK
  <1>9. CASE Crash
    <2>1. UNCHANGED <<status, con, infra, dnet>> /\ Lasts /\ \A u \in Threads : thr'[u] = Idle
      BY <1>9 DEF Crash
    <2>2. \A u \in Threads : ~Deploys(u)' /\ thr'[u].pc \notin Removing BY <1>1, <2>1, IdleFrame DEF Deploys
    <2>3. Removed' => Removed BY <2>1 DEF Removed
    <2> QED BY <1>1, <2>1, <2>2, <2>3 DEF ArchiveOK, NoContainer, NoNetwork
  <1> QED BY <1>2, <1>3, <1>4, <1>5, <1>6, <1>7, <1>8, <1>9, <1>10, DeployingArchive, QuietArchive DEF Next, Continue

----------------------------------------------------------------------------
(* The invariant *)

LEMMA InitInv == ASSUME PreparationConstants, Init PROVE Inv
  <1> USE DEF Init
  <1>1. RowTypes BY DEF RowTypes, Statuses, PreparationConstants
  <1>2. \A t \in Threads : thr[t] = Idle OBVIOUS
  <1>3. thr \in [Threads -> Frames] BY IdleFrame
  <1>4. \A t \in Threads : thr[t].pc = "idle" BY <1>2, IdleFrame
  <1>5. BoxKnown BY <1>4 DEF BoxKnown
  <1>8. Bounds BY <1>4 DEF Bounds, PreparationConstants
  <1>9. NetworkOK BY <1>4 DEF NetworkOK, OnNetwork
  <1>10. LockOK BY <1>4 DEF LockOK
  <1>11. CheckOK BY <1>4 DEF CheckOK
  <1>12. ArchiveOK BY <1>4 DEF ArchiveOK, Removing
  <1> QED BY <1>1, <1>3, <1>5, <1>8, <1>9, <1>10, <1>11, <1>12 DEF Inv, Types

LEMMA NextInv == ASSUME PreparationConstants, Inv, [Next]_vars PROVE Inv'
  <1>1. CASE Next
    <2>1. Types /\ BoxKnown /\ Bounds /\ NetworkOK /\ LockOK /\ CheckOK /\ ArchiveOK BY DEF Inv
    <2>2. RowTypes' BY <1>1, <2>1, RowsTyped
    <2>3. thr' \in [Threads -> Frames] /\ BoxKnown' BY <1>1, <2>1, FramesTyped
    <2>4. Types' BY <2>2, <2>3 DEF Types
    <2>5. Bounds' BY <1>1, <2>1, <2>4, BoundsStep
    <2>6. NetworkOK' BY <1>1, <2>1, <2>4, NetworkStep
    <2>7. LockOK' BY <1>1, <2>1, LockStep
    <2>8. CheckOK' BY <1>1, <2>1, CheckStep
    <2>9. ArchiveOK' BY <1>1, <2>1, ArchiveStep
    <2> QED BY <2>3, <2>5, <2>6, <2>7, <2>8, <2>9, <2>4 DEF Inv
  <1>2. CASE UNCHANGED vars
    BY <1>2 DEF vars, Inv, Types, RowTypes, BoxKnown, Bounds, At, NetworkOK, Trusted, LockOK, CheckOK,
                ArchiveOK, Removed, NoContainer, NoNetwork, Deploys
  <1> QED BY <1>1, <1>2

LEMMA InvResults ==
  ASSUME PreparationConstants, Inv
  PROVE  TypeOK /\ RunsOnItsNetwork /\ DeployedIsLocked /\ ArchiveIsEmpty
  <1>1. TypeOK
    <2>1. conf.moves \in Nat BY DEF Inv, Types, RowTypes, PreparationConstants
    <2> QED BY <2>1 DEF Inv, Types, RowTypes, Bounds, TypeOK
  <1>2. RunsOnItsNetwork BY DEF Inv, NetworkOK, Trusted, RunsOnItsNetwork
  <1>3. DeployedIsLocked BY DEF Inv, LockOK, DeployedIsLocked
  <1>4. ArchiveIsEmpty BY DEF Inv, ArchiveOK, Removed, NoContainer, NoNetwork, ArchiveIsEmpty
  <1> QED BY <1>1, <1>2, <1>3, <1>4

LEMMA StartStep == ASSUME Inv, [Next]_vars PROVE StartsAsChecked
  <1> SUFFICES ASSUME status = "Verified", status' = "Running" PROVE checked = cfg \/ "config" \in late
    BY DEF StartsAsChecked
  <1> USE DEF row, host, Lasts
  <1>1. ASSUME NEW t \in Threads, StartCommit(t) PROVE checked = cfg \/ "config" \in late
    BY <1>1 DEF StartCommit, At, Inv, CheckOK
  <1>2. ~Finish /\ ~Crash /\ ~UpdateEventConfig /\ ~TouchConfiguration /\ ~UNCHANGED vars
    BY TransitionIs DEF Finish, Crash, UpdateEventConfig, TouchConfiguration, vars
  <1>3. \A x \in Teams : ~TeamJoins(x) /\ ~ContainerDies(x) BY DEF TeamJoins, ContainerDies
  <1>4. \A t \in Threads : ~Reallocate(t) /\ ~DeployEvent(t) /\ ~RunPrecheck(t) /\ ~StartEvent(t) /\ ~ArchiveEvent(t)
    BY TransitionIs DEF Reallocate, DeployEvent, RunPrecheck, StartEvent, ArchiveEvent
  <1>5. \A t \in Threads : /\ ~MarkDeployed(t) /\ ~MarkDeployFailed(t) /\ ~Unlock(t) /\ ~Checks(t) /\ ~Verdict(t)
                           /\ ~ArchiveContainers(t) /\ ~ArchiveNetwork(t) /\ ~MarkArchived(t)
                           /\ ~ArchiveReconcile(t) /\ ~ReleaseAllocations(t) /\ ~ReallocateCommit(t)
    BY TransitionIs DEF MarkDeployed, MarkDeployFailed, Unlock, Checks, Verdict, ArchiveContainers, ArchiveNetwork,
                        MarkArchived, ArchiveReconcile, ReleaseAllocations, ReallocateCommit
  <1>6. \A t \in Threads : /\ ~Lock(t) /\ ~EnsureDockerNetwork(t) /\ ~TrackNetwork(t) /\ ~EnsureInfraContainer(t)
                           /\ ~RecordInfra(t) /\ ~EnsureTeamNetworks(t) /\ ~NextBox(t) /\ ~CreateGamebox(t)
                           /\ ~RecordBox(t) /\ ~BoxFailed(t) /\ ~EnsureAccess(t)
    BY DEF Lock, EnsureDockerNetwork, TrackNetwork, EnsureInfraContainer, RecordInfra, EnsureTeamNetworks, NextBox,
           CreateGamebox, RecordBox, BoxFailed, EnsureAccess
  <1> QED BY <1>1, <1>2, <1>3, <1>4, <1>5, <1>6 DEF Next, Continue

(* The invariant the others rest on holds of every state of deploy_event,  *)
(* run_precheck, start_event, reallocate and archive_event overlapping.    *)
THEOREM InvHolds == ASSUME PreparationConstants PROVE Spec => []Inv
  <1>1. Init => Inv BY InitInv
  <1>2. Inv /\ [Next]_vars => Inv' BY NextInv
  <1> QED BY <1>1, <1>2, PTL DEF Spec

(* run_precheck and start_event: a verified or running event has its       *)
(* containers and its docker network in the subnet of its network row,     *)
(* however many deployments, reallocations and prechecks overlapped and    *)
(* whichever docker call failed; left out are exactly a reallocation that  *)
(* commits during a deployment, a precheck or a verdict, and a precheck    *)
(* that passed although it could not list the forward rules.               *)
THEOREM RunningOnItsNetwork == ASSUME PreparationConstants PROVE Spec => []RunsOnItsNetwork
  <1>1. Inv => RunsOnItsNetwork BY InvResults
  <1> QED BY <1>1, InvHolds, PTL

(* mark_deployed and mark_deploy_failed: a deployed event keeps the lock   *)
(* of its network, although other deployments of it fail.                  *)
THEOREM DeployedStaysLocked == ASSUME PreparationConstants PROVE Spec => []DeployedIsLocked
  <1>1. Inv => DeployedIsLocked BY InvResults
  <1> QED BY <1>1, InvHolds, PTL

(* archive_event: an archived event has neither container nor network on   *)
(* record, unless a removal failed, which the request only logs, or a      *)
(* deployment was still at work when the archive began.                    *)
THEOREM ArchiveStaysEmpty == ASSUME PreparationConstants PROVE Spec => []ArchiveIsEmpty
  <1>1. Inv => ArchiveIsEmpty BY InvResults
  <1> QED BY <1>1, InvHolds, PTL

(* start_event: an event starts with the configuration that was checked,   *)
(* whoever else prechecks or changes it before the precheck or after the   *)
(* verdict.                                                                *)
THEOREM StartIsChecked == ASSUME PreparationConstants PROVE Spec => [][StartsAsChecked]_vars
  <1>1. Inv /\ [Next]_vars => [StartsAsChecked]_vars BY StartStep
  <1> QED BY <1>1, InvHolds, PTL DEF Spec
=============================================================================

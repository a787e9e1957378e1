--------------------------- MODULE AwdPreparation ---------------------------
(***************************************************************************)
(* An AWD event from its configuration to its start, and its archive: the  *)
(* status machine, the configuration generation, the event network and its *)
(* lock, the deployment of networks and containers, the precheck and the   *)
(* start gate.  Requests and scheduler tasks are threads that interleave   *)
(* at their database and docker calls.  The match itself, from Running to  *)
(* Finished, is AwdLifecycle.                                              *)
(***************************************************************************)
EXTENDS Naturals

CONSTANTS Teams,     \* teams that may join
          Threads,   \* requests and scheduler tasks in progress
          Settings   \* bounds: threads and teams in use, changes, docker failures, crashes

VARIABLES conf,     \* the setting in force, chosen once
          status,   \* awd_events.status
          cfg,      \* configuration_generation
          ver,      \* verified_generation, 0: not verified
          checked,  \* the generation the last precheck looked at
          net,      \* awd_event_networks: number of the subnet, locked_at set
          held,     \* the ledger holds an allocation for the event
          dnet,     \* docker network: its subnet (0: none) and whether its id is on record
          infra,    \* flag and judge server: container none, up or down, whether on record
          teams,    \* teams that joined
          tnet,     \* subnet each team's block was cut from, 0: no row
          box,      \* instance row of each team's box: status, container_id set; its container runs
          con,      \* subnet of each box container, 0: none
          fwd,      \* subnets the docker forward rules are installed for
          late,     \* overlaps, failed removals and skipped checks that were met
          thr,      \* local state of each thread
          spent     \* configuration changes, docker failures and crashes so far

vars == <<conf, status, cfg, ver, checked, net, held, dnet, infra, teams, tnet, box, con, fwd,
          late, thr, spent>>

row == <<status, cfg, ver>>
host == <<dnet, infra, tnet, box, con, fwd>>

Idle == [pc |-> "idle", st |-> "none", sub |-> 0, ok |-> FALSE, todo |-> {}]
NoBox == [st |-> "none", id |-> FALSE, up |-> FALSE]

Init ==
    /\ conf \in Settings
    /\ status = "Configuring" /\ cfg = 1 /\ ver = 0 /\ checked = 0
    /\ net = [sub |-> 1, locked |-> FALSE] /\ held = TRUE
    /\ dnet = [sub |-> 0, tracked |-> FALSE] /\ infra = [st |-> "none", tracked |-> FALSE]
    /\ teams \in {{t} : t \in conf.teams}
    /\ tnet = [t \in Teams |-> 0] /\ box = [t \in Teams |-> NoBox] /\ con = [t \in Teams |-> 0]
    /\ fwd = {} /\ late = {}
    /\ thr = [t \in Threads |-> Idle]
    /\ spent = [moves |-> 0, fails |-> 0, crashes |-> 0]

At(t, pc) == thr[t].pc = pc
Step(t, pc) == thr' = [thr EXCEPT ![t].pc = pc]
Done(t) == thr' = [thr EXCEPT ![t] = Idle]
\* A request begins; it goes on with the network row as it reads it now.
Begin(t, pc) == At(t, "idle") /\ t \in conf.threads
                /\ thr' = [thr EXCEPT ![t] = [Idle EXCEPT !.pc = pc, !.sub = net.sub]]
Count(k) == spent[k] < conf[k] /\ spent' = [spent EXCEPT ![k] = @ + 1]
Late(k, b) == late' = IF b THEN late \cup {k} ELSE late

----------------------------------------------------------------------------
(* The status machine *)

ValidTransitions(s) ==
    CASE s = "Draft" -> {"Configuring"}
      [] s = "Configuring" -> {"Deploying", "Draft", "Prechecking"}
      [] s = "Deploying" -> {"Deployed", "DeployFailed"}
      [] s = "Deployed" -> {"Prechecking", "Configuring"}
      [] s = "Prechecking" -> {"Verified", "VerificationFailed", "Deployed"}
      [] s = "Verified" -> {"Running", "StartBlocked", "Configuring"}
      [] s = "StartBlocked" -> {"Prechecking", "Configuring"}
      [] s = "DeployFailed" -> {"Configuring"}
      [] s = "VerificationFailed" -> {"Prechecking", "Configuring"}
      [] s = "Running" -> {"Finished"}     \* the match: AwdLifecycle
      [] s = "Finished" -> {"Archived"}
      [] OTHER -> {}

IsConfigurable(s) == s \in {"Draft", "Configuring", "Deployed", "Prechecking", "Verified",
                            "StartBlocked", "DeployFailed", "VerificationFailed"}

\* transition_event: the row is locked, the status compared, the step legal.
TransitionEvent(from, to) ==
    status = from /\ to \in ValidTransitions(from) /\ status' = to
Refused(from, to) == (status # from \/ to \notin ValidTransitions(from)) /\ status' = status

----------------------------------------------------------------------------
(* Configuration *)

AssertConfigEditable == status \in {"Draft", "Configuring", "Deployed", "Verified", "StartBlocked",
                                    "DeployFailed", "VerificationFailed"}

\* Between what a precheck or a start read and its compare-and-set.
UnderWay == \E t \in Threads : thr[t].pc \in {"verdict", "start"}

\* A change the runtime depends on: back to Configuring in the transaction
\* that takes the verification away.
UpdateEventConfig ==
    /\ AssertConfigEditable /\ Count("moves")
    /\ status' = "Configuring" /\ cfg' = cfg + 1 /\ ver' = 0
    /\ Late("config", UnderWay)
    /\ UNCHANGED <<conf, checked, net, held, host, teams, thr>>

\* A game box is mounted, changed or taken off: the generation only.
TouchConfiguration ==
    /\ Count("moves") /\ cfg' = cfg + 1
    /\ Late("config", UnderWay)
    /\ UNCHANGED <<conf, status, ver, checked, net, held, host, teams, thr>>

TeamJoins(team) ==
    /\ team \in conf.teams \ teams /\ status \notin {"Running", "Finished", "Archived"} /\ Count("moves")
    /\ teams' = teams \cup {team}
    /\ UNCHANGED <<conf, row, checked, net, held, host, late, thr>>

\* reallocate: status and lock are looked at before the transaction.
Reallocate(t) ==
    /\ status \in {"Draft", "Configuring"} /\ ~net.locked /\ Count("moves") /\ Begin(t, "realloc")
    /\ UNCHANGED <<conf, row, checked, net, held, host, teams, late>>

\* A deployment at work, whatever has become of the event since it began.
Deploys(t) == thr[t].pc \in {"lock", "dnet", "track", "infra", "record", "teams", "boxes", "create",
                             "ready", "access"}
\* A deployment that ends, an archive that has given nothing back yet.
Ending == {"boxFailed", "mark", "failed", "reconcile", "release"}

\* A free block under the advisory lock, one the event had before the last
\* included; the ledger follows.
ReallocateCommit(t) ==
    /\ At(t, "realloc") /\ Done(t)
    /\ \E s \in 1..(conf.moves + 1) \ {net.sub} : net' = [net EXCEPT !.sub = s]
    /\ held' = TRUE
    /\ Late("realloc", \/ net.locked \/ status \notin {"Draft", "Configuring"}
                       \/ \E u \in Threads : Deploys(u) \/ thr[u].pc \in {"checks", "verdict"})
    /\ UNCHANGED <<conf, row, checked, host, teams, spent>>

----------------------------------------------------------------------------
(* deploy_event *)

\* From Configuring by compare-and-set; a second request enters an event that
\* is Deploying without any.  The network row is read here, before the lock.
DeployEvent(t) ==
    /\ Begin(t, "lock")
    /\ \/ status = "Deploying" /\ status' = status
       \/ TransitionEvent("Configuring", "Deploying")
    /\ late' = late \ {"cut"}
    /\ UNCHANGED <<conf, cfg, ver, checked, net, held, host, teams, spent>>

Lock(t) ==
    /\ At(t, "lock") /\ net' = [net EXCEPT !.locked = TRUE] /\ Step(t, "dnet")
    /\ UNCHANGED <<conf, row, checked, held, host, teams, late, spent>>

\* A network on record with the right subnet is kept; otherwise, or when the
\* inspection fails, the record goes and a network is created, which fails
\* when the name is taken.
EnsureDockerNetwork(t) ==
    /\ At(t, "dnet")
    /\ LET kept == dnet.tracked /\ dnet.sub = thr[t].sub IN
         \/ kept /\ Step(t, "infra") /\ UNCHANGED <<dnet, spent>>
         \/ /\ ~kept /\ dnet.sub = 0 /\ Step(t, "track")
            /\ dnet' = [sub |-> thr[t].sub, tracked |-> FALSE] /\ UNCHANGED spent
         \/ /\ ~kept /\ dnet.sub # 0 /\ Step(t, "failed")
            /\ dnet' = [dnet EXCEPT !.tracked = FALSE] /\ UNCHANGED spent
         \/ /\ Count("fails") /\ Step(t, "failed")
            /\ dnet' \in {dnet, [dnet EXCEPT !.tracked = FALSE]}
    /\ UNCHANGED <<conf, row, checked, net, held, infra, tnet, box, con, fwd, teams, late>>

TrackNetwork(t) ==
    /\ At(t, "track") /\ dnet' = [dnet EXCEPT !.tracked = TRUE] /\ Step(t, "infra")
    /\ UNCHANGED <<conf, row, checked, net, held, infra, tnet, box, con, fwd, teams, late, spent>>

\* A container on record that runs is kept; otherwise it is created (its name
\* may be taken, a failed start leaves it behind) and recorded (it may be on
\* record already).
EnsureInfraContainer(t) ==
    /\ At(t, "infra")
    /\ \/ infra.tracked /\ infra.st = "up" /\ Step(t, "teams") /\ UNCHANGED <<infra, spent>>
       \/ /\ ~(infra.tracked /\ infra.st = "up") /\ infra.st # "none"
          /\ Step(t, "failed") /\ UNCHANGED infra
          /\ UNCHANGED spent
       \/ infra.st = "none" /\ infra' = [infra EXCEPT !.st = "up"] /\ Step(t, "record") /\ UNCHANGED spent
       \/ /\ infra.st = "none" /\ Count("fails") /\ Step(t, "failed")
          /\ infra' \in {infra, [infra EXCEPT !.st = "down"]}
    /\ UNCHANGED <<conf, row, checked, net, held, dnet, tnet, box, con, fwd, teams, late>>

RecordInfra(t) ==
    /\ At(t, "record") /\ infra' = [infra EXCEPT !.tracked = TRUE]
    /\ Step(t, IF infra.tracked THEN "failed" ELSE "teams")
    /\ UNCHANGED <<conf, row, checked, net, held, dnet, tnet, box, con, fwd, teams, late, spent>>

\* Teams without a row get a block of the event's subnet; rows are kept.
EnsureTeamNetworks(t) ==
    /\ At(t, "teams")
    /\ tnet' = [x \in Teams |-> IF x \in teams /\ tnet[x] = 0 THEN net.sub ELSE tnet[x]]
    /\ thr' = [thr EXCEPT ![t] = [@ EXCEPT !.pc = "boxes", !.todo = teams]]
    /\ UNCHANGED <<conf, row, checked, net, held, dnet, infra, box, con, fwd, teams, late, spent>>

\* Next team: a box with a container_id is skipped unless its last start
\* failed, else its row is set to Creating.
NextBox(t) ==
    /\ At(t, "boxes")
    /\ \/ \E x \in thr[t].todo :
            IF box[x].id /\ box[x].st \in {"Ready", "Creating"}
            THEN thr' = [thr EXCEPT ![t].todo = @ \ {x}] /\ UNCHANGED box
            ELSE /\ box' = [box EXCEPT ![x].st = "Creating"]
                 /\ thr' = [thr EXCEPT ![t] = [thr[t] EXCEPT !.pc = "create", !.st = x, !.todo = @ \ {x}]]
       \/ thr[t].todo = {} /\ Step(t, "access") /\ UNCHANGED box
    /\ UNCHANGED <<conf, row, checked, net, held, dnet, infra, tnet, con, fwd, teams, late, spent>>

\* The name may be taken, the address may lie outside the docker network; a
\* container that does not start stays.
CreateGamebox(t) ==
    /\ At(t, "create")
    /\ LET x == thr[t].st  fits == con[x] = 0 /\ tnet[x] = dnet.sub IN
         \/ /\ fits /\ con' = [con EXCEPT ![x] = dnet.sub] /\ box' = [box EXCEPT ![x].up = TRUE]
            /\ Step(t, "ready") /\ UNCHANGED spent
         \/ ~fits /\ Step(t, "boxFailed") /\ UNCHANGED <<con, box, spent>>
         \/ /\ fits /\ con' \in {con, [con EXCEPT ![x] = dnet.sub]} /\ Count("fails")
            /\ Step(t, "boxFailed") /\ UNCHANGED box
    /\ UNCHANGED <<conf, row, checked, net, held, dnet, infra, tnet, fwd, teams, late>>

RecordBox(t) ==
    /\ At(t, "ready") /\ Step(t, "boxes")
    /\ box' = [box EXCEPT ![thr[t].st] = [@ EXCEPT !.st = "Ready", !.id = TRUE]]
    /\ UNCHANGED <<conf, row, checked, net, held, dnet, infra, tnet, con, fwd, teams, late, spent>>

BoxFailed(t) ==
    /\ At(t, "boxFailed") /\ box' = [box EXCEPT ![thr[t].st].st = "StartFailed"] /\ Step(t, "failed")
    /\ UNCHANGED <<conf, row, checked, net, held, dnet, infra, tnet, con, fwd, teams, late, spent>>

\* WireGuard, the docker forward rules, the firewall; rules of an earlier
\* subnet stay.
EnsureAccess(t) ==
    /\ At(t, "access")
    /\ LET rules == fwd \cup {thr[t].sub} IN
         \/ fwd' = rules /\ Step(t, "mark") /\ UNCHANGED spent
         \/ fwd' \in {fwd, rules} /\ Count("fails") /\ Step(t, "failed")
    /\ UNCHANGED <<conf, row, checked, net, held, dnet, infra, tnet, box, con, teams, late>>

MarkDeployed(t) ==
    /\ At(t, "mark")
    /\ \/ TransitionEvent("Deploying", "Deployed") /\ Done(t)
       \/ Refused("Deploying", "Deployed") /\ Step(t, "failed")
    /\ UNCHANGED <<conf, cfg, ver, checked, net, held, host, teams, late, spent>>

\* Mutant: the network is unlocked whatever the status.
UnlockAnyway(t) ==
    /\ At(t, "failed") /\ Done(t)
    /\ TransitionEvent("Deploying", "DeployFailed") \/ Refused("Deploying", "DeployFailed")
    /\ net' = [net EXCEPT !.locked = FALSE]
    /\ UNCHANGED <<conf, cfg, ver, checked, held, host, teams, late, spent>>

\* Only a deployment that still is Deploying is marked, and then unlocked.
MarkDeployFailed(t) ==
    /\ At(t, "failed")
    /\ \/ TransitionEvent("Deploying", "DeployFailed") /\ Step(t, "unlock")
       \/ Refused("Deploying", "DeployFailed") /\ Done(t)
    /\ UNCHANGED <<conf, cfg, ver, checked, net, held, host, teams, late, spent>>

Unlock(t) ==
    /\ At(t, "unlock") /\ net' = [net EXCEPT !.locked = FALSE] /\ Done(t)
    /\ Late("unlock", status # "DeployFailed")
    /\ UNCHANGED <<conf, row, checked, held, host, teams, spent>>

----------------------------------------------------------------------------
(* run_precheck and start_event *)

\* Also from Prechecking, and from Verified by way of Configuring, which
\* takes the verification away.
RunPrecheck(t) ==
    /\ IsConfigurable(status) /\ Begin(t, "checks")
    /\ \/ status = "Prechecking" /\ UNCHANGED <<status, ver>>
       \/ TransitionEvent(status, "Prechecking") /\ ver' = ver
       \/ status = "Verified" /\ status' = "Prechecking" /\ ver' = 0
    /\ UNCHANGED <<conf, cfg, checked, net, held, host, teams, late, spent>>

\* Teams there are; the network is on record; the servers run; every instance
\* row has a container_id and a running container.
ChecksPass ==
    /\ teams # {} /\ dnet.tracked /\ infra.st = "up"
    /\ \A x \in Teams : box[x].st # "none" => box[x].id /\ con[x] # 0 /\ box[x].up

\* Then the forward rules of the subnet; when they cannot be listed, the check
\* is skipped with a note.
Checks(t) ==
    /\ At(t, "checks") /\ checked' = cfg
    /\ \/ /\ thr' = [thr EXCEPT ![t] = [@ EXCEPT !.pc = "verdict", !.ok = ChecksPass /\ thr[t].sub \in fwd]]
          /\ UNCHANGED <<late, spent>>
       \/ /\ thr' = [thr EXCEPT ![t] = [@ EXCEPT !.pc = "verdict", !.ok = ChecksPass]]
          /\ Count("fails") /\ Late("skipped", ChecksPass)
    /\ UNCHANGED <<conf, row, net, held, host, teams>>

\* The generation that is verified is read after the checks.
Verdict(t) ==
    /\ At(t, "verdict") /\ Done(t)
    /\ LET to == IF thr[t].ok THEN "Verified" ELSE "VerificationFailed" IN
         \/ TransitionEvent("Prechecking", to) /\ ver' = IF thr[t].ok THEN cfg ELSE ver
         \/ Refused("Prechecking", to) /\ ver' = ver
    /\ UNCHANGED <<conf, cfg, checked, net, held, host, teams, late, spent>>

\* Mutant: the generation is not compared.
StartUnverified(t) ==
    /\ status = "Verified" /\ Begin(t, "start")
    /\ UNCHANGED <<conf, row, checked, net, held, host, teams, late, spent>>

\* A generation that is not the verified one blocks the start.
StartEvent(t) ==
    /\ status = "Verified"
    /\ \/ ver = cfg /\ Begin(t, "start") /\ UNCHANGED <<status, ver>>
       \/ ver # cfg /\ At(t, "idle") /\ t \in conf.threads /\ thr' = thr
          /\ TransitionEvent("Verified", "StartBlocked") /\ UNCHANGED ver
    /\ UNCHANGED <<conf, cfg, checked, net, held, host, teams, late, spent>>

StartCommit(t) ==
    /\ At(t, "start") /\ Done(t)
    /\ TransitionEvent("Verified", "Running") \/ Refused("Verified", "Running")
    /\ UNCHANGED <<conf, cfg, ver, checked, net, held, host, teams, late, spent>>

----------------------------------------------------------------------------
(* The archive *)

\* The match is over (finish_event).
Finish ==
    /\ TransitionEvent("Running", "Finished")
    /\ UNCHANGED <<conf, cfg, ver, checked, net, held, host, teams, late, thr, spent>>

\* A repeated request only gives the subnets back.
ArchiveEvent(t) ==
    /\ status \in {"Finished", "Archived"}
    /\ Begin(t, IF status = "Archived" THEN "release" ELSE "remove")
    /\ late' = (late \ {"cut"}) \cup (IF \E u \in Threads : Deploys(u) THEN {"deploy"} ELSE {})
    /\ UNCHANGED <<conf, row, checked, net, held, host, teams, spent>>

\* Every container of the event and its forward rules; what cannot be removed
\* stays behind with a line in the log.
ArchiveContainers(t) ==
    /\ At(t, "remove") /\ Step(t, "removeNet")
    /\ \/ /\ con' = [x \in Teams |-> 0] /\ infra' = [infra EXCEPT !.st = "none"]
          /\ fwd' = fwd \ {thr[t].sub} /\ UNCHANGED <<late, spent>>
       \/ /\ \E left \in SUBSET {x \in Teams : con[x] # 0} :
               con' = [x \in Teams |-> IF x \in left THEN con[x] ELSE 0]
          /\ infra' \in {infra, [infra EXCEPT !.st = "none"]} /\ fwd' \in {fwd, fwd \ {thr[t].sub}}
          /\ Count("fails") /\ Late("left", TRUE)
    /\ UNCHANGED <<conf, row, checked, net, held, dnet, tnet, box, teams>>

\* Then the network on record: docker refuses while a container is attached,
\* and its refusal is logged.
ArchiveNetwork(t) ==
    /\ At(t, "removeNet") /\ Step(t, "archive")
    /\ \/ /\ dnet' = IF dnet.tracked /\ infra.st = "none" /\ \A x \in Teams : con[x] = 0
                     THEN [dnet EXCEPT !.sub = 0] ELSE dnet
          /\ UNCHANGED <<late, spent>>
       \/ dnet' = dnet /\ Count("fails") /\ Late("left", TRUE)
    /\ UNCHANGED <<conf, row, checked, net, held, infra, tnet, box, con, fwd, teams>>

MarkArchived(t) ==
    /\ At(t, "archive")
    /\ \/ TransitionEvent("Finished", "Archived") /\ Step(t, "reconcile")
       \/ Refused("Finished", "Archived") /\ Done(t)
    /\ UNCHANGED <<conf, cfg, ver, checked, net, held, host, teams, late, spent>>

\* The firewall without the event; an error ends the request, the event stays
\* archived and keeps its subnets until the request is repeated.
ArchiveReconcile(t) ==
    /\ At(t, "reconcile")
    /\ \/ Step(t, "release") /\ UNCHANGED <<late, spent>>
       \/ Done(t) /\ Count("fails") /\ Late("cut", TRUE)
    /\ UNCHANGED <<conf, row, checked, net, held, host, teams>>

ReleaseAllocations(t) ==
    /\ At(t, "release") /\ held' = FALSE /\ Done(t)
    /\ UNCHANGED <<conf, row, checked, net, host, teams, late, spent>>

----------------------------------------------------------------------------
\* A box container exits; the process dies.
ContainerDies(x) ==
    /\ box[x].up /\ status \notin {"Running", "Finished", "Archived"} /\ Count("fails")
    /\ box' = [box EXCEPT ![x].up = FALSE]
    /\ UNCHANGED <<conf, row, checked, net, held, dnet, infra, tnet, con, fwd, teams, late, thr>>

\* What was being deployed or archived is cut off.
Crash ==
    /\ Count("crashes") /\ thr' = [t \in Threads |-> Idle]
    /\ late' = late \cup (IF \E t \in Threads : At(t, "lock") THEN {"lock"} ELSE {})
                    \cup (IF \E t \in Threads : Deploys(t) \/ thr[t].pc \in Ending THEN {"cut"} ELSE {})
    /\ UNCHANGED <<conf, row, checked, net, held, host, teams>>

Continue(t) ==
    \/ ReallocateCommit(t) \/ Lock(t) \/ EnsureDockerNetwork(t) \/ TrackNetwork(t)
    \/ EnsureInfraContainer(t) \/ RecordInfra(t) \/ EnsureTeamNetworks(t) \/ NextBox(t)
    \/ CreateGamebox(t) \/ RecordBox(t) \/ BoxFailed(t) \/ EnsureAccess(t)
    \/ MarkDeployed(t) \/ MarkDeployFailed(t) \/ Unlock(t) \/ Checks(t) \/ Verdict(t)
    \/ StartCommit(t) \/ ArchiveContainers(t) \/ ArchiveNetwork(t) \/ MarkArchived(t)
    \/ ArchiveReconcile(t) \/ ReleaseAllocations(t)

Next ==
    \/ \E t \in Threads : \/ Continue(t) \/ Reallocate(t) \/ DeployEvent(t) \/ RunPrecheck(t)
                          \/ StartEvent(t) \/ ArchiveEvent(t)
    \/ UpdateEventConfig \/ TouchConfiguration \/ Finish \/ Crash
    \/ \E x \in Teams : TeamJoins(x) \/ ContainerDies(x)

\* The executor goes on with every request.
Fairness == \A t \in Threads : WF_vars(Continue(t))

Spec == Init /\ [][Next]_vars /\ Fairness

----------------------------------------------------------------------------
TypeOK ==
    /\ cfg \in 1..(conf.moves + 1) /\ ver \in 0..cfg /\ checked \in 0..cfg
    /\ net.sub \in 1..(conf.moves + 1) /\ dnet.sub \in 0..(conf.moves + 1)
    /\ \A x \in Teams : tnet[x] \in 0..(conf.moves + 1) /\ con[x] \in {0, tnet[x]}
    /\ teams \subseteq Teams

(* An event that is verified or runs has its containers and its docker     *)
(* network in the subnet of its network row, whatever was reallocated and  *)
(* deployed again before and whatever docker call failed; only a           *)
(* reallocation that overlaps a deployment or a precheck, or a precheck    *)
(* that could not list the forward rules and passed without, breaks this.  *)
RunsOnItsNetwork ==
    status \in {"Verified", "Running"} =>
        \/ dnet.sub = net.sub /\ \A x \in Teams : con[x] \in {0, net.sub}
        \/ late \cap {"realloc", "skipped"} # {}

(* A deployed event keeps its network locked, although a second deployment *)
(* may fail at the same time; only the unlock of an earlier failure that   *)
(* comes late takes the lock away, and a deployment that outlived another  *)
(* one's failure may mark the event before the next has locked it, which a *)
(* crash may prevent.                                                      *)
DeployedIsLocked ==
    status = "Deployed" => \/ net.locked \/ late \cap {"unlock", "lock"} # {}
                           \/ \E t \in Threads : At(t, "lock")

(* An event starts with the configuration its precheck looked at, unless   *)
(* that was changed while a precheck or a start was under way: the verdict *)
(* of an older precheck then verifies what it never saw.                   *)
StartsAsChecked ==
    status = "Verified" /\ status' = "Running" => checked = cfg \/ "config" \in late

(* The archive leaves behind only what docker failed to remove, and a      *)
(* network whose record a failed inspection had lost, unless a deployment  *)
(* was still at work on an event that had moved on.                        *)
ArchiveIsEmpty ==
    status = "Archived" =>
        \/ late \cap {"deploy", "left"} # {}
        \/ /\ infra.st = "none" /\ \A x \in Teams : con[x] = 0
           /\ dnet.sub = 0 \/ ~dnet.tracked

(* Deploying is left and an archived event gives its subnets back once the *)
(* requests are served.  A crash or a failed reconciliation cuts them off: *)
(* then an administrator has to repeat them, and the repeated request does *)
(* it.  A reallocation that comes after the archive takes a subnet again.  *)
Settled == "cut" \notin late => /\ status # "Deploying"
                                /\ status = "Archived" => ~held \/ "realloc" \in late
=============================================================================

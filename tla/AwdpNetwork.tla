---------------------------- MODULE AwdpNetwork ----------------------------
(***************************************************************************)
(* Docker networks and judge containers of AWDP events.  Starting an       *)
(* instance allocates the event's subnet, creates the network, deploys the *)
(* judge and launches the box; finishing the event takes them down in the  *)
(* opposite order; deleting it does so from a snapshot.  The practice      *)
(* event has a fixed network, which is replaced when its configuration     *)
(* changed, and a cron task that repairs its judge.  Every docker call may *)
(* fail: most failures are only logged, and the next step is taken.        *)
(***************************************************************************)
EXTENDS Naturals, FiniteSets

CONSTANTS Events,    \* competition events
          Practice,  \* the practice event
          Subnets,   \* blocks of awdp.network_pool, in the order they are tried
          Threads,   \* requests and scheduler tasks
          Settings   \* bounds of a behaviour, and whether the two auth keys differ

VARIABLES conf,    \* the setting in force, chosen once
          phase,   \* of each event: on, ended or deleted
          row,     \* awdp_event_networks: subnet (0: no row) and status
          net,     \* subnet of the event's docker network, 0: none
          judge,   \* judge container: creator (the id), token, joined to the control
                   \* network (or refused), running
          boxes,   \* events with a running box container
          quiet,   \* finished and deleted events of which the teardown knew every box
                   \* and no removal failed
          thr,     \* local state of each thread
          spent    \* crashes, failures, starts and stops of judge containers so far

vars == <<conf, phase, row, net, judge, boxes, quiet, thr, spent>>

All == Events \cup {Practice}
NoJudge == [id |-> "none", token |-> "none", ctl |-> "no", up |-> FALSE]
NoRow == [sub |-> 0, st |-> "none"]
Idle == [pc |-> "idle", e |-> Practice, sub |-> 0, key |-> "none", box |-> FALSE, del |-> FALSE]

Init ==
    /\ conf \in Settings
    /\ phase = [e \in All |-> "on"]
    /\ row = [e \in Events |-> NoRow]
    /\ net = [e \in All |-> 0] /\ judge = [e \in All |-> NoJudge]
    /\ boxes = {} /\ quiet = {}
    /\ thr = [t \in Threads |-> Idle]
    /\ spent = [crashes |-> 0, fails |-> 0, starts |-> 0, dies |-> 0, moves |-> 0]

At(t, pc) == thr[t].pc = pc
Ev(t) == thr[t].e
Step(t, pc) == thr' = [thr EXCEPT ![t].pc = pc]
Done(t) == thr' = [thr EXCEPT ![t] = Idle]
Count(k) == spent' = [spent EXCEPT ![k] = @ + 1]
Fail == spent.fails < conf.fails /\ Count("fails")   \* of a docker or a database call
StartsOn(e) == {t \in Threads : ~At(t, "idle") /\ Ev(t) = e /\ thr[t].key # "none"}

----------------------------------------------------------------------------
(* start_instance: network, judge, container *)

\* The phase is looked at first.  deploy_judge is handed the key of the
\* caller: the root key here, the internal key by the cron task.
StartInstance(t, e) ==
    /\ At(t, "idle") /\ phase[e] = "on" /\ spent.starts < conf.starts
    /\ thr' = [thr EXCEPT ![t] = [Idle EXCEPT !.pc = IF e = Practice THEN "fixed" ELSE "alloc", !.e = e,
                                              !.key = "root", !.box = TRUE]]
    /\ Count("starts")
    /\ UNCHANGED <<conf, phase, row, net, judge, boxes, quiet>>

\* awdp.practice.judge, every 30 s and once at startup.
EnsurePracticeEnvironment(t) ==
    /\ At(t, "idle")
    /\ thr' = [thr EXCEPT ![t] = [Idle EXCEPT !.pc = "fixed", !.key = "internal"]]
    /\ UNCHANGED <<conf, phase, row, net, judge, boxes, quiet, spent>>

\* First block that neither a row nor a docker network uses; rows of events
\* that released theirs are listed too.  When docker cannot list its networks
\* only the rows count.
Taken(s, listed) == \/ \E e \in Events : row[e].sub = s
                    \/ listed /\ \E e \in All : net[e] = s
PickSubnet(s, listed) == ~Taken(s, listed) /\ \A q \in conf.pool : q < s => Taken(q, listed)

AllocateEventNetwork(t) ==
    /\ At(t, "alloc")
    /\ \E listed \in BOOLEAN :
         /\ IF listed THEN UNCHANGED spent ELSE Fail
         /\ \/ row[Ev(t)] # NoRow /\ Step(t, "net")
            \/ \E s \in conf.pool : /\ row[Ev(t)] = NoRow /\ PickSubnet(s, listed)
                                    /\ thr' = [thr EXCEPT ![t] = [@ EXCEPT !.pc = "insert", !.sub = s]]
            \/ row[Ev(t)] = NoRow /\ (\A s \in conf.pool : Taken(s, listed)) /\ Done(t)   \* exhausted
    /\ UNCHANGED <<conf, phase, row, net, judge, boxes, quiet>>

\* Primary key, UNIQUE (subnet_cidr) and the foreign key on the event; a
\* duplicate is resolved by reading the row of this event again.
InsertEventNetwork(t) ==
    /\ At(t, "insert")
    /\ LET e == Ev(t)
           ok == /\ row[e] = NoRow /\ phase[e] # "deleted"
                 /\ \A d \in Events : row[d].sub # thr[t].sub IN
         /\ row' = [row EXCEPT ![e] = IF ok THEN [sub |-> thr[t].sub, st |-> "allocated"] ELSE @]
         /\ IF ok \/ row[e] # NoRow THEN Step(t, "net") ELSE Done(t)
    /\ UNCHANGED <<conf, phase, net, judge, boxes, quiet, spent>>

\* deploy_judge returned an error: the start of a practice instance and the
\* cron task end with it, the start of a competition instance goes on.
JudgeFailed(t) == IF thr[t].box /\ Ev(t) # Practice THEN Step(t, "launch") ELSE Done(t)

\* An existing network of that name is used as it is; docker refuses a
\* subnet that another network has.  deploy_judge does the same once more.
EnsureNetworkExists(t) ==
    /\ At(t, "net") \/ At(t, "again")
    /\ LET e == Ev(t)
           Ensured == IF At(t, "net") THEN Step(t, "again") ELSE Step(t, "judge")
           NotEnsured == IF At(t, "net") THEN Done(t) ELSE JudgeFailed(t) IN
         \/ row[e] # NoRow /\ net[e] # 0 /\ Ensured /\ UNCHANGED <<net, spent>>
         \/ row[e] = NoRow /\ NotEnsured /\ UNCHANGED <<net, spent>>
         \/ /\ row[e] # NoRow /\ net[e] = 0
            /\ \/ /\ \A d \in All : net[d] # row[e].sub
                  /\ net' = [net EXCEPT ![e] = row[e].sub] /\ Ensured /\ UNCHANGED spent
               \/ /\ ((\E d \in All : net[d] = row[e].sub) /\ UNCHANGED spent) \/ Fail
                  /\ NotEnsured /\ UNCHANGED net
    /\ UNCHANGED <<conf, phase, row, judge, boxes, quiet>>

\* The fixed network of the practice event: as configured, kept while boxes
\* are on it, else replaced: judge, network, then the new network.  A failed
\* inspection reads as "not as configured", "no boxes" or "no network"; a
\* judge that cannot be removed is left to the deployment.
PracticeNetworkMatches == net[Practice] = 100 + spent.moves
Drifted == net[Practice] # 0 /\ ~PracticeNetworkMatches /\ Practice \notin boxes
EnsureFixedNetwork(t) ==
    /\ At(t, "fixed")
    /\ \/ /\ net[Practice] # 0 /\ ~Drifted
          /\ Step(t, "judge") /\ UNCHANGED <<judge, spent>>
       \/ /\ (Drifted /\ UNCHANGED spent) \/ Fail
          /\ judge' = [judge EXCEPT ![Practice] = NoJudge] /\ Step(t, "replace")
       \/ Drifted /\ Fail /\ Step(t, "replace") /\ UNCHANGED judge
       \/ /\ (net[Practice] = 0 /\ UNCHANGED spent) \/ Fail
          /\ Step(t, "create") /\ UNCHANGED judge
    /\ UNCHANGED <<conf, phase, row, net, boxes, quiet>>

\* A network with containers on it cannot be removed; that is tolerated.
Attached(e) == e \in boxes \/ judge[e].up
ReplaceFixedNetwork(t) ==
    /\ At(t, "replace")
    /\ \/ /\ net' = [net EXCEPT ![Practice] = IF Attached(Practice) THEN @ ELSE 0]
          /\ UNCHANGED spent
       \/ Fail /\ UNCHANGED net
    /\ Step(t, "create")
    /\ UNCHANGED <<conf, phase, row, judge, boxes, quiet>>

CreateFixedNetwork(t) ==
    /\ At(t, "create")
    /\ \/ /\ net' = [net EXCEPT ![Practice] = IF @ = 0 THEN 100 + spent.moves ELSE @]
          /\ Step(t, "judge") /\ UNCHANGED spent
       \/ Fail /\ Done(t) /\ UNCHANGED net
    /\ UNCHANGED <<conf, phase, row, judge, boxes, quiet>>

Token(key) == IF conf.split THEN key ELSE "internal"   \* practice_judge_token

\* After the judge: the box is launched, the cron task is over.
AfterJudge(t) == IF thr[t].box THEN Step(t, "launch") ELSE Done(t)

\* A running judge with the expected environment is kept, whether it is on the
\* control network or not; any other is removed.  An inspection that fails
\* takes a judge for gone or for different, a removal that fails is ignored;
\* without the control network or the image there is no deployment.
InspectJudge(t) ==
    /\ At(t, "judge")
    /\ LET j == judge[Ev(t)]
           keep == j.up /\ j.token = Token(thr[t].key)
           Removed == judge' = [judge EXCEPT ![Ev(t)] = NoJudge] IN
         \/ keep /\ AfterJudge(t) /\ UNCHANGED <<judge, spent>>
         \/ ~keep /\ Removed /\ Step(t, "deploy") /\ UNCHANGED spent
         \/ Fail /\ (Removed \/ UNCHANGED judge) /\ Step(t, "deploy")
         \/ Fail /\ JudgeFailed(t) /\ UNCHANGED judge
    /\ UNCHANGED <<conf, phase, row, net, boxes, quiet>>

\* create_and_start; the name may be taken by a concurrent deployment: its
\* container is accepted when it is seen running, and replaced otherwise.  A
\* failure leaves the other container, none, or one that does not run.
DeployJudge(t) ==
    /\ At(t, "deploy")
    /\ LET e == Ev(t)
           Becomes(j) == judge' = [judge EXCEPT ![e] = j]
           new == [id |-> t, token |-> Token(thr[t].key), ctl |-> "no", up |-> TRUE] IN
         \/ net[e] = 0 /\ JudgeFailed(t) /\ UNCHANGED <<judge, spent>>
         \/ net[e] # 0 /\ judge[e].up /\ AfterJudge(t) /\ UNCHANGED <<judge, spent>>
         \/ /\ net[e] # 0 /\ Becomes(new) /\ Step(t, "connect")
            /\ IF judge[e].up THEN Fail ELSE UNCHANGED spent
         \/ /\ net[e] # 0 /\ Fail /\ JudgeFailed(t)
            /\ UNCHANGED judge \/ Becomes(NoJudge) \/ Becomes([new EXCEPT !.up = FALSE])
    /\ UNCHANGED <<conf, phase, row, net, boxes, quiet>>

\* The container is joined to the control network by its id; a refusal is only
\* logged, and nobody tries again.
ConnectControl(t) ==
    /\ At(t, "connect")
    /\ LET Joined(ctl) ==
             judge' = [judge EXCEPT ![Ev(t)].ctl = IF judge[Ev(t)].id = t THEN ctl ELSE @] IN
         (Joined("yes") /\ UNCHANGED spent) \/ (Joined("refused") /\ Fail)
    /\ IF Ev(t) = Practice THEN AfterJudge(t) ELSE Step(t, "mark")
    /\ UNCHANGED <<conf, phase, row, net, boxes, quiet>>

\* Whatever the status was before; a failure is only logged.
MarkDeployed(t) ==
    /\ At(t, "mark")
    /\ \/ /\ row' = [row EXCEPT ![Ev(t)] = IF @ = NoRow \/ net[Ev(t)] = 0 THEN @
                                          ELSE [@ EXCEPT !.st = "deployed"]]
          /\ UNCHANGED spent
       \/ Fail /\ UNCHANGED row
    /\ AfterJudge(t)
    /\ UNCHANGED <<conf, phase, net, judge, boxes, quiet>>

LaunchBox(t) ==
    /\ At(t, "launch")
    /\ \/ /\ boxes' = IF net[Ev(t)] = 0 THEN boxes ELSE boxes \cup {Ev(t)}
          /\ UNCHANGED spent
       \/ Fail /\ UNCHANGED boxes
    /\ Done(t)
    /\ UNCHANGED <<conf, phase, row, net, judge, quiet>>

----------------------------------------------------------------------------
(* Finish, deletion and faults *)

\* Ended is committed, then boxes, judge, network and the row, in this order;
\* each step is taken whether the one before it failed or not.
FinishEvent(t, e) ==
    /\ At(t, "idle") /\ phase[e] = "on"
    /\ phase' = [phase EXCEPT ![e] = "ended"]
    /\ quiet' = IF StartsOn(e) = {} THEN quiet \cup {e} ELSE quiet
    /\ thr' = [thr EXCEPT ![t] = [Idle EXCEPT !.pc = "stopBoxes", !.e = e]]
    /\ UNCHANGED <<conf, row, net, judge, boxes, spent>>

\* The boxes of the snapshot, or those on record now.
Known(t) == IF thr[t].del THEN thr[t].box ELSE phase[Ev(t)] # "deleted"
StopBoxes(t) ==
    /\ At(t, "stopBoxes")
    /\ \/ /\ boxes' = IF Known(t) THEN boxes \ {Ev(t)} ELSE boxes
          /\ UNCHANGED <<quiet, spent>>
       \/ Fail /\ quiet' = quiet \ {Ev(t)} /\ UNCHANGED boxes
    /\ Step(t, "cleanup")
    /\ UNCHANGED <<conf, phase, row, net, judge>>

\* Mutant: without a row nothing is cleaned up.
CleanupJudgeOfRow(t) ==
    /\ At(t, "cleanup")
    /\ IF row[Ev(t)] = NoRow THEN Done(t) /\ UNCHANGED judge
       ELSE judge' = [judge EXCEPT ![Ev(t)] = NoJudge] /\ Step(t, "removeNet")
    /\ UNCHANGED <<conf, phase, row, net, boxes, quiet, spent>>

\* Finish removes the network of the row, if it can read one; the teardown of
\* a deleted event removes the network by its name.
CleanupJudge(t) ==
    /\ At(t, "cleanup")
    /\ LET Removed == judge' = [judge EXCEPT ![Ev(t)] = NoJudge]
           Goes == IF thr[t].del \/ row[Ev(t)] # NoRow THEN Step(t, "removeNet") ELSE Done(t) IN
         \/ Removed /\ Goes /\ UNCHANGED <<quiet, spent>>
         \/ /\ Fail /\ quiet' = quiet \ {Ev(t)}
            /\ (UNCHANGED judge /\ Goes) \/ (Removed /\ ~thr[t].del /\ Done(t))
    /\ UNCHANGED <<conf, phase, row, net, boxes>>

CleanupNetwork(t) ==
    /\ At(t, "removeNet")
    /\ \/ /\ net' = [net EXCEPT ![Ev(t)] = IF Attached(Ev(t)) THEN @ ELSE 0]
          /\ UNCHANGED <<quiet, spent>>
       \/ Fail /\ quiet' = quiet \ {Ev(t)} /\ UNCHANGED net
    /\ IF thr[t].del THEN Done(t) ELSE Step(t, "release")
    /\ UNCHANGED <<conf, phase, row, judge, boxes>>

\* The row is kept with status released, also when a removal failed.
MarkReleased(t) ==
    /\ At(t, "release")
    /\ \/ /\ row' = [row EXCEPT ![Ev(t)] = IF @ = NoRow THEN @ ELSE [@ EXCEPT !.st = "released"]]
          /\ UNCHANGED spent
       \/ Fail /\ UNCHANGED row
    /\ Done(t)
    /\ UNCHANGED <<conf, phase, net, judge, boxes, quiet>>

\* The names of the boxes are read while there are rows to read them from.
SnapshotEvent(t, e) ==
    /\ At(t, "idle") /\ phase[e] # "deleted"
    /\ thr' = [thr EXCEPT ![t] = [Idle EXCEPT !.pc = "delete", !.e = e, !.box = e \in boxes, !.del = TRUE]]
    /\ UNCHANGED <<conf, phase, row, net, judge, boxes, quiet, spent>>

\* The rows go (cascade), then the teardown.  Without a snapshot, or when the
\* deletion cannot be confirmed, there is none.
DeleteEvent(t) ==
    /\ At(t, "delete")
    /\ LET e == Ev(t) IN
         /\ phase' = [phase EXCEPT ![e] = "deleted"]
         /\ row' = [row EXCEPT ![e] = NoRow]
         /\ \/ /\ quiet' = IF StartsOn(e) = {} /\ (e \in boxes => thr[t].box) THEN quiet \cup {e}
                           ELSE quiet \ {e}
               /\ Step(t, "stopBoxes") /\ UNCHANGED spent
            \/ Fail /\ quiet' = quiet \ {e} /\ Done(t)
    /\ UNCHANGED <<conf, net, judge, boxes>>

StopBox(e) ==
    /\ e \in boxes /\ boxes' = boxes \ {e}
    /\ UNCHANGED <<conf, phase, row, net, judge, quiet, thr, spent>>

\* A judge container stops; the configuration of the practice network is
\* changed and the process restarted; the process dies.
JudgeDies(e) ==
    /\ judge[e].up /\ spent.dies < conf.dies
    /\ judge' = [judge EXCEPT ![e].up = FALSE] /\ Count("dies")
    /\ UNCHANGED <<conf, phase, row, net, boxes, quiet, thr>>

Reconfigure ==
    /\ spent.moves < conf.moves /\ Count("moves")
    /\ thr' = [t \in Threads |-> Idle]
    /\ UNCHANGED <<conf, phase, row, net, judge, boxes, quiet>>

Crash ==
    /\ spent.crashes < conf.crashes /\ Count("crashes")
    /\ thr' = [t \in Threads |-> Idle]
    /\ UNCHANGED <<conf, phase, row, net, judge, boxes, quiet>>

----------------------------------------------------------------------------
Continue(t) ==
    \/ AllocateEventNetwork(t) \/ InsertEventNetwork(t) \/ EnsureNetworkExists(t)
    \/ EnsureFixedNetwork(t) \/ ReplaceFixedNetwork(t) \/ CreateFixedNetwork(t)
    \/ InspectJudge(t) \/ DeployJudge(t) \/ ConnectControl(t) \/ MarkDeployed(t) \/ LaunchBox(t)
    \/ DeleteEvent(t) \/ StopBoxes(t) \/ CleanupJudge(t) \/ CleanupNetwork(t) \/ MarkReleased(t)

Next ==
    \/ \E t \in Threads :
         \/ Continue(t)
         \/ \E e \in conf.events : StartInstance(t, e)
         \/ \E e \in conf.events \ {Practice} : FinishEvent(t, e) \/ SnapshotEvent(t, e)
         \/ Practice \in conf.events /\ EnsurePracticeEnvironment(t)
    \/ \E e \in All : StopBox(e) \/ JudgeDies(e)
    \/ Reconfigure \/ Crash

\* Threads go on; the cron task comes round again and again.
Fairness ==
    /\ \A t \in Threads : WF_vars(Continue(t))
    /\ SF_vars(Practice \in conf.events /\ \E t \in Threads : EnsurePracticeEnvironment(t))

Spec == Init /\ [][Next]_vars /\ Fairness

----------------------------------------------------------------------------
TypeOK ==
    /\ phase \in [All -> {"on", "ended", "deleted"}]
    /\ \A e \in Events : row[e].sub \in Subnets \cup {0}
                         /\ row[e].st \in {"none", "allocated", "deployed", "released"}
    /\ \A e \in All : judge[e].token \in {"none", "root", "internal"}
    /\ boxes \subseteq All

(* No two events ever have the same subnet, neither on record nor in       *)
(* docker, although the block is picked before the row is inserted and the *)
(* pool is looked at without a lock.                                       *)
SubnetsDisjoint ==
    \A d, e \in Events : d # e =>
        /\ row[d].sub = row[e].sub => row[d] = NoRow
        /\ net[d] = net[e] => net[d] = 0

(* A judge that runs has joined the control network, or the thread that    *)
(* created this very container is about to join it: a concurrent           *)
(* deployment that accepts, removes or replaces it never leaves one behind *)
(* that cannot reach the platform.  Only a join that docker refused and a  *)
(* crash between the two do, and no later deployment repairs either.       *)
JudgeReachesPlatform ==
    \A e \in All : judge[e].up /\ judge[e].ctl = "no" =>
        \/ At(judge[e].id, "connect") /\ Ev(judge[e].id) = e
        \/ spent.crashes + spent.moves > 0

(* When no start was under way as the event was finished or deleted, the   *)
(* teardown knew its boxes and no removal failed (quiet), then its boxes,  *)
(* its judge and its network are gone in the end, whatever failed before   *)
(* that and although a finish and a deletion may overlap.                  *)
Closed(e) == e \notin boxes /\ ~judge[e].up /\ net[e] = 0
AllClosed == spent.crashes + spent.moves > 0 \/ \A e \in Events : e \in quiet => Closed(e)

(* The practice judge is repaired again and again: whatever container died *)
(* or network was replaced, a judge with the expected token runs once more.*)
PracticeServed ==
    Practice \in conf.events => judge[Practice].up /\ judge[Practice].token = Token("internal")
----------------------------------------------------------------------------
(* What every step keeps (the inductive invariant of AwdpProofs) *)

Pcs == {"idle", "alloc", "insert", "net", "fixed", "replace", "create", "again", "judge", "deploy",
        "connect", "mark", "launch", "delete", "stopBoxes", "cleanup", "removeNet", "release"}
Joins == {"no", "yes", "refused"}
Tokens == {"none", "root", "internal"}

Types ==
    /\ conf.pool \subseteq Subnets /\ conf.events \subseteq All
    /\ phase \in [All -> {"on", "ended", "deleted"}]
    /\ row \in [Events -> [sub : Subnets \cup {0}, st : {"none", "allocated", "deployed", "released"}]]
    /\ net \in [All -> Nat]
    /\ judge \in [All -> [id : Threads \cup {"none"}, token : Tokens, ctl : Joins, up : BOOLEAN]]
    /\ boxes \subseteq All
    /\ thr \in [Threads -> [pc : Pcs, e : All, sub : Subnets \cup {0}, key : Tokens, box : BOOLEAN,
                            del : BOOLEAN]]
    /\ spent \in [crashes : Nat, fails : Nat, starts : Nat, dies : Nat, moves : Nat]

\* Only events of a competition have rows; a block that was picked is a block.
OfEvent == {"alloc", "insert", "net", "again", "mark", "delete", "stopBoxes", "cleanup", "removeNet",
            "release"}
ThreadsOfEvents ==
    \A t \in Threads : /\ thr[t].pc \in OfEvent => Ev(t) \in Events
                       /\ At(t, "insert") => thr[t].sub # 0

\* A row has a block, and a judge that runs was started by a thread.
RowsHaveBlocks == \A e \in Events : row[e].sub = 0 => row[e] = NoRow
JudgesHaveOwner == \A e \in All : judge[e].up => judge[e].id \in Threads

Inductive ==
    /\ Types /\ ThreadsOfEvents /\ RowsHaveBlocks /\ JudgesHaveOwner
    /\ SubnetsDisjoint /\ JudgeReachesPlatform
=============================================================================

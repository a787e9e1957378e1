------------------------------- MODULE MCAwdp -------------------------------
(***************************************************************************)
(* AWDP for TLC: behaviours of AwdpRun (a match up to Fix), of AwdpFix     *)
(* (rounds, patches and evaluations), of AwdpPractice (a player's runs on  *)
(* one game box) and of AwdpNetwork (subnets, networks and judge           *)
(* containers). A behaviour is of one of them, its scene: the variables    *)
(* x1, x2, ... stand for that component's.                                 *)
(***************************************************************************)
EXTENDS Naturals, FiniteSets

CONSTANTS Threads,
          MatchRuns, Boxes, MaxGen, MaxCrashes, MaxFails,  \* AwdpRun
          Api, Js,                                         \* AwdpFix
          Runs, PracticeRounds,                            \* AwdpPractice
          Events, Practice, Subnets                        \* AwdpNetwork

\* Rows are numbered from 1, an event has game boxes and containers have a
\* first generation.
ASSUME MatchAssumption ==
    /\ MatchRuns \subseteq Nat /\ 1 \in MatchRuns
    /\ Boxes # {} /\ IsFiniteSet(Boxes)
    /\ MaxGen \in Nat \ {0} /\ MaxCrashes \in Nat /\ MaxFails \in Nat

\* The practice event is none of a competition, and a block is no "0".
ASSUME PracticeAssumption ==
    /\ Runs \subseteq Nat /\ 1 \in Runs
    /\ Practice \notin Events /\ Events # {}
    /\ Subnets \subseteq Nat \ {0} /\ Subnets # {}

VARIABLES scene,  \* the component this behaviour is about, chosen once
          \* its variables, in the order of its INSTANCE
          x1, x2, x3, x4, x5, x6, x7, x8, x9, x10, x11, x12, x13

vars == <<scene, x1, x2, x3, x4, x5, x6, x7, x8, x9, x10, x11, x12, x13>>

Setting(practice, rounds, workers, attempts, resets, crashes, errors) ==
    [practice |-> practice, rounds |-> rounds, workers |-> workers, attempts |-> attempts,
     resets |-> resets, crashes |-> crashes, errors |-> errors]
\* Both kinds of worker; two of JudgeServer; a crash, resets, lost results and
\* unreadable output; practice; two rounds.
FixSettings ==
    {Setting(FALSE, 1, {"a", "j"}, 2, 0, 0, 0), Setting(FALSE, 1, {"i", "j"}, 2, 0, 0, 0),
     Setting(FALSE, 1, {"j"}, 2, 1, 1, 1), Setting(FALSE, 2, {"a"}, 1, 0, 0, 0),
     Setting(TRUE, 1, {"j"}, 1, 1, 1, 0), Setting(TRUE, 2, {"a"}, 1, 0, 0, 0),
     Setting(FALSE, 1, {"a"}, 2, 0, 1, 1)}

\* Two rows that enter Fix once each, one row that enters it twice.
PracticeSettings ==
    {[runs |-> 2, sessions |-> 1, fails |-> 1], [runs |-> 1, sessions |-> 2, fails |-> 1]}

Networks(events, pool, dies, moves, crashes, fails) ==
    [pool |-> pool, split |-> FALSE, events |-> events, starts |-> 2, dies |-> dies, moves |-> moves,
     crashes |-> crashes, fails |-> fails]
AnEvent == {CHOOSE e \in Events : TRUE}
\* Two events, two events and one block, one event with failures and with a
\* crash, the practice event with a new configuration and a failure.
NetworkSettings ==
    {Networks(Events, Subnets, 0, 0, 0, 0), Networks(Events, {CHOOSE s \in Subnets : TRUE}, 0, 0, 0, 0),
     Networks(AnEvent, Subnets, 1, 0, 0, 2), Networks(AnEvent, Subnets, 1, 0, 1, 0),
     Networks({Practice}, Subnets, 1, 1, 0, 1)}

Run == INSTANCE AwdpRun WITH
    Runs <- MatchRuns, run <- x1, box <- x2, up <- x3, lock <- x4, broken <- x5, scored <- x6,
    thr <- x7, spent <- x8
Fix == INSTANCE AwdpFix WITH
    Settings <- FixSettings, conf <- x1, phase <- x2, now <- x3, round <- x4, eval <- x5,
    box <- x6, applied <- x7, score <- x8, lock <- x9, job <- x10, player <- x11, tick <- x12,
    spent <- x13
Prac == INSTANCE AwdpPractice WITH
    Rounds <- PracticeRounds, Settings <- PracticeSettings, conf <- x1, run <- x2,
    session <- x3, round <- x4, score <- x5, inst <- x6, held <- x7, thr <- x8, fails <- x9
Net == INSTANCE AwdpNetwork WITH
    Settings <- NetworkSettings, conf <- x1, phase <- x2, row <- x3, net <- x4, judge <- x5,
    boxes <- x6, quiet <- x7, thr <- x8, spent <- x9

\* A step of the run up to its Fix phase.
InRun(A) == scene = "run" /\ A /\ UNCHANGED <<scene, x9, x10, x11, x12, x13>>
\* A step of the Fix phase.
InFix(A) == scene = "fix" /\ A /\ UNCHANGED scene
\* A step of the practice runs.
InPrac(A) == scene = "practice" /\ A /\ UNCHANGED <<scene, x10, x11, x12, x13>>
\* A step of the networks.
InNet(A) == scene = "network" /\ A /\ UNCHANGED <<scene, x10, x11, x12, x13>>

Unused == "unused"
Init ==
    /\ \/ scene = "run" /\ Run!Init /\ x9 = Unused
       \/ scene = "fix" /\ Fix!Init
       \/ scene = "practice" /\ Prac!Init
       \/ scene = "network" /\ Net!Init
    /\ scene # "fix" => x10 = Unused /\ x11 = Unused /\ x12 = Unused /\ x13 = Unused

Next == InRun(Run!Next) \/ InFix(Fix!Next) \/ InPrac(Prac!Next) \/ InNet(Net!Next)

\* The fairness of the components (see there), and the two specifications: of a
\* match, and of practice and networks.
MatchFairness ==
    /\ \A t \in Threads : WF_vars(InRun(Run!Continue(t)))
    /\ \A r \in MatchRuns : WF_vars(\/ InRun(\E t \in Threads : Run!ReconcilePreparingFix(t, r))
                                    \/ InFix(Fix!Cutoff))
    /\ WF_vars(InFix(Fix!Tick)) /\ WF_vars(InFix(Fix!Serve))
    /\ \A w \in Api \cup Js : WF_vars(InFix(Fix!Work(w)))
    /\ \A w \in Api : SF_vars(InFix(Fix!ProcessOfficial(w)))
    /\ WF_vars(InFix(\E k \in Fix!Keys : Fix!LeaseAges(k)))
PracticeFairness ==
    /\ \A t \in Threads : WF_vars(InPrac(Prac!Continue(t)) \/ InNet(Net!Continue(t)))
    /\ \A r \in Runs : SF_vars(InPrac(\E t \in Threads : Prac!TickReconcile(t, r)))
    /\ SF_vars(InNet(/\ Practice \in x1.events
                     /\ \E t \in Threads : Net!EnsurePracticeEnvironment(t)))

MatchInit == Init /\ scene \in {"run", "fix"}
PracticeInit == Init /\ scene \in {"practice", "network"}
MatchSpec == MatchInit /\ [][Next]_vars /\ MatchFairness
PracticeSpec == PracticeInit /\ [][Next]_vars /\ PracticeFairness

----------------------------------------------------------------------------
TypeOK ==
    /\ scene = "run" => Run!TypeOK
    /\ scene = "fix" => Fix!TypeOK
    /\ scene = "practice" => Prac!TypeOK
    /\ scene = "network" => Net!TypeOK

(* The score of a match is what happened in it.  AwdpRun: a break on       *)
(* record is scored, or about to be, or the process crashed between        *)
(* record_break and the score event.  AwdpFix: a competition scores a fix  *)
(* only where a patch was applied in that round at or before its cutoff, a *)
(* patched verdict is scored or about to be, crashes aside, and a fix is   *)
(* only scored for an evaluation that ends patched, however leases expire  *)
(* while JudgeServer's workers are at it.                                  *)
MatchScores ==
    /\ TypeOK
    /\ scene = "run" => Run!BreakIsScored
    /\ scene = "fix" => Fix!FixNeedsPatch /\ Fix!PatchedIsScored /\ Fix!ScoredIsPatched

(* AwdpRun: no container of the Break phase is left when reconcile enters  *)
(* Fix, also when a start without the lock raced its resets.               *)
FixStartsPristine == [][scene = "run" => Run!EntersPristine]_vars

(* A match comes to its end.  AwdpRun: the tick brings a run out of        *)
(* PreparingFix, whatever failed, unless an instance without a container   *)
(* stays so: the helper refuses every attempt to reset it.  AwdpFix: every *)
(* round under evaluation is completed, and the run ends unless the        *)
(* process died between the last round and the phase.                      *)
MatchEnds ==
    /\ \A r \in MatchRuns :
         \/ (scene = "run" /\ Run!Preparing(r)) ~> (scene = "run" /\ Run!InFix(r))
         \/ <>[](scene = "run" /\ Run!Lost(r))
    /\ (scene = "fix" /\ Fix!Evaluating) ~> (scene = "fix" /\ ~Fix!Evaluating)
    /\ (scene = "fix") ~> (scene = "fix" /\ Fix!Over)

(* AwdpPractice: a player has at most one open run on a game box, however  *)
(* many starts race and although PreparingFix is not seen by               *)
(* start_training and comes back as Fix later; a rewind to Break takes the *)
(* fix scores with it.  AwdpNetwork: no two events have the same subnet,   *)
(* on record or in docker, although a block is picked before its row is    *)
(* inserted; a running judge has joined the control network or is about    *)
(* to, also when two deployments race, unless docker refused to join it or *)
(* the process died in between.                                            *)
PracticeConsistent ==
    /\ TypeOK
    /\ scene = "practice" => Prac!OneOpenRun /\ Prac!BreakHasNoFixScore
    /\ scene = "network" => Net!SubnetsDisjoint /\ Net!JudgeReachesPlatform

(* AwdpPractice: an ended run never leaves Ended and keeps its fix scores, *)
(* although set_phase and ALL Check decide on a phase they read before.    *)
HistoryStands == [][scene = "practice" => Prac!KeepsHistory]_vars

(* AwdpPractice: a run leaves PreparingFix, unless another run of the      *)
(* player is open, which the unique index holds against it.  AwdpNetwork:  *)
(* the boxes, the judge and the network of an event that is finished or    *)
(* deleted are gone in the end when no removal failed and no start was     *)
(* under way, and the cron task repairs the practice judge again and again,*)
(* whatever docker refused.                                                *)
PracticeSettles ==
    /\ []<>(scene = "practice" => Prac!NoneHeldBack)
    /\ []<>(scene = "network" => Net!AllClosed)
    /\ []<>(scene = "network" => Net!PracticeServed)
=============================================================================

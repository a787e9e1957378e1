# FloatCTF: TLA+ models of the platform

FloatCTF is a platform for capture-the-flag competitions: a Rust API server
(`src/apps/api`), judge servers that poll it (`src/crates/awd-judgeserver`,
`src/crates/awdp-judgeserver`), a container library (`fcmc`), a privileged helper
for the host's network and docker socket, and web front ends. It runs three kinds
of event: Jeopardy (solve a challenge), AWDP (break a box, then patch it) and AWD
(attack with defence, in rounds).

This directory models the parts of it whose correctness depends on the order of
things: HTTP handlers, scheduler tasks, judge workers and boot recovery that share
rows of one PostgreSQL database, containers, Redis and a host firewall, and that
interleave between a read and the write that relies on it.

## 1. Inventory

Every component is listed in `PROJECT.json`. "A statement" below is one committed
SQL statement or transaction, or one call to docker, Redis or the host.

| Component | State it keeps | Operations | Works with |
| --- | --- | --- | --- |
| AWD lifecycle | `awd_events`, `awd_rounds` | start, Hardening, rounds, pause, resume, finish, boot recovery | task engine, judge batches, network |
| AWD judge API and worker | `awd_judge_batches`, `awd_judge_tasks`; executions in memory | claim, heartbeat, result, sweep, deadline; poll, run, deliver with retries | scores a Down, finishes the event |
| AWD flags and captures | `awd_flag_issues`, `awd_flag_submissions`, `awd_score_events` | issue, validate, score in one transaction, first bonus, adjustment | event, round and ban rows |
| AWD resets | `awd_reset_records`, instance status, container | request, rebuild, penalty, recovery | docker, score events |
| AWD preparation and archive | event status, configuration generation, networks, containers | configure, allocate, deploy, precheck, start gate, archive | docker, helper |
| AWD access | bans, WireGuard peers, network revision, firewall table, open connections | ban, unban, new peer, pause, reconcile | helper |
| AWD addresses | pools, ledger, event and team subnets, ports | allocate, reallocate, release, manual assignment | host routes |
| AWD tokens | two tokens in the row, two containers | rotation, deployment | docker |
| Schedules | `events` times, planned start and precheck rows, AWDP durations | configure, patch, claim, retry | task engine |
| AWDP run, fix rounds, practice | runs, instances, locks, patches, evaluations with leases, scores | start, break, prepare, patch, evaluate, rewind, end | docker, API and pull workers |
| AWDP networks | subnet rows, docker networks, judge containers | ensure, repair, clean up | docker |
| Jeopardy | roster, solves, points, instances | join, found, submit under a lock, launch, destroy, expire | docker, cleanup task |
| Task engine, training site | `scheduled_tasks`; release directories | claim, run, retry, recur, requeue; fetch, switch, prune | every handler |
| OpenID provider | transactions, codes, tokens, consents, clients, browser accounts, logout queue | authorize, exchange, revoke, suspend, sign in and out, notify | applications |
| Users and roles | accounts, token versions, roles, grants | sign in, reset password, edit roles, delete | every permission check |
| Content | challenges, game boxes, images, directories, attachments | import, build, check, delete, select | docker, registry, storage |
| Infrastructure | event bus, settings copy, rate windows, buckets, counters, terminals | publish, subscribe, invalidate, hit, connect | Redis, storage |
| Privileged helper | iptables and nftables rules, WireGuard links, docker objects | ensure, remove, apply, forward | called by all network code |

**What is hard here.** Few handlers hold a lock from end to end. Correctness rests
on compare-and-set updates, unique indexes, advisory locks, early returns when a row
is no longer in the expected state, and on recovery. Handlers are dropped by the
engine's timeout or by a crash after what they have committed; their retries read
the new state. Judge workers vanish, repeat a delivery, or answer after their lease.
Containers outlive the rows that describe them and are addressed by name. Time is
wall-clock time, which a pause is supposed to stop.

**What makes each part correct** is stated by the properties of section 3. The
`hazards` of `PROJECT.json` are the forty places where it is most easily lost; more
are in section 4.

## 2. Modules

| Module | Models |
| --- | --- |
| `AwdLifecycle` | the competition clock of one event: Verified to Finished, phases, rounds, pause and resume, the engine as its handlers meet it, boot recovery |
| `AwdJudge` | one judge batch, that of the final round: claim, lease, heartbeat, result, sweep, deadline, worker, restart |
| `JudgeVerdicts` | abstract specification: what judging promises, without workers, leases or retries |
| `AwdSubmission` | flags and captures against rounds, pauses, bans, adjustments and the finish |
| `AwdReset` | resets of one box by overlapping requests, with recovery |
| `AwdPreparation` | an event from configuration to start, and its archive |
| `AwdAccess` | the rendered firewall table, chain by chain, and what it lets through; bans, peers, phases and reconciles that produce it |
| `AwdAddressing` | CIDR arithmetic and the allocator, with addresses of `Width` bits |
| `AwdTokens` | the internal tokens, their rotation, the two containers and their networks; docker's objects with their ids, and what fcmc undoes or retries |
| `EventSchedule`, `AwdpSchedule` | planned start and precheck of an AWD event, by the engine or by hand, with the engine's back-off; durations and first tick of an AWDP run |
| `AwdpRun`, `AwdpFix` | an AWDP run up to Fix; its rounds, patches and evaluations |
| `AwdpPractice`, `AwdpNetwork` | a player's practice runs; networks and judges of events |
| `EventRoster`, `JeopardyScoring` | enrolments and teams; submissions and points on top of them (EXTENDS) |
| `JeopardyInstances` | containers of subjects and their cleanup |
| `TaskEngine`, `TrainingSync` | `scheduled_tasks`; the task that fetches the training site |
| `OidcGrants`, `OidcClients`, `OidcAccounts`, `OidcLogout` | authorization and tokens; applications; accounts of a browser; logout notices |
| `AccessControl` | accounts, tokens, roles and their ceiling |
| `Packages`, `ChallengeCatalogue`, `GameboxLibrary` | what an archive must look like; import, build, check and deletion of one entry |
| `Realtime`, `Settings`, `RateLimiter`, `StorageStartup`, `Terminal` | the services their names say |
| `Community` | discussions; write-ups with their stored files and the exported report; challenge sets, announcements, weapons, avatars; what deletions take along |
| `HelperNetwork`, `HelperDocker` | the helper's host commands; its docker proxy with fcmc on top |
| `MC*` | instances for TLC, see section 3 |
| `AwdLifecycleProofs`, `AwdJudgeProofs`, `AwdSubmissionProofs`, `AwdResetProofs`, `AwdPreparationProofs`, `AwdpProofs` | theorems and their TLAPS proofs; `MCAwdOps` and `MCBackground` hold those of the components they compose |

The state machines share the database but not a state space. Each keeps of the
others what its own code reads of them: the judge sees the event's status, captures
see status, phase and rounds, resets see status and phase, and the lifecycle sees that
a judge task became terminal (`JudgeTerminal`). Composition where the code composes:
`JeopardyScoring` extends `EventRoster` (points live in the roster's rows), both
catalogues extend `Packages`, and `HelperDocker` puts fcmc's client on top of the proxy.

### Conventions

* **A step is one statement.** A handler in flight is a record (`proc`, `thr`, `req`,
  `job`) whose `pc` names the statement it executes next and whose other fields hold
  what it has read. The set of handlers bounds how many are in flight; with one
  element they run one after the other, with two they interleave.
* **A transaction** that only becomes visible at its commit is one step.
  `process_submission` is several, because its inserts hold unique keys that others
  wait for until it commits; advisory locks are variables.
* **Updates by primary key** overwrite whatever the row has become. Compare-and-set
  updates test the row when they write.
* **Time** is the time left until a timestamp, never below zero, or a small clock.
  In `AwdLifecycle` ticks happen between handlers: a handler takes less than one unit
  of the clock (seconds in the code against minutes of a round).
* **Early returns** are alternatives that end the handler; an error that the engine
  sees reschedules the task with its back-off.
* **Data** is reduced to what the properties tell apart: a flag is its round and its
  box, a score event is membership in a set, a script is its outcome, a package is
  what the checks look at, a secret or token is a number that never repeats.
* **Settings, Worlds, Setups, Limits** are records of bounds: a behaviour picks one at
  the start and keeps it (`conf`, `world`, `setup`), so that one run covers several
  small instances.
* **Docker** in the models of resets, instances, AWDP and tokens is the daemon's
  own answer, as over a direct socket: a missing container is "not found". Behind the
  helper it is "forbidden"; the run HelperHidesMissing is about that difference.
* **History variables** (`hardened`, `played`, `waived`, `first`, `rebuilt`, `late`,
  `quiet`, ...) record what happened; no guard reads them.
* Definitions introduced by `Mutant:` are plausible wrong versions of the definition
  that follows them; no specification uses them.

### How state and actions correspond to the code

`map` in `PROJECT.json` gives the lines of every definition. The modules a reader
meets first:

* **AwdLifecycle.** `ev` is the `awd_events` row, `round[n]` the round with `end_at` and
  `remaining_secs`, `batch[n][k]` the k-th judge batch of round n, `tasks[s]` the
  `scheduled_tasks` of the event. `StartEvent`, `ScheduleHardening`: `start_event`;
  `HardeningEnd*`: `handle_hardening_end` with its two checks; `StartRound*`;
  `RoundEndGuard`, `EndRound*`, `CreateBatch`, `CreateTask`, `CreateBatchDone`,
  `ScheduleDeadline`: the round-end handler, in the order of its commits;
  `BatchDeadline`, `MaybeFinish*`, `FinishEvent`: final settlement; `Pause*`,
  `Resume*`: the administrator's calls, network reconcile included; `Fetch`,
  `Dispatch`, `Timeout`, `Retried`: the engine; `Crash`, `BootRecover`, `BootOnly`.
* **AwdJudge.** `task[t]` is the row with status, worker, attempt count, lease token,
  time left and stored result; `exec[t][n]` is what the worker that got attempt `n`
  does with it. `ClaimSweepRead`, `SweepWrite`, `ReclaimRead`, `ClaimCommit`:
  `judge_claim`, whose reclaim decides on an earlier read; `Heartbeat*`; `Result*`:
  `judge_result` with `submit_result` and the score; `Deadline*`; `ScriptEnds`,
  `RequestLost`, `*ReplyLost`, `WorkerDies`: worker and network. `JudgeVerdicts` is the
  promise: a box gets one verdict, a team pays only for a Down, nothing is paid in a
  pause and nothing moves once the event is over. `JudgePromise` instantiates it with
  `verdict`, `paid` and `event` computed from the rows.
* **AwdSubmission.** `issued`, `captures`, `bonus`, `adjusted` are the rows. `Issue*`:
  `issue_flag`; `SubmitEvent` to `SubmitVictimBan`: `validate_submission`;
  `SubmitRoundAgain`: the second read of the active round; `TxInsert`, `TxBonus`,
  `TxCommit`: `process_submission`. The find and the update of the round in a pause are
  one step here; their detail is `AwdLifecycle`'s.
* **AwdReset, AwdPreparation, AwdTokens, AwdpRun, AwdpNetwork, JeopardyInstances.** One
  action per statement of a handler, rows on one side (`status`, `rec`, `box`, `row`),
  containers on the other (`con`, `up`, `net`, `judge`); `Continue(t)` is the next
  statement of thread `t`, `Crash` loses the threads and their locks and keeps both. In
  `JeopardyInstances`, `ports` are the challenges with a container port, `gone` the
  deleted challenges and owners, `left` the instances whose container nobody answers for
  any more, `spent.tries` the failures in a row of the cleanup task.
* **AwdAccess.** A rule is the flows it matches, whether it asks for an established
  connection, and its verdict; a chain is the sequence of its rules, and the table the
  chain of banned sources followed by one chain per event, in whatever order the
  database returned them. `FirstVerdict` is nftables: the first rule that
  matches decides, a chain without one returns to the next. Consecutive rules of one
  verdict are one rule (the accept rules of the teams of an event, `OwnTeam`). Teams,
  their events (`PlaysIn`) and the members of a team (`PlaysFor`) are constants.
* **AwdpFix.** `round`, `eval` are the rows, `job[w]` what a worker holds, `applied`
  the patches in the container; `Cutoff` closes rounds and creates evaluations,
  `ClaimJobs`, `RecoverStaleRunning`, `AcceptResult` are the lease protocol, for workers
  inside the API and for the pull worker.
* **OidcGrants.** A transaction's row with its account, session, consent, CSRF number;
  the handlers of authorize, login, account choice, consent and token endpoint with
  their conditional updates.
* **HelperNetwork.** One action per host command (`iptables -C`, `-I`, `-D`, `nft -f`,
  `ip link`, `wg set`), because that is where requests interleave. A command that exits
  with an error stops the request (`CommandFails`) or, where only its exit code is
  looked at, reads as "not there" (`CheckMisreads`).

## 3. Runs

All runs pass or fail as declared in `PROJECT.json`.

| Run (module) | Instance | States |
| --- | --- | --- |
| LifecycleSafe (`AwdLifecycle`) | four setups: one handler, a pause, a crash or a network fault; one handler, a crash and a network fault at boot; one handler, two pauses, Hardening of 2; two handlers, a crash or an engine timeout | 1.9 million |
| LifecycleLive (`AwdLifecycle`) | one handler, one crash anywhere, fairness | 22 thousand |
| JudgeSerial (`AwdJudge`) | 2 boxes, 1 worker with 2 permits, 1 pause, requests one at a time, fairness | 1.0 million |
| JudgeRetry (`AwdJudge`) | 1 box, 2 workers, 3 claims, a crash, a dead worker, 2 lost messages, a ban | 3.0 million |
| Submit (`AwdSubmission`) | scenes: one request at a time over two rounds; two requests at once; pause, ban, crash, fairness | 318 thousand |
| AwdpMatch (`MCAwdp`) | the run of one box with two threads, a crash, a docker failure; seven settings of the Fix phase, fairness | 243 thousand |
| AwdpPractice (`MCAwdp`) | two practice runs or one that enters Fix twice; networks of two events, with a pool too small for them, with a crash, with a changed configuration, each with a docker call that fails; fairness | 455 thousand |
| AwdOps (`MCAwdOps`) | resets, preparation, access, addresses, tokens, each with overlapping requests and with faults; fairness | 894 thousand |
| Services (`MCServices`) | sixteen scenes: schedules, scoring, identity, content, infrastructure, publications, helper | 2.4 million |
| Background (`MCBackground`) | five scenes: instances, task engine, training site, logout, terminal; fairness | 379 thousand |
| PauseCutsRound (`AwdLifecycle`, violation) | one pause | - |
| HelperHidesMissing (`MCServices`, violation) | the docker proxy | - |

**Scenes.** Components that share no state are checked side by side: an MC module
instantiates several of them on the same variables and a behaviour belongs to one, its
`scene`, chosen in the initial state and never changed. This is a sum, not a product:
each component is explored exactly as if it were alone, and a property speaks of a
component under `scene = ...`. Variables a scene does not use have the value
`"unused"`. In `AwdLifecycle` the initial state chooses among `Setups` instead: the
length of Hardening, the handlers that may be in flight, and how often what may go
wrong; the choice is kept in `used.of`. TLC's coverage report (`-coverage`) shows no
action of a composed component that never happens.

**Properties** are conjunctions of named parts; a part is defined, with its comment,
in the module of the component.

| Property | Parts |
| --- | --- |
| RoundsInOrder, CompletedStays | rounds one after the other; an ended round never reopens; until the first pause, or with any pauses while handlers do not overlap (`Orderly`) |
| PauseFreezes | `PausedFreezesRounds`, `PausedPhase`, `HardenedInFull` (two pauses), `HardeningOnce` |
| RoundsSettled | `RoundPlayedInFull`, `OneBatchPerRound`, `FinishedIsSettled` |
| MatchGoesOn | `EventFinishes`, `RoundsGoOn`: see there for what each leaves out |
| ScoresMatchVerdicts | `PenaltyIsForDown`, `FinishedIsScored` |
| JudgePromise, AllJudged | refinement of `JudgeVerdicts`; every task gets a verdict though no worker has to work |
| AttemptsBounded, VerdictFromWorker, PenaltyFromWorker | bounded claims; verdicts and penalties only from checks that ran |
| NothingTakenBack | `KeepsVerdicts`, `HonoursLeases`, `KeepsScores` |
| FirstBloodIsFirst, NoCaptureLost, Answered | with and without overlap |
| FlagsCountOnce, RulesHold | `FlagOfItsRound`, `FlagScoresOnce`; `SparesBanned`, `SparesPaused`, `KeepsBoard`; without overlap |
| MatchScores | `BreakIsScored`; `FixNeedsPatch`, `PatchedIsScored`, `ScoredIsPatched` |
| FixStartsPristine, MatchEnds | no container of Break in Fix; PreparingFix, rounds and the run come to their end, unless an instance has lost its container for good (`Lost`) |
| PracticeConsistent | `OneOpenRun`, `BreakHasNoFixScore`; `SubnetsDisjoint`, `JudgeReachesPlatform` |
| HistoryStands, PracticeSettles | ended runs stand; PreparingFix is left, cleanup completes when no removal failed, the practice judge returns |
| ResetsFair | `PenaltyForRebuild`, `FreeResetsBounded`, `ReadyHasContainer` |
| DeployedAsRecorded, StartsAsChecked | `RunsOnItsNetwork`, `DeployedIsLocked`, `ArchiveIsEmpty`; a start with the configuration that was checked |
| AccessHolds | `Isolation`, `RevisionTellsStale`, `ConnectionsCut`, `NextHostFree`, `ActiveReachable`; `NoSilentMismatch` |
| AddressesDisjoint | `AllocationsDisjoint`, `LedgerMatchesRows`, `TeamBlocksDisjoint`, `PortsDistinct` |
| OperationsSettle | resets are answered, deployments and archives end unless something cut them off |
| CompetitionsHold | `PrecheckPrecedesStart`, `StartBeforeEnd`; `EndIsDerived`, `FirstLookSucceeds`, `RunAsConfigured`, `PendingFollowsStart`; `RosterWhole`, `FoundedHasCaptain`, `ScoreIsSum`, `EarlierIsWorthMore` |
| IdentityHolds | `UsableWasGranted`, `CodeHonoursPrompt`, `OneCodePerTransaction`, `ReplayKillsToken`; `RetiredRefused`, `HeldStaysHeld`; `SignedOutIsOut`, `AccountsBounded`, `AnsweredIsTrue`; `OutsideCeilingFrozen`, `SuperAdminRemains`, `DeadStaysDead` |
| ContentHolds | `ReadyRunsItsPackage`, `NothingStaysBuilding`, `ServesItsAttachment`; `ReadyIsOfOnePackage`, `ArchiveIsStored`, `ReferencedKeepsPackage` |
| PlatformHolds | `SequencesDiffer`, `SentOnce`, `NothingMissedSilently`; `StaleIsBounded`, `StaleHasACause`, `ResolvedInFull`; `WindowHolds`; `StartsInTime`, `EveryAttemptHappens`, `ReadyMeansUsable`; `CountersAgree`, `PublishedHolds` (`RowsNameObjects`, `OwnFileIsOwn`, `ResolvedToItsEvent`, `ReportIsWhole`, `ListedReadable`, `OneWriteupEach`, `SetsHoldBeginnings`, `AuthorsStand`) |
| HelperHolds, StepsHold | `CopiesBounded`, `AnswerHolds`; `ForeignUntouched`, `OwnManaged`; action properties `TableStays`, `RosterCloses`, `StartsAsShown`, `StartedStays` |
| BackgroundHolds | `RunningBounded`, `ContainersAccounted`, `CompletedIsGone`; `OneJobPerTask`, `AttemptsBounded`; `SiteServed`, `ServesWhatItSays`, `ReleasesBounded`; `RevokedIsQueued`, `SyncedIsTold`; `OneShellPerTicket`, `WithdrawnOpensNothing` |
| BackgroundSettles | no instance outlives its time, tasks settle or recur, the lock of the site comes back, deliveries settle, closed terminals end |

Some parts name the exceptions the code makes, so that everything else is still
checked: `late` in `AwdPreparation` and `AwdAccess` collects what a handler did on a
state it had read before it changed, and a part excludes exactly the kinds that break
it; `alone`, `quiet`, `excused`, `left`, `misread`, `raced`, `lost` do the same for tokens,
AWDP networks, settings, Jeopardy containers, the helper's checks, the floor of the event
numbers and the status of a failed import. Each exception is an entry of section 4.

**Docker and the host may refuse.** In the modules of containers and networks every call
to docker has, beside its effect, the outcomes the code lets happen: an error that is
returned, one that is only logged, one that reads as "not there". `fails` bounds how
many there are in a behaviour. The helper in front of docker answers 403 for a container
that has vanished: `AwdpRun` and `JeopardyInstances` (setting `helper`) have that refusal.

**Bounds and why they are enough.** Two rounds give a first, a next and a last round.
`RoundDuration = 2` lets a pause fall in the middle of a round and a task be fetched
(`Window = 1`) before its time. `Copies = 1..2` lets a round get one batch more than it
should; with six slots the lifecycle runs never lack a free one, so the bound hides
nothing. `MaxAttempts = 2` with `MaxClaims = 3` leaves room for the claim that must not
happen, and `LeaseTTL = 1` with `Deadline = 2` lets a lease expire before the deadline.
Two teams and one template are enough for two captures racing for one bonus, because
keys of different templates never meet. Elsewhere two threads, because every race
described in section 4 is one between two; two rows, names, events or boxes where
identity matters, three events for the allocator so that a pool runs out and is used
again, three resets for one free one. `MaxPauses`, `MaxCrashes`, `MaxNetFaults`,
`MaxTimeouts`, `MaxFaults` (fields of a setup in `AwdLifecycle`), `MaxDeaths`,
`MaxLosses`, `MaxBans`, `MaxAdjustments`, and the fields `crashes`, `fails`, `moves`,
`faults`, `requests` of the settings bound what goes wrong or is asked for, never where.
Where a scene combines faults and overlap, the setting lists name the combinations;
those left out (two threads and a crash, say) are left out because TLC could not finish
them in time. `WithFault` with `total` 2, a pause with both a crash and a network fault,
passes too (2.2 million states) and is not part of the run only for its length.

**Deadlock** is checked in the lifecycle runs, where the clock never stops. The others
switch it off: with all requests made and nothing in flight the system may stay as it
is.

**Fairness.**

* `AwdLifecycle`: a handler that has begun goes on (tokio polls it), the process is
  restarted when it died, time passes, the engine keeps polling (`WF Fetch`) and a
  fetched task gets a handler once its time has come (`SF Dispatch`, because requests
  may take the handler slots of the model in turn; the code has no such limit). The
  event is started once. Nobody has to pause, resume or finish it, and no worker has to
  answer.
* `AwdJudge`: handlers in flight go on, the deadline task is run, time passes. No
  worker has to poll, run or answer, and nobody has to resume the event. `Tick` and the
  deadline task are strongly fair for the same reason as above.
* `AwdSubmission` and the operations of `MCAwdOps`: a handler that has begun goes on.
  Nobody has to make a request.
* `AwdpRun`, `AwdpFix`, `AwdpPractice`, `AwdpNetwork`: besides, the tick and the cron
  task, which the engine repeats, are run; leases age; some worker polls. Strong
  fairness only where the advisory lock or the slots of the model come and go.
* `MCBackground`: the engine polls and boots again, time passes, the cleanup task and
  the delivery worker run, a closed socket's loop ends. No application has to answer a
  notice, no user to close a session.

## 4. Where the code departs from its specification

Two departures are runs of the project, recorded as findings with the lines they
contradict: PauseCutsRound (`src/docs/awd-spec.md`) and HelperHidesMissing (a comment
of fcmc). The others were met while modelling. Those of the AWD core are reproduced by
changing constants: lifecycle rows start from `LifecycleLive.cfg` (with `Spec` unless
said) and the named part as the property, with a setup that changes `Quiet` of
`AwdLifecycle`: what is named is allowed once, `total` is the sum, and "1" and "2" are
the handlers in `procs`. Judge rows start from `JudgeRetry.cfg` with
`Procs = {p1, p2}` and the fault bounds zero. Submission rows start from
`Submit.cfg` with the named part, which the scene "overlap" violates; `KeepsBoard` takes
`RoundCount = 1` and an `Admits` that is always true.

| Part | Instance | What happens |
| --- | --- | --- |
| RoundsGoOn | lifecycle, 1, `FairSpec`, a pause | a resume with nothing left of Hardening moves to Attack and starts no round (`event_service.rs:380`) |
| RoundsGoOn | lifecycle, 1, `FairSpec`, a timeout | the timeout drops `handle_hardening_end` after the phase change, the retry returns early (`engine.rs:179`) |
| EventFinishes | lifecycle, 1, `FairSpec`, a crash, its exception for crashes removed | the batch being made at the crash gets no deadline task when another is pending (`scheduler/mod.rs:798`) |
| EventFinishes | lifecycle, 1, `FairSpec`, a pause | the last verdict comes in during a pause and nothing finishes the event after the resume (`round_service.rs:460`) |
| HardenedInFull | lifecycle, 1, `hardening` 2, a pause, a network fault | the remaining time is cleared before the reconcile of the resume fails (`event_service.rs:355`) |
| FinishedIsSettled | lifecycle, 1, a crash or a timeout; or 2 | Completed is committed before the batch exists: it is never made, or another handler finishes the event first (`round_service.rs:315`) |
| PausedFreezesRounds | lifecycle, 2, a pause | a pause and the start of a round pass each other (`event_service.rs:250`) |
| PausedFreezesRounds | lifecycle, 1, a pause, a crash | the crash falls between the round and the event of a resume (`event_service.rs:418`) |
| PausedPhase | lifecycle, 2, a pause | the phase update of `handle_hardening_end` lands after the pause (`scheduler/mod.rs:625`) |
| HardeningOnce | lifecycle, 2, a pause | the pause saves a phase it read before Hardening ended (`event_service.rs:263`) |
| OneBatchPerRound | lifecycle, 2, a crash | boot adds a second round-end task next to the one it requeues (`round_service.rs:478`) |
| KeepsVerdicts, HonoursLeases | judge | a reclaim writes over a verdict or a renewed lease committed since its read (`judge_repo.rs:104`) |
| PenaltyIsForDown | judge | a sweep overwrites a Down that is being scored (`judge_repo.rs:118`) |
| AttemptsBounded | judge | a late worker error releases a task somebody else has claimed (`internal.rs:302`) |
| KeepsScores, JudgePromise | judge, `TaskCount = 2`, `MaxClaims = 2`, or `MaxPauses = 1` | the finish or a pause falls between the status check and the penalty (`internal.rs:348`) |
| FinishedIsScored | judge, `Procs = {p1}`, `MaxCrashes = 1` | the crash falls between Down and its penalty, the boot finishes the event (`internal.rs:342`) |
| FlagOfItsRound, FlagScoresOnce | submission | the flag is checked in one round, scored in the next, so it can score twice (`player.rs:208`) |
| SparesBanned | submission | a ban commits after the checks (`flag_service.rs:188`) |
| SparesPaused, KeepsBoard | submission | a pause or the finish commits after the check (`flag_service.rs:152`, `score_service.rs:113`) |

`awd-spec.md` §9 counts a capture once per (attacker team, round, event gamebox), while
the unique key of the code is on the instance. The model follows the code.

The remaining departures are described by component. The model contains the behaviour
unless an entry says "not modelled" or "outside the bounds"; a property that the
behaviour would break leaves it out, with the exception in its formula and in its comment.

* **Resets.** An administrator's reset uses up the free count. Overlapping requests
  each see the last free one (`reset_service.rs:191`). A penalty may be written after
  the finish; a crash after Ready loses it. A crash that leaves Resetting without a
  pending record makes `execute_reset` and `recover_in_flight_reset` call each other
  (`:286`). When docker fails to remove the container (behind the helper: always, once it
  has vanished) the reset fails; with requests that overlap a failure may leave a Ready
  box without its container.
* **Preparation.** After a failed deployment and a reallocation the old containers keep
  their names and the event cannot be deployed again, against the comment at
  `deploy_service.rs:200`. A late unlock takes the lock of a deployment that succeeded
  meanwhile; a reallocation that read the row unlocked overtakes a deployment. A
  deployment whose event was marked DeployFailed by another one, and then reconfigured,
  goes on in the old subnet while the event is reallocated, and a reallocation between
  the checks and the verdict of a precheck is not noticed (the attempt to prove
  `RunsOnItsNetwork` found both). A straggler may mark an event Deployed that the next
  deployment has not locked yet; if that one dies first the lock is missing. A team
  added after the deployment passes the precheck; a crash between a container and its
  row leaves the name taken. A precheck that cannot list the forward rules adds a note
  and passes (`precheck_service.rs:290`; `skipped`). The archive goes on to Archived when
  containers, rules or the network could not be removed (`archive_service.rs:108`, `:195`;
  `left`), and does not know a network whose record a failed inspection lost. An error of
  the firewall reconcile after that, like a crash, leaves the subnets held until somebody
  archives the event again (`:212`; `cut`); a reallocation after the archive takes a
  subnet again.
* **Access.** The last reconcile to apply may carry the older state, and the revision is
  read and written without a lock (`firewall_service.rs:211`). An unban restores the
  peers of other banned teams too; several bans of a team may be active. A crash
  between a peer's row and the counter blocks the team's later peers
  (`wireguard_service.rs:129`). VerificationFailed and Configuring are not in the
  firewall's desired set, though the comment at `firewall_service.rs:16` counts them.
* **Addresses.** A team prefix of /30 to /32 is accepted; teams keep their blocks when
  the event is reallocated; ports of archived events are never used again; `mask()` of
  /0 shifts by the full width (not modelled).
* **Tokens.** Two rotations that overlap both answer success and may leave containers
  with the older token; a missing network row is reported after the commit.
* **Schedules.** `find_event_start_schedule` sees enabled rows only (`scheduler/mod.rs:222`)
  and the replacement all of them: after an operator disables a planned start, times can
  be moved past it, and enabling it brings back a start after the end. A claimed start
  runs although it was disabled; a running or panicked precheck refuses every change of
  times. `ensure_by_event_id` and `create_competition_run` read the times before they
  insert: an overlapping change leaves durations that do not fit (`event_repo.rs:54`).
  `update_config` is accepted in PreparingFix and after Ended, against `config.rs:5`.
* **AWDP.** `record_break` commits before its score (`break_service.rs:141`). A crash
  between the last round and the phase leaves the run in Fix (`tick_service.rs:195`). A
  round without evaluations never completes. The worker inside the API scores before
  the lease is checked. Starting an instance takes no lock. Two active runs are
  possible where the unique index has NULLs (`run_repo.rs:224`). The pull worker gives
  up on any status, against its comment (`awdp-judgeserver/src/main.rs:413`). A judge
  created before a crash and not yet connected is never connected; released subnets are
  not used again; its token is derived from another key than the one that checks it
  when the two are configured apart (`practice_judge.rs:631`). A judge that docker refuses
  to join to the control network runs without it, and later deployments keep it
  (`practice_judge.rs:521`; `ctl = "refused"`). Finish and deletion release the row although
  boxes, judge or network could not be removed (`:700`, `:718`, `:806`), a start under way
  comes after them, and the deletion does not know boxes started since its snapshot
  (`quiet`). An instance whose container has vanished cannot be reset behind the helper:
  the run stays in PreparingFix (`runtime.rs:547`; `Lost`).
* **Practice.** Rounds of an earlier session keep its times; `start_training` overlooks
  PreparingFix; the tick that ends Fix leaves the containers running; an ALL Check in
  flight ends a run that was rewound.
* **Jeopardy.** A crash between the container and its rows leaves the name taken, so
  that the subject cannot launch that challenge again; a failed start or a failed
  compensation leaves the container likewise. A late destroyer, or the cleanup task with
  its list, removes the relaunched container by name. Clearing the port of a challenge makes
  the removal complete the row and forget the container (`instance_service.rs:406`);
  deleting a user, a team or a challenge takes the rows that would have led to the
  container (`left`). An instance of a deleted challenge is no candidate of the cleanup any
  more (`instance_repository.rs:93`). One instance that cannot be removed (behind the
  helper: one that has vanished before its row was completed) fails the cleanup task, and
  after `max_attempts` runs the task is failed for good (`practice_handlers.rs:65`;
  `spent.tries`). The limit of running instances is checked, then used.
  `remove_user_from_team` reads the members and then deletes by user: one who changed
  teams in between is removed from the other team (`event_teams.rs:424`). Deleting a
  team drops its solves, so that later ones are worth more.
* **Task engine.** Running a row by hand while it runs executes it twice, or the request
  is lost in the first job's `mark_done`. A handler that panics leaves the row running
  until the next boot; the boot of a second process resets rows another one runs.
  Startup tasks are dispatched without a claim.
* **Training site.** A run after a crash between the switch and REVISION removes the
  directory that `current` points to before it renames the new one into place.
* **OpenID.** `set_status` writes what was decided on an earlier read: an owner's enable
  overtakes a suspension (`clients.rs:399`, against the comment at `:229`; the overlap is
  behind the constant `Overlap` of `OidcClients`). Two consents lose one union of scopes.
  With two tabs, a consent that was read before a revocation and is written after another
  grant brings the revoked scopes back (`store.rs:801`; outside the bounds: the setting with
  a revocation has one tab, since with two TLC does not finish). A `max_age` other than 0
  is not modelled.
  A crash between revocation and queue leaves applications untold. Two logins at once
  rotate the container's secret twice.
* **Accounts.** Permissions of the actor are resolved before the lock. Changing a
  password through the profile or by an administrator does not raise the token version.
  Deleting a user may remove the last super administrator (`user/mod.rs:320`). Two
  resets with one token both succeed.
* **Content.** A failed game box import cannot be repeated with the same version and
  Check does not repair it. Overlapping imports may lower the version or mix image and
  metadata. The status of a failed import is written with its error ignored: when that
  fails too the entry stays "building" (`import_service.rs:314`; `lost`).
  `sanitize_build_error` cuts at a byte and panics inside a character (not
  modelled). Deletion removes the directory before the row.
* **Infrastructure.** Without Redis numbers are per node and repeat. A floor read before
  Redis lost its counter and written after it gives numbers again (`publisher.rs:290`;
  `raced`), and so would a clock that is behind the lost counter (not modelled). Events published
  while a subscriber reconnects are lost to its node. A slow reader stores an old map
  after the invalidation, and a database error is stored as an empty map, for a minute.
  Clocks of nodes that differ, and a call that waits for Redis after it read the clock,
  shorten the rate window. A crash between a bucket and its
  policy leaves it without one. Counters of likes and comments lose updates; a moderator
  does not decrement. A permission withdrawn does not end a running shell.
* **Helper.** A missing container or network is refused with 403 where fcmc expects 404:
  behind the helper a reset whose container is gone fails for ever, and so do AWDP stops
  and failed Jeopardy instances. A check that fails for another reason reads as "not there":
  `iptables -C` then inserts one more copy (`docker_forward.rs:50`), `ip link show` lets a
  removal answer Ok with the interface still up (`wireguard.rs:55`; `misread`). Overlapping
  ensures insert a rule twice and a removal
  takes one copy. Overlapping first applies of a table load on top of each other. The
  proxy inspects a name and then forwards the name: when it changes hands in between, the
  call reaches an object nobody judged (`docker_proxy.rs:115`; `raced` marks what was
  touched that way and `ForeignUntouched` leaves it out).
* **Publications.** The report of an individual competition looks a write-up up by its
  user alone, so it may link to that user's file of another event. Two rows with one
  object key (two members of a team) make the export of the packed report fail. First
  posts that overlap leave two write-ups of a user for one challenge. A request that
  fails while it fills a challenge set leaves a beginning of its list. Replies and
  removals by a moderator are not reflected in the comment counter. Objects are never
  deleted from the storage.

## 5. Proofs

The theorems are about the same specifications the runs check, for every value of the
constants that the named assumptions of the modules allow (`LifecycleConstants`,
`JudgeConstants`, `SubmissionConstants`, `ResetConstants`, `PreparationConstants`,
`MatchAssumption`, `PracticeAssumption`, `BackgroundAssumption`, `OpsConstants`,
`AddressConstants`): any number of rounds, teams, boxes, handlers, workers, attempts. TLC
evaluates every assumption in the run of its module, and checked every inductive
invariant on the instance of a run before it was proved.

In the composed specifications what is proved is what the run checks: the theorem is
about `Spec` of the MC module, its constants arbitrary, its lists of settings the ones
written there. The components' own lemmas (`...Init`, `...Next`, `...Results`) use of a
setting little more than its types.

| Module | Theorems | Lemmas | Obligations |
| --- | --- | --- | --- |
| `AwdLifecycleProofs` | 5 | 167 | 5898 |
| `AwdJudgeProofs` | 8 | 111 | 2635 |
| `AwdSubmissionProofs` | 7 | 63 | 1280 |
| `AwdResetProofs` | 4 | 21 | 1022 |
| `AwdPreparationProofs` | 5 | 36 | 1571 |
| `AwdpProofs` | 4 | 201 | 3603 |
| `MCAwdOps` | 6 | 167 | 5833 |
| `MCBackground` | 1 | 135 | 5264 |
| all | 40 | 901 | 27106 |

### The competition clock: `AwdLifecycleProofs`

| Theorem | Property |
| --- | --- |
| `TypeCorrect` | `TypeOK` |
| `RoundsKeepOrder` | `RoundsInOrder` |
| `CompletedRoundsStay` | `CompletedStays` (action property) |
| `RoundsStaySettled` | `RoundsSettled` |
| `PausesFreeze` | `PauseFreezes` |

None of these is inductive. The invariant comes in seven layers, each preserved by
every action on the strength of the ones before it, and each as strong as its
properties need:

1. `TypeInv`: types, and what they rest on. A handler that fails or times out puts its
   task back with one attempt fewer, so the task it holds must still be running:
   `TasksHeld` says so and that no two handlers hold one task. `FrameIds` and `TaskIds`
   say which identifiers a frame has at which statement.
2. `OrderInv`: before a round is inserted, written or given a batch, its predecessors
   are completed, and what the handler has read of the round is still so (`FrameOrder`).
   It is said under `Orderly`: nobody has paused yet, or handlers do not overlap.
   Outside it the claim is false. `pause_round` and `resume_round` write the row they
   read, by its id and whatever became of it, so that a pause overlapping the end of a
   round reopens it; the proof attempt found this case.
3. `ClockInv`: until the first pause the time a round was played and the time left until
   `end_at` add up to its duration, a task that ends a round is due no sooner than the
   round, and a handler in the middle of ending a round has found it over.
4. `BatchInv`: without overlap the handler about to make a batch finds none, and only
   completed rounds have one. That covers the retry after a timeout, the second end
   task that boot may add, and the restored task.
5. `FinishInv`: without overlap and as long as nothing failed a completed round has a
   batch or the handler that is about to make it, and the finish has seen every round
   settled. Crash and timeout are excluded because they lose that handler (section 4).
6. `PauseInv`: without overlap, through all failures: which phases go with which status,
   what a pause or resume in flight has seen, and that Hardening is only ever re-entered
   while no round exists.
7. `HardeningInv`: as long as nothing failed, Hardening time spent and Hardening time
   kept (in the row, in the remaining seconds, or in the frame of a pause or resume)
   always add up to its length.

### Judging: `AwdJudgeProofs`

| Theorem | Property | Assumes |
| --- | --- | --- |
| `TypeCorrect` | `TypeOK` | - |
| `VerdictsComeFromWorkers` | `VerdictFromWorker` | - |
| `PenaltiesComeFromWorkers` | `PenaltyFromWorker` | - |
| `RetriesBounded` | `AttemptsBounded` | `OneAtATime` |
| `VerdictsStand` | `NothingTakenBack` (action property) | `OneAtATime` |
| `ScoresAgree` | `ScoresMatchVerdicts` | `OneAtATime`, `MaxCrashes = 0` |
| `JudgingKeepsPromise` | `JudgePromise` (refinement) | `OneAtATime` |

*Any overlap* (`InvHolds`). `VerdictFromWorker` is not inductive: a `judge_result` that
is about to write must be known to carry an outcome that some execution really has, and
that execution must not be reset by a later claim. `Inv` therefore adds
`AttemptsInOrder` (no execution exists beyond the attempt the row counts, so a claim
always writes a fresh one, and an execution with an outcome has ended), `FrameOK` (a
handler of a result refers to an execution that has ended, and one on its way to a
penalty to an outcome that means Down), `VerdictKnown` and `PenaltyKnown` (the witness of
a stored verdict and of a penalty). It is the argument that retries, lost answers,
restarts and sweeps, interleaved at will, never invent a verdict.

*One handler at a time* (`AloneHolds`). The other four are false when requests overlap
(section 4): the updates are by primary key. `OneAtATime` assumes that `Procs` has at
most one element, and `MaxAttempts <= 2`, the value the code gives every task; workers, lost and
repeated messages, leases and restarts stay arbitrary. `AloneInv` adds `RowOK` (a
pending task has an attempt left, a stored result is that of the last attempt, a closed
task that could be retried has a verdict) and `FreshRead` (what the handler has read is
still so when it writes). Without a restart also `DownsCharged`: a Down is paid for,
waived, or about to be charged by the handler in flight. `JudgingKeepsPromise` maps
initial states to initial states and every step to a verdict, a payment, a move of the
event, or a stutter of `JudgeVerdicts`.

### Captures: `AwdSubmissionProofs`

| Theorem | Property | Of |
| --- | --- | --- |
| `TypeCorrect` | `TypeOK` | `Spec` |
| `FirstBloodToTheFirst` | `FirstBloodIsFirst` | `Spec`, any overlap |
| `CapturesAreNotLost` | `NoCaptureLost` | `Spec`, any overlap |
| `FlagsScoreOnce` | `FlagsCountOnce` | `SceneSpec`, scene "serial" |
| `RulesStand` | `RulesHold` (action property) | `SceneSpec`, scene "serial" |

The invariant for any overlap adds `FrameOK` (what a handler in a transaction has read),
`BonusKnown` (a transaction about to commit holds the bonus key exactly when nobody has
the bonus) and `OneClaim` (at most one open transaction holds the key of a template). The
unique index and the wait of `ON CONFLICT DO NOTHING` are what makes it inductive.
`SerialInv` is about requests that do not overlap: at most one frame is busy, at most one
round is current, and `Fresh`: status, round, bans and board are still as the handler in
flight has read them. The two properties are false with overlap (section 4).

### Resets: `AwdResetProofs` and `MCAwdOps`

| Theorem | Property | Of |
| --- | --- | --- |
| `PenaltiesAreForRebuilds` | `PenaltyForRebuild` | `AwdReset!Spec`, any overlap and fault |
| `FreeResetsStayBounded` | `FreeResetsBounded` | `AwdReset!Spec` |
| `ReadyBoxesRun` | `ReadyHasContainer` | `AwdReset!Spec` |
| `ResetsStayFair` | `ResetsFair` | `MCAwdOps!Spec`, the composition the run `AwdOps` checks |

`Inv` adds `FrameOK` (at every statement: which record a request in flight stands for,
that it grants what the record says, and that it has rebuilt the container before it
charges), `FreeBound` (the free resets recorded and the ones granted to requests that
have yet to record them, together less than the quota plus the requests at once; the
record alone is not inductive), `SomebodyCreates` (as long as nothing failed, a box
without a container has a request about to create one) and `AloneOK` (one request at a
time: a box without a container is not Ready, whatever crashed or failed before).
`ResetsStayFair` instantiates the component's proof for the variables of
the scene: a step of the scene is a step of the resets or leaves their variables alone.

### Preparation: `AwdPreparationProofs` and `MCAwdOps`

| Theorem | Property | Of |
| --- | --- | --- |
| `RunningOnItsNetwork` | `RunsOnItsNetwork` | `AwdPreparation!Spec`, any overlap, crashes and failures |
| `DeployedStaysLocked` | `DeployedIsLocked` | `AwdPreparation!Spec` |
| `ArchiveStaysEmpty` | `ArchiveIsEmpty` | `AwdPreparation!Spec` |
| `StartIsChecked` | `StartsAsChecked` (action) | `AwdPreparation!Spec` |
| `DeployedStaysAsRecorded` | `DeployedAsRecorded`, with the type invariant | `MCAwdOps!Spec` |
| `StartIsOfWhatWasChecked` | `StartsAsChecked` (action property) | `MCAwdOps!Spec` |

`Inv` has one part for each property, because none says enough about the requests in
flight. `NetworkOK`: every container is in the docker network; the forward rules, which
the precheck looks at, are those of the event's subnet only if the docker network is in
it; so is the network of every deployment past its creation. A precheck that passed with
its rules listed, and the event it verified, have those rules. `LockOK`: a deployment past
its lock on an event that is Deploying finds it locked, or the next deployment is about to
lock it. `CheckOK`: as long as no configuration changed under a verdict or a start, what
they are about is what was checked. `ArchiveOK`: once an archive has begun nobody deploys, and its containers stay
gone while it removes the network unless docker failed to remove one. `Bounds` counts the
reallocations in flight, so that the number of subnets stays below that of the changes
asked for. Each part keeps the
exception its property has (`late`).

### Access rules, addresses and tokens: `MCAwdOps`

| Theorem | Property |
| --- | --- |
| `AccessAlwaysHolds` | `AccessHolds` |
| `AddressesStayDisjoint` | `AddressesDisjoint` |
| `TokensStayCurrent` | `TokensCurrent`, the tokens' part of `AccessHolds` |

*Access.* `Isolation` is about the table that is on the host, for any number of events
and teams and every order of the chains. The lemmas go from the rule to the table: the
first verdict decides (`FirstDecides`), a chain is its rules one after the other
(`ChainCases`), each policy says what its lines of `render.rs` are for
(`HardeningSays`, `AttackSays`, ...), the chain of another event returns for a new
connection (`OtherEventReturns`), an order of a finite set lists every event
(`OrderHasAll`); together `TableDecides`. The inductive invariant is about the requests
in flight. `Addresses`: every address of a team below its counter is taken, so of the
requests that have read the same address only one can insert it, the one at the counter.
`Reached`: who belongs on the host is there, or somebody is about to add it. `Revisions`:
a table with the current revision renders the rows, or a request whose change it lacks
has yet to write its own; for the tables already built and not applied as well. `Cut`:
the table has the policy of an event or the request that moved it has yet to apply it,
and that request flushes. Each part keeps the exceptions of its property (`late`).

*Addresses.* `AddressesDisjoint` alone is not inductive: `Asked` and `Recorded` say what
a request and the ledger are about, `LaidOut` that blocks are aligned to their size and
inside the space and that the servers have the first team block, `Seated` that a team
has the block of its slot and its slot alone. The argument is that aligned blocks which
do not overlap in the sense of the code's test share no address (`ApartIs`), and that
the n-th subnets of a block are inside it and disjoint (`SubnetIs`, `SubnetsApart`). `AddressConstants` states
`2 ^ (m + n) = 2 ^ m * 2 ^ n` for the exponents up to `Width`: the provers have no rules
for powers with a symbolic exponent, and TLC evaluates it.

*Tokens.* `Counted` bounds tokens and versions by the rotations that began. `Alone`: as
long as a rotation is the only one, the row has its tokens and the containers it has
created are its own, by id, with its tokens: a deployment beside it can lose the race
for the name and undo what it created, never what the rotation did. `Settled`: after
the rotation's success nobody is left who would take one of these containers away.

### AWDP: `AwdpProofs`

| Theorem | Property | Of |
| --- | --- | --- |
| `MatchScoresHold` | `MatchScores` | `MatchSpec` |
| `FixAlwaysPristine` | `FixStartsPristine` (action property) | `MatchSpec` |
| `PracticeStaysConsistent` | `PracticeConsistent` | `PracticeSpec` |
| `HistoryAlwaysStands` | `HistoryStands` (action property) | `PracticeSpec` |

Four components, each with its `Inductive`. A step is judged part by part: predicates
over the next state (`RunData`, `FixEvals`, `PracRows`, `NetJudges`, ...) say what it may
do to a part, and one lemma per component (`RunStepKeeps`, `FixStepKeeps`, ...) says that
together they keep the invariant, so that the proof of an action only shows which it
obeys. What the invariants add to the properties:

* `AwdpRun`: a container has a row (`RowsExist`), and the boxes a reset loop has left
  behind have no container of Break (`ResetsLeaveNone`). A start without the lock may
  create one in between, but in the phase the run is in by then.
* `AwdpFix`: `JobsJustified`, what a worker in flight holds: a result about to be scored
  is of a patch applied in time, one about to be finished as patched has its score, one
  about to be rewarded is on record. Without a worker inside the API the score follows
  the verdict (`ScoreFollows`); with one it may precede it.
* `AwdpPractice`: the unique index row by row, a session left for every run that may
  still enter Fix, and the one ALL Check that may own a score in Break.
* `AwdpNetwork`: which threads are about an event of a competition, that a row has a
  block, and that a judge which has not joined the control network, and was not refused,
  has as its owner the thread that created it and will join it.

### Work in the background: `MCBackground`

`BackgroundAlwaysHolds` states `BackgroundHolds`: twelve parts of five components.

* `Terminal`: a handshake that was let through has spent its ticket and no other has the
  same; a shell belongs to a session whose permission was read again.
* `TrainingSync`: the job that is under way holds the lock; directories, link and marks
  only go forward; no two releases have the same age (`Ages`). `ReleasesBounded` then
  rests on a fact about finite sets, `NewestKept`: of a set whose members differ in age
  at most k have fewer than k newer ones. It is proved by taking the oldest of them.
* `TaskEngine`: a task that nobody runs by hand has at most one job, which holds its row
  (`Single`); failures are the attempts of the row, those lost to crashes, and the one
  in the job's hand (`Counted`).
* `JeopardyInstances`: running instances and launches that passed the check are counted
  together (`LimitHolds`): the rows alone are not inductive. `OneName`: an id is of one
  container, under the name its row, its launch, its removal and the list of the cleanup
  task know; a removal about to complete its row has removed the container or found it in
  `left`.
* `OidcLogout`: a request is confirmed once; a row being delivered is pending and in one
  hand; which applications a logout under way has still to tell (`Progress`).

### Only model-checked

* Liveness (`MatchGoesOn`, `AllJudged`, `Answered`, `MatchEnds`, `PracticeSettles`,
  `OperationsSettle`, `BackgroundSettles`): fairness and ENABLED are out of the prover's
  reach.
* The properties of `MCServices` (`CompetitionsHold`, `IdentityHolds`, `ContentHolds`,
  `PlatformHolds`, `HelperHolds`, `StepsHold`). The module reaches the RECURSIVE
  operators of `Settings` (the resolution of references), which the prover does not
  take; what they compute for every input would need induction over data besides.

## 6. Not modelled

Calls of the host and of docker are modelled by what they do to the objects they
name, not by packets or images. Points of AWD and AWDP are not summed (the board is the
set of score events), so the ranking of AWD is left out; Jeopardy's points, scoreboard
and trend are in `JeopardyScoring`. What scripts, exploits and builds do is their
outcome. Cryptography is numbers that do not repeat; signing keys, discovery documents
and mails are left out. Filters and paging of lists, searches, audit records and texts are left out, as
are the parsing of configuration, the command line of fcmc, generated entities and
migrations beyond the indexes the models use, web front ends and deployment.
PostgreSQL is taken at its default isolation level, READ COMMITTED; a lost database
session, which would free advisory locks while its holder works, is not modelled. The
periodic cleanup of expired OpenID rows and the nftables rules of AWDP practice are not
modelled.

## 7. Plan

1. Proofs about the services, component by component: the rate window, the copies of a
   rule that overlapping ensures leave behind, the one-use codes of the OpenID provider.
2. The AWD ranking as an operator against a reference definition; the periodic cleanup of
   OpenID rows.

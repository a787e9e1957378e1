--------------------------- MODULE AwdSubmission ---------------------------
(***************************************************************************)
(* Flags and captures of one AWD event in its Attack phase: a box asks for *)
(* its flag of the round, another team submits it, the capture is scored,  *)
(* the first capture of an EventGameBox earns the bonus, while rounds      *)
(* change and administrators pause, ban, adjust scores and finish.         *)
(*                                                                         *)
(* A step is one committed statement, or one statement of the transaction  *)
(* process_submission: its inserts hold their unique keys until it commits *)
(* or is rolled back, and an insert that meets a key held by another       *)
(* transaction waits for it.  Flags are deterministic, so a flag is its    *)
(* round and its box.                                                      *)
(*                                                                         *)
(* A request that is refused before it writes leaves no trace: its first   *)
(* check is the guard of its first step, later checks send it to idle.     *)
(***************************************************************************)
EXTENDS Integers, FiniteSets

CONSTANTS
    Teams,
    Templates,     \* event_gameboxes; every team has one instance of each
    RoundCount,    \* awd_events.round_count
    Procs,         \* handlers that may be in flight at once
    MaxPauses, MaxBans, MaxCrashes, MaxAdjustments   \* bounds of a run

ASSUME SubmissionConstants ==
    /\ RoundCount \in Nat \ {0}
    /\ {MaxPauses, MaxBans, MaxCrashes, MaxAdjustments} \subseteq Nat
    /\ "nobody" \notin Teams \cup Templates

VARIABLES
    ev,        \* status and phase of awd_events
    round,     \* status of awd_rounds, by number
    banned,    \* teams with an active row in awd_team_bans
    issued,    \* awd_flag_issues
    captures,  \* awd_flag_submissions, each with its attack and its victim-loss score event
    bonus,     \* the first-bonus score event of each template
    adjusted,  \* adjustment score events
    proc,      \* the handlers in flight
    first,     \* history: whose capture of the template was the first to commit
    used       \* pauses, bans and crashes so far

vars == <<ev, round, banned, issued, captures, bonus, adjusted, proc, first, used>>
board == <<captures, bonus, adjusted>>

Rounds  == 1..RoundCount
Boxes   == [team : Teams, tpl : Templates]
Flags   == [round : Rounds, box : Boxes]
Nobody  == "nobody"
NoFlag  == [round |-> 0, box |-> [team |-> Nobody, tpl |-> Nobody]]
Idle    == [pc |-> "idle", by |-> Nobody, flag |-> NoFlag, n |-> 0, gets |-> "nothing"]

(* Attack has begun: round 1 is there. *)
Init ==
    /\ ev = [status |-> "Running", phase |-> "Attack"]
    /\ round = [n \in Rounds |-> IF n = 1 THEN "active" ELSE "none"]
    /\ banned = {} /\ issued = {} /\ captures = {}
    /\ bonus = [e \in Templates |-> Nobody]
    /\ adjusted = 0
    /\ proc = [p \in Procs |-> Idle]
    /\ first = [e \in Templates |-> Nobody]
    /\ used = [pauses |-> 0, bans |-> 0, crashes |-> 0]

At(p, pc)   == proc[p].pc = pc
Goto(p, pc) == proc' = [proc EXCEPT ![p].pc = pc]
Finish(p)   == proc' = [proc EXCEPT ![p] = Idle]
Attended    == \E p \in Procs : At(p, "idle")

(* is_active and allows_flag_issue, allows_flag_submission *)
Playing == ev.status \in {"Running", "Paused"} /\ ev.phase = "Attack"

(* find_active_round takes a paused round for an active one. *)
Current == {n \in Rounds : round[n] \in {"active", "paused"}}

---------------------------------------------------------------------------
(* flag_service::issue_flag, called by the flag server for a box *)

IssueEvent(p, b) ==
    /\ At(p, "idle") /\ Playing
    /\ proc' = [proc EXCEPT ![p] = [Idle EXCEPT !.pc = "i_round", !.by = b.team,
                                                !.flag = [round |-> 0, box |-> b]]]
    /\ UNCHANGED <<ev, round, banned, issued, captures, bonus, adjusted, first, used>>

(* A box that is not healthy is refused here. *)
IssueRound(p) ==
    /\ At(p, "i_round")
    /\ \/ \E n \in Current :
             proc' = [proc EXCEPT ![p].pc = "i_ban", ![p].flag.round = n]
       \/ Finish(p)
    /\ UNCHANGED <<ev, round, banned, issued, captures, bonus, adjusted, first, used>>

IssueBan(p) ==
    /\ At(p, "i_ban")
    /\ IF proc[p].by \in banned THEN Finish(p) ELSE Goto(p, "i_find")
    /\ UNCHANGED <<ev, round, banned, issued, captures, bonus, adjusted, first, used>>

(* find_issue_by_hash and find_or_create_issue look for the flag. *)
IssueFind(p) ==
    /\ At(p, "i_find")
    /\ IF proc[p].flag \in issued THEN Finish(p) ELSE Goto(p, "i_insert")
    /\ UNCHANGED <<ev, round, banned, issued, captures, bonus, adjusted, first, used>>

IssueInsert(p) ==
    /\ At(p, "i_insert") /\ proc[p].flag \notin issued
    /\ issued' = issued \cup {proc[p].flag}
    /\ Finish(p)
    /\ UNCHANGED <<ev, round, banned, captures, bonus, adjusted, first, used>>

(* The unique key is taken: an error, and the flag server asks again, which *)
(* is a request like any other.                                            *)
IssueClash(p) ==
    /\ At(p, "i_insert") /\ proc[p].flag \in issued
    /\ Finish(p)
    /\ UNCHANGED <<ev, round, banned, issued, captures, bonus, adjusted, first, used>>

---------------------------------------------------------------------------
(* submit_flag: validate_submission, then process_submission *)

(* A team submits a flag that some box was given, its own or an old one too. *)
SubmitEvent(p, a, f) ==
    /\ At(p, "idle") /\ Playing
    /\ proc' = [proc EXCEPT ![p] = [Idle EXCEPT !.pc = "s_round", !.by = a, !.flag = f]]
    /\ UNCHANGED <<ev, round, banned, issued, captures, bonus, adjusted, first, used>>

(* Mutant: the flag is looked up by its hash alone. *)
SubmitRoundAny(p) ==
    /\ At(p, "s_round")
    /\ IF Current # {} /\ proc[p].flag.box.team # proc[p].by
       THEN Goto(p, "s_ban") ELSE Finish(p)
    /\ UNCHANGED <<ev, round, banned, issued, captures, bonus, adjusted, first, used>>

(* The flag must be one of the current round, and not the team's own. *)
SubmitRound(p) ==
    /\ At(p, "s_round")
    /\ IF proc[p].flag.round \in Current /\ proc[p].flag.box.team # proc[p].by
       THEN Goto(p, "s_ban") ELSE Finish(p)
    /\ UNCHANGED <<ev, round, banned, issued, captures, bonus, adjusted, first, used>>

SubmitAttackerBan(p) ==
    /\ At(p, "s_ban")
    /\ IF proc[p].by \in banned THEN Finish(p) ELSE Goto(p, "s_victim")
    /\ UNCHANGED <<ev, round, banned, issued, captures, bonus, adjusted, first, used>>

(* Mutant: the victim's ban is not looked at. *)
SubmitVictimAny(p) ==
    /\ At(p, "s_victim")
    /\ Goto(p, "s_again")
    /\ UNCHANGED <<ev, round, banned, issued, captures, bonus, adjusted, first, used>>

SubmitVictimBan(p) ==
    /\ At(p, "s_victim")
    /\ IF proc[p].flag.box.team \in banned THEN Finish(p) ELSE Goto(p, "s_again")
    /\ UNCHANGED <<ev, round, banned, issued, captures, bonus, adjusted, first, used>>

(* submit_flag reads the active round once more: this is the round scored. *)
SubmitRoundAgain(p) ==
    /\ At(p, "s_again")
    /\ \/ \E n \in Current : proc' = [proc EXCEPT ![p].pc = "t_insert", ![p].n = n]
       \/ Current = {} /\ Finish(p)
    /\ UNCHANGED <<ev, round, banned, issued, captures, bonus, adjusted, first, used>>

(* The row, and the key of the submission and of both score events. *)
Capture(p) == [round |-> proc[p].n, by |-> proc[p].by, box |-> proc[p].flag.box, of |-> proc[p].flag.round]
SameKey(c, d) == c.round = d.round /\ c.by = d.by /\ c.box = d.box
Scored(c) == \E d \in captures : SameKey(c, d)

InTx(p) == proc[p].pc \in {"t_bonus", "t_commit"}

(* has_submission, create_submission, the attack and the victim-loss event. *)
TxInsert(p) ==
    /\ At(p, "t_insert")
    /\ \A q \in Procs : InTx(q) => ~SameKey(Capture(q), Capture(p))
    /\ Goto(p, IF Scored(Capture(p)) THEN "refused" ELSE "t_bonus")
    /\ UNCHANGED <<ev, round, banned, issued, captures, bonus, adjusted, first, used>>

Template(p) == proc[p].flag.box.tpl

(* The transactions that hold the key of the template's bonus. *)
Claims(e) == {q \in Procs : At(q, "t_commit") /\ proc[q].gets = "bonus" /\ Template(q) = e}

(* Mutant: a plain insert, whose conflict rolls the transaction back. *)
TxBonusPlain(p) ==
    /\ At(p, "t_bonus") /\ Claims(Template(p)) = {}
    /\ IF bonus[Template(p)] = Nobody
       THEN proc' = [proc EXCEPT ![p].pc = "t_commit", ![p].gets = "bonus"]
       ELSE Goto(p, "refused")
    /\ UNCHANGED <<ev, round, banned, issued, captures, bonus, adjusted, first, used>>

(* Mutant: a bonus another transaction is about to take counts as taken. *)
TxBonusSkip(p) ==
    /\ At(p, "t_bonus")
    /\ proc' = [proc EXCEPT ![p].pc = "t_commit",
                ![p].gets = IF bonus[Template(p)] = Nobody /\ Claims(Template(p)) = {} THEN "bonus" ELSE "nothing"]
    /\ UNCHANGED <<ev, round, banned, issued, captures, bonus, adjusted, first, used>>

(* Mutant: two captures of one template wait for each other. *)
TxBonusMutual(p) ==
    /\ At(p, "t_bonus") /\ \A q \in Procs \ {p} : InTx(q) => Template(q) # Template(p)
    /\ proc' = [proc EXCEPT ![p].pc = "t_commit",
                            ![p].gets = IF bonus[Template(p)] = Nobody THEN "bonus" ELSE "nothing"]
    /\ UNCHANGED <<ev, round, banned, issued, captures, bonus, adjusted, first, used>>

(* create_score_event_if_absent: ON CONFLICT DO NOTHING. *)
TxBonus(p) ==
    /\ At(p, "t_bonus") /\ Claims(Template(p)) = {}
    /\ proc' = [proc EXCEPT ![p].pc = "t_commit",
                            ![p].gets = IF bonus[Template(p)] = Nobody THEN "bonus" ELSE "nothing"]
    /\ UNCHANGED <<ev, round, banned, issued, captures, bonus, adjusted, first, used>>

TxCommit(p) ==
    LET e == Template(p)
    IN  /\ At(p, "t_commit")
        /\ captures' = captures \cup {Capture(p)}
        /\ bonus' = IF proc[p].gets = "bonus" THEN [bonus EXCEPT ![e] = proc[p].by] ELSE bonus
        /\ first' = IF first[e] = Nobody THEN [first EXCEPT ![e] = proc[p].by] ELSE first
        /\ Finish(p)
        /\ UNCHANGED <<ev, round, banned, issued, adjusted, used>>

(* "Already scored" goes back to the player. *)
Refuse(p) ==
    /\ At(p, "refused")
    /\ Finish(p)
    /\ UNCHANGED <<ev, round, banned, issued, captures, bonus, adjusted, first, used>>

---------------------------------------------------------------------------
(* The clock, administrators and the process, as far as captures see them *)

(* The number after the latest round's, if the event goes on that long. *)
FollowsLatest(n) == /\ \A m \in Rounds : m >= n => round[m] = "none"
                    /\ n = 1 \/ round[n - 1] # "none"
NextRound == IF \E n \in Rounds : FollowsLatest(n) THEN CHOOSE n \in Rounds : FollowsLatest(n) ELSE 0

(* Mutant: the last round is followed by one more. *)
EndRoundOneMore(p, n) ==
    /\ At(p, "idle") /\ round[n] = "active"
    /\ round' = [round EXCEPT ![n] = "completed"]
    /\ proc' = [proc EXCEPT ![p] = [Idle EXCEPT !.pc = "e_start", !.n = n + 1]]
    /\ UNCHANGED <<ev, banned, issued, captures, bonus, adjusted, first, used>>

(* end_round, and after the last round nothing more to start. *)
EndRound(p, n) ==
    /\ At(p, "idle") /\ round[n] = "active"
    /\ round' = [round EXCEPT ![n] = "completed"]
    /\ proc' = [proc EXCEPT ![p] = IF n < RoundCount THEN [Idle EXCEPT !.pc = "e_start", !.n = n + 1] ELSE Idle]
    /\ UNCHANGED <<ev, banned, issued, captures, bonus, adjusted, first, used>>

StartRound(p) ==
    LET n == proc[p].n
    IN  /\ At(p, "e_start")
        /\ round' = IF ev = [status |-> "Running", phase |-> "Attack"] /\ round[n] = "none"
                       /\ \A m \in Rounds : round[m] # "active"
                    THEN [round EXCEPT ![n] = "active"] ELSE round
        /\ Finish(p)
        /\ UNCHANGED <<ev, banned, issued, captures, bonus, adjusted, first, used>>

(* pause_event: the round first, then the event. *)
PauseRound(p) ==
    /\ At(p, "idle") /\ ev.status = "Running" /\ used.pauses < MaxPauses
    /\ used' = [used EXCEPT !.pauses = @ + 1]
    /\ round' = [n \in Rounds |-> IF round[n] = "active" THEN "paused" ELSE round[n]]
    /\ proc' = [proc EXCEPT ![p] = [Idle EXCEPT !.pc = "pa_cas"]]
    /\ UNCHANGED <<ev, banned, issued, captures, bonus, adjusted, first>>

PauseCas(p) ==
    /\ At(p, "pa_cas")
    /\ ev' = IF ev.status = "Running" THEN [status |-> "Paused", phase |-> "Pause"] ELSE ev
    /\ Finish(p)
    /\ UNCHANGED <<round, banned, issued, captures, bonus, adjusted, first, used>>

(* resume_event: the round first, then the event, then a missing round. *)
ResumeRound(p) ==
    /\ At(p, "idle") /\ ev.status = "Paused"
    /\ round' = [n \in Rounds |-> IF round[n] = "paused" THEN "active" ELSE round[n]]
    /\ proc' = [proc EXCEPT ![p] = [Idle EXCEPT !.pc = "un_cas"]]
    /\ UNCHANGED <<ev, banned, issued, captures, bonus, adjusted, first, used>>

ResumeCas(p) ==
    /\ At(p, "un_cas")
    /\ IF ev.status = "Paused"
       THEN /\ ev' = [status |-> "Running", phase |-> "Attack"]
            /\ proc' = [proc EXCEPT ![p] =
                  IF Current = {} /\ NextRound # 0 THEN [Idle EXCEPT !.pc = "e_start", !.n = NextRound] ELSE Idle]
       ELSE Finish(p) /\ UNCHANGED ev
    /\ UNCHANGED <<round, banned, issued, captures, bonus, adjusted, first, used>>

(* maybe_finish_event after the last round; judging is AwdJudge's. *)
FinishEvent ==
    /\ Attended /\ ev.status = "Running"
    /\ \A n \in Rounds : round[n] = "completed"
    /\ ev' = [ev EXCEPT !.status = "Finished"]
    /\ UNCHANGED <<round, banned, issued, captures, bonus, adjusted, proc, first, used>>

(* ban_team and unban_team: one row decides. *)
BanTeam(t) ==
    /\ Attended /\ t \notin banned /\ used.bans < MaxBans
    /\ used' = [used EXCEPT !.bans = @ + 1]
    /\ banned' = banned \cup {t}
    /\ UNCHANGED <<ev, round, issued, captures, bonus, adjusted, proc, first>>

UnbanTeam(t) ==
    /\ Attended /\ t \in banned
    /\ banned' = banned \ {t}
    /\ UNCHANGED <<ev, round, issued, captures, bonus, adjusted, proc, first, used>>

(* record_adjustment: the status is read, then the score event written. *)
AdjustRead(p) ==
    /\ At(p, "idle") /\ ev.status # "Finished" /\ adjusted < MaxAdjustments
    /\ proc' = [proc EXCEPT ![p] = [Idle EXCEPT !.pc = "ad_write"]]
    /\ UNCHANGED <<ev, round, banned, issued, captures, bonus, adjusted, first, used>>

AdjustWrite(p) ==
    /\ At(p, "ad_write")
    /\ adjusted' = adjusted + 1
    /\ Finish(p)
    /\ UNCHANGED <<ev, round, banned, issued, captures, bonus, first, used>>

(* The process dies and boots: transactions are rolled back, and recovery  *)
(* starts the round that is missing.                                       *)
Restart ==
    /\ used.crashes < MaxCrashes
    /\ used' = [used EXCEPT !.crashes = @ + 1]
    /\ proc' = [p \in Procs |-> Idle]
    /\ round' = IF ev.status = "Running" /\ Current = {} /\ NextRound # 0
                THEN [round EXCEPT ![NextRound] = "active"] ELSE round
    /\ UNCHANGED <<ev, banned, issued, captures, bonus, adjusted, first>>

Handler(p) ==
    \/ IssueRound(p) \/ IssueBan(p) \/ IssueFind(p) \/ IssueInsert(p) \/ IssueClash(p)
    \/ SubmitRound(p) \/ SubmitAttackerBan(p) \/ SubmitVictimBan(p) \/ SubmitRoundAgain(p)
    \/ TxInsert(p) \/ TxBonus(p) \/ TxCommit(p) \/ Refuse(p)
    \/ StartRound(p) \/ PauseCas(p) \/ ResumeCas(p) \/ AdjustWrite(p)

Request(p) ==
    \/ \E b \in Boxes : IssueEvent(p, b)
    \/ \E a \in Teams, f \in issued : SubmitEvent(p, a, f)
    \/ \E n \in Rounds : EndRound(p, n)
    \/ PauseRound(p) \/ ResumeRound(p) \/ AdjustRead(p)

Next ==
    \/ \E p \in Procs : Handler(p) \/ Request(p)
    \/ \E t \in Teams : BanTeam(t) \/ UnbanTeam(t)
    \/ FinishEvent \/ Restart

Spec == Init /\ [][Next]_vars

(* A handler that has begun goes on; nobody has to make a request. *)
FairSpec == Spec /\ \A p \in Procs : WF_vars(Handler(p))

---------------------------------------------------------------------------
(* Properties *)

Captures == [round : Rounds, by : Teams, box : Boxes, of : Rounds]
PCs == {"idle", "i_round", "i_ban", "i_find", "i_insert", "s_round", "s_ban",
        "s_victim", "s_again", "t_insert", "t_bonus", "t_commit", "refused", "e_start", "pa_cas",
        "un_cas", "ad_write"}

Frames == [pc : PCs, by : Teams \cup {Nobody}, n : 0..RoundCount, gets : {"nothing", "bonus"},
           flag : [round : 0..RoundCount, box : Boxes \cup {NoFlag.box}]]

(* The rows and the handlers in flight keep their types. *)
TypeOK ==
    /\ ev \in [status : {"Running", "Paused", "Finished"}, phase : {"Attack", "Pause"}]
    /\ round \in [Rounds -> {"none", "active", "paused", "completed"}]
    /\ banned \subseteq Teams /\ issued \subseteq Flags /\ captures \subseteq Captures
    /\ bonus \in [Templates -> Teams \cup {Nobody}]
    /\ first \in [Templates -> Teams \cup {Nobody}]
    /\ adjusted \in Nat
    /\ proc \in [Procs -> Frames]
    /\ used \in [pauses : Nat, bans : Nat, crashes : Nat]

(* A flag is worth something in its own round only. *)
FlagOfItsRound == \A c \in captures : c.of = c.round

(* A team scores a flag once, however often and whenever it submits it. *)
FlagScoresOnce ==
    \A c, d \in captures : c.by = d.by /\ c.box = d.box /\ c.of = d.of => c = d

(* Nothing is captured by a banned team, nor from one. *)
SparesBanned == \A c \in captures' \ captures : c.by \notin banned /\ c.box.team \notin banned

(* Nothing is captured while the event is paused. *)
SparesPaused == ev.status = "Paused" => captures' = captures

(* The scoreboard of a finished event does not change. *)
KeepsBoard == ev.status = "Finished" => UNCHANGED board

(* The bonus of a template goes to the team whose capture of it came first,*)
(* and to that team at once: neither twice nor to nobody, whatever other   *)
(* captures are in flight or rolled back.                                  *)
FirstBloodIsFirst == bonus = first

(* A capture is turned down as a duplicate only if it is on the board: no  *)
(* race for the bonus costs a team its capture.                            *)
NoCaptureLost == \A p \in Procs : At(p, "refused") => Scored(Capture(p))

(* Waiting for one another's keys, requests all come to an end. *)
Answered == \A p \in Procs : ~At(p, "idle") ~> At(p, "idle")

-----------------------------------------------------------------------------
(***************************************************************************)
(* Small instances for TLC.  A behaviour is of one of two scenes:          *)
(*   "serial"   one handler at a time, two rounds, score adjustments       *)
(*   "overlap"  two handlers at once, up to the start of the second round, *)
(*              no score adjustments                                       *)
(* Only what the outside asks for is bounded, never a handler in flight.   *)
(***************************************************************************)
VARIABLE scene

Quiet == \A p \in Procs : At(p, "idle")
Admits(p) ==
    IF scene = "serial" THEN Quiet ELSE round[RoundCount] = "none" /\ proc'[p].pc # "ad_write"

SceneNext ==
    /\ \/ \E p \in Procs : Handler(p) \/ (Request(p) /\ Admits(p))
       \/ /\ scene = "serial" => Quiet
          /\ FinishEvent \/ \E t \in Teams : BanTeam(t) \/ UnbanTeam(t)
       \/ Restart
    /\ UNCHANGED scene

SceneInit == Init /\ scene \in {"serial", "overlap"}

SceneSpec ==
    /\ SceneInit
    /\ [][SceneNext]_<<scene, vars>>
    /\ \A p \in Procs : WF_<<scene, vars>>(Handler(p) /\ UNCHANGED scene)

(* Without overlap a flag is worth something in its own round only, and    *)
(* to each team once.                                                      *)
FlagsCountOnce == scene = "serial" => FlagOfItsRound /\ FlagScoresOnce

(* Without overlap nothing is captured by or from a banned team or while   *)
(* the event is paused, and the board of a finished event does not change. *)
RulesHold ==
    [][scene = "serial" => SparesBanned /\ SparesPaused /\ KeepsBoard]_<<scene, vars>>
=============================================================================

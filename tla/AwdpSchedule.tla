---------------------------- MODULE AwdpSchedule ----------------------------
(***************************************************************************)
(* How long the phases of an AWDP competition are: the row of awdp_events  *)
(* that the first look at an event derives from its times, the changes of  *)
(* the configuration and of the event's times (transactions), and the run  *)
(* that is created with a copy of the configuration, by hand or by the     *)
(* tick, in several statements without a lock.                             *)
(***************************************************************************)
EXTENDS Integers

CONSTANTS Horizon,                    \* the clock runs from 0 to here
          DefaultBreak, DefaultFix,   \* DEFAULT_*_DURATION_SECS
          DefaultInterval,            \* DEFAULT_FIX_ROUND_INTERVAL_SECS
          BreakMin,                   \* BREAK_MIN_SECS
          Threads, Plans

VARIABLES plan, now,
          event,   \* events: start_time and end_time
          row,     \* awdp_events
          run,     \* awdp_runs: one row (AwdpRun has the ways to two)
          req,     \* requests and the tick, between two statements
          torn,    \* what was changed under a request that had already read it
          edits

vars == <<plan, now, event, row, run, req, torn, edits>>

NoConfig == [brk |-> 0, fix |-> 0, interval |-> 0]
NoRun == [phase |-> "none", config |-> NoConfig, next |-> 0]
Idle == [pc |-> "idle", by |-> "none", config |-> NoConfig, start |-> 0]

Init ==
    /\ plan \in Plans /\ now = 0
    /\ \E w \in plan.windows : event = [start |-> w[1], end |-> w[2]]
    /\ row = [is |-> FALSE, config |-> NoConfig]
    /\ run = NoRun /\ req = [t \in Threads |-> Idle] /\ torn = {} /\ edits = 0

Put(t, r) == req' = [req EXCEPT ![t] = r]
Edit == edits < plan.edits /\ edits' = edits + 1
Amid(pcs) == \E t \in Threads : req[t].pc \in pcs
Total == event.end - event.start

-----------------------------------------------------------------------------
(* The arithmetic of the configuration *)

Default == [brk |-> DefaultBreak, fix |-> DefaultFix, interval |-> DefaultInterval]
\* derive_for_total: half of the time for Fix, in whole rounds.
DeriveForTotal(total) ==
    LET half == total \div 2
        fix == (half \div DefaultInterval) * DefaultInterval
    IN IF half <= 0 THEN Default
       ELSE IF half >= DefaultInterval
            THEN [brk |-> total - fix, fix |-> fix, interval |-> DefaultInterval]
            ELSE [brk |-> total - half, fix |-> half, interval |-> half]

\* AwdpConfig::validate
Valid(c) == c.brk > 0 /\ c.fix > 0 /\ c.interval > 0 /\ c.fix % c.interval = 0

\* update_config: Fix is cut down to whole rounds, Break is what is left.
Changed(fix, interval) ==
    LET f == (fix \div interval) * interval IN [brk |-> Total - f, fix |-> f, interval |-> interval]

-----------------------------------------------------------------------------
(* ensure_by_event_id: the row is looked for, the event read, the row inserted *)

EnsureRead(t) ==
    /\ req[t].pc = "idle" /\ ~row.is /\ Valid(DeriveForTotal(Total))
    /\ Put(t, [Idle EXCEPT !.pc = "insert", !.config = DeriveForTotal(Total)])
    /\ UNCHANGED <<plan, now, event, row, run, torn, edits>>
\* Of two inserts the second fails on the primary key.
EnsureInsert(t) ==
    /\ req[t].pc = "insert" /\ Put(t, Idle)
    /\ row' = IF row.is THEN row ELSE [is |-> TRUE, config |-> req[t].config]
    /\ torn' = IF row'.config = Default /\ Total # DefaultBreak + DefaultFix THEN torn \cup {"row"} ELSE torn
    /\ UNCHANGED <<plan, now, event, run, edits>>

-----------------------------------------------------------------------------
(* Changes of the configuration and of the times *)

\* find_active_competition_for_event, and without runs that are only planned.
ActiveRun == run.phase \in {"Pending", "Break", "Fix"}

\* A request made from a page that shows the row as it is; others are refused.
UpdateConfig(fix, interval) ==
    /\ row.is /\ Edit /\ ~ActiveRun
    /\ LET c == Changed(fix, interval) IN
       /\ c.fix > 0 /\ c.brk >= BreakMin /\ Valid(c) /\ c # row.config
       /\ row' = [row EXCEPT !.config = c]
       /\ event' = [event EXCEPT !.end = event.start + c.brk + c.fix]
    /\ torn' = (torn \ {"row"}) \cup (IF Amid({"create", "insert run"}) THEN {"run"} ELSE {})
    /\ UNCHANGED <<plan, now, run, req>>

\* patch_event: with a row the end is derived from the start, and a run that
\* is pending begins at the new start.
PatchEvent(s, e) ==
    /\ Edit /\ <<s, e>> # <<event.start, event.end>> /\ s < e
    /\ event' = [start |-> s, end |-> IF row.is THEN s + row.config.brk + row.config.fix ELSE e]
    /\ run' = IF row.is /\ run.phase = "Pending" THEN [run EXCEPT !.next = s] ELSE run
    /\ torn' = (torn \ IF row.is THEN {"row"} ELSE {})
               \cup (IF ~row.is /\ Amid({"insert"}) THEN {"row"} ELSE {})
               \cup (IF Amid({"insert run"}) THEN {"next"} ELSE {})
    /\ UNCHANGED <<plan, now, row, req>>

-----------------------------------------------------------------------------
(* create_competition_run, by start_awdp_event and by tick_once *)

\* The configuration is read; the tick comes when the start has passed.
ReadConfig(t, by) ==
    /\ req[t].pc = "idle" /\ row.is
    /\ by = "tick" => event.start <= now /\ run.phase = "none"
    /\ Put(t, [Idle EXCEPT !.pc = "create", !.by = by, !.config = row.config])
    /\ UNCHANGED <<plan, now, event, row, run, torn, edits>>
AdminStart(t) == ReadConfig(t, "admin")
TickCreate(t) == ReadConfig(t, "tick")

\* An active run is taken as it is; after one that ended the request fails.
\* A second insert on top of the first is AwdpRun's matter.
FindRun(t) ==
    /\ req[t].pc = "create"
    /\ Put(t, IF ActiveRun THEN [req[t] EXCEPT !.pc = "begin"]
              ELSE IF run.phase # "none" THEN Idle
              ELSE [req[t] EXCEPT !.pc = "insert run", !.start = event.start])
    /\ UNCHANGED <<plan, now, event, row, run, torn, edits>>
InsertRun(t) ==
    /\ req[t].pc = "insert run" /\ run = NoRun
    /\ run' = [phase |-> "Pending", config |-> req[t].config, next |-> req[t].start]
    /\ Put(t, [req[t] EXCEPT !.pc = "begin"])
    /\ UNCHANGED <<plan, now, event, row, torn, edits>>

\* By hand at once; by the tick when the run is due and the start has passed.
Begin(t) ==
    /\ req[t].pc = "begin" /\ Put(t, Idle)
    /\ run' = IF run.phase = "Pending" /\ (req[t].by = "tick" => run.next <= now /\ event.start <= now)
              THEN [run EXCEPT !.phase = "Break", !.next = now + run.config.brk] ELSE run
    /\ UNCHANGED <<plan, now, event, row, torn, edits>>
\* A later tick finds the run that is due.
TickBegin ==
    /\ run.phase = "Pending" /\ run.next <= now /\ event.start <= now
    /\ run' = [run EXCEPT !.phase = "Break", !.next = now + run.config.brk]
    /\ UNCHANGED <<plan, now, event, row, req, torn, edits>>
\* The later phases are AwdpRun's; the configuration thaws between them and at the end.
PhaseAdvances ==
    /\ \E p \in {<<"Break", "PreparingFix">>, <<"PreparingFix", "Fix">>, <<"Fix", "Ended">>} :
         run.phase = p[1] /\ run' = [run EXCEPT !.phase = p[2]]
    /\ UNCHANGED <<plan, now, event, row, req, torn, edits>>

Tick ==
    /\ now < Horizon /\ now' = now + 1
    /\ UNCHANGED <<plan, event, row, run, req, torn, edits>>

Next ==
    \/ \E t \in Threads : \/ EnsureRead(t) \/ EnsureInsert(t) \/ AdminStart(t) \/ TickCreate(t)
                          \/ FindRun(t) \/ InsertRun(t) \/ Begin(t)
    \/ \E fix \in plan.fixes, interval \in plan.intervals : UpdateConfig(fix, interval)
    \/ \E w \in plan.windows : PatchEvent(w[1], w[2])
    \/ TickBegin \/ PhaseAdvances \/ Tick

Spec == Init /\ [][Next]_vars

-----------------------------------------------------------------------------
TypeOK ==
    /\ plan \in Plans /\ now \in 0 .. Horizon /\ edits \in 0 .. plan.edits
    /\ run.phase \in {"none", "Pending", "Break", "PreparingFix", "Fix", "Ended"}
    /\ torn \subseteq {"row", "run", "next"}

\* Break and Fix together fill the event to its end, through every change of the
\* times and of the configuration, unless the times were changed while the
\* first look was deriving the row, or were too close together to be shared.
EndIsDerived ==
    row.is /\ "row" \notin torn => event.end = event.start + row.config.brk + row.config.fix

\* The first look at an event succeeds however long the event is: derive_for_total
\* gives a configuration that validate accepts and that fills the event.
FirstLookSucceeds ==
    \A total \in 1 .. 5 * DefaultInterval : LET c == DeriveForTotal(total) IN
        Valid(c) /\ (total >= 2 => c.brk + c.fix = total)

\* A run that has not left Break has the configuration the row shows, unless it
\* changed between the read of the row and the insert of the run.
RunAsConfigured == run.phase \in {"Pending", "Break"} /\ "run" \notin torn => run.config = row.config

\* A pending run waits for the start of its event, unless that moved between
\* the read of it and the insert of the run.
PendingFollowsStart == run.phase = "Pending" /\ "next" \notin torn => run.next = event.start
=============================================================================

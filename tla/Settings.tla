------------------------------ MODULE Settings ------------------------------
(***************************************************************************)
(* The settings table, its copy in Redis, and the {{KEY}} references       *)
(* between values.  Readers take the copy, or read the table and store a   *)
(* copy that lives SETTINGS_CACHE_TTL_SECS; writers change the table and   *)
(* then delete the copy.                                                   *)
(***************************************************************************)
EXTENDS Naturals, Sequences, FiniteSets

CONSTANTS Readers, Writers,
          TTL,        \* SETTINGS_CACHE_TTL_SECS in ticks
          Slow,       \* a reader stores what it read within Slow ticks
          MaxFaults, MaxWrites,
          Templates   \* maps from keys to values (sequences of tokens); one is empty

VARIABLES db,         \* the value of one setting: a number, 0 when there is no row
          cache,      \* the copy in Redis
          reader, writer,
          age,        \* ticks since the last write or failed read of the table
          excused,    \* a stale copy is due to something other than a forgotten DEL
          faults, writes, template

vars == <<db, cache, reader, writer, age, excused, faults, writes, template>>

NoCopy == [is |-> FALSE, v |-> 0, life |-> 0]
Idle == [pc |-> "idle", v |-> 0, waited |-> 0]

Init ==
    /\ template \in Templates
    /\ db = 1 /\ cache = NoCopy
    /\ reader = [r \in Readers |-> Idle] /\ writer = [w \in Writers |-> "idle"]
    /\ age = 0 /\ excused = FALSE /\ faults = 0 /\ writes = 0

\* A behaviour is about the copy or, with templates, about resolving one of them.
AboutCopy == DOMAIN template = {}
Fault == faults < MaxFaults /\ faults' = faults + 1

-----------------------------------------------------------------------------
(* load_settings_map                                                       *)

\* settings_cache_get found nothing, or Redis did not answer; the table is read.
\* An error of the database counts as an empty table.
LoadFromDb(r) ==
    /\ AboutCopy /\ reader[r].pc = "idle"
    /\ \/ ~cache.is /\ UNCHANGED faults
       \/ cache.is /\ Fault
    /\ reader' = [reader EXCEPT ![r] = [pc |-> "fill", v |-> db, waited |-> 0]]
    /\ UNCHANGED <<db, cache, writer, age, excused, writes, template>>
LoadFails(r) ==
    /\ AboutCopy /\ reader[r].pc = "idle" /\ ~cache.is /\ Fault
    /\ reader' = [reader EXCEPT ![r] = [pc |-> "fill", v |-> 0, waited |-> 0]]
    /\ age' = 0
    /\ UNCHANGED <<db, cache, writer, excused, writes, template>>
\* settings_cache_set: SET with expiry; an error is ignored.
CacheSet(r) ==
    /\ reader[r].pc = "fill" /\ reader' = [reader EXCEPT ![r] = Idle]
    /\ \/ cache' = [is |-> TRUE, v |-> reader[r].v, life |-> TTL]
          /\ excused' = (excused \/ reader[r].v # db) /\ UNCHANGED faults
       \/ Fault /\ UNCHANGED <<cache, excused>>
    /\ UNCHANGED <<db, writer, age, writes, template>>

-----------------------------------------------------------------------------
(* create_setting, patch_setting, upsert_setting, seed_default_settings    *)

WriteRow(w) ==
    /\ AboutCopy /\ writer[w] = "idle" /\ writes < MaxWrites /\ writes' = writes + 1
    /\ db' = writes + 2 /\ age' = 0
    /\ writer' = [writer EXCEPT ![w] = "written"]
    /\ UNCHANGED <<cache, reader, excused, faults, template>>
\* invalidate_settings_cache: DEL; an error is left to the expiry.
Invalidate(w) ==
    /\ writer[w] = "written" /\ writer' = [writer EXCEPT ![w] = "idle"]
    /\ \/ cache' = NoCopy /\ excused' = FALSE /\ UNCHANGED faults
       \/ Fault /\ excused' = TRUE /\ UNCHANGED cache
    /\ UNCHANGED <<db, reader, age, writes, template>>
\* delete_setting (a row that is not protected): the copy is left alone.
DeleteSetting ==
    /\ AboutCopy /\ db # 0 /\ writes < MaxWrites /\ writes' = writes + 1
    /\ db' = 0 /\ age' = 0 /\ excused' = TRUE
    /\ UNCHANGED <<cache, reader, writer, faults, template>>

\* Time passes; the copy expires.
Tick ==
    /\ AboutCopy
    /\ \A r \in Readers : reader[r].pc = "fill" => reader[r].waited < Slow
    /\ reader' = [r \in Readers |-> IF reader[r].pc = "fill" THEN [reader[r] EXCEPT !.waited = @ + 1] ELSE reader[r]]
    /\ IF cache.is /\ cache.life > 1
       THEN cache' = [cache EXCEPT !.life = @ - 1] /\ UNCHANGED excused
       ELSE cache' = NoCopy /\ excused' = FALSE
    /\ age' = IF age <= TTL + Slow THEN age + 1 ELSE age
    /\ UNCHANGED <<db, writer, faults, writes, template>>

Next ==
    \/ \E r \in Readers : LoadFromDb(r) \/ LoadFails(r) \/ CacheSet(r)
    \/ \E w \in Writers : WriteRow(w) \/ Invalidate(w)
    \/ DeleteSetting \/ Tick

Spec == Init /\ [][Next]_vars

-----------------------------------------------------------------------------
(* resolve_impl: references are replaced from left to right, and a key     *)
(* that is being replaced already is left as it stands.                    *)

Mark(seen, key) == seen \cup {key}
Unmark(seen, key) == seen \ {key}

\* A token is [ref, name]; state: what has been written and the keys being
\* replaced.
RECURSIVE ResolveImpl(_, _, _)
ResolveImpl(value, map, state) ==
    IF value = <<>> THEN state
    ELSE LET token == Head(value)
             rest(s) == ResolveImpl(Tail(value), map, s)
             literal == [state EXCEPT !.out = Append(@, token)] IN
         IF ~token.ref \/ token.name \in state.seen \/ token.name \notin DOMAIN map
         THEN rest(literal)
         ELSE LET inner == ResolveImpl(map[token.name], map,
                                       [out |-> state.out, seen |-> Mark(state.seen, token.name)]) IN
              rest([inner EXCEPT !.seen = Unmark(@, token.name)])
\* get_setting and resolve_value_with_map
GetSetting(key, map) == ResolveImpl(map[key], map, [out |-> <<>>, seen |-> {}]).out

-----------------------------------------------------------------------------
TypeOK ==
    /\ db \in 0 .. MaxWrites + 1 /\ cache.v \in 0 .. MaxWrites + 1
    /\ \A r \in Readers : reader[r].waited <= Slow

\* Whatever failed, nobody reads a wrong copy for longer than the expiry and the
\* slowest reader together.
StaleIsBounded == (cache.is /\ cache.v # db) => age <= TTL + Slow

\* A copy differs from the table only while a writer has still to delete it, or
\* because Redis failed, a read failed or overlapped a write, or a row was
\* deleted.
StaleHasACause == (cache.is /\ cache.v # db) => excused \/ \E w \in Writers : writer[w] = "written"

\* A resolved value still holds a reference only when its key is undefined or
\* is on a cycle of references.
Refers(map, k) == {map[k][i].name : i \in {j \in DOMAIN map[k] : map[k][j].ref}} \cap DOMAIN map
RECURSIVE Reaches(_, _, _)
Reaches(map, from, n) ==
    IF n = 0 THEN from ELSE Reaches(map, from \cup UNION {Refers(map, k) : k \in from}, n - 1)
OnCycle(map, k) == k \in Reaches(map, Refers(map, k), Cardinality(DOMAIN map))
ResolvedInFull ==
    \A k \in DOMAIN template : LET out == GetSetting(k, template) IN
        \A i \in DOMAIN out : out[i].ref => out[i].name \notin DOMAIN template \/ OnCycle(template, out[i].name)
=============================================================================

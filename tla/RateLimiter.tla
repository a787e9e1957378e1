---------------------------- MODULE RateLimiter -----------------------------
(***************************************************************************)
(* The sliding window of flag submissions, resets and judge calls: one     *)
(* Lua script in Redis prunes, counts and adds.  The time it uses comes    *)
(* from the calling API node, which reads it before it waits for a         *)
(* connection; the clocks of two nodes may differ.                         *)
(***************************************************************************)
EXTENDS Integers, FiniteSets

CONSTANTS Nodes, Window, DefaultLimit, MaxTime, MaxCalls,
          MaxDelay,   \* the longest wait for a connection and for the script
          Skews,      \* how far the clock of each node may run ahead
          Configs     \* stored values of the limit setting: numbers, -1 when unusable

VARIABLES skew, config, now, up,
          zset,       \* members of the sorted set: <<call, score>>
          dies,       \* the time the key expires, 0 when there is no key
          accepted,   \* accepted calls: <<call, time>>
          calls

vars == <<skew, config, now, up, zset, dies, accepted, calls>>

Init ==
    /\ skew \in [Nodes -> Skews] /\ config \in Configs
    /\ now = Window /\ up = TRUE
    /\ zset = {} /\ dies = 0 /\ accepted = {} /\ calls = 0

\* check: the setting, or the default of the scope when it does not parse.
Limit == IF config < 0 THEN DefaultLimit ELSE config

Prune(cutoff) == {m \in zset : m[2] > cutoff}
WithinLimit(kept) == Cardinality(kept) < Limit

\* hit_window: the script runs as one step; the key lives for a window after
\* the last accepted call.  Its time was read up to MaxDelay ago.
HitWindow(n, delay) ==
    LET time == now + skew[n] - delay
        kept == Prune(time - Window) IN
    /\ up /\ calls < MaxCalls /\ calls' = calls + 1
    /\ IF WithinLimit(kept)
       THEN /\ zset' = kept \cup {<<calls, time>>} /\ dies' = now + Window
            /\ accepted' = accepted \cup {<<calls, now>>}
       ELSE zset' = kept /\ UNCHANGED <<dies, accepted>>
    /\ UNCHANGED <<skew, config, now, up>>
\* Redis does not answer: the call is refused.
Refuse ==
    /\ ~up /\ calls < MaxCalls /\ calls' = calls + 1
    /\ UNCHANGED <<skew, config, now, up, zset, dies, accepted>>

RedisUpDown == up' = ~up /\ UNCHANGED <<skew, config, now, zset, dies, accepted, calls>>
Tick ==
    /\ now < MaxTime /\ now' = now + 1
    /\ IF dies <= now' THEN zset' = {} /\ dies' = 0 ELSE UNCHANGED <<zset, dies>>
    /\ UNCHANGED <<skew, config, up, accepted, calls>>

Next == (\E n \in Nodes, d \in 0 .. MaxDelay : HitWindow(n, d)) \/ Refuse \/ RedisUpDown \/ Tick

Spec == Init /\ [][Next]_vars

-----------------------------------------------------------------------------
Widest == LET S == {skew[n] : n \in Nodes} IN CHOOSE d \in 0 .. Window : \E x, y \in S : x = y + d /\ \A u, v \in S : u <= v + d

TypeOK == zset \subseteq (0 .. MaxCalls) \X (0 .. 2 * MaxTime) /\ (zset # {} => dies > now)

\* However the calls fall, no more than the limit are accepted within a window
\* shortened by the difference between the clocks and the longest wait, the
\* expiry of the key included.
WindowHolds ==
    \A t \in 0 .. MaxTime :
        Cardinality({a \in accepted : t <= a[2] /\ a[2] < t + Window - Widest - MaxDelay}) <= Limit
=============================================================================

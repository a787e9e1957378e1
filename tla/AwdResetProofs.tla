--------------------------- MODULE AwdResetProofs ---------------------------
(***************************************************************************)
(* Proofs about AwdReset, for any requests that overlap at any statement,  *)
(* any free_reset_count, and any crashes, docker failures and pauses.      *)
(***************************************************************************)
EXTENDS AwdReset, FiniteSetTheorems, TLAPS

(* What the settings and bounds have to be: at least one request may be    *)
(* made, and there are finitely many of them and of their records.         *)
ResetConstants ==
    /\ Free \in Nat /\ IsFiniteSet(Threads) /\ IsFiniteSet(Records)
    /\ \A s \in Settings : s.threads \subseteq Threads /\ s.threads # {}

Rebuilding == {"mark", "remove", "create", "ready", "penalty", "complete", "fail", "failRecord"}
Frames ==
    [pc : {"idle", "check", "record", "recover"} \cup Rebuilding, by : {"none", "player", "admin", "system"},
     id : Records \cup {0}, free : BOOLEAN, gen : Nat]
RecordRows ==
    [st : {"none", "pending", "completed", "failed"}, free : BOOLEAN, by : {"none", "player", "admin", "system"}]

Types ==
    /\ conf \in Settings
    /\ status \in {"Ready", "Resetting", "ResetFailed"} /\ gen \in Nat /\ con \in Nat
    /\ rec \in [Records -> RecordRows] /\ thr \in [Threads -> Frames]
    /\ rebuilt \subseteq Rows /\ penalty \subseteq Rows
    /\ spent \in [crashes : Nat, fails : Nat, moves : Nat]

\* A request that rebuilds works on a row, charges what the row says, and writes what
\* it has done so far.
FrameOK(t) ==
    /\ thr[t].pc # "idle" => t \in conf.threads
    /\ thr[t].pc \notin {"idle", "check"} => thr[t].gen # 0
    /\ thr[t].pc \in Rebuilding => thr[t].id \in Rows /\ thr[t].free = rec[thr[t].id].free
    /\ thr[t].pc \in {"ready", "penalty", "complete"} => thr[t].id \in rebuilt
    /\ thr[t].pc = "complete" /\ ~thr[t].free => thr[t].id \in penalty

\* Free resets of players: recorded, and granted to a request about to record it.
FreeRecords == {i \in Records : rec[i].free /\ rec[i].by = "player"}
Granted == {t \in Threads : thr[t].pc = "record" /\ thr[t].free /\ thr[t].by = "player"}
FreeBound == Cardinality(FreeRecords) + Cardinality(Granted) < Free + Cardinality(conf.threads)

\* As long as nothing failed, whoever removed the container is there to create it.
SomebodyCreates ==
    spent.fails + spent.crashes = 0 /\ con = 0 => \E t \in Threads : At(t, "create")

\* One request at a time: a box without container is not Ready.
Alone == \A t, u \in conf.threads : t = u
AloneOK ==
    Alone => /\ status = "Ready" => con # 0
             /\ \A t \in Threads : At(t, "recover") \/ At(t, "remove") \/ At(t, "create") => status = "Resetting"
             /\ \A t \in Threads : At(t, "ready") => con # 0

Inv ==
    /\ Types
    /\ \A i \in Records : rec[i].st = "none" => ~rec[i].free
    /\ \A t \in Threads : FrameOK(t)
    /\ PenaltyForRebuild
    /\ FreeBound
    /\ SomebodyCreates
    /\ AloneOK
----------------------------------------------------------------------------
LEMMA FiniteParts == ASSUME ResetConstants, Types
    PROVE /\ IsFiniteSet(Rows) /\ IsFiniteSet(FreeRecords) /\ IsFiniteSet(Granted)
          /\ IsFiniteSet(conf.threads) /\ Cardinality(conf.threads) \in Nat \ {0}
          /\ Cardinality(Rows) \in Nat /\ Cardinality(FreeRecords) \in Nat /\ Cardinality(Granted) \in Nat
  <1>1. Rows \subseteq Records /\ FreeRecords \subseteq Records /\ Granted \subseteq Threads
    BY DEF Rows, FreeRecords, Granted
  <1>2. conf.threads \subseteq Threads /\ conf.threads # {} BY DEF ResetConstants, Types
  <1>3. IsFiniteSet(Records) /\ IsFiniteSet(Threads) BY DEF ResetConstants
  <1>4. IsFiniteSet(Rows) /\ IsFiniteSet(FreeRecords) /\ IsFiniteSet(Granted) /\ IsFiniteSet(conf.threads)
    BY <1>1, <1>2, <1>3, FS_Subset
  <1>5. Cardinality(conf.threads) # 0 BY <1>2, <1>4, FS_EmptySet
  <1> QED BY <1>4, <1>5, FS_CardinalityType

LEMMA InitInv == ASSUME ResetConstants, Init PROVE Inv
  <1>1. Types BY DEF Init, Types, Rows, RecordRows, Frames, NoRec, Idle
  <1>2. FreeRecords = {} /\ Granted = {} BY DEF Init, FreeRecords, Granted, NoRec, Idle
  <1>3. FreeBound
    <2>1. Cardinality(FreeRecords) = 0 /\ Cardinality(Granted) = 0 BY <1>2, FS_EmptySet
    <2>2. Cardinality(conf.threads) \in Nat \ {0} BY <1>1, FiniteParts
    <2> QED BY <2>1, <2>2 DEF FreeBound, ResetConstants
  <1>4. \A t \in Threads : thr[t] = Idle BY DEF Init
  <1>5. \A t \in Threads : FrameOK(t) BY <1>4 DEF FrameOK, Idle, Rebuilding
  <1>6. AloneOK BY <1>4 DEF Init, AloneOK, At, Idle
  <1> QED BY <1>1, <1>3, <1>5, <1>6 DEF Inv, Init, PenaltyForRebuild, SomebodyCreates, NoRec

\* The bound of free resets only moves when a request is granted one.
LEMMA BoundStays == ASSUME ResetConstants, Types, Types', FreeBound, conf' = conf,
                           FreeRecords' \subseteq FreeRecords, Granted' \subseteq Granted
                    PROVE FreeBound'
  <1>1. Cardinality(FreeRecords') <= Cardinality(FreeRecords) /\ Cardinality(Granted') <= Cardinality(Granted)
    BY FiniteParts, FS_Subset
  <1>2. Cardinality(FreeRecords') \in Nat /\ Cardinality(Granted') \in Nat
    BY FiniteParts, FS_Subset, FS_CardinalityType
  <1>3. Cardinality(conf.threads) \in Nat /\ Free \in Nat BY FiniteParts DEF ResetConstants
  <1> QED BY <1>1, <1>2, <1>3, FiniteParts DEF FreeBound

\* A step of one request that grants and inserts nothing leaves the bound.
LEMMA RequestBound ==
    ASSUME ResetConstants, Inv, NEW t \in Threads, NEW x \in Frames, thr' = [thr EXCEPT ![t] = x],
           Types', conf' = conf, \A i \in Records : rec'[i].free = rec[i].free /\ rec'[i].by = rec[i].by,
           x.pc # "record"
    PROVE  FreeBound'
  <1>1. \A u \in Threads : thr'[u] = IF u = t THEN x ELSE thr[u] BY DEF Inv, Types
  <1>2. FreeRecords' \subseteq FreeRecords BY DEF FreeRecords
  <1>3. Granted' \subseteq Granted BY <1>1 DEF Granted
  <1> QED BY <1>2, <1>3, BoundStays DEF Inv

\* A step of one request that inserts no record: what it leaves of the invariant.
LEMMA RequestInv ==
    ASSUME Inv, NEW t \in Threads, NEW x \in Frames, thr' = [thr EXCEPT ![t] = x],
           Types', conf' = conf, \A i \in Records : rec'[i].free = rec[i].free
                                         /\ (rec'[i].st = "none" <=> rec[i].st = "none"),
           FrameOK(t)', rebuilt \subseteq rebuilt', penalty \subseteq penalty', PenaltyForRebuild',
           FreeBound', SomebodyCreates', AloneOK'
    PROVE  Inv'
  <1>1. \A u \in Threads : u # t => thr'[u] = thr[u] BY DEF Inv, Types
  <1>2. Rows' = Rows BY DEF Rows
  <1>3. \A u \in Threads : FrameOK(u)'
    <2> SUFFICES ASSUME NEW u \in Threads, u # t PROVE FrameOK(u)' OBVIOUS
    <2>1. FrameOK(u) /\ thr'[u] = thr[u] BY <1>1 DEF Inv
    <2>2. thr[u].pc \in Rebuilding => thr[u].id \in Records BY <2>1 DEF FrameOK, Rows
    <2> QED BY <2>1, <2>2, <1>2 DEF FrameOK
  <1>7. \A i \in Records : rec'[i].st = "none" => ~rec'[i].free BY DEF Inv
  <1> QED BY <1>3, <1>7 DEF Inv

\* Nobody else has a frame while requests do not overlap.
LEMMA AloneFrames == ASSUME Inv, Alone, NEW t \in Threads, NEW u \in Threads,
                            thr[t].pc # "idle", thr[u].pc # "idle"
                     PROVE t = u
  BY DEF Inv, FrameOK, Alone

LEMMA BeginInv ==
    ASSUME ResetConstants, Inv, NEW t \in conf.threads, PlayerReset(t) \/ AdminReset(t) PROVE Inv'
  <1>1. t \in Threads BY DEF ResetConstants, Inv, Types
  <1>2. PICK b \in {"player", "admin"} : thr' = [thr EXCEPT ![t] = [Idle EXCEPT !.pc = "check", !.by = b]]
    BY DEF PlayerReset, AdminReset
  <1> DEFINE x == [Idle EXCEPT !.pc = "check", !.by = b]
  <1>3. x \in Frames /\ x.pc = "check" BY DEF Frames, Idle
  <1>4. UNCHANGED <<conf, event, status, gen, con, rec, rebuilt, penalty, spent>> /\ At(t, "idle")
    BY DEF PlayerReset, AdminReset
  <1>5. thr' = [thr EXCEPT ![t] = x] BY <1>2
  <1> HIDE DEF x
  <1>6. thr'[t] = x /\ \A u \in Threads : u # t => thr'[u] = thr[u] BY <1>1, <1>5 DEF Inv, Types
  <1>7. Types' BY <1>1, <1>3, <1>4, <1>5 DEF Inv, Types, Rows
  <1>8. FrameOK(t)' BY <1>3, <1>4, <1>6 DEF FrameOK, Rebuilding
  <1>9. PenaltyForRebuild' BY <1>4 DEF Inv, PenaltyForRebuild
  <1>10. SomebodyCreates' BY <1>3, <1>4, <1>6 DEF Inv, SomebodyCreates, At
  <1>11. AloneOK' BY <1>3, <1>4, <1>6 DEF Inv, AloneOK, At, Alone
  <1>12. FreeBound' BY <1>1, <1>3, <1>4, <1>5, <1>7, RequestBound
  <1> QED BY <1>1, <1>3, <1>4, <1>5, <1>7, <1>8, <1>9, <1>10, <1>11, <1>12, RequestInv

LEMMA ExecuteInv == ASSUME ResetConstants, Inv, NEW t \in Threads, ExecuteReset(t) PROVE Inv'
  <1>1. thr[t] \in Frames /\ FrameOK(t) /\ thr[t].pc = "check" BY DEF ExecuteReset, At, Inv, Types
  <1>2. UNCHANGED <<conf, event, status, gen, con, rec, rebuilt, penalty, spent>> BY DEF ExecuteReset
  <1>a. PICK q \in {"record", "recover"} : q = IF status = "Resetting" THEN "recover" ELSE "record" OBVIOUS
  <1>b. PICK w \in BOOLEAN : w = IsFree(thr[t].by) BY DEF IsFree
  <1>c. PICK g \in Nat : g = gen + 1 BY DEF Inv, Types
  <1>d. g # 0 BY <1>c DEF Inv, Types
  <1> DEFINE y == [thr[t] EXCEPT !.gen = g, !.free = w, !.pc = q]
             x == IF CheckResetEligibility THEN y ELSE Idle
  <1>3. thr' = [thr EXCEPT ![t] = x]
    <2>1. CASE ~CheckResetEligibility BY <2>1 DEF ExecuteReset, Done
    <2>2. CASE CheckResetEligibility
      <3>1. thr' = [thr EXCEPT ![t] = [thr[t] EXCEPT !.gen = gen + 1, !.free = IsFree(thr[t].by),
                       !.pc = IF status = "Resetting" THEN "recover" ELSE "record"]]
        BY <2>2 DEF ExecuteReset, Inv, Types
      <3> QED BY <2>2, <3>1, <1>a, <1>b, <1>c
    <2> QED BY <2>1, <2>2
  <1>6. y \in Frames /\ y.pc = q /\ y.by = thr[t].by /\ y.free = w /\ y.gen = g
    BY <1>1 DEF Frames
  <1> HIDE DEF y
  <1>7. x \in Frames /\ x.pc \in {"idle", "record", "recover"}
        /\ (x.pc # "idle" => x.gen # 0) /\ (x.pc = "recover" => status = "Resetting")
        /\ (x.pc = "record" => x.by = thr[t].by /\ x.free = IsFree(thr[t].by))
    BY <1>6, <1>a, <1>b, <1>d DEF Idle, Frames
  <1> HIDE DEF x
  <1>8. thr'[t] = x /\ \A u \in Threads : u # t => thr'[u] = thr[u] BY <1>3 DEF Inv, Types
  <1>9. Types' BY <1>2, <1>3, <1>7 DEF Inv, Types, Rows
  <1>10. FrameOK(t)' BY <1>1, <1>2, <1>7, <1>8 DEF FrameOK, Rebuilding
  <1>11. PenaltyForRebuild' BY <1>2 DEF Inv, PenaltyForRebuild
  <1>12. SomebodyCreates' BY <1>1, <1>2, <1>7, <1>8 DEF Inv, SomebodyCreates, At
  <1>13. AloneOK' BY <1>2, <1>7, <1>8 DEF Inv, AloneOK, At, Alone
  <1>14. FreeBound'
    <2>1. CASE x.pc = "record" /\ x.free /\ x.by = "player"
      <3>1. Cardinality(Rows) < Free BY <2>1, <1>7 DEF IsFree, TeamResetCount
      <3>2. FreeRecords \subseteq Rows BY DEF FreeRecords, Rows, Inv
      <3>3. Cardinality(FreeRecords) <= Cardinality(Rows) BY <3>2, FiniteParts, FS_Subset DEF Inv
      <3>4. FreeRecords' = FreeRecords BY <1>2 DEF FreeRecords
      <3>5. Granted' \subseteq conf.threads
        <4> SUFFICES ASSUME NEW u \in Granted' PROVE u \in conf.threads OBVIOUS
        <4>1. u \in Threads /\ thr'[u].pc = "record" BY DEF Granted
        <4>2. CASE u = t BY <4>2, <1>1 DEF FrameOK
        <4>3. CASE u # t BY <4>1, <4>3, <1>8 DEF Inv, FrameOK
        <4> QED BY <4>2, <4>3
      <3>6. Cardinality(Granted') <= Cardinality(conf.threads) BY <3>5, FiniteParts, FS_Subset DEF Inv
      <3>7. Cardinality(Granted') \in Nat BY <3>5, FiniteParts, FS_Subset, FS_CardinalityType DEF Inv
      <3>8. Cardinality(FreeRecords) < Free /\ Cardinality(FreeRecords) \in Nat
        BY <3>1, <3>3, FiniteParts DEF ResetConstants, Inv
      <3>9. Cardinality(conf.threads) \in Nat /\ Free \in Nat BY FiniteParts DEF ResetConstants, Inv
      <3> QED BY <1>2, <3>4, <3>6, <3>7, <3>8, <3>9 DEF FreeBound
    <2>2. CASE ~(x.pc = "record" /\ x.free /\ x.by = "player")
      <3>1. FreeRecords' \subseteq FreeRecords BY <1>2 DEF FreeRecords
      <3>2. Granted' \subseteq Granted
        <4> SUFFICES ASSUME NEW u \in Granted' PROVE u \in Granted OBVIOUS
        <4>1. u # t BY <2>2, <1>8 DEF Granted
        <4> QED BY <4>1, <1>8 DEF Granted
      <3> QED BY <1>2, <1>9, <3>1, <3>2, BoundStays DEF Inv
    <2> QED BY <2>1, <2>2
  <1> QED BY <1>2, <1>3, <1>7, <1>9, <1>10, <1>11, <1>12, <1>13, <1>14, RequestInv

LEMMA InsertInv == ASSUME ResetConstants, Inv, NEW t \in Threads, InsertRecord(t) PROVE Inv'
  <1>1. thr[t] \in Frames /\ FrameOK(t) /\ thr[t].pc = "record" BY DEF InsertRecord, At, Inv, Types
  <1>2. UNCHANGED <<conf, event, status, gen, con, rebuilt, penalty, spent>> BY DEF InsertRecord
  <1>3. PICK i \in Records \ Rows :
          /\ rec' = [rec EXCEPT ![i] = [st |-> "pending", free |-> thr[t].free, by |-> thr[t].by]]
          /\ thr' = [thr EXCEPT ![t] = [thr[t] EXCEPT !.pc = "mark", !.id = i]]
    BY DEF InsertRecord, Inv, Types
  <1> DEFINE x == [thr[t] EXCEPT !.pc = "mark", !.id = i]
             r == [st |-> "pending", free |-> thr[t].free, by |-> thr[t].by]
  <1>4. x \in Frames /\ x.pc = "mark" /\ x.id = i /\ x.free = thr[t].free /\ x.gen = thr[t].gen
    BY <1>1, <1>3 DEF Frames, Rebuilding
  <1>5. r \in RecordRows /\ r.st = "pending" /\ r.free = thr[t].free /\ r.by = thr[t].by
    BY <1>1 DEF Frames, RecordRows
  <1>6. rec' = [rec EXCEPT ![i] = r] /\ thr' = [thr EXCEPT ![t] = x] BY <1>3
  <1> HIDE DEF x, r
  <1>7. \A u \in Threads : thr'[u] = IF u = t THEN x ELSE thr[u] BY <1>6 DEF Inv, Types
  <1>8. \A j \in Records : rec'[j] = IF j = i THEN r ELSE rec[j] BY <1>6 DEF Inv, Types
  <1>9. Rows' = Rows \cup {i} /\ i \notin Rows BY <1>3, <1>5, <1>8 DEF Rows
  <1>10. Types' BY <1>2, <1>4, <1>5, <1>6, <1>9 DEF Inv, Types
  <1>11. \A u \in Threads : FrameOK(u)'
    <2> SUFFICES ASSUME NEW u \in Threads PROVE FrameOK(u)' OBVIOUS
    <2>1. CASE u = t BY <2>1, <1>1, <1>2, <1>3, <1>4, <1>5, <1>7, <1>8, <1>9 DEF FrameOK, Rebuilding
    <2>2. CASE u # t
      <3>1. FrameOK(u) /\ thr'[u] = thr[u] BY <2>2, <1>7 DEF Inv
      <3>2. thr[u].pc \in Rebuilding => thr[u].id \in Records /\ thr[u].id # i
        BY <3>1, <1>9 DEF FrameOK, Rows
      <3> QED BY <3>1, <3>2, <1>2, <1>8, <1>9 DEF FrameOK
    <2> QED BY <2>1, <2>2
  <1>12. \A j \in Records : rec'[j].st = "none" => ~rec'[j].free BY <1>5, <1>8 DEF Inv
  <1>13. PenaltyForRebuild'
    <2>1. penalty \subseteq Records /\ i \notin penalty BY <1>9 DEF Inv, Types, Rows
    <2> QED BY <2>1, <1>2, <1>5, <1>8 DEF Inv, PenaltyForRebuild
  <1>14. SomebodyCreates' BY <1>1, <1>2, <1>7 DEF Inv, SomebodyCreates, At
  <1>15. AloneOK' BY <1>2, <1>4, <1>7 DEF Inv, AloneOK, At, Alone
  <1>16. FreeBound'
    <2>1. CASE t \in Granted
      <3>1. FreeRecords' \subseteq FreeRecords \cup {i} /\ i \notin FreeRecords
        BY <1>8, <1>9 DEF FreeRecords, Rows, Inv
      <3>2. Granted' \subseteq Granted \ {t} BY <1>4, <1>7 DEF Granted
      <3>3. IsFiniteSet(FreeRecords \cup {i}) /\ Cardinality(FreeRecords \cup {i}) = Cardinality(FreeRecords) + 1
        BY <3>1, FiniteParts, FS_AddElement DEF Inv
      <3>4. IsFiniteSet(Granted \ {t}) /\ Cardinality(Granted \ {t}) = Cardinality(Granted) - 1
        BY <2>1, FiniteParts, FS_RemoveElement DEF Inv
      <3>5. /\ Cardinality(FreeRecords') <= Cardinality(FreeRecords) + 1
            /\ Cardinality(Granted') <= Cardinality(Granted) - 1
        BY <3>1, <3>2, <3>3, <3>4, FS_Subset
      <3>6. Cardinality(FreeRecords') \in Nat /\ Cardinality(Granted') \in Nat
        BY <3>1, <3>2, <3>3, <3>4, FS_Subset, FS_CardinalityType
      <3>7. /\ Cardinality(FreeRecords) \in Nat /\ Cardinality(Granted) \in Nat /\ Free \in Nat
            /\ Cardinality(conf.threads) \in Nat /\ FreeBound
        BY FiniteParts DEF ResetConstants, Inv
      <3> QED BY <3>5, <3>6, <3>7, <1>2 DEF FreeBound
    <2>2. CASE t \notin Granted
      <3>1. ~(r.free /\ r.by = "player") BY <2>2, <1>1, <1>5 DEF Granted
      <3>2. FreeRecords' \subseteq FreeRecords BY <3>1, <1>8 DEF FreeRecords
      <3>3. Granted' \subseteq Granted BY <1>4, <1>7 DEF Granted
      <3> QED BY <3>2, <3>3, <1>2, <1>10, BoundStays DEF Inv
    <2> QED BY <2>1, <2>2
  <1> QED BY <1>10, <1>11, <1>12, <1>13, <1>14, <1>15, <1>16 DEF Inv

LEMMA MarkInv == ASSUME ResetConstants, Inv, NEW t \in Threads, MarkResetting(t) PROVE Inv'
  <1> DEFINE x == [thr[t] EXCEPT !.pc = "remove"]
  <1>1. thr[t] \in Frames /\ FrameOK(t) /\ thr[t].pc = "mark" BY DEF MarkResetting, At, Inv, Types
  <1>2. UNCHANGED <<conf, event, gen, con, rec, rebuilt, penalty, spent>> /\ status' = "Resetting"
    BY DEF MarkResetting
  <1>3. thr' = [thr EXCEPT ![t] = x] BY DEF MarkResetting, Step, Inv, Types
  <1>4. x \in Frames /\ x.pc = "remove" /\ x.id = thr[t].id /\ x.free = thr[t].free /\ x.gen = thr[t].gen
    BY <1>1 DEF Frames, Rebuilding
  <1> HIDE DEF x
  <1>5. thr'[t] = x /\ \A u \in Threads : u # t => thr'[u] = thr[u] BY <1>3 DEF Inv, Types
  <1>6. Types' BY <1>2, <1>3, <1>4 DEF Inv, Types, Rows
  <1>7. FrameOK(t)' BY <1>1, <1>2, <1>4, <1>5 DEF FrameOK, Rebuilding, Rows
  <1>8. PenaltyForRebuild' BY <1>2 DEF Inv, PenaltyForRebuild
  <1>9. SomebodyCreates' BY <1>1, <1>2, <1>5 DEF Inv, SomebodyCreates, At
  <1>10. AloneOK' BY <1>2, <1>4, <1>5 DEF Inv, AloneOK, At, Alone
  <1>11. FreeBound' BY <1>2, <1>3, <1>4, <1>6, RequestBound
  <1> QED BY <1>2, <1>3, <1>4, <1>6, <1>7, <1>8, <1>9, <1>10, <1>11, RequestInv

LEMMA RecoverInv == ASSUME ResetConstants, Inv, NEW t \in Threads, RecoverInFlightReset(t) PROVE Inv'
  <1>1. thr[t] \in Frames /\ FrameOK(t) /\ thr[t].pc = "recover" BY DEF RecoverInFlightReset, At, Inv, Types
  <1>2. UNCHANGED <<conf, event, status, gen, con, rec, rebuilt, penalty, spent>> BY DEF RecoverInFlightReset
  <1>3. PICK x \in Frames :
          /\ thr' = [thr EXCEPT ![t] = x]
          /\ \/ x.pc = "check"
             \/ x.pc = "remove" /\ x.id \in Rows /\ x.free = rec[x.id].free /\ x.gen = thr[t].gen
    <2>1. CASE Pending = {}
      <3> DEFINE y == [thr[t] EXCEPT !.pc = "check", !.by = "system"]
      <3>1. y \in Frames /\ y.pc = "check" BY <1>1 DEF Frames
      <3>2. thr' = [thr EXCEPT ![t] = y] BY <2>1 DEF RecoverInFlightReset, Inv, Types
      <3> QED BY <3>1, <3>2
    <2>2. CASE Pending # {}
      <3>1. PICK i \in Pending :
              thr' = [thr EXCEPT ![t] = [thr[t] EXCEPT !.pc = "remove", !.id = i, !.free = rec[i].free]]
        BY <2>2 DEF RecoverInFlightReset, Inv, Types
      <3>2. i \in Rows /\ i \in Records BY DEF Pending, Rows
      <3>3. PICK w \in BOOLEAN : w = rec[i].free BY <3>2 DEF Inv, Types, RecordRows
      <3> DEFINE y == [thr[t] EXCEPT !.pc = "remove", !.id = i, !.free = w]
      <3>4. y \in Frames /\ y.pc = "remove" /\ y.id = i /\ y.free = w /\ y.gen = thr[t].gen
        BY <1>1, <3>2 DEF Frames, Rebuilding
      <3>5. thr' = [thr EXCEPT ![t] = y] BY <3>1, <3>3
      <3> QED BY <3>2, <3>3, <3>4, <3>5
    <2> QED BY <2>1, <2>2
  <1>4. x.pc # "record" BY <1>3
  <1>5. thr'[t] = x /\ \A u \in Threads : u # t => thr'[u] = thr[u] BY <1>3 DEF Inv, Types
  <1>6. Types' BY <1>2, <1>3 DEF Inv, Types, Rows
  <1>7. FrameOK(t)' BY <1>1, <1>2, <1>3, <1>5 DEF FrameOK, Rebuilding, Rows
  <1>8. PenaltyForRebuild' BY <1>2 DEF Inv, PenaltyForRebuild
  <1>9. SomebodyCreates' BY <1>1, <1>2, <1>5 DEF Inv, SomebodyCreates, At
  <1>10. AloneOK' BY <1>1, <1>2, <1>3, <1>5 DEF Inv, AloneOK, At, Alone
  <1>11. FreeBound' BY <1>2, <1>3, <1>4, <1>6, RequestBound
  <1> QED BY <1>2, <1>3, <1>6, <1>7, <1>8, <1>9, <1>10, <1>11, RequestInv

LEMMA RemoveInv == ASSUME ResetConstants, Inv, NEW t \in Threads, RemoveContainer(t) PROVE Inv'
  <1>1. thr[t] \in Frames /\ FrameOK(t) /\ thr[t].pc = "remove" BY DEF RemoveContainer, At, Inv, Types
  <1>2. UNCHANGED <<conf, event, status, gen, rec, rebuilt, penalty>> BY DEF RemoveContainer
  <1>3. PICK q \in {"create", "fail"} :
          /\ thr' = [thr EXCEPT ![t] = [thr[t] EXCEPT !.pc = q]]
          /\ \/ q = "create" /\ con' = 0 /\ UNCHANGED spent
             \/ q = "fail" /\ con' = con
                /\ (spent' = spent \/ spent' = [spent EXCEPT !["fails"] = @ + 1])
    BY DEF RemoveContainer, Step, Count, Inv, Types
  <1> DEFINE x == [thr[t] EXCEPT !.pc = q]
  <1>4. x \in Frames /\ x.pc = q /\ x.id = thr[t].id /\ x.free = thr[t].free /\ x.gen = thr[t].gen
    BY <1>1 DEF Frames, Rebuilding
  <1>5. thr' = [thr EXCEPT ![t] = x] BY <1>3
  <1> HIDE DEF x
  <1>6. thr'[t] = x /\ \A u \in Threads : u # t => thr'[u] = thr[u] BY <1>5 DEF Inv, Types
  <1>7. /\ spent' \in [crashes : Nat, fails : Nat, moves : Nat] /\ con' \in Nat
        /\ spent'.crashes = spent.crashes /\ (spent'.fails = 0 => spent.fails = 0)
    BY <1>3 DEF Inv, Types
  <1>8. Types' BY <1>2, <1>4, <1>5, <1>7 DEF Inv, Types, Rows
  <1>9. FrameOK(t)' BY <1>1, <1>2, <1>4, <1>6 DEF FrameOK, Rebuilding, Rows
  <1>10. PenaltyForRebuild' BY <1>2 DEF Inv, PenaltyForRebuild
  <1>11. SomebodyCreates'
    <2>1. CASE q = "create" BY <2>1, <1>4, <1>6 DEF SomebodyCreates, At
    <2>2. CASE q = "fail" /\ con' = con
      <3> SUFFICES ASSUME spent'.fails + spent'.crashes = 0, con' = 0 PROVE \E u \in Threads : At(u, "create")'
        BY DEF SomebodyCreates
      <3>1. spent.fails + spent.crashes = 0 BY <1>7 DEF Inv, Types
      <3>2. PICK u \in Threads : At(u, "create") BY <2>2, <3>1 DEF Inv, SomebodyCreates
      <3> QED BY <3>2, <1>1, <1>6 DEF At
    <2> QED BY <1>3, <2>1, <2>2
  <1>12. AloneOK'
    <2> SUFFICES ASSUME Alone PROVE AloneOK' BY <1>2 DEF AloneOK, Alone
    <2>1. status = "Resetting" BY <1>1 DEF Inv, AloneOK, At
    <2>2. \A u \in Threads : u # t => thr[u].pc = "idle" BY <1>1, AloneFrames
    <2> QED BY <2>1, <2>2, <1>2, <1>3, <1>4, <1>6 DEF AloneOK, At
  <1>13. FreeBound' BY <1>2, <1>4, <1>5, <1>8, RequestBound
  <1> QED BY <1>2, <1>4, <1>5, <1>8, <1>9, <1>10, <1>11, <1>12, <1>13, RequestInv

LEMMA CreateInv == ASSUME ResetConstants, Inv, NEW t \in Threads, CreateContainer(t) PROVE Inv'
  <1>1. thr[t] \in Frames /\ FrameOK(t) /\ thr[t].pc = "create" BY DEF CreateContainer, At, Inv, Types
  <1>2. UNCHANGED <<conf, event, status, gen, rec, penalty>> BY DEF CreateContainer
  <1>3. PICK q \in {"ready", "fail"} :
          /\ thr' = [thr EXCEPT ![t] = [thr[t] EXCEPT !.pc = q]]
          /\ \/ q = "ready" /\ con' = thr[t].gen /\ rebuilt' = rebuilt \cup {thr[t].id} /\ UNCHANGED spent
             \/ q = "fail" /\ con # 0 /\ UNCHANGED <<con, rebuilt, spent>>
             \/ q = "fail" /\ con' \in {con, thr[t].gen} /\ rebuilt' = rebuilt
                /\ spent' = [spent EXCEPT !["fails"] = @ + 1]
    BY DEF CreateContainer, Step, Count, Inv, Types
  <1> DEFINE x == [thr[t] EXCEPT !.pc = q]
  <1>4. x \in Frames /\ x.pc = q /\ x.id = thr[t].id /\ x.free = thr[t].free /\ x.gen = thr[t].gen
    BY <1>1 DEF Frames, Rebuilding
  <1>5. thr' = [thr EXCEPT ![t] = x] BY <1>3
  <1> HIDE DEF x
  <1>6. thr'[t] = x /\ \A u \in Threads : u # t => thr'[u] = thr[u] BY <1>5 DEF Inv, Types
  <1>7. thr[t].id \in Rows /\ thr[t].gen \in Nat /\ thr[t].gen # 0
    BY <1>1 DEF FrameOK, Rebuilding, Frames
  <1>8. /\ spent' \in [crashes : Nat, fails : Nat, moves : Nat]
        /\ spent'.crashes = spent.crashes
        /\ q = "fail" /\ con = 0 => spent'.fails # 0
        /\ spent'.fails = 0 => spent.fails = 0
    BY <1>3 DEF Inv, Types
  <1>9. con' \in Nat /\ rebuilt' \subseteq Rows /\ rebuilt \subseteq rebuilt'
        /\ (q = "ready" => con' # 0 /\ thr[t].id \in rebuilt') /\ (con' # con => con' # 0)
    BY <1>3, <1>7 DEF Inv, Types
  <1>10. Types' BY <1>2, <1>4, <1>5, <1>8, <1>9 DEF Inv, Types, Rows
  <1>11. FrameOK(t)' BY <1>1, <1>2, <1>4, <1>6, <1>9 DEF FrameOK, Rebuilding, Rows
  <1>12. PenaltyForRebuild' BY <1>2, <1>9 DEF Inv, PenaltyForRebuild
  <1>13. SomebodyCreates'
    <2> SUFFICES ASSUME spent'.fails + spent'.crashes = 0 PROVE con' # 0 BY DEF SomebodyCreates
    <2>1. spent'.fails = 0 BY <1>8
    <2> QED BY <2>1, <1>3, <1>8, <1>9
  <1>14. AloneOK'
    <2> SUFFICES ASSUME Alone PROVE AloneOK' BY <1>2 DEF AloneOK, Alone
    <2>1. status = "Resetting" BY <1>1 DEF Inv, AloneOK, At
    <2>2. \A u \in Threads : u # t => thr[u].pc = "idle" BY <1>1, AloneFrames
    <2> QED BY <2>1, <2>2, <1>2, <1>4, <1>6, <1>9 DEF AloneOK, At
  <1>15. FreeBound' BY <1>2, <1>4, <1>5, <1>10, RequestBound
  <1> QED BY <1>2, <1>4, <1>5, <1>9, <1>10, <1>11, <1>12, <1>13, <1>14, <1>15, RequestInv

LEMMA ReadyInv == ASSUME ResetConstants, Inv, NEW t \in Threads, RecordReady(t) PROVE Inv'
  <1> DEFINE x == [thr[t] EXCEPT !.pc = "penalty"]
  <1>1. thr[t] \in Frames /\ FrameOK(t) /\ thr[t].pc = "ready" BY DEF RecordReady, At, Inv, Types
  <1>2. UNCHANGED <<conf, event, con, rec, rebuilt, penalty, spent>> /\ status' = "Ready" /\ gen' = thr[t].gen
    BY DEF RecordReady
  <1>3. thr' = [thr EXCEPT ![t] = x] BY DEF RecordReady, Step, Inv, Types
  <1>4. x \in Frames /\ x.pc = "penalty" /\ x.id = thr[t].id /\ x.free = thr[t].free /\ x.gen = thr[t].gen
    BY <1>1 DEF Frames, Rebuilding
  <1> HIDE DEF x
  <1>5. thr'[t] = x /\ \A u \in Threads : u # t => thr'[u] = thr[u] BY <1>3 DEF Inv, Types
  <1>6. gen' \in Nat BY <1>1, <1>2 DEF Frames
  <1>7. Types' BY <1>2, <1>3, <1>4, <1>6 DEF Inv, Types, Rows
  <1>8. FrameOK(t)' BY <1>1, <1>2, <1>4, <1>5 DEF FrameOK, Rebuilding, Rows
  <1>9. PenaltyForRebuild' BY <1>2 DEF Inv, PenaltyForRebuild
  <1>10. SomebodyCreates' BY <1>1, <1>2, <1>5 DEF Inv, SomebodyCreates, At
  <1>11. AloneOK'
    <2> SUFFICES ASSUME Alone PROVE AloneOK' BY <1>2 DEF AloneOK, Alone
    <2>1. con # 0 BY <1>1 DEF Inv, AloneOK, At
    <2>2. \A u \in Threads : u # t => thr[u].pc = "idle" BY <1>1, AloneFrames
    <2> QED BY <2>1, <2>2, <1>2, <1>4, <1>5 DEF AloneOK, At
  <1>12. FreeBound' BY <1>2, <1>3, <1>4, <1>7, RequestBound
  <1> QED BY <1>2, <1>3, <1>4, <1>7, <1>8, <1>9, <1>10, <1>11, <1>12, RequestInv

LEMMA PenaltyInv == ASSUME ResetConstants, Inv, NEW t \in Threads, ResetPenalty(t) PROVE Inv'
  <1>1. thr[t] \in Frames /\ FrameOK(t) /\ thr[t].pc = "penalty" BY DEF ResetPenalty, At, Inv, Types
  <1>2. UNCHANGED <<conf, event, status, gen, con, rec, rebuilt, spent>> BY DEF ResetPenalty
  <1>3. thr[t].id \in Rows /\ thr[t].id \in rebuilt /\ thr[t].free = rec[thr[t].id].free
    BY <1>1 DEF FrameOK, Rebuilding
  <1>4. PICK x \in Frames :
          /\ thr' = [thr EXCEPT ![t] = x] /\ x.pc \in {"complete", "idle"}
          /\ x.pc = "complete" => /\ x.id = thr[t].id /\ x.free = thr[t].free /\ x.gen = thr[t].gen
                                  /\ ~x.free => x.id \in penalty'
    <2>1. CASE Step(t, "complete") /\ penalty' = IF thr[t].free THEN penalty ELSE penalty \cup {thr[t].id}
      <3> DEFINE y == [thr[t] EXCEPT !.pc = "complete"]
      <3>1. y \in Frames /\ y.pc = "complete" /\ y.id = thr[t].id /\ y.free = thr[t].free /\ y.gen = thr[t].gen
        BY <1>1 DEF Frames, Rebuilding
      <3>2. thr' = [thr EXCEPT ![t] = y] BY <2>1 DEF Step, Inv, Types
      <3> HIDE DEF y
      <3> QED BY <2>1, <3>1, <3>2
    <2>2. CASE Done(t)
      <3>1. Idle \in Frames /\ Idle.pc = "idle" BY DEF Frames, Idle
      <3> QED BY <2>2, <3>1 DEF Done
    <2> QED BY <2>1, <2>2 DEF ResetPenalty
  <1>5. penalty \subseteq penalty' /\ penalty' \subseteq penalty \cup {thr[t].id}
        /\ (thr[t].free => penalty' = penalty)
    BY DEF ResetPenalty
  <1>6. thr'[t] = x /\ \A u \in Threads : u # t => thr'[u] = thr[u] BY <1>4 DEF Inv, Types
  <1>8. Types' BY <1>2, <1>3, <1>4, <1>5 DEF Inv, Types, Rows
  <1>9. FrameOK(t)' BY <1>1, <1>2, <1>3, <1>4, <1>6 DEF FrameOK, Rebuilding, Rows
  <1>10. PenaltyForRebuild' BY <1>2, <1>3, <1>5 DEF Inv, PenaltyForRebuild
  <1>11. SomebodyCreates' BY <1>1, <1>2, <1>6 DEF Inv, SomebodyCreates, At
  <1>12. AloneOK' BY <1>2, <1>4, <1>6 DEF Inv, AloneOK, At, Alone
  <1>13. FreeBound' BY <1>2, <1>4, <1>8, RequestBound
  <1> QED BY <1>2, <1>4, <1>5, <1>8, <1>9, <1>10, <1>11, <1>12, <1>13, RequestInv

\* The record is closed and the request answered.
LEMMA CloseInv ==
    ASSUME ResetConstants, Inv, NEW t \in Threads, CompleteRecord(t) \/ FailRecord(t) PROVE Inv'
  <1>1. thr[t] \in Frames /\ FrameOK(t) /\ thr[t].pc \in {"complete", "failRecord"}
    BY DEF CompleteRecord, FailRecord, At, Inv, Types
  <1>2. UNCHANGED <<conf, event, status, gen, con, rebuilt, penalty, spent>> BY DEF CompleteRecord, FailRecord
  <1>3. PICK z \in {"completed", "failed"} :
          rec' = [rec EXCEPT ![thr[t].id].st = z] /\ (z = "completed" => thr[t].pc = "complete")
    BY DEF CompleteRecord, FailRecord, At
  <1>4. thr' = [thr EXCEPT ![t] = Idle] BY DEF CompleteRecord, FailRecord, Done
  <1>5. Idle \in Frames /\ Idle.pc = "idle" BY DEF Frames, Idle
  <1>6. thr'[t] = Idle /\ \A u \in Threads : u # t => thr'[u] = thr[u] BY <1>4 DEF Inv, Types
  <1>7. PICK i \in Records : i = thr[t].id /\ i \in Rows /\ thr[t].free = rec[i].free
    BY <1>1 DEF FrameOK, Rebuilding, Rows
  <1>8. rec' \in [Records -> RecordRows] BY <1>3, <1>7 DEF Inv, Types, RecordRows
  <1>9. \A j \in Records : /\ rec'[j].free = rec[j].free /\ rec'[j].by = rec[j].by
                           /\ rec'[j].st = IF j = i THEN z ELSE rec[j].st
    BY <1>3, <1>7 DEF Inv, Types, RecordRows
  <1>10. \A j \in Records : rec'[j].st = "none" <=> rec[j].st = "none" BY <1>7, <1>9 DEF Rows
  <1>11. Rows' = Rows BY <1>10 DEF Rows
  <1>12. Types' BY <1>2, <1>4, <1>5, <1>8, <1>11 DEF Inv, Types
  <1>13. FrameOK(t)' BY <1>5, <1>6 DEF FrameOK, Rebuilding
  <1>14. PenaltyForRebuild'
    <2>1. penalty \subseteq Records BY DEF Inv, Types, Rows
    <2>2. z = "completed" /\ ~rec[i].free => i \in penalty BY <1>1, <1>3, <1>7 DEF FrameOK
    <2> QED BY <2>1, <2>2, <1>2, <1>9 DEF Inv, PenaltyForRebuild
  <1>15. SomebodyCreates' BY <1>1, <1>2, <1>6 DEF Inv, SomebodyCreates, At
  <1>16. AloneOK' BY <1>2, <1>5, <1>6 DEF Inv, AloneOK, At, Alone
  <1>17. FreeBound' BY <1>2, <1>4, <1>5, <1>9, <1>12, RequestBound
  <1> QED BY <1>2, <1>4, <1>5, <1>9, <1>10, <1>12, <1>13, <1>14, <1>15, <1>16, <1>17, RequestInv

LEMMA FailedInv == ASSUME ResetConstants, Inv, NEW t \in Threads, MarkResetFailed(t) PROVE Inv'
  <1> DEFINE x == [thr[t] EXCEPT !.pc = "failRecord"]
  <1>1. thr[t] \in Frames /\ FrameOK(t) /\ thr[t].pc = "fail" BY DEF MarkResetFailed, At, Inv, Types
  <1>2. UNCHANGED <<conf, event, gen, con, rec, rebuilt, penalty, spent>> /\ status' = "ResetFailed"
    BY DEF MarkResetFailed
  <1>3. thr' = [thr EXCEPT ![t] = x] BY DEF MarkResetFailed, Step, Inv, Types
  <1>4. x \in Frames /\ x.pc = "failRecord" /\ x.id = thr[t].id /\ x.free = thr[t].free /\ x.gen = thr[t].gen
    BY <1>1 DEF Frames, Rebuilding
  <1> HIDE DEF x
  <1>5. thr'[t] = x /\ \A u \in Threads : u # t => thr'[u] = thr[u] BY <1>3 DEF Inv, Types
  <1>6. Types' BY <1>2, <1>3, <1>4 DEF Inv, Types, Rows
  <1>7. FrameOK(t)' BY <1>1, <1>2, <1>4, <1>5 DEF FrameOK, Rebuilding, Rows
  <1>8. PenaltyForRebuild' BY <1>2 DEF Inv, PenaltyForRebuild
  <1>9. SomebodyCreates' BY <1>1, <1>2, <1>5 DEF Inv, SomebodyCreates, At
  <1>10. AloneOK'
    <2> SUFFICES ASSUME Alone PROVE AloneOK' BY <1>2 DEF AloneOK, Alone
    <2>1. \A u \in Threads : u # t => thr[u].pc = "idle" BY <1>1, AloneFrames
    <2> QED BY <2>1, <1>2, <1>4, <1>5 DEF AloneOK, At
  <1>11. FreeBound' BY <1>2, <1>3, <1>4, <1>6, RequestBound
  <1> QED BY <1>2, <1>3, <1>4, <1>6, <1>7, <1>8, <1>9, <1>10, <1>11, RequestInv

LEMMA MovesInv == ASSUME ResetConstants, Inv, EventMoves PROVE Inv'
  <1>1. UNCHANGED <<conf, status, gen, con, rec, rebuilt, penalty, thr>> BY DEF EventMoves
  <1>2. /\ spent' \in [crashes : Nat, fails : Nat, moves : Nat]
        /\ spent'.crashes = spent.crashes /\ spent'.fails = spent.fails
    BY DEF EventMoves, Count, Inv, Types
  <1>3. Types' BY <1>1, <1>2 DEF Inv, Types, Rows
  <1>4. \A t \in Threads : FrameOK(t)' BY <1>1 DEF Inv, FrameOK, Rows
  <1>5. PenaltyForRebuild' /\ AloneOK' BY <1>1 DEF Inv, PenaltyForRebuild, AloneOK, At, Alone
  <1>6. SomebodyCreates' BY <1>1, <1>2 DEF Inv, SomebodyCreates, At
  <1>7. FreeBound' BY <1>1 DEF Inv, FreeBound, FreeRecords, Granted
  <1> QED BY <1>1, <1>3, <1>4, <1>5, <1>6, <1>7 DEF Inv

\* A crash loses the requests and keeps the rows and the container.
LEMMA CrashInv == ASSUME ResetConstants, Inv, Crash PROVE Inv'
  <1>1. UNCHANGED <<conf, event, status, gen, con, rec, rebuilt, penalty>> BY DEF Crash
  <1>2. thr' = [t \in Threads |-> Idle] BY DEF Crash
  <1>3. /\ spent' \in [crashes : Nat, fails : Nat, moves : Nat] /\ spent'.crashes # 0
    BY DEF Crash, Count, Inv, Types
  <1>4. Idle \in Frames /\ Idle.pc = "idle" BY DEF Frames, Idle
  <1>5. \A t \in Threads : thr'[t] = Idle BY <1>2
  <1>6. Types' BY <1>1, <1>2, <1>3, <1>4 DEF Inv, Types, Rows
  <1>7. \A t \in Threads : FrameOK(t)' BY <1>4, <1>5 DEF FrameOK, Rebuilding
  <1>8. PenaltyForRebuild' BY <1>1 DEF Inv, PenaltyForRebuild
  <1>9. AloneOK' BY <1>1, <1>4, <1>5 DEF Inv, AloneOK, At, Alone
  <1>10. SomebodyCreates' BY <1>3 DEF SomebodyCreates
  <1>11. FreeBound'
    <2>1. FreeRecords' \subseteq FreeRecords BY <1>1 DEF FreeRecords
    <2>2. Granted' \subseteq Granted BY <1>4, <1>5 DEF Granted
    <2> QED BY <2>1, <2>2, <1>1, <1>6, BoundStays DEF Inv
  <1> QED BY <1>1, <1>6, <1>7, <1>8, <1>9, <1>10, <1>11 DEF Inv

\* Every step keeps the invariant.
LEMMA NextInv == ASSUME ResetConstants, Inv, [Next]_vars PROVE Inv'
  <1>1. CASE \E t \in conf.threads : PlayerReset(t) \/ AdminReset(t) BY <1>1, BeginInv
  <1>2. ASSUME NEW t \in Threads, Continue(t) PROVE Inv'
    BY <1>2, ExecuteInv, InsertInv, MarkInv, RecoverInv, RemoveInv, CreateInv, ReadyInv, PenaltyInv,
       CloseInv, FailedInv DEF Continue
  <1>3. CASE EventMoves BY <1>3, MovesInv
  <1>4. CASE Crash BY <1>4, CrashInv
  <1>5. CASE UNCHANGED vars
    <2>1. UNCHANGED <<conf, status, gen, con, rec, rebuilt, penalty, thr, spent>> BY <1>5 DEF vars
    <2>2. Types' /\ PenaltyForRebuild' /\ AloneOK'
      BY <2>1 DEF Inv, Types, Rows, PenaltyForRebuild, AloneOK, At, Alone
    <2>3. \A t \in Threads : FrameOK(t)' BY <2>1 DEF Inv, FrameOK, Rows
    <2>4. SomebodyCreates' /\ FreeBound'
      BY <2>1 DEF Inv, SomebodyCreates, At, FreeBound, FreeRecords, Granted
    <2> QED BY <2>1, <2>2, <2>3, <2>4 DEF Inv
  <1> QED BY <1>1, <1>2, <1>3, <1>4, <1>5 DEF Next

\* What the invariant says of the properties.
LEMMA InvResults ==
    ASSUME ResetConstants, Inv PROVE TypeOK /\ PenaltyForRebuild /\ FreeResetsBounded /\ ReadyHasContainer
  <1>1. TypeOK BY DEF Inv, Types, TypeOK, RecordRows
  <1>2. FreeResetsBounded
    <2>1. /\ Cardinality(FreeRecords) \in Nat /\ Cardinality(Granted) \in Nat /\ Free \in Nat
          /\ Cardinality(conf.threads) \in Nat /\ FreeBound
      BY FiniteParts DEF ResetConstants, Inv
    <2> QED BY <2>1 DEF FreeBound, FreeResetsBounded, FreeRecords
  <1>3. ReadyHasContainer
    <2> SUFFICES ASSUME status = "Ready", \A t \in Threads : At(t, "idle"), con = 0
                 PROVE  Cardinality(conf.threads) > 1 /\ spent.fails + spent.crashes > 0
      BY DEF ReadyHasContainer
    <2>1. spent.fails + spent.crashes > 0
      <3>1. spent.fails + spent.crashes # 0 BY DEF Inv, SomebodyCreates, At
      <3> QED BY <3>1 DEF Inv, Types
    <2>2. PICK t \in conf.threads, u \in conf.threads : t # u BY DEF Inv, AloneOK, Alone
    <2>3. Cardinality({t, u}) = 2 /\ {t, u} \subseteq conf.threads
      <3>1. IsFiniteSet({t}) /\ Cardinality({t}) = 1 BY FS_Singleton
      <3>2. u \notin {t} /\ {t, u} = {t} \cup {u} BY <2>2
      <3>3. Cardinality({t} \cup {u}) = 2 BY <3>1, <3>2, FS_AddElement
      <3> QED BY <3>2, <3>3
    <2>4. Cardinality({t, u}) <= Cardinality(conf.threads) BY <2>3, FiniteParts, FS_Subset DEF Inv
    <2>5. Cardinality(conf.threads) \in Nat BY FiniteParts DEF Inv
    <2> QED BY <2>1, <2>3, <2>4, <2>5
  <1> QED BY <1>1, <1>2, <1>3 DEF Inv

(* The invariant holds in every reachable state of the resets. *)
THEOREM InvHolds == ASSUME ResetConstants PROVE Spec => []Inv
  <1>1. Init => Inv BY InitInv
  <1>2. Inv /\ [Next]_vars => Inv' BY NextInv
  <1> QED BY <1>1, <1>2, PTL DEF Spec

(* However requests, recoveries, crashes and docker failures interleave,   *)
(* execute_reset and recover_in_flight_reset charge a reset only if it was *)
(* not free and its container was rebuilt, and complete none that was not  *)
(* free without charging it.                                               *)
THEOREM PenaltiesAreForRebuilds == ASSUME ResetConstants PROVE Spec => []PenaltyForRebuild
  <1>1. Inv => PenaltyForRebuild BY DEF Inv
  <1> QED BY <1>1, InvHolds, PTL

(* execute_reset counts the team's resets before it records one: n players *)
(* at once get at most n - 1 free resets too many, never more, however     *)
(* many resets there are.                                                  *)
THEOREM FreeResetsStayBounded == ASSUME ResetConstants PROVE Spec => []FreeResetsBounded
  <1>1. Inv => FreeResetsBounded BY InvResults
  <1> QED BY <1>1, InvHolds, PTL

(* A box that is Ready and left alone has its container: through crashes   *)
(* and docker failures when requests do not overlap, through any overlap   *)
(* when nothing failed.                                                    *)
THEOREM ReadyBoxesRun == ASSUME ResetConstants PROVE Spec => []ReadyHasContainer
  <1>1. Inv => ReadyHasContainer BY InvResults
  <1> QED BY <1>1, InvHolds, PTL
=============================================================================

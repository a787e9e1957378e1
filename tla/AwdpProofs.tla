----------------------------- MODULE AwdpProofs -----------------------------
(***************************************************************************)
(* What is proved of AWDP: for each of AwdpRun, AwdpFix, AwdpPractice and  *)
(* AwdpNetwork that its invariant Inductive holds at first and is kept by  *)
(* every step, and what follows from it; then, of the specifications of    *)
(* MCAwdp, MatchScores, FixStartsPristine, PracticeConsistent and          *)
(* HistoryStands. A step is judged part by part: predicates over the next  *)
(* state (RunData, FixEvals, PracRows, NetJudges ...) say what it may do   *)
(* to a part, and a lemma (RunStepKeeps, FixStepKeeps ...) that together   *)
(* they keep the invariant.                                                *)
(***************************************************************************)
EXTENDS MCAwdp, FiniteSetTheorems, TLAPS

----------------------------------------------------------------------------
(* AwdpRun: a match up to its Fix phase *)

RunThread == [pc : Run!Pcs, slot : Run!Slots, gen : 0..MaxGen,
              loop : {"no", "start", "reset", "stop"}, todo : SUBSET Boxes]

(* The thread that has nothing in hand is a thread.                        *)
LEMMA RunIdleTyped ==
    /\ Run!Idle \in RunThread
    /\ Run!Idle.pc = "idle" /\ Run!Idle.loop = "no" /\ Run!Idle.todo = {}
  <1>1. PICK b \in Boxes : b = (CHOOSE c \in Boxes : TRUE)
    BY MatchAssumption
  <1>2. <<1, b>> \in Run!Slots
    BY MatchAssumption DEF Run!Slots
  <1> QED BY <1>1, <1>2, MatchAssumption DEF Run!Idle, Run!Pcs, RunThread

LEMMA RunInit == Run!Init => Run!Inductive
  <1> SUFFICES ASSUME Run!Init PROVE Run!Inductive
    OBVIOUS
  <1> USE DEF Run!Init
  <1>1. Run!Types
    BY RunIdleTyped, MatchAssumption
    DEF Run!Types, Run!Phases, Run!RuntimeStates, RunThread
  <1>2. Run!IdleIsIdle
    BY DEF Run!IdleIsIdle
  <1>3. Run!RowsExist
    BY RunIdleTyped DEF Run!RowsExist, Run!HasRow
  <1>4. Run!ResetsLeaveNone
    BY RunIdleTyped DEF Run!ResetsLeaveNone
  <1>5. Run!BreakIsScored
    BY DEF Run!BreakIsScored
  <1> QED BY <1>1, <1>2, <1>3, <1>4, <1>5 DEF Run!Inductive

(* What a step may do to the rows and the containers: a run does not go    *)
(* back behind PreparingFix, a row stays, and a container is created for a *)
(* row, in the phase the run is in.                                        *)
RunLate == {"PreparingFix", "Fix", "Ended"}
RunData ==
    /\ x1' \in [MatchRuns -> Run!Phases]
    /\ \A r \in MatchRuns : x1[r] \in RunLate => x1'[r] \in RunLate
    /\ x2' \in [Run!Slots -> [st : Run!RuntimeStates, gen : 0..MaxGen]]
    /\ \A s \in Run!Slots : x2[s].st # "none" => x2'[s].st # "none"
    /\ x3' \in [Run!Slots -> Run!Phases \cup {"no"}]
    /\ \A s \in Run!Slots : \/ x3'[s] = x3[s] \/ x3'[s] = "no"
                            \/ x2'[s].st # "none" /\ x3'[s] = x1[s[1]]
    /\ x8' \in [crashes : Nat, fails : Nat] /\ x8'.crashes >= x8.crashes

(* What a thread may become.                                               *)
RunResetOf(x) ==
    x.loop = "reset" =>
        /\ x1[x.slot[1]] \in RunLate
        /\ \A b \in x.todo : x2[<<x.slot[1], b>>].st # "none"
        /\ \A b \in Boxes \ x.todo : x3'[<<x.slot[1], b>>] # "Break"
RunBecomes(t, x) ==
    /\ x \in RunThread /\ x7' = [x7 EXCEPT ![t] = x]
    /\ x.pc = "idle" => x = Run!Idle
    /\ x.pc \in Run!HasRow => x2'[x.slot].st # "none"
    /\ RunResetOf(x)

(* What a step may do to breaks and their scores.                          *)
RunScores(t, x) ==
    /\ x5' \subseteq Run!Slots /\ x6' \subseteq Run!Slots /\ x6 \subseteq x6'
    /\ \A s \in x5' : s \in x5 \/ (x.pc = "score" /\ x.slot = s)
    /\ x7[t].pc = "score" => x7[t].slot \in x6'

LEMMA RunStepKeeps ==
    ASSUME Run!Inductive, NEW t \in Threads, NEW x, RunData, RunBecomes(t, x), RunScores(t, x)
    PROVE  Run!Inductive'
  <1> USE DEF Run!Inductive
  <1>1. /\ x7' \in [Threads -> RunThread] /\ x7 \in [Threads -> RunThread] /\ x7'[t] = x
        /\ \A u \in Threads : u # t => x7'[u] = x7[u]
    BY DEF RunBecomes, Run!Types, RunThread
  <1>2. Run!Types'
    BY <1>1 DEF RunData, RunScores, Run!Types, RunThread
  <1>3. Run!IdleIsIdle'
    BY <1>1 DEF RunBecomes, Run!IdleIsIdle, Run!At
  <1>4. Run!RowsExist'
    <2>1. ASSUME NEW s \in Run!Slots, x3'[s] # "no" PROVE x2'[s].st # "none"
      BY <2>1 DEF RunData, Run!RowsExist
    <2>2. ASSUME NEW u \in Threads, x7'[u].pc \in Run!HasRow PROVE x2'[x7'[u].slot].st # "none"
      <3>1. CASE u = t
        BY <3>1, <2>2, <1>1 DEF RunBecomes
      <3>2. CASE u # t
        <4>1. x2[x7[u].slot].st # "none" /\ x7[u].slot \in Run!Slots
          BY <3>2, <2>2, <1>1 DEF Run!RowsExist, RunThread
        <4> QED BY <4>1, <3>2, <1>1 DEF RunData
      <3> QED BY <3>1, <3>2
    <2> QED BY <2>1, <2>2 DEF Run!RowsExist
  <1>5. Run!ResetsLeaveNone'
    <2> SUFFICES ASSUME NEW u \in Threads, x7'[u].loop = "reset"
                 PROVE  /\ x1'[x7'[u].slot[1]] \in RunLate
                        /\ \A b \in x7'[u].todo : x2'[<<x7'[u].slot[1], b>>].st # "none"
                        /\ \A b \in Boxes \ x7'[u].todo : x3'[<<x7'[u].slot[1], b>>] # "Break"
      BY DEF Run!ResetsLeaveNone, RunLate
    <2>1. PICK r \in MatchRuns : r = x7'[u].slot[1]
      BY <1>1 DEF RunThread, Run!Slots
    <2>2. x7'[u].todo \subseteq Boxes
      BY <1>1 DEF RunThread
    <2>3. \A b \in Boxes : <<r, b>> \in Run!Slots /\ <<r, b>>[1] = r
      BY DEF Run!Slots
    <2>4. CASE u = t
      <3>1. RunResetOf(x) /\ x7'[u] = x
        BY <2>4, <1>1 DEF RunBecomes
      <3> QED BY <3>1, <2>1, <2>2, <2>3 DEF RunResetOf, RunData
    <2>5. CASE u # t
      <3>1. /\ x1[r] \in RunLate
            /\ \A b \in x7'[u].todo : x2[<<r, b>>].st # "none"
            /\ \A b \in Boxes \ x7'[u].todo : x3[<<r, b>>] # "Break"
        BY <2>1, <2>5, <1>1 DEF Run!ResetsLeaveNone, RunLate
      <3>2. \A b \in Boxes \ x7'[u].todo : x3'[<<r, b>>] # "Break"
        <4> SUFFICES ASSUME NEW b \in Boxes \ x7'[u].todo PROVE x3'[<<r, b>>] # "Break"
          OBVIOUS
        <4>1. \/ x3'[<<r, b>>] = x3[<<r, b>>] \/ x3'[<<r, b>>] = "no" \/ x3'[<<r, b>>] = x1[r]
          BY <2>3 DEF RunData
        <4> QED BY <4>1, <3>1 DEF RunLate
      <3> QED BY <3>1, <3>2, <2>1, <2>2, <2>3 DEF RunData
    <2> QED BY <2>4, <2>5
  <1>6. Run!BreakIsScored'
    <2> SUFFICES ASSUME NEW s \in x5'
                 PROVE  \/ s \in x6' \/ x8'.crashes > 0
                        \/ \E u \in Threads : x7'[u].pc = "score" /\ x7'[u].slot = s
      BY DEF Run!BreakIsScored, Run!At
    <2>1. CASE s \notin x5
      BY <2>1, <1>1 DEF RunScores
    <2>2. CASE s \in x5 /\ (s \in x6 \/ x8.crashes > 0)
      BY <2>2 DEF RunScores, RunData, Run!Types
    <2>3. ASSUME NEW u \in Threads, x7[u].pc = "score", x7[u].slot = s
          PROVE  s \in x6' \/ \E v \in Threads : x7'[v].pc = "score" /\ x7'[v].slot = s
      BY <2>3, <1>1 DEF RunScores
    <2> QED BY <2>1, <2>2, <2>3 DEF Run!BreakIsScored, Run!At
  <1> QED BY <1>2, <1>3, <1>4, <1>5, <1>6

(* Steps that leave the rows alone.                                        *)
LEMMA RunQuietData ==
    ASSUME Run!Inductive, UNCHANGED <<x1, x2, x3, x8>> PROVE RunData
  BY DEF RunData, Run!Inductive, Run!Types

LEMMA RunQuietScores ==
    ASSUME Run!Inductive, NEW t \in Threads, NEW x, x7[t].pc # "score", UNCHANGED <<x5, x6>>
    PROVE  RunScores(t, x)
  BY DEF RunScores, Run!Inductive, Run!Types

(* A thread that goes on with the same instances.                          *)
LEMMA RunSameLoop ==
    ASSUME Run!Inductive, RunData, NEW t \in Threads, NEW x \in RunThread,
           x.loop = x7[t].loop, x.slot[1] = x7[t].slot[1], x.todo = x7[t].todo
    PROVE  RunResetOf(x)
  <1> SUFFICES ASSUME x.loop = "reset" PROVE RunResetOf(x)
    BY DEF RunResetOf
  <1>1. PICK r \in MatchRuns : r = x.slot[1]
    BY DEF RunThread, Run!Slots
  <1>2. /\ x1[r] \in RunLate
        /\ \A b \in x.todo : x2[<<r, b>>].st # "none"
        /\ \A b \in Boxes \ x.todo : x3[<<r, b>>] # "Break"
    BY <1>1 DEF Run!Inductive, Run!ResetsLeaveNone, RunLate
  <1>3. \A b \in Boxes : <<r, b>> \in Run!Slots /\ <<r, b>>[1] = r
    BY DEF Run!Slots
  <1>4. \A b \in Boxes \ x.todo : x3'[<<r, b>>] # "Break"
    <2> SUFFICES ASSUME NEW b \in Boxes \ x.todo PROVE x3'[<<r, b>>] # "Break"
      OBVIOUS
    <2>1. \/ x3'[<<r, b>>] = x3[<<r, b>>] \/ x3'[<<r, b>>] = "no" \/ x3'[<<r, b>>] = x1[r]
      BY <1>3 DEF RunData
    <2> QED BY <2>1, <1>2 DEF RunLate
  <1> QED BY <1>1, <1>2, <1>4 DEF RunResetOf

(* Done, Go and After.                                                     *)
LEMMA RunDone ==
    ASSUME NEW t \in Threads, Run!Done(t) PROVE RunBecomes(t, Run!Idle)
  BY RunIdleTyped DEF Run!Done, RunBecomes, RunResetOf, Run!HasRow

LEMMA RunThreadTyped ==
    ASSUME Run!Inductive, NEW t \in Threads
    PROVE  /\ x7[t] \in RunThread /\ x7[t].slot \in Run!Slots /\ x7[t].gen \in 0..MaxGen
           /\ x7[t].slot[1] \in MatchRuns /\ x7[t].slot[2] \in Boxes
           /\ x7[t].slot = <<x7[t].slot[1], x7[t].slot[2]>> /\ x7[t].todo \subseteq Boxes
           /\ x7 = [u \in Threads |-> x7[u]]
  BY DEF Run!Inductive, Run!Types, RunThread, Run!Slots

LEMMA RunGo ==
    ASSUME Run!Inductive, RunData, NEW t \in Threads, NEW pc \in Run!Pcs, Run!Go(t, pc),
           pc # "idle", pc \in Run!HasRow => x2'[x7[t].slot].st # "none"
    PROVE  RunBecomes(t, [x7[t] EXCEPT !.pc = pc])
  <1> DEFINE x == [x7[t] EXCEPT !.pc = pc]
  <1>1. /\ x \in RunThread /\ x.pc = pc /\ x.slot = x7[t].slot /\ x.loop = x7[t].loop
        /\ x.todo = x7[t].todo
    BY RunThreadTyped DEF RunThread
  <1>2. x7' = [x7 EXCEPT ![t] = x]
    BY RunThreadTyped DEF Run!Go
  <1> HIDE DEF x
  <1>3. RunResetOf(x)
    BY <1>1, RunSameLoop
  <1>4. RunBecomes(t, x)
    BY <1>1, <1>2, <1>3 DEF RunBecomes
  <1> QED BY <1>4 DEF x

LEMMA RunAfter ==
    ASSUME Run!Inductive, RunData, NEW t \in Threads, Run!After(t)
    PROVE  \E x : RunBecomes(t, x) /\ x.pc \in {"idle", "loop"}
  <1>1. CASE x7[t].loop = "no"
    <2>1. Run!Done(t)
      BY <1>1, RunThreadTyped DEF Run!After, Run!Done
    <2> QED BY <2>1, RunDone, RunIdleTyped
  <1>2. CASE x7[t].loop # "no"
    <2>1. Run!Go(t, "loop")
      BY <1>2, RunThreadTyped DEF Run!After, Run!Go
    <2>2. RunBecomes(t, [x7[t] EXCEPT !.pc = "loop"])
      BY <2>1, RunGo DEF Run!Pcs, Run!HasRow
    <2>3. [x7[t] EXCEPT !.pc = "loop"].pc = "loop"
      BY RunThreadTyped DEF RunThread
    <2> QED BY <2>2, <2>3
  <1> QED BY <1>1, <1>2

(* A thread that begins something is idle; it takes a run or an instance   *)
(* in hand and has nothing to go through.                                  *)
LEMMA RunBegins ==
    ASSUME Run!Inductive, RunData, NEW t \in Threads,
           NEW x \in RunThread, x.pc # "idle", x.pc \in Run!HasRow => x2'[x.slot].st # "none",
           x.loop # "reset", x7' = [x7 EXCEPT ![t] = x]
    PROVE  RunBecomes(t, x)
  BY DEF RunBecomes, RunResetOf

LEMMA RunHasTyped ==
    ASSUME NEW r \in MatchRuns, NEW pc \in Run!Pcs
    PROVE  LET x == Run!Has(pc, r) IN
           /\ x \in RunThread /\ x.pc = pc /\ x.loop = "no" /\ x.slot[1] = r
  <1>1. PICK b \in Boxes : b = Run!Idle.slot[2]
    BY RunIdleTyped DEF RunThread, Run!Slots
  <1>2. <<r, b>> \in Run!Slots
    BY DEF Run!Slots
  <1>3. Run!Has(pc, r) = [Run!Idle EXCEPT !.pc = pc, !.slot = <<r, b>>]
    BY <1>1, RunIdleTyped DEF Run!Has, RunThread
  <1>4. Run!Idle \in RunThread /\ Run!Idle.loop = "no" /\ <<r, b>>[1] = r
    BY RunIdleTyped
  <1> QED BY <1>2, <1>3, <1>4 DEF RunThread

LEMMA RunLoopTyped ==
    ASSUME NEW r \in MatchRuns, NEW kind \in {"start", "reset", "stop"}, NEW bs \in SUBSET Boxes
    PROVE  LET x == Run!Loop(kind, r, bs) IN
           /\ x \in RunThread /\ x.pc = "loop" /\ x.loop = kind /\ x.todo = bs /\ x.slot[1] = r
  <1> DEFINE h == Run!Has("loop", r)
  <1>1. h \in RunThread /\ h.pc = "loop" /\ h.slot[1] = r
    BY RunHasTyped DEF Run!Pcs
  <1>2. Run!Loop(kind, r, bs) = [h EXCEPT !.loop = kind, !.todo = bs]
    BY DEF Run!Loop
  <1> HIDE DEF h
  <1> QED BY <1>1, <1>2 DEF RunThread

LEMMA RunTickCreate ==
    ASSUME Run!Inductive, NEW t \in Threads, Run!TickCreate(t) PROVE Run!Inductive'
  <1>1. RunData
    BY RunQuietData DEF Run!TickCreate, Run!Rowless
  <1>2. RunBecomes(t, [x7[t] EXCEPT !.pc = "tickInsert"])
    BY <1>1, RunGo DEF Run!TickCreate, Run!Pcs, Run!HasRow
  <1> QED BY <1>1, <1>2, RunQuietScores, RunStepKeeps DEF Run!TickCreate, Run!Rowless, Run!At

LEMMA RunTakesRun ==
    ASSUME Run!Inductive, NEW t \in Threads, x7[t].pc # "score", NEW r \in MatchRuns,
           x7' = [x7 EXCEPT ![t] = Run!Has("begin", r)],
           RunData, UNCHANGED <<x5, x6>>
    PROVE  Run!Inductive'
  <1> DEFINE x == Run!Has("begin", r)
  <1>1. x \in RunThread /\ x.pc = "begin" /\ x.loop = "no"
    BY RunHasTyped DEF Run!Pcs
  <1>2. x7' = [x7 EXCEPT ![t] = x]
    OBVIOUS
  <1> HIDE DEF x
  <1>3. RunBecomes(t, x)
    BY <1>1, <1>2, RunBegins DEF Run!HasRow
  <1> QED BY <1>3, RunQuietScores, RunStepKeeps

LEMMA RunAdminStart ==
    ASSUME Run!Inductive, NEW t \in Threads, Run!AdminStart(t) PROVE Run!Inductive'
  <1>1. RunData /\ x7[t].pc = "idle" /\ UNCHANGED <<x5, x6>>
    BY RunQuietData DEF Run!AdminStart, Run!Rowless, Run!At
  <1>2. ASSUME NEW r \in Run!ActiveRuns,
               x7' = [x7 EXCEPT ![t] = Run!Has("begin", r)]
        PROVE  Run!Inductive'
    BY <1>1, <1>2, RunTakesRun DEF Run!ActiveRuns
  <1>3. CASE Run!Go(t, "insert")
    <2>1. RunBecomes(t, [x7[t] EXCEPT !.pc = "insert"])
      BY <1>1, <1>3, RunGo DEF Run!Pcs, Run!HasRow
    <2> QED BY <1>1, <2>1, RunQuietScores, RunStepKeeps
  <1> QED BY <1>2, <1>3 DEF Run!AdminStart

LEMMA RunInsertRun ==
    ASSUME Run!Inductive, NEW t \in Threads, Run!InsertRun(t) PROVE Run!Inductive'
  <1>1. PICK r \in MatchRuns \ Run!Rows :
             /\ x1' = [x1 EXCEPT ![r] = "Pending"]
             /\ x7' = [x7 EXCEPT ![t] = IF Run!At(t, "insert")
                                        THEN Run!Has("begin", r)
                                        ELSE Run!Idle]
    BY DEF Run!InsertRun
  <1>2. RunData
    BY <1>1 DEF Run!InsertRun, RunData, Run!Inductive, Run!Types, Run!Phases, Run!Rows, RunLate
  <1>3. x7[t].pc # "score" /\ UNCHANGED <<x5, x6>>
    BY DEF Run!InsertRun, Run!At
  <1>4. CASE Run!At(t, "insert")
    BY <1>1, <1>2, <1>3, <1>4, RunTakesRun
  <1>5. CASE ~Run!At(t, "insert")
    <2>1. Run!Done(t)
      BY <1>1, <1>5 DEF Run!Done
    <2> QED BY <1>2, <1>3, <2>1, RunDone, RunQuietScores, RunStepKeeps
  <1> QED BY <1>4, <1>5

(* A phase that moves on.                                                  *)
LEMMA RunTransition ==
    ASSUME Run!Inductive, NEW r \in MatchRuns, UNCHANGED <<x2, x3, x8>>,
           \/ Run!TransitionPhase(r, "Pending", "Break")
           \/ Run!TransitionPhase(r, "Break", "PreparingFix")
           \/ Run!TransitionPhase(r, "PreparingFix", "Fix")
           \/ Run!TransitionPhase(r, "Fix", "Ended")
    PROVE  RunData
  BY DEF Run!TransitionPhase, RunData, Run!Inductive, Run!Types, Run!Phases, RunLate

LEMMA RunBeginBreak ==
    ASSUME Run!Inductive, NEW t \in Threads, Run!BeginBreak(t) PROVE Run!Inductive'
  <1>1. PICK r \in MatchRuns : r = x7[t].slot[1]
    BY RunThreadTyped
  <1>2. x7[t].pc # "score" /\ UNCHANGED <<x2, x3, x5, x6, x8>>
    BY DEF Run!BeginBreak, Run!At
  <1>3. CASE Run!TransitionPhase(r, "Pending", "Break")
             /\ x7' = [x7 EXCEPT ![t] = Run!Loop("start", r, Boxes)]
    <2>1. RunData
      BY <1>2, <1>3, RunTransition
    <2>2. RunBecomes(t, Run!Loop("start", r, Boxes))
      BY <1>3, <2>1, RunLoopTyped, RunBegins DEF Run!HasRow
    <2> QED BY <1>2, <2>1, <2>2, RunQuietScores, RunStepKeeps
  <1>4. CASE x1' = x1 /\ Run!Done(t)
    BY <1>2, <1>4, RunQuietData, RunDone, RunQuietScores, RunStepKeeps
  <1> QED BY <1>1, <1>3, <1>4 DEF Run!BeginBreak

LEMMA RunTickBegin ==
    ASSUME Run!Inductive, NEW t \in Threads, NEW r \in MatchRuns, Run!TickBegin(t, r)
    PROVE  Run!Inductive'
  BY RunQuietData, RunTakesRun DEF Run!TickBegin, Run!Rowless, Run!At

(* A start, a stop, a flag: the idle thread takes the instance s in hand.  *)
LEMMA RunIdleThread ==
    ASSUME Run!Inductive, NEW t \in Threads, Run!At(t, "idle")
    PROVE  x7[t] = Run!Idle /\ x7[t] \in RunThread /\ x7[t].loop = "no"
  <1>1. x7[t] = Run!Idle
    BY DEF Run!Inductive, Run!IdleIsIdle
  <1> QED BY <1>1, RunIdleTyped

LEMMA RunStartInstance ==
    ASSUME Run!Inductive, NEW t \in Threads, Run!At(t, "idle"), NEW s \in Run!Slots,
           Run!StartInstance(t, s)
    PROVE  Run!Inductive'
  <1> DEFINE x == [x7[t] EXCEPT !.pc = "find", !.slot = s]
  <1>1. x \in RunThread /\ x.pc = "find" /\ x.loop = "no"
    BY RunIdleThread DEF RunThread, Run!Pcs
  <1>2. x7' = [x7 EXCEPT ![t] = x] /\ RunData /\ x7[t].pc # "score" /\ UNCHANGED <<x5, x6>>
    BY RunQuietData DEF Run!StartInstance, Run!Rowless, Run!At
  <1> HIDE DEF x
  <1>3. RunBecomes(t, x)
    BY <1>1, <1>2, RunBegins DEF Run!HasRow
  <1> QED BY <1>2, <1>3, RunQuietScores, RunStepKeeps

LEMMA RunSubmitFlag ==
    ASSUME Run!Inductive, NEW t \in Threads, NEW s \in Run!Slots, Run!SubmitFlag(t, s)
    PROVE  Run!Inductive'
  <1> DEFINE x == [Run!Idle EXCEPT !.pc = "flag", !.slot = s]
  <1>1. x \in RunThread /\ x.pc = "flag" /\ x.loop = "no"
    BY RunIdleTyped DEF Run!Pcs, RunThread
  <1>2. x7' = [x7 EXCEPT ![t] = x] /\ RunData /\ x7[t].pc # "score" /\ UNCHANGED <<x5, x6>>
    BY RunQuietData DEF Run!SubmitFlag, Run!Rowless, Run!At
  <1> HIDE DEF x
  <1>3. RunBecomes(t, x)
    BY <1>1, <1>2, RunBegins DEF Run!HasRow
  <1> QED BY <1>2, <1>3, RunQuietScores, RunStepKeeps

LEMMA RunFindInstance ==
    ASSUME Run!Inductive, NEW t \in Threads, Run!FindInstance(t) PROVE Run!Inductive'
  <1>1. RunData /\ x7[t].pc = "find" /\ UNCHANGED <<x2, x5, x6>>
    BY RunQuietData DEF Run!FindInstance, Run!Rowless, Run!At
  <1>2. CASE Run!Go(t, "create")
    <2>1. RunBecomes(t, [x7[t] EXCEPT !.pc = "create"])
      BY <1>1, <1>2, RunGo DEF Run!Pcs, Run!HasRow
    <2> QED BY <1>1, <2>1, RunQuietScores, RunStepKeeps
  <1>3. CASE Run!After(t)
    BY <1>1, <1>3, RunAfter, RunQuietScores, RunStepKeeps
  <1>4. ASSUME x2[x7[t].slot].st # "none",
               x7' = [x7 EXCEPT ![t] = [x7[t] EXCEPT !.pc = "launch", !.gen = x2[x7[t].slot].gen]]
        PROVE  Run!Inductive'
    <2> DEFINE x == [x7[t] EXCEPT !.pc = "launch", !.gen = x2[x7[t].slot].gen]
    <2>1. x2[x7[t].slot].gen \in 0..MaxGen
      BY RunThreadTyped DEF Run!Inductive, Run!Types
    <2>2. /\ x \in RunThread /\ x.pc = "launch" /\ x.loop = x7[t].loop /\ x.slot = x7[t].slot
          /\ x.todo = x7[t].todo
      BY <2>1, RunThreadTyped DEF RunThread, Run!Pcs
    <2>3. x7' = [x7 EXCEPT ![t] = x]
      BY <1>4
    <2> HIDE DEF x
    <2>4. RunBecomes(t, x)
      BY <1>1, <1>4, <2>2, <2>3, RunSameLoop DEF RunBecomes
    <2> QED BY <1>1, <2>4, RunQuietScores, RunStepKeeps
  <1> QED BY <1>2, <1>3, <1>4, RunThreadTyped DEF Run!FindInstance

LEMMA RunCreateInstance ==
    ASSUME Run!Inductive, NEW t \in Threads, Run!CreateInstance(t) PROVE Run!Inductive'
  <1>1. x7[t].pc = "create" /\ UNCHANGED <<x1, x3, x5, x6, x8>>
    BY DEF Run!CreateInstance, Run!At
  <1>2. ASSUME x2' = [x2 EXCEPT ![x7[t].slot] = [st |-> "starting", gen |-> 1]],
               x7' = [x7 EXCEPT ![t] = [x7[t] EXCEPT !.pc = "launch", !.gen = 1]]
        PROVE  Run!Inductive'
    <2> DEFINE x == [x7[t] EXCEPT !.pc = "launch", !.gen = 1]
    <2>1. RunData
      BY <1>1, <1>2, RunThreadTyped, MatchAssumption
      DEF RunData, Run!Inductive, Run!Types, Run!RuntimeStates
    <2>2. /\ x \in RunThread /\ x.pc = "launch" /\ x.loop = x7[t].loop /\ x.slot = x7[t].slot
          /\ x.todo = x7[t].todo
      <3>1. 1 \in 0..MaxGen
        BY MatchAssumption
      <3> QED BY <3>1, RunThreadTyped DEF RunThread, Run!Pcs
    <2>3. x7' = [x7 EXCEPT ![t] = x]
      BY <1>2
    <2> HIDE DEF x
    <2>4. x2'[x.slot].st # "none"
      BY <1>2, <2>2, RunThreadTyped DEF Run!Inductive, Run!Types
    <2>5. RunBecomes(t, x)
      BY <2>1, <2>2, <2>3, <2>4, RunSameLoop DEF RunBecomes
    <2> QED BY <1>1, <2>1, <2>5, RunQuietScores, RunStepKeeps
  <1>3. CASE x2' = x2 /\ Run!After(t)
    BY <1>1, <1>3, RunQuietData, RunAfter, RunQuietScores, RunStepKeeps
  <1> QED BY <1>2, <1>3, RunThreadTyped DEF Run!CreateInstance

(* A launch needs a row, and the container carries the phase of the run.   *)
LEMMA RunLaunchData ==
    ASSUME Run!Inductive, NEW t \in Threads, x7[t].pc \in Run!HasRow,
           NEW next, Run!LaunchContainer(t, next), UNCHANGED <<x1, x2>>
    PROVE  RunData /\ x2[x7[t].slot].st # "none"
  <1>1. x2[x7[t].slot].st # "none"
    BY DEF Run!Inductive, Run!RowsExist
  <1>2. x3' = [x3 EXCEPT ![x7[t].slot] = x1[x7[t].slot[1]]] /\ UNCHANGED x8
    BY DEF Run!LaunchContainer
  <1>3. x1[x7[t].slot[1]] \in Run!Phases
    BY RunThreadTyped DEF Run!Inductive, Run!Types
  <1> QED BY <1>1, <1>2, <1>3, RunThreadTyped DEF RunData, Run!Inductive, Run!Types

LEMMA RunFailData ==
    ASSUME Run!Inductive, NEW t \in Threads, Run!LaunchFails(t), UNCHANGED <<x1, x2>>
    PROVE  RunData
  BY DEF Run!LaunchFails, RunData, Run!Inductive, Run!Types

LEMMA RunStartLaunch ==
    ASSUME Run!Inductive, NEW t \in Threads, Run!StartLaunch(t) PROVE Run!Inductive'
  <1>1. x7[t].pc = "launch" /\ x7[t].pc \in Run!HasRow /\ UNCHANGED <<x1, x2, x5, x6>>
    BY DEF Run!StartLaunch, Run!At, Run!HasRow
  <1>2. CASE Run!LaunchContainer(t, "started")
    <2>1. RunData /\ x2[x7[t].slot].st # "none" /\ Run!Go(t, "started")
      BY <1>1, <1>2, RunLaunchData DEF Run!LaunchContainer
    <2>2. RunBecomes(t, [x7[t] EXCEPT !.pc = "started"])
      BY <1>1, <2>1, RunGo DEF Run!Pcs
    <2> QED BY <1>1, <2>1, <2>2, RunQuietScores, RunStepKeeps
  <1>3. CASE Run!LaunchFails(t) /\ Run!After(t)
    BY <1>1, <1>3, RunFailData, RunAfter, RunQuietScores, RunStepKeeps
  <1> QED BY <1>2, <1>3 DEF Run!StartLaunch

(* A record of the runtime state.                                          *)
LEMMA RunRecordData ==
    ASSUME Run!Inductive, NEW t \in Threads, NEW st \in Run!RuntimeStates \ {"none"},
           Run!UpdateRuntimeState(x7[t].slot, st, x7[t].gen), UNCHANGED <<x1, x3, x8>>
    PROVE  RunData
  BY RunThreadTyped DEF Run!UpdateRuntimeState, RunData, Run!Inductive, Run!Types

LEMMA RunStartRecord ==
    ASSUME Run!Inductive, NEW t \in Threads, Run!StartRecord(t) PROVE Run!Inductive'
  <1>1. x7[t].pc = "started" /\ UNCHANGED <<x1, x3, x5, x6, x8>> /\ Run!After(t)
    BY DEF Run!StartRecord, Run!At
  <1>2. RunData
    BY <1>1, RunRecordData DEF Run!StartRecord, Run!RuntimeStates
  <1> QED BY <1>1, <1>2, RunAfter, RunQuietScores, RunStepKeeps

LEMMA RunStopRecord ==
    ASSUME Run!Inductive, NEW t \in Threads, Run!StopRecord(t) PROVE Run!Inductive'
  <1>1. x7[t].pc = "stopped" /\ UNCHANGED <<x1, x3, x5, x6, x8>> /\ Run!After(t)
    BY DEF Run!StopRecord, Run!At
  <1>2. RunData
    BY <1>1, RunRecordData DEF Run!StopRecord, Run!RuntimeStates
  <1> QED BY <1>1, <1>2, RunAfter, RunQuietScores, RunStepKeeps

LEMMA RunResetRecord ==
    ASSUME Run!Inductive, NEW t \in Threads, Run!ResetRecord(t) PROVE Run!Inductive'
  <1>1. x7[t].pc = "relaunched" /\ UNCHANGED <<x1, x3, x5, x6, x8>> /\ Run!Go(t, "loop")
    BY DEF Run!ResetRecord, Run!At
  <1>2. RunData
    BY <1>1, RunRecordData DEF Run!ResetRecord, Run!RuntimeStates
  <1>3. RunBecomes(t, [x7[t] EXCEPT !.pc = "loop"])
    BY <1>1, <1>2, RunGo DEF Run!Pcs, Run!HasRow
  <1> QED BY <1>1, <1>2, <1>3, RunQuietScores, RunStepKeeps

LEMMA RunResetLaunch ==
    ASSUME Run!Inductive, NEW t \in Threads, Run!ResetLaunch(t) PROVE Run!Inductive'
  <1>1. x7[t].pc = "relaunch" /\ x7[t].pc \in Run!HasRow /\ UNCHANGED <<x1, x2, x5, x6>>
    BY DEF Run!ResetLaunch, Run!At, Run!HasRow
  <1>2. CASE Run!LaunchContainer(t, "relaunched")
    <2>1. RunData /\ x2[x7[t].slot].st # "none" /\ Run!Go(t, "relaunched")
      BY <1>1, <1>2, RunLaunchData DEF Run!LaunchContainer
    <2>2. RunBecomes(t, [x7[t] EXCEPT !.pc = "relaunched"])
      BY <1>1, <2>1, RunGo DEF Run!Pcs
    <2> QED BY <1>1, <2>1, <2>2, RunQuietScores, RunStepKeeps
  <1>3. CASE Run!LaunchFails(t) /\ Run!Done(t)
    BY <1>1, <1>3, RunFailData, RunDone, RunQuietScores, RunStepKeeps
  <1> QED BY <1>2, <1>3 DEF Run!ResetLaunch

(* A removal that succeeds, and one that fails.                            *)
LEMMA RunRemoveData ==
    ASSUME Run!Inductive, NEW s \in Run!Slots, Run!Removed(s) \/ Run!RemoveFails(s), UNCHANGED <<x1, x2>>
    PROVE  RunData
  <1>1. x3' = x3 \/ x3' = [x3 EXCEPT ![s] = "no"]
    BY DEF Run!Removed, Run!RemoveFails
  <1>2. x8' \in [crashes : Nat, fails : Nat] /\ x8'.crashes >= x8.crashes
    BY DEF Run!Removed, Run!RemoveFails, Run!Inductive, Run!Types
  <1> QED BY <1>1, <1>2 DEF RunData, Run!Inductive, Run!Types

LEMMA RunStopInstance ==
    ASSUME Run!Inductive, NEW t \in Threads, Run!At(t, "idle"), NEW s \in Run!Slots,
           Run!StopInstance(t, s)
    PROVE  Run!Inductive'
  <1>0. CASE Run!RemoveFails(s) /\ UNCHANGED <<x4, x7>>
    <2>1. x7[t] = Run!Idle /\ x7' = [x7 EXCEPT ![t] = Run!Idle] /\ x7[t].pc # "score"
      BY <1>0 DEF Run!At, Run!Inductive, Run!Types, Run!IdleIsIdle
    <2>2. UNCHANGED <<x1, x2, x5, x6>> /\ Run!Done(t)
      BY <2>1 DEF Run!StopInstance, Run!Done
    <2> QED BY <1>0, <2>1, <2>2, RunRemoveData, RunDone, RunQuietScores, RunStepKeeps
  <1> SUFFICES ASSUME /\ Run!Removed(s)
                      /\ x7' = [x7 EXCEPT ![t] = [x7[t] EXCEPT !.pc = "stopped", !.slot = s, !.gen = x2[s].gen]]
               PROVE  Run!Inductive'
    BY <1>0 DEF Run!StopInstance
  <1> DEFINE x == [x7[t] EXCEPT !.pc = "stopped", !.slot = s, !.gen = x2[s].gen]
  <1>1. x2[s].gen \in 0..MaxGen /\ x2[s].st = "running"
    BY DEF Run!StopInstance, Run!Inductive, Run!Types
  <1>2. x \in RunThread /\ x.pc = "stopped" /\ x.loop = "no" /\ x.slot = s
    BY <1>1, RunIdleThread DEF RunThread, Run!Pcs
  <1>3. x7' = [x7 EXCEPT ![t] = x] /\ x7[t].pc # "score" /\ UNCHANGED <<x1, x2, x5, x6>>
    BY DEF Run!StopInstance, Run!At
  <1> HIDE DEF x
  <1>4. RunData
    BY <1>3, RunRemoveData
  <1>5. RunBecomes(t, x)
    BY <1>1, <1>2, <1>3, <1>4, RunBegins
  <1> QED BY <1>3, <1>4, <1>5, RunQuietScores, RunStepKeeps

LEMMA RunLoopStart ==
    ASSUME Run!Inductive, NEW t \in Threads, Run!LoopStart(t) PROVE Run!Inductive'
  <1>1. RunData /\ x7[t].pc = "loop" /\ x7[t].loop = "start" /\ UNCHANGED <<x5, x6>>
    BY RunQuietData DEF Run!LoopStart, Run!Rowless, Run!At
  <1>2. ASSUME NEW b \in x7[t].todo, NEW pc \in {"find", "loop"},
               x7' = [x7 EXCEPT ![t] = [x7[t] EXCEPT !.pc = pc, !.slot = <<x7[t].slot[1], b>>,
                                                     !.todo = x7[t].todo \ {b}]]
        PROVE  Run!Inductive'
    <2> DEFINE x == [x7[t] EXCEPT !.pc = pc, !.slot = <<x7[t].slot[1], b>>, !.todo = x7[t].todo \ {b}]
    <2>1. <<x7[t].slot[1], b>> \in Run!Slots
      BY RunThreadTyped DEF Run!Slots
    <2>2. x \in RunThread /\ x.pc = pc /\ x.loop = "start"
      BY <1>1, <2>1, RunThreadTyped DEF RunThread, Run!Pcs
    <2>3. x7' = [x7 EXCEPT ![t] = x]
      BY <1>2
    <2> HIDE DEF x
    <2>4. RunBecomes(t, x)
      BY <1>1, <2>2, <2>3, RunBegins DEF Run!HasRow
    <2> QED BY <1>1, <2>4, RunQuietScores, RunStepKeeps
  <1>3. CASE Run!Done(t)
    BY <1>1, <1>3, RunDone, RunQuietScores, RunStepKeeps
  <1>4. \/ Run!Done(t)
        \/ \E b \in x7[t].todo : \E pc \in {"find", "loop"} :
              x7' = [x7 EXCEPT ![t] = [x7[t] EXCEPT !.pc = pc, !.slot = <<x7[t].slot[1], b>>,
                                                    !.todo = x7[t].todo \ {b}]]
    <2>1. ASSUME NEW b \in x7[t].todo,
                 x7' = [x7 EXCEPT ![t] =
                    [@ EXCEPT !.pc = IF x1[<<x7[t].slot[1], b>>[1]] \in {"Break", "Fix"}
                                     THEN "find" ELSE "loop",
                              !.slot = <<x7[t].slot[1], b>>, !.todo = x7[t].todo \ {b}]]
          PROVE  \E pc \in {"find", "loop"} :
                   x7' = [x7 EXCEPT ![t] = [x7[t] EXCEPT !.pc = pc, !.slot = <<x7[t].slot[1], b>>,
                                                         !.todo = x7[t].todo \ {b}]]
      <3>1. PICK pc \in {"find", "loop"} :
                 pc = IF x1[<<x7[t].slot[1], b>>[1]] \in {"Break", "Fix"} THEN "find" ELSE "loop"
        OBVIOUS
      <3> QED BY <2>1, <3>1
    <2> QED BY <2>1 DEF Run!LoopStart
  <1> QED BY <1>2, <1>3, <1>4

LEMMA RunStopAllRunInstances ==
    ASSUME Run!Inductive, NEW t \in Threads, Run!StopAllRunInstances(t) PROVE Run!Inductive'
  <1>1. /\ x7[t].pc = "loop" /\ x7[t].loop = "stop" /\ UNCHANGED <<x1, x2, x5, x6>>
    BY DEF Run!StopAllRunInstances, Run!At
  <1>2. ASSUME NEW b \in x7[t].todo, x2[<<x7[t].slot[1], b>>].st = "running",
               Run!Removed(<<x7[t].slot[1], b>>),
               x7' = [x7 EXCEPT ![t] = [x7[t] EXCEPT !.pc = "stopped", !.slot = <<x7[t].slot[1], b>>,
                                            !.gen = x2[<<x7[t].slot[1], b>>].gen, !.todo = x7[t].todo \ {b}]]
        PROVE  Run!Inductive'
    <2>1. PICK s \in Run!Slots : s = <<x7[t].slot[1], b>>
      BY RunThreadTyped DEF Run!Slots
    <2> DEFINE x == [x7[t] EXCEPT !.pc = "stopped", !.slot = s, !.gen = x2[s].gen, !.todo = x7[t].todo \ {b}]
    <2>2. x2[s].gen \in 0..MaxGen
      BY DEF Run!Inductive, Run!Types
    <2>3. x \in RunThread /\ x.pc = "stopped" /\ x.loop = "stop" /\ x.slot = s
      BY <1>1, <2>2, RunThreadTyped DEF RunThread, Run!Pcs
    <2>4. x7' = [x7 EXCEPT ![t] = x]
      BY <1>2, <2>1
    <2>5. RunData
      BY <1>1, <1>2, <2>1, RunRemoveData
    <2> HIDE DEF x
    <2>6. RunBecomes(t, x)
      BY <1>1, <1>2, <2>1, <2>3, <2>4, <2>5, RunBegins
    <2> QED BY <1>1, <2>5, <2>6, RunQuietScores, RunStepKeeps
  <1>3. ASSUME NEW b \in x7[t].todo, Run!RemoveFails(<<x7[t].slot[1], b>>) \/ UNCHANGED <<x3, x8>>,
               x7' = [x7 EXCEPT ![t] = [x7[t] EXCEPT !.todo = x7[t].todo \ {b}]]
        PROVE  Run!Inductive'
    <2>0. <<x7[t].slot[1], b>> \in Run!Slots
      BY RunThreadTyped DEF Run!Slots
    <2> DEFINE x == [x7[t] EXCEPT !.todo = x7[t].todo \ {b}]
    <2>1. x \in RunThread /\ x.pc = "loop" /\ x.loop = "stop"
      BY <1>1, RunThreadTyped DEF RunThread
    <2>2. x7' = [x7 EXCEPT ![t] = x] /\ RunData
      BY <1>1, <1>3, <2>0, RunQuietData, RunRemoveData
    <2> HIDE DEF x
    <2>3. RunBecomes(t, x)
      BY <2>1, <2>2, RunBegins DEF Run!HasRow
    <2> QED BY <1>1, <2>2, <2>3, RunQuietScores, RunStepKeeps
  <1>4. CASE Run!Done(t) /\ UNCHANGED <<x3, x8>>
    BY <1>1, <1>4, RunQuietData, RunDone, RunQuietScores, RunStepKeeps
  <1>5. \/ Run!Done(t) /\ UNCHANGED <<x3, x8>>
        \/ \E b \in x7[t].todo :
             \/ /\ x2[<<x7[t].slot[1], b>>].st = "running"
                /\ Run!Removed(<<x7[t].slot[1], b>>)
                /\ x7' = [x7 EXCEPT ![t] = [x7[t] EXCEPT !.pc = "stopped", !.slot = <<x7[t].slot[1], b>>,
                                            !.gen = x2[<<x7[t].slot[1], b>>].gen, !.todo = x7[t].todo \ {b}]]
             \/ /\ Run!RemoveFails(<<x7[t].slot[1], b>>) \/ UNCHANGED <<x3, x8>>
                /\ x7' = [x7 EXCEPT ![t] = [x7[t] EXCEPT !.todo = x7[t].todo \ {b}]]
    <2>1. ASSUME NEW b \in x7[t].todo, x7' = [x7 EXCEPT ![t].todo = @ \ {b}]
          PROVE  x7' = [x7 EXCEPT ![t] = [x7[t] EXCEPT !.todo = x7[t].todo \ {b}]]
      BY <2>1, RunThreadTyped
    <2> QED BY <2>1, ZenonT(60) DEF Run!StopAllRunInstances
  <1> QED BY <1>2, <1>3, <1>4, <1>5

LEMMA RunReconcilePreparingFix ==
    ASSUME Run!Inductive, NEW t \in Threads, NEW r \in MatchRuns, Run!ReconcilePreparingFix(t, r)
    PROVE  Run!Inductive'
  <1>1. /\ x7[t].pc = "idle" /\ x1[r] = "PreparingFix"
        /\ x7' = [x7 EXCEPT ![t] = Run!Loop("reset", r, Run!ToReset(r))]
        /\ RunData /\ UNCHANGED <<x3, x5, x6>>
    BY RunQuietData DEF Run!ReconcilePreparingFix, Run!At, Run!Rowless
  <1>2. Run!ToReset(r) \in SUBSET Boxes
    BY DEF Run!ToReset
  <1> DEFINE x == Run!Loop("reset", r, Run!ToReset(r))
  <1>3. x \in RunThread /\ x.pc = "loop" /\ x.todo = Run!ToReset(r) /\ x.slot[1] = r
    BY <1>2, RunLoopTyped
  <1>4. x7' = [x7 EXCEPT ![t] = x]
    BY <1>1
  <1> HIDE DEF x
  <1>5. RunResetOf(x)
    <2>1. \A b \in Boxes : <<r, b>> \in Run!Slots
      BY DEF Run!Slots
    <2>2. \A b \in Boxes \ Run!ToReset(r) : x3[<<r, b>>] = "no"
      BY <2>1 DEF Run!ToReset, Run!Inductive, Run!RowsExist
    <2> QED BY <1>1, <1>3, <2>2 DEF RunResetOf, RunLate, Run!ToReset
  <1>6. RunBecomes(t, x)
    BY <1>3, <1>4, <1>5 DEF RunBecomes, Run!HasRow
  <1> QED BY <1>1, <1>6, RunQuietScores, RunStepKeeps

LEMMA RunLoopReset ==
    ASSUME Run!Inductive, NEW t \in Threads, Run!LoopReset(t) PROVE Run!Inductive'
  <1>1. x7[t].pc = "loop" /\ x7[t].loop = "reset"
    BY DEF Run!LoopReset, Run!At
  <1>2. PICK b \in x7[t].todo : Run!ResetRemove(t, <<x7[t].slot[1], b>>)
    BY DEF Run!LoopReset
  <1>3. PICK r \in MatchRuns : r = x7[t].slot[1]
    BY RunThreadTyped
  <1>4. PICK s \in Run!Slots : s = <<r, b>> /\ s[2] = b /\ s[1] = r
    <2>1. b \in Boxes
      BY RunThreadTyped
    <2>2. <<r, b>> \in Run!Slots /\ <<r, b>>[1] = r /\ <<r, b>>[2] = b
      BY <2>1 DEF Run!Slots
    <2> QED BY <2>2
  <1>0. CASE Run!RemoveFails(s) /\ Run!Done(t)
    <2>1. UNCHANGED <<x1, x2, x5, x6>>
      BY <1>2 DEF Run!ResetRemove
    <2> QED BY <1>0, <1>1, <2>1, RunRemoveData, RunDone, RunQuietScores, RunStepKeeps
  <1>a. PICK g \in 0..MaxGen : g = Run!NextGen(x2[s].gen)
    BY MatchAssumption DEF Run!NextGen, Run!Inductive, Run!Types
  <1> DEFINE x == [x7[t] EXCEPT !.pc = "relaunch", !.slot = s, !.gen = g, !.todo = x7[t].todo \ {b}]
  <1> SUFFICES ASSUME /\ Run!Removed(s) /\ x7' = [x7 EXCEPT ![t] = x]
                      /\ UNCHANGED <<x1, x2, x5, x6>>
               PROVE  Run!Inductive'
    BY <1>0, <1>2, <1>3, <1>4, <1>a DEF Run!ResetRemove
  <1>5. x7' = [x7 EXCEPT ![t] = x] /\ x3' = [x3 EXCEPT ![s] = "no"] /\ UNCHANGED <<x1, x2, x5, x6>>
    BY DEF Run!Removed
  <1>7. /\ x \in RunThread /\ x.pc = "relaunch" /\ x.slot = s /\ x.todo = x7[t].todo \ {b}
        /\ x.loop = "reset"
    BY <1>1, RunThreadTyped DEF RunThread, Run!Pcs
  <1>8. RunData
    BY <1>5, RunRemoveData
  <1> HIDE DEF x
  <1>9. /\ x1[r] \in RunLate
        /\ \A c \in x7[t].todo : x2[<<r, c>>].st # "none"
        /\ \A c \in Boxes \ x7[t].todo : x3[<<r, c>>] # "Break"
    BY <1>1, <1>3 DEF Run!Inductive, Run!ResetsLeaveNone, RunLate
  <1>10. \A c \in Boxes \ x.todo : x3'[<<r, c>>] # "Break"
    <2> SUFFICES ASSUME NEW c \in Boxes \ x.todo PROVE x3'[<<r, c>>] # "Break"
      OBVIOUS
    <2>1. <<r, c>> \in Run!Slots
      BY DEF Run!Slots
    <2>2. CASE c = b
      BY <2>1, <2>2, <1>4, <1>5 DEF Run!Inductive, Run!Types
    <2>3. CASE c # b
      <3>1. c \in Boxes \ x7[t].todo /\ <<r, c>> # s
        BY <2>3, <1>4, <1>7
      <3> QED BY <3>1, <2>1, <1>5, <1>9 DEF Run!Inductive, Run!Types
    <2> QED BY <2>2, <2>3
  <1>11. RunResetOf(x)
    BY <1>4, <1>7, <1>9, <1>10 DEF RunResetOf
  <1>12. RunBecomes(t, x)
    BY <1>4, <1>5, <1>7, <1>9, <1>11 DEF RunBecomes
  <1> QED BY <1>1, <1>5, <1>8, <1>12, RunQuietScores, RunStepKeeps

LEMMA RunLockTimeout ==
    ASSUME Run!Inductive, NEW t \in Threads, Run!LockTimeout(t) PROVE Run!Inductive'
  <1>1. x7[t].pc = "loop" /\ UNCHANGED <<x1, x2, x3, x5, x6>> /\ Run!Done(t)
        /\ x8' = [x8 EXCEPT !.fails = @ + 1]
    BY DEF Run!LockTimeout, Run!At
  <1>2. RunData
    BY <1>1 DEF RunData, Run!Inductive, Run!Types
  <1> QED BY <1>1, <1>2, RunDone, RunQuietScores, RunStepKeeps

LEMMA RunEnterFix ==
    ASSUME Run!Inductive, NEW t \in Threads, Run!EnterFix(t) PROVE Run!Inductive'
  <1>1. x7[t].pc = "loop" /\ UNCHANGED <<x2, x3, x5, x6, x8>> /\ Run!Done(t)
    BY DEF Run!EnterFix, Run!At
  <1>2. RunData
    BY <1>1, RunThreadTyped, RunTransition, RunQuietData DEF Run!EnterFix
  <1> QED BY <1>1, <1>2, RunDone, RunQuietScores, RunStepKeeps

LEMMA RunFinishEvent ==
    ASSUME Run!Inductive, NEW t \in Threads, NEW r \in MatchRuns, Run!FinishEvent(t, r)
    PROVE  Run!Inductive'
  <1>1. x7[t].pc = "idle" /\ UNCHANGED <<x2, x3, x5, x6, x8>> /\ RunData
    BY RunTransition DEF Run!FinishEvent, Run!At
  <1> DEFINE x == Run!Loop("stop", r, Run!ToReset(r))
  <1>2. x \in RunThread /\ x.pc = "loop" /\ x.loop = "stop"
    <2>1. Run!ToReset(r) \in SUBSET Boxes
      BY DEF Run!ToReset
    <2> QED BY <2>1, RunLoopTyped
  <1>3. x7' = [x7 EXCEPT ![t] = x]
    BY DEF Run!FinishEvent
  <1> HIDE DEF x
  <1>4. RunBecomes(t, x)
    BY <1>1, <1>2, <1>3, RunBegins DEF Run!HasRow
  <1> QED BY <1>1, <1>4, RunQuietScores, RunStepKeeps

LEMMA RunRecordBreak ==
    ASSUME Run!Inductive, NEW t \in Threads, Run!RecordBreak(t) PROVE Run!Inductive'
  <1>1. /\ x7[t].pc = "flag" /\ x5' = x5 \cup {x7[t].slot} /\ x6' = x6 /\ RunData
    BY RunQuietData DEF Run!RecordBreak, Run!At
  <1>2. x5' \subseteq Run!Slots /\ x6' \subseteq Run!Slots
    BY <1>1, RunThreadTyped DEF Run!Inductive, Run!Types
  <1>3. CASE x7[t].slot \in x5 /\ Run!Done(t)
    BY <1>1, <1>2, <1>3, RunDone, RunStepKeeps DEF RunScores
  <1>4. CASE Run!Go(t, "score")
    <2> DEFINE x == [x7[t] EXCEPT !.pc = "score"]
    <2>1. RunBecomes(t, x)
      BY <1>1, <1>4, RunGo DEF Run!Pcs, Run!HasRow
    <2>2. x.pc = "score" /\ x.slot = x7[t].slot
      BY RunThreadTyped DEF RunThread
    <2> HIDE DEF x
    <2>3. RunScores(t, x)
      BY <1>1, <1>2, <2>2 DEF RunScores
    <2> QED BY <1>1, <2>1, <2>3, RunStepKeeps
  <1> QED BY <1>3, <1>4 DEF Run!RecordBreak

LEMMA RunScoreBreak ==
    ASSUME Run!Inductive, NEW t \in Threads, Run!ScoreBreak(t) PROVE Run!Inductive'
  <1>1. /\ x7[t].pc = "score" /\ x5' = x5 /\ x6' = x6 \cup {x7[t].slot} /\ RunData
        /\ Run!Done(t)
    BY RunQuietData DEF Run!ScoreBreak, Run!At
  <1>2. RunScores(t, Run!Idle)
    BY <1>1, RunThreadTyped DEF Run!Inductive, Run!Types, RunScores
  <1> QED BY <1>1, <1>2, RunDone, RunStepKeeps

LEMMA RunBreakToPreparingFix ==
    ASSUME Run!Inductive, NEW r \in MatchRuns, Run!BreakToPreparingFix(r) PROVE Run!Inductive'
  <1>1. RunData /\ UNCHANGED <<x2, x3, x5, x6, x7, x8>>
    BY RunTransition DEF Run!BreakToPreparingFix
  <1> USE DEF Run!Inductive
  <1>2. Run!Types'
    BY <1>1 DEF RunData, Run!Types
  <1>3. Run!IdleIsIdle' /\ Run!RowsExist' /\ Run!BreakIsScored'
    BY <1>1 DEF Run!IdleIsIdle, Run!At, Run!RowsExist, Run!BreakIsScored
  <1>4. Run!ResetsLeaveNone'
    BY <1>1, RunThreadTyped DEF Run!ResetsLeaveNone, RunData, RunLate
  <1> QED BY <1>2, <1>3, <1>4

LEMMA RunCrash ==
    ASSUME Run!Inductive, Run!Crash PROVE Run!Inductive'
  <1>1. /\ x7' = [t \in Threads |-> Run!Idle] /\ UNCHANGED <<x1, x2, x3, x5, x6>>
        /\ x8' = [x8 EXCEPT !.crashes = @ + 1]
    BY DEF Run!Crash
  <1> USE DEF Run!Inductive
  <1>2. x8' \in [crashes : Nat, fails : Nat] /\ x8'.crashes > 0
    BY <1>1 DEF Run!Types
  <1>3. Run!Types'
    BY <1>1, <1>2, RunIdleTyped DEF Run!Types, RunThread
  <1>4. Run!IdleIsIdle' /\ Run!RowsExist' /\ Run!ResetsLeaveNone' /\ Run!BreakIsScored'
    BY <1>1, <1>2, RunIdleTyped
    DEF Run!IdleIsIdle, Run!At, Run!RowsExist, Run!HasRow, Run!ResetsLeaveNone, Run!BreakIsScored
  <1> QED BY <1>3, <1>4

(* Every step of a run keeps the invariant.                                *)
LEMMA RunNext == Run!Inductive /\ Run!Next => Run!Inductive'
  <1> SUFFICES ASSUME Run!Inductive, Run!Next PROVE Run!Inductive'
    OBVIOUS
  <1>1. ASSUME NEW t \in Threads, Run!Begin(t) PROVE Run!Inductive'
    BY <1>1, RunTickCreate, RunAdminStart, RunTickBegin, RunReconcilePreparingFix, RunFinishEvent,
       RunStartInstance, RunStopInstance, RunSubmitFlag DEF Run!Begin
  <1>2. ASSUME NEW t \in Threads, Run!Continue(t) PROVE Run!Inductive'
    BY <1>2, RunInsertRun, RunBeginBreak, RunFindInstance, RunCreateInstance, RunStartLaunch,
       RunStartRecord, RunLoopStart, RunStopRecord, RunStopAllRunInstances, RunLoopReset,
       RunLockTimeout, RunResetLaunch, RunResetRecord, RunEnterFix, RunRecordBreak, RunScoreBreak
    DEF Run!Continue
  <1> QED BY <1>1, <1>2, RunBreakToPreparingFix, RunCrash DEF Run!Next

LEMMA RunResults == Run!Inductive => Run!TypeOK /\ Run!BreakIsScored
  BY DEF Run!Inductive, Run!TypeOK, Run!Types, Run!RuntimeStates

(* Only EnterFix takes a run from PreparingFix to Fix, and then the resets *)
(* have been through every box.                                            *)
LEMMA RunEntersPristine == Run!Inductive /\ Run!Next => Run!EntersPristine
  <1> SUFFICES ASSUME Run!Inductive, Run!Next, NEW r \in MatchRuns,
                      x1[r] = "PreparingFix", x1'[r] = "Fix", NEW b \in Boxes
               PROVE  x3[<<r, b>>] # "Break"
    BY DEF Run!EntersPristine
  <1> USE DEF Run!Inductive
  <1>1. x1 \in [MatchRuns -> Run!Phases] /\ x1' # x1
    BY DEF Run!Types
  <1>2. ASSUME NEW t \in Threads, Run!Begin(t) PROVE FALSE
    <2>1. PICK q \in MatchRuns : Run!FinishEvent(t, q)
      BY <1>1, <1>2 DEF Run!Begin, Run!TickCreate, Run!AdminStart, Run!TickBegin,
         Run!ReconcilePreparingFix, Run!StartInstance, Run!StopInstance, Run!SubmitFlag, Run!Rowless
    <2> QED BY <2>1, <1>1 DEF Run!FinishEvent, Run!TransitionPhase
  <1>3. ~Run!Crash /\ \A q \in MatchRuns : ~Run!BreakToPreparingFix(q)
    BY <1>1 DEF Run!Crash, Run!BreakToPreparingFix, Run!TransitionPhase
  <1>4. PICK t \in Threads : Run!Continue(t)
    BY <1>2, <1>3 DEF Run!Next
  <1>5. Run!InsertRun(t) \/ Run!BeginBreak(t) \/ Run!EnterFix(t)
    BY <1>1, <1>4 DEF Run!Continue, Run!FindInstance, Run!CreateInstance, Run!StartLaunch,
       Run!StartRecord, Run!LoopStart, Run!StopRecord, Run!StopAllRunInstances, Run!LoopReset,
       Run!ResetRemove, Run!LockTimeout, Run!ResetLaunch, Run!ResetRecord, Run!RecordBreak,
       Run!ScoreBreak, Run!Rowless
  <1>6. ~Run!InsertRun(t)
    BY <1>1 DEF Run!InsertRun, Run!Rows
  <1>7. ~Run!BeginBreak(t)
    BY <1>1, RunThreadTyped DEF Run!BeginBreak, Run!TransitionPhase
  <1>8. x7[t].loop = "reset" /\ x7[t].todo = {} /\ x7[t].slot[1] = r
    BY <1>1, <1>5, <1>6, <1>7, RunThreadTyped DEF Run!EnterFix, Run!TransitionPhase
  <1> QED BY <1>8 DEF Run!ResetsLeaveNone

----------------------------------------------------------------------------
(* AwdpFix: rounds, patches and evaluations *)

FixEval == [st : {"none", "pending", "running"} \cup Fix!Terminal, att : 0..x1.attempts,
            by : Fix!Workers \cup {"nobody"}, lease : {"no", "fresh", "late", "expired"}]
FixJob == [pc : Fix!JobPcs, key : Fix!Keys, att : 0..x1.attempts, gen : Nat,
           res : Fix!Terminal \cup {"none"}]
FixPlayer == [pc : Fix!PlayerPcs, box : Boxes, round : 0..x1.rounds]

(* Nothing in hand.                                                        *)
LEMMA FixNoJobTyped ==
    ASSUME x1.rounds \in Nat \ {0}, x1.attempts \in Nat \ {0}
    PROVE  /\ Fix!NoJob \in FixJob /\ Fix!NoJob.pc = "idle" /\ Fix!NoJob.gen = 0
           /\ Fix!NoRequest \in FixPlayer /\ Fix!NoRequest.pc = "idle"
  <1>1. PICK b \in Boxes : b = (CHOOSE c \in Boxes : TRUE)
    BY MatchAssumption
  <1>2. <<1, b>> \in Fix!Keys
    BY DEF Fix!Keys, Fix!Rounds
  <1> QED BY <1>1, <1>2
      DEF Fix!NoJob, FixJob, Fix!JobPcs, Fix!NoRequest, FixPlayer, Fix!PlayerPcs

LEMMA FixNoEvalTyped ==
    ASSUME x1.attempts \in Nat \ {0}
    PROVE  /\ Fix!NoEval \in FixEval /\ Fix!NoEval.st = "none" /\ Fix!NoEval.att = 0
  BY DEF Fix!NoEval, FixEval

(* The settings of the behaviours: rounds and attempts there are.          *)
LEMMA FixSettingsTyped ==
    ASSUME NEW c \in FixSettings
    PROVE  /\ c.practice \in BOOLEAN /\ c.rounds \in Nat \ {0} /\ c.attempts \in Nat \ {0}
  <1>1. ASSUME NEW p \in BOOLEAN, NEW n \in 1..2, NEW ws, NEW a \in 1..2,
               NEW rs, NEW cs, NEW es, c = Setting(p, n, ws, a, rs, cs, es)
        PROVE  c.practice \in BOOLEAN /\ c.rounds \in Nat \ {0} /\ c.attempts \in Nat \ {0}
    BY <1>1 DEF Setting
  <1>2. 1 \in 1..2 /\ 2 \in 1..2 /\ TRUE \in BOOLEAN /\ FALSE \in BOOLEAN
    OBVIOUS
  <1> QED BY <1>1, <1>2 DEF FixSettings

LEMMA FixInit == Fix!Init => Fix!Inductive
  <1> SUFFICES ASSUME Fix!Init PROVE Fix!Inductive
    OBVIOUS
  <1>1. /\ x1.practice \in BOOLEAN /\ x1.rounds \in Nat \ {0} /\ x1.attempts \in Nat \ {0}
    BY FixSettingsTyped DEF Fix!Init
  <1> USE DEF Fix!Init
  <1>2. Fix!Types
    <2>1. x5 \in [Fix!Keys -> FixEval] /\ x10 \in [Fix!Workers -> FixJob] /\ x11 \in FixPlayer
      BY <1>1, FixNoJobTyped, FixNoEvalTyped
    <2>2. x6 \in [Boxes -> [is : Fix!Services, gen : Nat \ {0}, resets : Nat]]
      BY DEF Fix!Services
    <2>3. x4 \in [Fix!Rounds -> [st : {"pending", "evaluating", "completed"}, expected : Nat]]
      OBVIOUS
    <2> QED BY <1>1, <2>1, <2>2, <2>3 DEF Fix!Types, FixEval, FixJob, FixPlayer
  <1>3. Fix!AttemptsLeft /\ Fix!RequestOfRound /\ Fix!JobsJustified /\ Fix!Idlers /\ Fix!NoPenalty
    BY <1>1, FixNoJobTyped, FixNoEvalTyped
    DEF Fix!AttemptsLeft, Fix!RequestOfRound, Fix!JobsJustified, Fix!Idlers, Fix!NoPenalty
  <1>4. Fix!FixNeedsPatch /\ Fix!PatchedIsScored /\ Fix!ScoreFollows
    BY <1>1, FixNoEvalTyped DEF Fix!FixNeedsPatch, Fix!PatchedIsScored, Fix!ScoreFollows
  <1> QED BY <1>2, <1>3, <1>4 DEF Fix!Inductive

(* What a step may do.  The run, its rounds, boxes and patches:            *)
FixData ==
    /\ x1' = x1 /\ x2' \in {"Fix", "Ended"} /\ x3' \in 0..x1.rounds
    /\ x4' \in [Fix!Rounds -> [st : {"pending", "evaluating", "completed"}, expected : Nat]]
    /\ x6' \in [Boxes -> [is : Fix!Services, gen : Nat \ {0}, resets : Nat]]
    /\ x7 \subseteq x7' /\ x7' \subseteq Fix!Keys
    /\ x13' \in [crashes : Nat, errors : Nat] /\ x13'.crashes >= x13.crashes

(* ... evaluations, which stay patched and are patched for a reason, ...   *)
FixEvals ==
    /\ x5' \in [Fix!Keys -> FixEval]
    /\ \A k \in Fix!Keys : x5'[k].st = "pending" => x5'[k].att < x1.attempts
    /\ \A k \in Fix!Keys : x5[k].st = "patched" => x5'[k].st = "patched"
FixVerdicts ==
    \A k \in Fix!Keys : x5'[k].st = "patched" =>
        \/ x5[k].st = "patched" \/ x8'[k] # "none"
        \/ \E w \in Js : x10'[w].pc = "reward" /\ x10'[w].key = k
        \/ x11'.pc = "allScore" /\ k = <<x11'.round, x11'.box>>

(* ... score events, the first of which stays, ...                         *)
FixScores ==
    /\ x8' \in [Fix!Keys -> {"none", "fix", "penalty"}]
    /\ \A k \in Fix!Keys :
         \/ x8'[k] = x8[k]
         \/ x8[k] = "none" /\ \/ x1.practice
                              \/ /\ x8'[k] = "fix" /\ k \in x7
                                 /\ x1.workers \cap Api = {} => x5[k].st = "patched"

(* ... the workers and the player.                                         *)
FixJobOK(w) ==
    LET j == x10'[w] k == j.key IN
    /\ j.pc \in {"score", "finish"} /\ j.res = "patched" => k \in x7'
    /\ j.pc = "finish" /\ j.res = "patched" => x8'[k] # "none"
    /\ j.gen > 0 => k \in x7'
    /\ j.pc \in {"post", "accept", "reward"} => j.gen > 0
    /\ j.pc = "reward" => x5'[k].st = "patched"
    /\ j.pc \in {"score", "finish", "post", "accept"} => j.res # "none"
    /\ w \notin x1.workers => j.pc = "idle"
    /\ x10[w].pc = "reward" => x8'[x10[w].key] # "none" \/ x13'.crashes > 0
FixJobs ==
    /\ x10' \in [Fix!Workers -> FixJob]
    /\ \A w \in Fix!Workers : x10'[w] = x10[w] \/ FixJobOK(w)
FixPlays ==
    /\ x11' \in FixPlayer
    /\ x11'.pc \in {"patch", "record", "failed", "all", "allScore"} => x11'.round \in Fix!Rounds
    /\ x11'.pc \in {"all", "allScore", "allEnd"} => x1.practice
    /\ x11.pc = "allScore" =>
         x11' = x11 \/ x8'[<<x11.round, x11.box>>] # "none" \/ x13'.crashes > 0

LEMMA FixStepKeeps ==
    ASSUME Fix!Inductive, FixData, FixEvals, FixVerdicts, FixScores, FixJobs, FixPlays
    PROVE  Fix!Inductive'
  <1> USE DEF Fix!Inductive
  <1>1. Fix!Keys' = Fix!Keys /\ Fix!Rounds' = Fix!Rounds /\ x1' = x1
    BY DEF FixData, Fix!Keys, Fix!Rounds
  <1>2. Fix!Types'
    BY <1>1 DEF Fix!Types, FixData, FixEvals, FixScores, FixJobs, FixPlays, FixEval, FixJob, FixPlayer
  <1>3. Fix!AttemptsLeft'
    BY <1>1 DEF Fix!AttemptsLeft, FixEvals
  <1>4. Fix!RequestOfRound'
    BY <1>1 DEF Fix!RequestOfRound, FixPlays
  <1>5. \A k \in Fix!Keys : x8[k] # "none" => x8'[k] = x8[k]
    BY DEF FixScores
  <1>6. \A w \in Fix!Workers : x10[w].key \in Fix!Keys
    BY DEF Fix!Types
  <1>7. Fix!JobsJustified'
    <2> SUFFICES ASSUME NEW w \in Fix!Workers
                 PROVE  LET j == x10'[w] k == j.key IN
                        /\ j.pc \in {"score", "finish"} /\ j.res = "patched" => k \in x7'
                        /\ j.pc = "finish" /\ j.res = "patched" => x8'[k] # "none"
                        /\ j.gen > 0 => k \in x7'
                        /\ j.pc \in {"post", "accept", "reward"} => j.gen > 0
                        /\ j.pc = "reward" => x5'[k].st = "patched"
                        /\ j.pc \in {"score", "finish", "post", "accept"} => j.res # "none"
      BY DEF Fix!JobsJustified
    <2>1. CASE x10'[w] = x10[w]
      BY <2>1, <1>5, <1>6 DEF Fix!JobsJustified, FixData, FixEvals
    <2>2. CASE FixJobOK(w)
      BY <2>2 DEF FixJobOK
    <2> QED BY <2>1, <2>2 DEF FixJobs
  <1>8. Fix!Idlers'
    BY <1>1 DEF Fix!Idlers, FixJobs, FixJobOK
  <1>9. Fix!NoPenalty'
    BY <1>1 DEF Fix!NoPenalty, FixScores
  <1>10. Fix!FixNeedsPatch'
    BY <1>1 DEF Fix!FixNeedsPatch, FixScores, FixData
  <1>11. Fix!ScoreFollows'
    BY <1>1 DEF Fix!ScoreFollows, FixScores, FixEvals
  <1>12. Fix!PatchedIsScored'
    <2> SUFFICES ASSUME NEW k \in Fix!Keys, x5'[k].st = "patched"
                 PROVE  \/ x8'[k] # "none" \/ x13'.crashes > 0
                        \/ \E w \in Js : x10'[w].pc = "reward" /\ x10'[w].key = k
                        \/ x11'.pc = "allScore" /\ k = <<x11'.round, x11'.box>>
      <3>1. \A k \in Fix!Keys : x8'[k] # "none" => x8'[k] = "fix" \/ (x1.practice /\ x8'[k] = "penalty")
        BY <1>1, <1>9 DEF Fix!NoPenalty, FixScores
      <3> QED BY <3>1, <1>1 DEF Fix!PatchedIsScored
    <2>1. CASE x5[k].st # "patched"
      BY <2>1 DEF FixVerdicts
    <2>2. CASE x8[k] # "none" \/ x13.crashes > 0
      BY <2>2, <1>5 DEF FixData, Fix!Types
    <2>3. ASSUME NEW w \in Js, x10[w].pc = "reward", x10[w].key = k
          PROVE  \/ x8'[k] # "none" \/ x13'.crashes > 0
                 \/ x10'[w].pc = "reward" /\ x10'[w].key = k
      BY <2>3 DEF FixJobs, FixJobOK, Fix!Workers
    <2>4. CASE x11.pc = "allScore" /\ k = <<x11.round, x11.box>>
      BY <2>4 DEF FixPlays
    <2> QED BY <2>1, <2>2, <2>3, <2>4 DEF Fix!PatchedIsScored
  <1> QED BY <1>2, <1>3, <1>4, <1>7, <1>8, <1>9, <1>10, <1>11, <1>12

(* The parts a step leaves alone.                                          *)
LEMMA FixQuietData ==
    ASSUME Fix!Inductive, UNCHANGED <<x1, x2, x3, x4, x6, x7, x13>> PROVE FixData
  BY DEF FixData, Fix!Inductive, Fix!Types

LEMMA FixQuietEvals ==
    ASSUME Fix!Inductive, UNCHANGED x5 PROVE FixEvals /\ FixVerdicts
  BY DEF FixEvals, FixVerdicts, Fix!Inductive, Fix!Types, Fix!AttemptsLeft, FixEval

LEMMA FixQuietScores ==
    ASSUME Fix!Inductive, UNCHANGED x8 PROVE FixScores
  BY DEF FixScores, Fix!Inductive, Fix!Types

LEMMA FixQuietJobs ==
    ASSUME Fix!Inductive, UNCHANGED x10 PROVE FixJobs
  BY DEF FixJobs, Fix!Inductive, Fix!Types, FixJob

LEMMA FixQuietPlays ==
    ASSUME Fix!Inductive, UNCHANGED x11 PROVE FixPlays
  BY DEF FixPlays, Fix!Inductive, Fix!Types, Fix!RequestOfRound, FixPlayer

LEMMA FixTyped ==
    ASSUME Fix!Inductive
    PROVE  /\ x1.practice \in BOOLEAN /\ x1.rounds \in Nat \ {0} /\ x1.attempts \in Nat \ {0}
           /\ x5 \in [Fix!Keys -> FixEval] /\ x10 \in [Fix!Workers -> FixJob] /\ x11 \in FixPlayer
           /\ \A w \in Fix!Workers : x10[w] \in FixJob /\ x10[w].key \in Fix!Keys
           /\ \A k \in Fix!Keys : x5[k] \in FixEval
  BY DEF Fix!Inductive, Fix!Types, FixEval, FixJob, FixPlayer

(* One worker takes a step.                                                *)
LEMMA FixOneJob ==
    ASSUME Fix!Inductive, NEW w \in Fix!Workers, NEW j \in FixJob,
           x10' = [x10 EXCEPT ![w] = j], x10'[w] = j => FixJobOK(w)
    PROVE  FixJobs
  BY FixTyped DEF FixJobs

LEMMA FixJobOver ==
    ASSUME Fix!Inductive, NEW w \in Fix!Workers, x10' = [x10 EXCEPT ![w] = Fix!NoJob],
           x10[w].pc = "reward" => x8'[x10[w].key] # "none" \/ x13'.crashes > 0
    PROVE  FixJobs
  <1>1. Fix!NoJob \in FixJob /\ Fix!NoJob.pc = "idle" /\ Fix!NoJob.gen = 0
    BY FixTyped, FixNoJobTyped
  <1>2. x10'[w] = Fix!NoJob => FixJobOK(w)
    BY <1>1 DEF FixJobOK
  <1> QED BY <1>1, <1>2, FixOneJob

(* The first score event under a key stays.                                *)
LEMMA FixScoreEvent ==
    ASSUME Fix!Inductive, NEW k \in Fix!Keys, NEW kind \in {"fix", "penalty"},
           Fix!CreateScoreEvent(k, kind)
    PROVE  /\ x8' \in [Fix!Keys -> {"none", "fix", "penalty"}] /\ x8'[k] # "none"
           /\ \A q \in Fix!Keys : x8'[q] = x8[q] \/ (q = k /\ x8[q] = "none" /\ x8'[q] = kind)
  BY DEF Fix!CreateScoreEvent, Fix!Inductive, Fix!Types

(* A result is written only to an evaluation that is running.              *)
LEMMA FixFinish ==
    ASSUME Fix!Inductive, NEW w \in Fix!Workers, NEW st \in Fix!Terminal,
           Fix!FinishWithLease(w, st)
    PROVE  /\ FixEvals
           /\ \A k \in Fix!Keys : \/ x5'[k] = x5[k]
                                  \/ k = x10[w].key /\ x5'[k].st = st /\ x5[k].st = "running"
  <1>1. CASE x5' = x5
    BY <1>1, FixQuietEvals
  <1>2. CASE x5' # x5
    <2>1. PICK k \in Fix!Keys : k = x10[w].key
      BY FixTyped
    <2> DEFINE e == [x5[k] EXCEPT !.st = st, !.by = "nobody", !.lease = "no"]
    <2>2. x5[k].st = "running" /\ x5' = [x5 EXCEPT ![k] = e]
      BY <1>2, <2>1 DEF Fix!FinishWithLease, Fix!HoldsLease
    <2>3. e \in FixEval /\ e.st = st
      BY FixTyped DEF FixEval
    <2> HIDE DEF e
    <2>4. x5' \in [Fix!Keys -> FixEval] /\ x5'[k] = e /\ \A q \in Fix!Keys : q # k => x5'[q] = x5[q]
      BY <2>2, <2>3, FixTyped
    <2>5. st # "pending"
      BY DEF Fix!Terminal
    <2>6. FixEvals
      BY <2>2, <2>3, <2>4, <2>5 DEF FixEvals, Fix!Inductive, Fix!AttemptsLeft
    <2> QED BY <2>1, <2>2, <2>3, <2>4, <2>6
  <1> QED BY <1>1, <1>2

(* An attempt that is given back is pending again only if one is left.     *)
LEMMA FixReleaseOrFail ==
    ASSUME Fix!Inductive, NEW w \in Fix!Workers, Fix!ReleaseOrFail(w)
    PROVE  FixEvals /\ FixVerdicts
  <1>1. CASE x5' = x5
    BY <1>1, FixQuietEvals
  <1>2. CASE x5' # x5
    <2>1. PICK k \in Fix!Keys : k = x10[w].key
      BY FixTyped
    <2>2. PICK st \in {"platform_error", "pending"} :
               st = IF x10[w].att >= x1.attempts THEN "platform_error" ELSE "pending"
      OBVIOUS
    <2> DEFINE e == [x5[k] EXCEPT !.by = "nobody", !.lease = "no", !.st = st]
    <2>3. /\ x5[k].st = "running" /\ x5[k].att = x10[w].att /\ x5' = [x5 EXCEPT ![k] = e]
      BY <1>2, <2>1, <2>2 DEF Fix!ReleaseOrFail, Fix!HoldsLease
    <2>4. e \in FixEval /\ e.st = st /\ e.att = x5[k].att
      BY FixTyped DEF FixEval, Fix!Terminal
    <2> HIDE DEF e
    <2>5. x5' \in [Fix!Keys -> FixEval] /\ x5'[k] = e /\ \A q \in Fix!Keys : q # k => x5'[q] = x5[q]
      BY <2>3, <2>4, FixTyped
    <2>6. st = "pending" => x5[k].att < x1.attempts
      BY <2>2, <2>3, FixTyped DEF FixEval
    <2>7. FixEvals
      BY <2>3, <2>4, <2>5, <2>6 DEF FixEvals, Fix!Inductive, Fix!AttemptsLeft
    <2> QED BY <2>3, <2>4, <2>5, <2>7 DEF FixVerdicts
  <1> QED BY <1>1, <1>2

(* The tick.                                                               *)
LEMMA FixCutoff == ASSUME Fix!Inductive, Fix!Cutoff PROVE Fix!Inductive'
  <1>1. UNCHANGED <<x1, x2, x4, x5, x6, x7, x8, x10, x11, x13>> /\ x3' \in 0..x1.rounds
    BY FixTyped DEF Fix!Cutoff, Fix!Inductive, Fix!Types
  <1>2. FixData
    BY <1>1 DEF FixData, Fix!Inductive, Fix!Types
  <1> QED BY <1>1, <1>2, FixQuietEvals, FixQuietScores, FixQuietJobs, FixQuietPlays, FixStepKeeps

LEMMA FixTickCutoff == ASSUME Fix!Inductive, Fix!TickCutoff PROVE Fix!Inductive'
  <1>1. UNCHANGED <<x1, x2, x3, x6, x7, x8, x10, x11, x13>>
    BY DEF Fix!TickCutoff
  <1>2. PICK r \in Fix!Rounds : Fix!MaterializeRound(r)
    BY DEF Fix!TickCutoff
  <1> DEFINE new == {b \in Boxes : x5[<<r, b>>].st = "none"}
             e == [Fix!NoEval EXCEPT !.st = "pending"]
  <1>3. /\ x5' = [k \in Fix!Keys |-> IF k[1] = r /\ k[2] \in new THEN e ELSE x5[k]]
        /\ x4' = [x4 EXCEPT ![r] = [st |-> "evaluating", expected |-> Cardinality(new)]]
    BY <1>2 DEF Fix!MaterializeRound, Fix!Cardinality, Fix!IsFiniteSet, Cardinality, IsFiniteSet
  <1>4. Cardinality(new) \in Nat
    <2>1. IsFiniteSet(new)
      BY MatchAssumption, FS_Subset
    <2> QED BY <2>1, FS_CardinalityType
  <1>5. FixData
    BY <1>1, <1>3, <1>4 DEF FixData, Fix!Inductive, Fix!Types
  <1>6. e \in FixEval /\ e.st = "pending" /\ e.att = 0
    BY FixTyped, FixNoEvalTyped DEF FixEval
  <1>7. \A k \in Fix!Keys : \/ x5'[k] = x5[k]
                            \/ x5'[k] = e /\ x5[k].st = "none"
    <2> SUFFICES ASSUME NEW k \in Fix!Keys, k[1] = r, k[2] \in new PROVE x5[k].st = "none"
      BY <1>3
    <2>1. k = <<r, k[2]>>
      BY DEF Fix!Keys
    <2> QED BY <2>1
  <1>8. x5' \in [Fix!Keys -> FixEval]
    <2> HIDE DEF e, new
    <2> QED BY <1>3, <1>6, FixTyped
  <1> HIDE DEF e, new
  <1>9. FixEvals /\ FixVerdicts
    BY <1>6, <1>7, <1>8, FixTyped DEF FixEvals, FixVerdicts, Fix!Inductive, Fix!AttemptsLeft
  <1> QED BY <1>1, <1>5, <1>9, FixQuietScores, FixQuietJobs, FixQuietPlays, FixStepKeeps

LEMMA FixTickAdvance == ASSUME Fix!Inductive, Fix!TickAdvance PROVE Fix!Inductive'
  <1>1. UNCHANGED <<x1, x3, x4, x5, x6, x7, x8, x10, x11, x13>> /\ x2' \in {"Fix", "Ended"}
    BY DEF Fix!TickAdvance, Fix!Inductive, Fix!Types
  <1>2. FixData
    BY <1>1 DEF FixData, Fix!Inductive, Fix!Types
  <1> QED BY <1>1, <1>2, FixQuietEvals, FixQuietScores, FixQuietJobs, FixQuietPlays, FixStepKeeps

LEMMA FixTickComplete == ASSUME Fix!Inductive, Fix!TickComplete PROVE Fix!Inductive'
  <1>1. UNCHANGED <<x1, x2, x3, x5, x6, x7, x8, x10, x11, x13>>
    BY DEF Fix!TickComplete
  <1>2. x4' \in [Fix!Rounds -> [st : {"pending", "evaluating", "completed"}, expected : Nat]]
    <2>1. \A r \in Fix!Rounds : [x4[r] EXCEPT !.st = "completed"]
                                \in [st : {"pending", "evaluating", "completed"}, expected : Nat]
      BY DEF Fix!Inductive, Fix!Types
    <2> QED BY <2>1 DEF Fix!TickComplete, Fix!Inductive, Fix!Types
  <1>3. FixData
    BY <1>1, <1>2 DEF FixData, Fix!Inductive, Fix!Types
  <1> QED BY <1>1, <1>3, FixQuietEvals, FixQuietScores, FixQuietJobs, FixQuietPlays, FixStepKeeps

(* Claims.                                                                 *)
LEMMA FixRecover ==
    ASSUME Fix!Inductive
    PROVE  LET e == Fix!RecoverStaleRunning IN
           /\ e \in [Fix!Keys -> FixEval]
           /\ \A k \in Fix!Keys : e[k].st = "pending" => e[k].att < x1.attempts
           /\ \A k \in Fix!Keys : e[k].st = "patched" <=> x5[k].st = "patched"
  <1> DEFINE f(k) == [x5[k] EXCEPT !.by = "nobody", !.lease = "no",
                         !.st = IF x5[k].att >= x1.attempts THEN "platform_error" ELSE "pending"]
             e == Fix!RecoverStaleRunning
  <1>1. \A k \in Fix!Keys : /\ f(k) \in FixEval /\ f(k).st \in {"pending", "platform_error"}
                            /\ f(k).st = "pending" => f(k).att < x1.attempts
    <2> SUFFICES ASSUME NEW k \in Fix!Keys
                 PROVE  /\ f(k) \in FixEval /\ f(k).st \in {"pending", "platform_error"}
                        /\ f(k).st = "pending" => f(k).att < x1.attempts
      OBVIOUS
    <2>1. PICK st \in {"pending", "platform_error"} :
               st = IF x5[k].att >= x1.attempts THEN "platform_error" ELSE "pending"
      OBVIOUS
    <2>2. f(k) = [x5[k] EXCEPT !.by = "nobody", !.lease = "no", !.st = st]
      BY <2>1
    <2>3. st = "pending" => x5[k].att < x1.attempts
      BY <2>1, FixTyped DEF FixEval
    <2> HIDE DEF f
    <2> QED BY <2>2, <2>3, FixTyped DEF FixEval, Fix!Terminal
  <1>2. e = [k \in Fix!Keys |-> IF x5[k].st = "running" /\ x5[k].lease = "expired" THEN f(k) ELSE x5[k]]
    BY DEF Fix!RecoverStaleRunning
  <1> HIDE DEF f, e
  <1>3. e \in [Fix!Keys -> FixEval]
    BY <1>1, <1>2, FixTyped
  <1>4. \A k \in Fix!Keys : e[k] = x5[k] \/ (e[k] = f(k) /\ x5[k].st = "running")
    BY <1>2
  <1>5. /\ \A k \in Fix!Keys : e[k].st = "pending" => e[k].att < x1.attempts
        /\ \A k \in Fix!Keys : e[k].st = "patched" <=> x5[k].st = "patched"
    BY <1>1, <1>4 DEF Fix!Inductive, Fix!AttemptsLeft
  <1> QED BY <1>3, <1>5 DEF e

LEMMA FixClaimJobs ==
    ASSUME Fix!Inductive, NEW w \in Fix!Workers, w \in x1.workers, x10[w].pc = "idle",
           Fix!ClaimJobs(w), UNCHANGED <<x1, x2, x3, x4, x6, x7, x8, x11, x13>>
    PROVE  Fix!Inductive'
  <1> DEFINE e == Fix!RecoverStaleRunning
  <1>1. /\ e \in [Fix!Keys -> FixEval]
        /\ \A k \in Fix!Keys : e[k].st = "pending" => e[k].att < x1.attempts
        /\ \A k \in Fix!Keys : e[k].st = "patched" <=> x5[k].st = "patched"
    BY FixRecover
  <1>2. ASSUME NEW k \in Fix!Keys, e[k].st = "pending",
               x5' = [e EXCEPT ![k] = [st |-> "running", att |-> e[k].att + 1, by |-> w,
                                       lease |-> "fresh"]],
               x10' = [x10 EXCEPT ![w] = [Fix!NoJob EXCEPT !.pc = "claimed", !.key = k,
                                                           !.att = e[k].att + 1]]
        PROVE  Fix!Inductive'
    <2> HIDE DEF e
    <2> DEFINE v == [st |-> "running", att |-> e[k].att + 1, by |-> w, lease |-> "fresh"]
               j == [Fix!NoJob EXCEPT !.pc = "claimed", !.key = k, !.att = e[k].att + 1]
    <2>1. e[k].att + 1 \in 0..x1.attempts
      BY <1>1, <1>2, FixTyped DEF FixEval
    <2>2. v \in FixEval /\ v.st = "running"
      BY <2>1 DEF FixEval
    <2>3. j \in FixJob /\ j.pc = "claimed" /\ j.gen = 0
      BY <2>1, FixTyped, FixNoJobTyped DEF FixJob, Fix!JobPcs
    <2>4. x5' = [e EXCEPT ![k] = v] /\ x10' = [x10 EXCEPT ![w] = j]
      BY <1>2
    <2> HIDE DEF v, j
    <2>5. x5' \in [Fix!Keys -> FixEval] /\ x5'[k] = v /\ \A q \in Fix!Keys : q # k => x5'[q] = e[q]
      BY <1>1, <2>2, <2>4
    <2>6. FixEvals /\ FixVerdicts
      BY <1>1, <1>2, <2>2, <2>5 DEF FixEvals, FixVerdicts
    <2>7. x10'[w] = j => FixJobOK(w)
      BY <2>3 DEF FixJobOK
    <2>8. FixJobs
      BY <2>3, <2>4, <2>7, FixOneJob
    <2> QED BY <2>6, <2>8, FixQuietData, FixQuietScores, FixQuietPlays, FixStepKeeps
  <1>3. CASE x5' = e /\ x10' = x10
    <2>1. FixEvals /\ FixVerdicts
      BY <1>1, <1>3 DEF FixEvals, FixVerdicts
    <2> QED BY <1>3, <2>1, FixQuietData, FixQuietScores, FixQuietJobs, FixQuietPlays, FixStepKeeps
  <1> QED BY <1>2, <1>3 DEF Fix!ClaimJobs

LEMMA FixLeaseAges ==
    ASSUME Fix!Inductive, NEW k \in Fix!Keys, Fix!LeaseAges(k) PROVE Fix!Inductive'
  <1>1. /\ UNCHANGED <<x1, x2, x3, x4, x6, x7, x8, x10, x11, x13>> /\ x5[k].st = "running"
        /\ x5' = [x5 EXCEPT ![k].lease = IF @ = "fresh" THEN "late" ELSE "expired"]
    BY DEF Fix!LeaseAges
  <1>2. PICK l \in {"late", "expired"} : x5' = [x5 EXCEPT ![k].lease = l]
    BY <1>1
  <1>3. /\ x5' \in [Fix!Keys -> FixEval]
        /\ \A q \in Fix!Keys : x5'[q].st = x5[q].st /\ x5'[q].att = x5[q].att
    BY <1>2, FixTyped DEF FixEval
  <1>4. FixEvals /\ FixVerdicts
    BY <1>3 DEF FixEvals, FixVerdicts, Fix!Inductive, Fix!AttemptsLeft
  <1> QED BY <1>1, <1>4, FixQuietData, FixQuietScores, FixQuietJobs, FixQuietPlays, FixStepKeeps

LEMMA FixHeartbeat ==
    ASSUME Fix!Inductive, NEW w \in Fix!Workers, Fix!Heartbeat(w) PROVE Fix!Inductive'
  <1>1. /\ UNCHANGED <<x1, x2, x3, x4, x6, x7, x8, x10, x11, x13>>
        /\ x5' = [x5 EXCEPT ![x10[w].key].lease = "fresh"]
    BY DEF Fix!Heartbeat
  <1>2. /\ x5' \in [Fix!Keys -> FixEval]
        /\ \A q \in Fix!Keys : x5'[q].st = x5[q].st /\ x5'[q].att = x5[q].att
    BY <1>1, FixTyped DEF FixEval
  <1>3. FixEvals /\ FixVerdicts
    BY <1>2 DEF FixEvals, FixVerdicts, Fix!Inductive, Fix!AttemptsLeft
  <1> QED BY <1>1, <1>3, FixQuietData, FixQuietScores, FixQuietJobs, FixQuietPlays, FixStepKeeps

(* The worker inside the API.                                              *)
LEMMA FixWorkerRound ==
    ASSUME Fix!Inductive, NEW w \in Fix!Workers, Fix!WorkerRound(w) PROVE Fix!Inductive'
  BY FixClaimJobs DEF Fix!WorkerRound

LEMMA FixPullLoop ==
    ASSUME Fix!Inductive, NEW w \in Fix!Workers, Fix!PullLoop(w) PROVE Fix!Inductive'
  BY FixClaimJobs DEF Fix!PullLoop, Fix!JsClaim

LEMMA FixUp ==
    ASSUME Fix!Inductive, NEW w \in Fix!Workers, x10[w].pc # "idle" PROVE w \in x1.workers
  BY DEF Fix!Inductive, Fix!Idlers

(* A worker that only moves on.                                            *)
LEMMA FixMoves ==
    ASSUME Fix!Inductive, NEW w \in Fix!Workers, NEW pc \in Fix!JobPcs \ {"idle"},
           x10[w].pc # "idle"
    PROVE  LET j == [x10[w] EXCEPT !.pc = pc] IN
           /\ j \in FixJob /\ j.pc = pc /\ j.key = x10[w].key /\ j.gen = x10[w].gen
           /\ j.res = x10[w].res
           /\ [x10 EXCEPT ![w].pc = pc] = [x10 EXCEPT ![w] = j]
  BY FixTyped DEF FixJob

LEMMA FixProcessOfficial ==
    ASSUME Fix!Inductive, NEW w \in Fix!Workers, Fix!ProcessOfficial(w) PROVE Fix!Inductive'
  <1>1. /\ UNCHANGED <<x1, x2, x3, x4, x5, x6, x7, x8, x11, x13>> /\ x10[w].pc = "claimed"
        /\ x10' = [x10 EXCEPT ![w].pc = "check"] /\ w \in x1.workers
    BY FixUp DEF Fix!ProcessOfficial
  <1> DEFINE j == [x10[w] EXCEPT !.pc = "check"]
  <1>2. /\ j \in FixJob /\ j.pc = "check" /\ j.key = x10[w].key /\ j.gen = x10[w].gen
        /\ x10' = [x10 EXCEPT ![w] = j]
    BY <1>1, FixMoves DEF Fix!JobPcs
  <1> HIDE DEF j
  <1>3. x10'[w] = j => FixJobOK(w)
    BY <1>1, <1>2 DEF FixJobOK, Fix!Inductive, Fix!JobsJustified
  <1>4. FixJobs
    BY <1>2, <1>3, FixOneJob
  <1> QED BY <1>1, <1>4, FixQuietData, FixQuietEvals, FixQuietScores, FixQuietPlays, FixStepKeeps

(* An error counted.                                                       *)
LEMMA FixErrorData ==
    ASSUME Fix!Inductive, UNCHANGED <<x1, x2, x3, x4, x6, x7>>, Fix!SpendError \/ UNCHANGED x13
    PROVE  FixData
  BY DEF FixData, Fix!Inductive, Fix!Types, Fix!SpendError

LEMMA FixWorkerFails ==
    ASSUME Fix!Inductive, NEW w \in Fix!Workers, Fix!WorkerFails(w) PROVE Fix!Inductive'
  <1>1. /\ UNCHANGED <<x1, x2, x3, x4, x6, x7, x8, x11>> /\ x10[w].pc \in {"claimed", "check"}
        /\ x10' = [x10 EXCEPT ![w] = Fix!NoJob] /\ Fix!SpendError /\ Fix!ReleaseOrFail(w)
    BY DEF Fix!WorkerFails
  <1>2. FixJobs
    BY <1>1, FixJobOver
  <1> QED BY <1>1, <1>2, FixErrorData, FixReleaseOrFail, FixQuietScores, FixQuietPlays, FixStepKeeps

LEMMA FixRunChecks ==
    ASSUME Fix!Inductive, NEW w \in Fix!Workers, Fix!RunChecks(w) PROVE Fix!Inductive'
  <1>1. /\ UNCHANGED <<x1, x2, x3, x4, x5, x6, x7, x8, x11>> /\ x10[w].pc = "check"
        /\ Fix!SpendError \/ UNCHANGED x13
    BY DEF Fix!RunChecks
  <1>2. PICK res \in Fix!Terminal :
             /\ x10' = [x10 EXCEPT ![w].pc = "score", ![w].res = res]
             /\ res = "patched" => x10[w].key \in x7
    <2>1. PICK judge, exploit \in BOOLEAN :
               x10' = [x10 EXCEPT ![w].pc = "score",
                                  ![w].res = IF Fix!NoPatch(x10[w].key) THEN "no_patch"
                                             ELSE Fix!CheckOutcome(x10[w].key[2], judge, exploit)]
      BY DEF Fix!RunChecks
    <2> DEFINE res == IF Fix!NoPatch(x10[w].key) THEN "no_patch"
                      ELSE Fix!CheckOutcome(x10[w].key[2], judge, exploit)
    <2>2. res \in Fix!Terminal /\ (res = "patched" => x10[w].key \in x7)
      BY DEF Fix!NoPatch, Fix!CheckOutcome, Fix!Terminal
    <2> QED BY <2>1, <2>2
  <1> DEFINE j == [x10[w] EXCEPT !.pc = "score", !.res = res]
  <1>3. /\ j \in FixJob /\ j.pc = "score" /\ j.key = x10[w].key /\ j.gen = x10[w].gen
        /\ j.res = res /\ x10' = [x10 EXCEPT ![w] = j]
    BY <1>2, FixTyped DEF FixJob, Fix!JobPcs
  <1> HIDE DEF j
  <1>4. x10'[w] = j => FixJobOK(w)
    BY <1>1, <1>2, <1>3, FixUp DEF FixJobOK, Fix!Inductive, Fix!JobsJustified, Fix!Terminal
  <1>5. FixJobs
    BY <1>3, <1>4, FixOneJob
  <1> QED BY <1>1, <1>5, FixErrorData, FixQuietEvals, FixQuietScores, FixQuietPlays, FixStepKeeps

LEMMA FixScoreOfficial ==
    ASSUME Fix!Inductive, NEW w \in Fix!Workers, Fix!ScoreOfficial(w) PROVE Fix!Inductive'
  <1>1. /\ UNCHANGED <<x1, x2, x3, x4, x5, x6, x7, x11, x13>> /\ x10[w].pc = "score"
        /\ w \in Api /\ x10' = [x10 EXCEPT ![w].pc = "finish"] /\ w \in x1.workers
    BY FixUp DEF Fix!ScoreOfficial
  <1>2. PICK k \in Fix!Keys : k = x10[w].key
    BY FixTyped
  <1>3. x10[w].res = "patched" => k \in x7
    BY <1>1, <1>2 DEF Fix!Inductive, Fix!JobsJustified
  <1>4. FixScores /\ (x10[w].res = "patched" => x8'[k] # "none")
    <2>1. CASE x10[w].res = "patched"
      <3>1. /\ x8' \in [Fix!Keys -> {"none", "fix", "penalty"}] /\ x8'[k] # "none"
            /\ \A q \in Fix!Keys : x8'[q] = x8[q] \/ (q = k /\ x8[q] = "none" /\ x8'[q] = "fix")
        BY <1>2, <2>1, FixScoreEvent DEF Fix!ScoreOfficial
      <3> QED BY <1>1, <1>3, <2>1, <3>1 DEF FixScores
    <2>2. CASE x10[w].res # "patched" /\ x1.practice
      <3>1. /\ x8' \in [Fix!Keys -> {"none", "fix", "penalty"}]
            /\ \A q \in Fix!Keys : x8'[q] = x8[q] \/ (q = k /\ x8[q] = "none" /\ x8'[q] = "penalty")
        BY <1>2, <2>2, FixScoreEvent DEF Fix!ScoreOfficial
      <3> QED BY <2>2, <3>1 DEF FixScores
    <2>3. CASE x10[w].res # "patched" /\ ~x1.practice
      BY <2>3, FixQuietScores DEF Fix!ScoreOfficial
    <2> QED BY <2>1, <2>2, <2>3
  <1> DEFINE j == [x10[w] EXCEPT !.pc = "finish"]
  <1>5. /\ j \in FixJob /\ j.pc = "finish" /\ j.key = k /\ j.gen = x10[w].gen
        /\ j.res = x10[w].res /\ x10' = [x10 EXCEPT ![w] = j]
    BY <1>1, <1>2, FixMoves DEF Fix!JobPcs
  <1> HIDE DEF j
  <1>6. x10'[w] = j => FixJobOK(w)
    BY <1>1, <1>2, <1>3, <1>4, <1>5 DEF FixJobOK, Fix!Inductive, Fix!JobsJustified
  <1>7. FixJobs
    BY <1>5, <1>6, FixOneJob
  <1> QED BY <1>1, <1>4, <1>7, FixQuietData, FixQuietEvals, FixQuietPlays, FixStepKeeps

LEMMA FixFinishOfficial ==
    ASSUME Fix!Inductive, NEW w \in Fix!Workers, Fix!FinishOfficial(w) PROVE Fix!Inductive'
  <1>1. /\ UNCHANGED <<x1, x2, x3, x4, x6, x7, x8, x11, x13>> /\ x10[w].pc = "finish"
        /\ x10' = [x10 EXCEPT ![w] = Fix!NoJob] /\ Fix!FinishWithLease(w, x10[w].res)
    BY DEF Fix!FinishOfficial
  <1>2. /\ x10[w].res \in Fix!Terminal
        /\ x10[w].res = "patched" => x8[x10[w].key] # "none"
    BY <1>1, FixTyped DEF Fix!Inductive, Fix!JobsJustified, FixJob
  <1>3. /\ FixEvals
        /\ \A k \in Fix!Keys : x5'[k] = x5[k] \/ (k = x10[w].key /\ x5'[k].st = x10[w].res)
    BY <1>1, <1>2, FixFinish
  <1>4. FixVerdicts
    BY <1>1, <1>2, <1>3 DEF FixVerdicts
  <1>5. FixJobs
    BY <1>1, FixJobOver
  <1> QED BY <1>1, <1>3, <1>4, <1>5, FixQuietData, FixQuietScores, FixQuietPlays, FixStepKeeps

(* JudgeServer.                                                            *)
LEMMA FixJsNoPatch ==
    ASSUME Fix!Inductive, NEW w \in Fix!Workers, Fix!JsNoPatch(w) PROVE Fix!Inductive'
  <1>1. /\ UNCHANGED <<x1, x2, x3, x4, x5, x6, x7, x11, x13>> /\ x10[w].pc = "claimed"
        /\ x10' = [x10 EXCEPT ![w].pc = "settle"] /\ w \in x1.workers /\ x10[w].gen = 0
    BY FixUp DEF Fix!JsNoPatch
  <1>2. FixScores
    <2>1. CASE x1.practice
      <3>1. /\ x8' \in [Fix!Keys -> {"none", "fix", "penalty"}]
            /\ \A q \in Fix!Keys : x8'[q] = x8[q] \/ x8[q] = "none"
        BY <2>1, FixTyped, FixScoreEvent DEF Fix!JsNoPatch
      <3> QED BY <2>1, <3>1 DEF FixScores
    <2>2. CASE ~x1.practice
      BY <2>2, FixQuietScores DEF Fix!JsNoPatch
    <2> QED BY <2>1, <2>2
  <1> DEFINE j == [x10[w] EXCEPT !.pc = "settle"]
  <1>3. /\ j \in FixJob /\ j.pc = "settle" /\ j.gen = 0 /\ x10' = [x10 EXCEPT ![w] = j]
    BY <1>1, FixMoves DEF Fix!JobPcs
  <1> HIDE DEF j
  <1>4. x10'[w] = j => FixJobOK(w)
    BY <1>1, <1>3 DEF FixJobOK
  <1>5. FixJobs
    BY <1>3, <1>4, FixOneJob
  <1> QED BY <1>1, <1>2, <1>5, FixQuietData, FixQuietEvals, FixQuietPlays, FixStepKeeps

LEMMA FixJsSettle ==
    ASSUME Fix!Inductive, NEW w \in Fix!Workers, Fix!JsSettle(w) PROVE Fix!Inductive'
  <1>1. /\ UNCHANGED <<x1, x2, x3, x4, x6, x7, x8, x11, x13>> /\ x10[w].pc = "settle"
        /\ x10' = [x10 EXCEPT ![w] = Fix!NoJob] /\ Fix!FinishWithLease(w, "no_patch")
    BY DEF Fix!JsSettle
  <1>2. /\ FixEvals
        /\ \A k \in Fix!Keys : x5'[k] = x5[k] \/ x5'[k].st = "no_patch"
    <2>1. "no_patch" \in Fix!Terminal
      BY DEF Fix!Terminal
    <2> QED BY <1>1, <2>1, FixFinish
  <1>3. FixVerdicts
    BY <1>2 DEF FixVerdicts
  <1>4. FixJobs
    BY <1>1, FixJobOver
  <1> QED BY <1>1, <1>2, <1>3, <1>4, FixQuietData, FixQuietScores, FixQuietPlays, FixStepKeeps

LEMMA FixJsPayload ==
    ASSUME Fix!Inductive, NEW w \in Fix!Workers, Fix!JsPayload(w) PROVE Fix!Inductive'
  <1>1. /\ UNCHANGED <<x1, x2, x3, x4, x5, x6, x7, x8, x11, x13>> /\ x10[w].pc = "claimed"
        /\ x10[w].key \in x7 /\ w \in x1.workers
        /\ x10' = [x10 EXCEPT ![w].gen = x6[x10[w].key[2]].gen]
    BY FixUp DEF Fix!JsPayload, Fix!NoPatch
  <1>2. PICK g \in Nat : g = x6[x10[w].key[2]].gen
    <2>1. x10[w].key[2] \in Boxes
      BY FixTyped DEF Fix!Keys
    <2> QED BY <2>1 DEF Fix!Inductive, Fix!Types
  <1> DEFINE j == [x10[w] EXCEPT !.gen = g]
  <1>3. /\ j \in FixJob /\ j.pc = "claimed" /\ j.key = x10[w].key /\ x10' = [x10 EXCEPT ![w] = j]
    BY <1>1, <1>2, FixTyped DEF FixJob
  <1> HIDE DEF j
  <1>4. x10'[w] = j => FixJobOK(w)
    BY <1>1, <1>3 DEF FixJobOK
  <1>5. FixJobs
    BY <1>3, <1>4, FixOneJob
  <1> QED BY <1>1, <1>5, FixQuietData, FixQuietEvals, FixQuietScores, FixQuietPlays, FixStepKeeps

LEMMA FixRunJob ==
    ASSUME Fix!Inductive, NEW w \in Fix!Workers, Fix!RunJob(w) PROVE Fix!Inductive'
  <1>1. /\ UNCHANGED <<x1, x2, x3, x4, x5, x6, x7, x8, x11>> /\ x10[w].pc = "claimed"
        /\ Fix!SpendError \/ UNCHANGED x13
        /\ x10[w].gen > 0 /\ w \in x1.workers
    BY FixUp DEF Fix!RunJob
  <1>2. PICK res \in Fix!Terminal : x10' = [x10 EXCEPT ![w].pc = "post", ![w].res = res]
    <2>1. PICK judge, exploit \in BOOLEAN :
               x10' = [x10 EXCEPT ![w].pc = "post",
                                  ![w].res = Fix!JobOutcome(x10[w].key[2], judge, exploit)]
      BY DEF Fix!RunJob
    <2>2. Fix!JobOutcome(x10[w].key[2], judge, exploit) \in Fix!Terminal
      BY DEF Fix!JobOutcome, Fix!Terminal
    <2> QED BY <2>1, <2>2
  <1> DEFINE j == [x10[w] EXCEPT !.pc = "post", !.res = res]
  <1>3. /\ j \in FixJob /\ j.pc = "post" /\ j.key = x10[w].key /\ j.gen = x10[w].gen
        /\ j.res = res /\ x10' = [x10 EXCEPT ![w] = j]
    BY <1>2, FixTyped DEF FixJob, Fix!JobPcs
  <1> HIDE DEF j
  <1>4. x10'[w] = j => FixJobOK(w)
    BY <1>1, <1>3 DEF FixJobOK, Fix!Inductive, Fix!JobsJustified, Fix!Terminal
  <1>5. FixJobs
    BY <1>3, <1>4, FixOneJob
  <1> QED BY <1>1, <1>5, FixErrorData, FixQuietEvals, FixQuietScores, FixQuietPlays, FixStepKeeps

LEMMA FixRecordResult ==
    ASSUME Fix!Inductive, NEW w \in Fix!Workers, Fix!RecordResult(w) PROVE Fix!Inductive'
  <1>1. /\ UNCHANGED <<x1, x2, x3, x4, x5, x6, x7, x8, x11>> /\ x10[w].pc = "post"
        /\ Fix!SpendError \/ UNCHANGED x13
        /\ w \in x1.workers
    BY FixUp DEF Fix!RecordResult
  <1>2. FixJobs
    <2>1. CASE x10' = [x10 EXCEPT ![w].pc = "accept"]
      <3> DEFINE j == [x10[w] EXCEPT !.pc = "accept"]
      <3>1. /\ j \in FixJob /\ j.pc = "accept" /\ j.key = x10[w].key /\ j.gen = x10[w].gen
            /\ j.res = x10[w].res /\ x10' = [x10 EXCEPT ![w] = j]
        BY <1>1, <2>1, FixMoves DEF Fix!JobPcs
      <3> HIDE DEF j
      <3>2. x10'[w] = j => FixJobOK(w)
        BY <1>1, <3>1 DEF FixJobOK, Fix!Inductive, Fix!JobsJustified
      <3> QED BY <3>1, <3>2, FixOneJob
    <2>2. CASE x10' = [x10 EXCEPT ![w] = Fix!NoJob]
      BY <1>1, <2>2, FixJobOver
    <2> QED BY <2>1, <2>2 DEF Fix!RecordResult
  <1> QED BY <1>1, <1>2, FixErrorData, FixQuietEvals, FixQuietScores, FixQuietPlays, FixStepKeeps

LEMMA FixAcceptResult ==
    ASSUME Fix!Inductive, NEW w \in Fix!Workers, Fix!AcceptResult(w) PROVE Fix!Inductive'
  <1>1. /\ UNCHANGED <<x1, x2, x3, x4, x6, x7, x8, x11, x13>> /\ x10[w].pc = "accept"
        /\ w \in Js /\ w \in x1.workers
    BY FixUp DEF Fix!AcceptResult
  <1>2. x10[w].res \in Fix!Terminal /\ x10[w].gen > 0 /\ x10[w].key \in x7
    BY <1>1, FixTyped DEF Fix!Inductive, Fix!JobsJustified, FixJob
  <1>3. CASE x10[w].res = "platform_error"
    <2>1. FixEvals /\ FixVerdicts
      BY <1>3, FixReleaseOrFail DEF Fix!AcceptResult
    <2>2. x10' = [x10 EXCEPT ![w] = Fix!NoJob]
      BY <1>3 DEF Fix!AcceptResult
    <2>3. FixJobs
      BY <1>1, <2>2, FixJobOver
    <2> QED BY <1>1, <2>1, <2>3, FixQuietData, FixQuietScores, FixQuietPlays, FixStepKeeps
  <1>4. CASE x10[w].res # "platform_error"
    <2>1. /\ FixEvals
          /\ \A k \in Fix!Keys : x5'[k] = x5[k] \/ (k = x10[w].key /\ x5'[k].st = x10[w].res)
      BY <1>2, <1>4, FixFinish DEF Fix!AcceptResult
    <2>2. CASE x10[w].res = "patched" /\ x5' # x5
      <3> DEFINE j == [x10[w] EXCEPT !.pc = "reward"]
      <3>1. x10' = [x10 EXCEPT ![w] = j]
        BY <2>2 DEF Fix!AcceptResult
      <3>2. /\ j \in FixJob /\ j.pc = "reward" /\ j.key = x10[w].key /\ j.gen = x10[w].gen
            /\ j.res = x10[w].res
        BY <1>1, FixMoves DEF Fix!JobPcs
      <3> HIDE DEF j
      <3>3. x5'[x10[w].key].st = "patched"
        <4>1. PICK k \in Fix!Keys : x5'[k] # x5[k]
          BY <2>2, <2>1, FixTyped DEF FixEvals
        <4> QED BY <4>1, <2>1, <2>2
      <3>4. x10'[w] = j => FixJobOK(w)
        BY <1>1, <1>2, <3>2, <3>3 DEF FixJobOK
      <3>5. FixJobs /\ x10'[w] = j
        BY <3>1, <3>2, <3>4, FixOneJob, FixTyped
      <3>6. FixVerdicts
        BY <1>1, <2>1, <3>2, <3>5 DEF FixVerdicts
      <3> QED BY <1>1, <2>1, <3>5, <3>6, FixQuietData, FixQuietScores, FixQuietPlays, FixStepKeeps
    <2>3. CASE ~(x10[w].res = "patched" /\ x5' # x5)
      <3>1. x10' = [x10 EXCEPT ![w] = Fix!NoJob]
        BY <2>3 DEF Fix!AcceptResult
      <3>2. FixJobs
        BY <1>1, <3>1, FixJobOver
      <3>3. FixVerdicts
        BY <2>1, <2>3 DEF FixVerdicts
      <3> QED BY <1>1, <2>1, <3>2, <3>3, FixQuietData, FixQuietScores, FixQuietPlays, FixStepKeeps
    <2> QED BY <2>2, <2>3
  <1> QED BY <1>3, <1>4

LEMMA FixRewardResult ==
    ASSUME Fix!Inductive, NEW w \in Fix!Workers, Fix!RewardResult(w) PROVE Fix!Inductive'
  <1>1. /\ UNCHANGED <<x1, x2, x3, x4, x5, x6, x7, x11, x13>> /\ x10[w].pc = "reward"
        /\ x10' = [x10 EXCEPT ![w] = Fix!NoJob] /\ Fix!CreateScoreEvent(x10[w].key, "fix")
    BY DEF Fix!RewardResult
  <1>2. x10[w].key \in x7 /\ x5[x10[w].key].st = "patched" /\ x10[w].key \in Fix!Keys
    BY <1>1, FixTyped DEF Fix!Inductive, Fix!JobsJustified
  <1>3. /\ x8' \in [Fix!Keys -> {"none", "fix", "penalty"}] /\ x8'[x10[w].key] # "none"
        /\ \A q \in Fix!Keys :
             x8'[q] = x8[q] \/ (q = x10[w].key /\ x8[q] = "none" /\ x8'[q] = "fix")
    BY <1>1, <1>2, FixScoreEvent
  <1>4. FixScores
    BY <1>2, <1>3 DEF FixScores
  <1>5. FixJobs
    BY <1>1, <1>3, FixJobOver
  <1> QED BY <1>1, <1>4, <1>5, FixQuietData, FixQuietEvals, FixQuietPlays, FixStepKeeps

(* Requests of the players.                                                *)
LEMMA FixIdlePlays ==
    ASSUME Fix!Inductive, x11' = Fix!NoRequest, x11.pc # "allScore" \/ x13'.crashes > 0
    PROVE  FixPlays
  BY FixTyped, FixNoJobTyped DEF FixPlays

LEMMA FixApplyPatch ==
    ASSUME Fix!Inductive, NEW b \in Boxes, NEW r \in Fix!Rounds, Fix!ApplyPatch(b, r)
    PROVE  Fix!Inductive'
  <1>1. /\ UNCHANGED <<x1, x2, x3, x4, x5, x6, x7, x8, x10, x13>> /\ x11.pc = "idle"
        /\ x11' = [pc |-> "patch", box |-> b, round |-> r]
    BY DEF Fix!ApplyPatch
  <1>2. FixPlays
    BY <1>1, FixTyped DEF FixPlays, FixPlayer, Fix!PlayerPcs, Fix!Rounds
  <1> QED BY <1>1, <1>2, FixQuietData, FixQuietEvals, FixQuietScores, FixQuietJobs, FixStepKeeps

LEMMA FixPatchScript == ASSUME Fix!Inductive, Fix!PatchScript PROVE Fix!Inductive'
  <1>1. UNCHANGED <<x1, x2, x3, x4, x5, x7, x8, x10, x13>> /\ x11.pc = "patch"
    BY DEF Fix!PatchScript
  <1>2. PICK is \in Fix!Services : x6' = [x6 EXCEPT ![x11.box].is = is]
    BY DEF Fix!PatchScript
  <1>3. PICK pc \in {"record", "failed"} : x11' = [x11 EXCEPT !.pc = pc]
    BY DEF Fix!PatchScript
  <1>4. FixData
    <2>1. x6' \in [Boxes -> [is : Fix!Services, gen : Nat \ {0}, resets : Nat]]
      BY <1>2 DEF Fix!Inductive, Fix!Types
    <2> QED BY <1>1, <2>1 DEF FixData, Fix!Inductive, Fix!Types
  <1>5. FixPlays
    <2>1. x11.round \in Fix!Rounds
      BY <1>1 DEF Fix!Inductive, Fix!RequestOfRound
    <2>2. x11' \in FixPlayer /\ x11'.pc = pc /\ x11'.round = x11.round
      BY <1>3, FixTyped DEF FixPlayer, Fix!PlayerPcs
    <2> QED BY <1>1, <2>1, <2>2 DEF FixPlays
  <1> QED BY <1>1, <1>4, <1>5, FixQuietEvals, FixQuietScores, FixQuietJobs, FixStepKeeps

LEMMA FixFinishApply == ASSUME Fix!Inductive, Fix!FinishApply PROVE Fix!Inductive'
  <1>1. /\ UNCHANGED <<x1, x2, x3, x4, x5, x6, x8, x10, x13>> /\ x11.pc \in {"record", "failed"}
        /\ x11' = Fix!NoRequest /\ (x7' = x7 \/ x7' = x7 \cup {<<x11.round, x11.box>>})
    BY DEF Fix!FinishApply
  <1>2. <<x11.round, x11.box>> \in Fix!Keys
    BY <1>1, FixTyped DEF Fix!Inductive, Fix!RequestOfRound, Fix!Keys, FixPlayer
  <1>3. FixData
    <2>1. x7 \subseteq x7' /\ x7' \subseteq Fix!Keys
      BY <1>1, <1>2 DEF Fix!Inductive, Fix!Types
    <2> QED BY <1>1, <2>1 DEF FixData, Fix!Inductive, Fix!Types
  <1> QED BY <1>1, <1>3, FixIdlePlays, FixQuietEvals, FixQuietScores, FixQuietJobs, FixStepKeeps

LEMMA FixResetInstance ==
    ASSUME Fix!Inductive, NEW b \in Boxes, Fix!ResetInstance(b) PROVE Fix!Inductive'
  <1>1. /\ UNCHANGED <<x1, x2, x3, x4, x5, x7, x8, x10, x13>> /\ x11.pc = "idle"
        /\ x6' = [x6 EXCEPT ![b].is = "down"]
        /\ x11' = [Fix!NoRequest EXCEPT !.pc = "reset", !.box = b]
    BY DEF Fix!ResetInstance
  <1>2. FixData
    <2>1. x6' \in [Boxes -> [is : Fix!Services, gen : Nat \ {0}, resets : Nat]]
      BY <1>1 DEF Fix!Inductive, Fix!Types, Fix!Services
    <2> QED BY <1>1, <2>1 DEF FixData, Fix!Inductive, Fix!Types
  <1>3. FixPlays
    <2>1. x11' \in FixPlayer /\ x11'.pc = "reset"
      BY <1>1, FixTyped, FixNoJobTyped DEF FixPlayer, Fix!PlayerPcs
    <2> QED BY <1>1, <2>1 DEF FixPlays
  <1> QED BY <1>1, <1>2, <1>3, FixQuietEvals, FixQuietScores, FixQuietJobs, FixStepKeeps

LEMMA FixResetDone == ASSUME Fix!Inductive, Fix!ResetDone PROVE Fix!Inductive'
  <1>1. /\ UNCHANGED <<x1, x2, x3, x4, x5, x7, x8, x10>> /\ x11.pc = "reset"
        /\ x11' = Fix!NoRequest
        /\ \/ /\ x6' = [x6 EXCEPT ![x11.box] =
                           [is |-> "weak", gen |-> @.gen + 1,
                            resets |-> IF x1.practice THEN @.resets ELSE @.resets + 1]]
              /\ UNCHANGED x13
           \/ Fix!SpendError /\ UNCHANGED x6
    BY DEF Fix!ResetDone
  <1>2. FixData
    <2>1. CASE Fix!SpendError /\ UNCHANGED x6
      BY <1>1, <2>1, FixErrorData
    <2>2. CASE /\ x6' = [x6 EXCEPT ![x11.box] =
                           [is |-> "weak", gen |-> @.gen + 1,
                            resets |-> IF x1.practice THEN @.resets ELSE @.resets + 1]]
               /\ UNCHANGED x13
      <3>1. x11.box \in Boxes
        BY FixTyped DEF FixPlayer
      <3>2. x6[x11.box].gen + 1 \in Nat \ {0} /\ x6[x11.box].resets \in Nat /\ x6[x11.box].resets + 1 \in Nat
        BY <3>1 DEF Fix!Inductive, Fix!Types
      <3>3. PICK n \in Nat : n = IF x1.practice THEN x6[x11.box].resets ELSE x6[x11.box].resets + 1
        BY <3>2
      <3>4. x6' = [x6 EXCEPT ![x11.box] = [is |-> "weak", gen |-> x6[x11.box].gen + 1, resets |-> n]]
        BY <2>2, <3>3
      <3>5. x6' \in [Boxes -> [is : Fix!Services, gen : Nat \ {0}, resets : Nat]]
        BY <3>4, <3>2 DEF Fix!Inductive, Fix!Types, Fix!Services
      <3> QED BY <1>1, <2>2, <3>5 DEF FixData, Fix!Inductive, Fix!Types
    <2> QED BY <1>1, <2>1, <2>2
  <1> QED BY <1>1, <1>2, FixIdlePlays, FixQuietEvals, FixQuietScores, FixQuietJobs, FixStepKeeps

LEMMA FixManualCheck ==
    ASSUME Fix!Inductive, NEW b \in Boxes, Fix!ManualCheck(b) PROVE Fix!Inductive'
  <1>1. /\ UNCHANGED <<x1, x2, x3, x4, x5, x6, x7, x8, x10, x13>> /\ x11.pc = "idle"
        /\ x11' = [Fix!NoRequest EXCEPT !.pc = "manual", !.box = b]
    BY DEF Fix!ManualCheck
  <1>2. FixPlays
    <2>1. x11' \in FixPlayer /\ x11'.pc = "manual"
      BY <1>1, FixTyped, FixNoJobTyped DEF FixPlayer, Fix!PlayerPcs
    <2> QED BY <1>1, <2>1 DEF FixPlays
  <1> QED BY <1>1, <1>2, FixQuietData, FixQuietEvals, FixQuietScores, FixQuietJobs, FixStepKeeps

LEMMA FixManualCheckDone == ASSUME Fix!Inductive, Fix!ManualCheckDone PROVE Fix!Inductive'
  <1>1. /\ UNCHANGED <<x1, x2, x3, x4, x5, x6, x7, x8, x10, x13>> /\ x11.pc = "manual"
        /\ x11' = Fix!NoRequest
    BY DEF Fix!ManualCheckDone
  <1> QED BY <1>1, FixQuietData, FixIdlePlays, FixQuietEvals, FixQuietScores, FixQuietJobs, FixStepKeeps

LEMMA FixAllCheck ==
    ASSUME Fix!Inductive, NEW b \in Boxes, Fix!AllCheck(b) PROVE Fix!Inductive'
  <1>1. /\ UNCHANGED <<x1, x2, x3, x4, x5, x6, x7, x8, x10, x13>> /\ x11.pc = "idle" /\ x1.practice
    BY DEF Fix!AllCheck
  <1>2. PICK r \in Fix!Rounds, pc \in {"all", "manual"} : x11' = [pc |-> pc, box |-> b, round |-> r]
    BY DEF Fix!AllCheck
  <1>3. FixPlays
    BY <1>1, <1>2, FixTyped DEF FixPlays, FixPlayer, Fix!PlayerPcs, Fix!Rounds
  <1> QED BY <1>1, <1>3, FixQuietData, FixQuietEvals, FixQuietScores, FixQuietJobs, FixStepKeeps

LEMMA FixAllCheckRound == ASSUME Fix!Inductive, Fix!AllCheckRound PROVE Fix!Inductive'
  <1>1. /\ UNCHANGED <<x1, x2, x3, x4, x6, x7, x8, x10, x13>> /\ x11.pc = "all"
        /\ x11' = [x11 EXCEPT !.pc = "allScore"]
    BY DEF Fix!AllCheckRound
  <1>2. x11.round \in Fix!Rounds /\ x1.practice
    BY <1>1 DEF Fix!Inductive, Fix!RequestOfRound
  <1>3. PICK k \in Fix!Keys : k = <<x11.round, x11.box>>
    BY <1>2, FixTyped DEF FixPlayer, Fix!Keys
  <1>4. x11' \in FixPlayer /\ x11'.pc = "allScore" /\ x11'.round = x11.round /\ x11'.box = x11.box
    BY <1>1, FixTyped DEF FixPlayer, Fix!PlayerPcs
  <1>5. FixPlays
    BY <1>1, <1>2, <1>4 DEF FixPlays
  <1> DEFINE e == [x5[k] EXCEPT !.st = "patched", !.by = "nobody", !.lease = "no"]
  <1>6. x5' = [x5 EXCEPT ![k] = e]
    BY <1>3 DEF Fix!AllCheckRound
  <1>7. e \in FixEval /\ e.st = "patched"
    BY FixTyped DEF FixEval, Fix!Terminal
  <1> HIDE DEF e
  <1>8. x5' \in [Fix!Keys -> FixEval] /\ x5'[k] = e /\ \A q \in Fix!Keys : q # k => x5'[q] = x5[q]
    BY <1>6, <1>7, FixTyped
  <1>9. FixEvals
    BY <1>7, <1>8 DEF FixEvals, Fix!Inductive, Fix!AttemptsLeft
  <1>10. FixVerdicts
    BY <1>3, <1>4, <1>8 DEF FixVerdicts
  <1> QED BY <1>1, <1>5, <1>9, <1>10, FixQuietData, FixQuietScores, FixQuietJobs, FixStepKeeps

LEMMA FixAllCheckScore == ASSUME Fix!Inductive, Fix!AllCheckScore PROVE Fix!Inductive'
  <1>1. UNCHANGED <<x1, x2, x3, x4, x5, x6, x7, x10, x13>> /\ x11.pc = "allScore"
    BY DEF Fix!AllCheckScore
  <1>2. x11.round \in Fix!Rounds /\ x1.practice
    BY <1>1 DEF Fix!Inductive, Fix!RequestOfRound
  <1>3. PICK k \in Fix!Keys : k = <<x11.round, x11.box>>
    BY <1>2, FixTyped DEF FixPlayer, Fix!Keys
  <1>4. /\ x8' \in [Fix!Keys -> {"none", "fix", "penalty"}] /\ x8'[k] # "none"
        /\ \A q \in Fix!Keys : x8'[q] = x8[q] \/ (q = k /\ x8[q] = "none" /\ x8'[q] = "fix")
    BY <1>3, FixScoreEvent DEF Fix!AllCheckScore
  <1>5. FixScores
    BY <1>2, <1>4 DEF FixScores
  <1>6. FixPlays
    <2>1. CASE x11.round < x1.rounds /\ x11' = [x11 EXCEPT !.pc = "all", !.round = @ + 1]
      <3>1. x11.round + 1 \in Fix!Rounds /\ x11.round + 1 \in 0..x1.rounds
        BY <2>1, <1>2, FixTyped DEF Fix!Rounds
      <3>2. x11' \in FixPlayer /\ x11'.pc = "all" /\ x11'.round = x11.round + 1
        BY <2>1, <3>1, FixTyped DEF FixPlayer, Fix!PlayerPcs
      <3> QED BY <1>2, <1>3, <1>4, <3>1, <3>2 DEF FixPlays
    <2>2. CASE x11' = [x11 EXCEPT !.pc = "allEnd"]
      <3>1. x11' \in FixPlayer /\ x11'.pc = "allEnd"
        BY <2>2, FixTyped DEF FixPlayer, Fix!PlayerPcs
      <3> QED BY <1>2, <1>3, <1>4, <3>1 DEF FixPlays
    <2> QED BY <2>1, <2>2 DEF Fix!AllCheckScore
  <1> QED BY <1>1, <1>5, <1>6, FixQuietData, FixQuietEvals, FixQuietJobs, FixStepKeeps

LEMMA FixAllCheckEnd == ASSUME Fix!Inductive, Fix!AllCheckEnd PROVE Fix!Inductive'
  <1>1. /\ UNCHANGED <<x1, x3, x4, x5, x6, x7, x8, x10, x13>> /\ x11.pc = "allEnd"
        /\ x11' = Fix!NoRequest /\ x2' = "Ended"
    BY DEF Fix!AllCheckEnd
  <1>2. FixData
    BY <1>1 DEF FixData, Fix!Inductive, Fix!Types
  <1> QED BY <1>1, <1>2, FixIdlePlays, FixQuietEvals, FixQuietScores, FixQuietJobs, FixStepKeeps

LEMMA FixCrash == ASSUME Fix!Inductive, Fix!Crash PROVE Fix!Inductive'
  <1>1. /\ UNCHANGED <<x1, x2, x3, x4, x5, x6, x7, x8>> /\ x11' = Fix!NoRequest
        /\ x13' = [x13 EXCEPT !.crashes = @ + 1]
        /\ x10' = [w \in Fix!Workers |->
                      IF w \in Api \/ x10[w].pc \in {"settle", "accept", "reward"}
                      THEN Fix!NoJob ELSE x10[w]]
    BY DEF Fix!Crash
  <1>2. x13' \in [crashes : Nat, errors : Nat] /\ x13'.crashes > 0 /\ x13'.crashes >= x13.crashes
    BY <1>1 DEF Fix!Inductive, Fix!Types
  <1>3. FixData
    BY <1>1, <1>2 DEF FixData, Fix!Inductive, Fix!Types
  <1>4. FixJobs
    <2>1. Fix!NoJob \in FixJob /\ Fix!NoJob.pc = "idle" /\ Fix!NoJob.gen = 0
      BY FixTyped, FixNoJobTyped
    <2>2. x10' \in [Fix!Workers -> FixJob]
      BY <1>1, <2>1, FixTyped
    <2>3. \A w \in Fix!Workers : x10'[w] = x10[w] \/ x10'[w] = Fix!NoJob
      BY <1>1
    <2>4. \A w \in Fix!Workers : x10'[w] = Fix!NoJob => FixJobOK(w)
      BY <1>2, <2>1 DEF FixJobOK
    <2> QED BY <2>2, <2>3, <2>4 DEF FixJobs
  <1> QED BY <1>1, <1>2, <1>3, <1>4, FixIdlePlays, FixQuietEvals, FixQuietScores, FixStepKeeps

(* Every step of the Fix phase keeps the invariant.                        *)
LEMMA FixNext == Fix!Inductive /\ Fix!Next => Fix!Inductive'
  <1> SUFFICES ASSUME Fix!Inductive, Fix!Next PROVE Fix!Inductive'
    OBVIOUS
  <1>1. CASE Fix!Tick
    BY <1>1, FixTickCutoff, FixTickAdvance, FixTickComplete DEF Fix!Tick
  <1>2. CASE Fix!Request
    BY <1>2, FixApplyPatch, FixResetInstance, FixManualCheck, FixAllCheck
    DEF Fix!Request, Fix!UploadPatch, Fix!UploadTrainingPatch, Fix!ResetMyInstance,
        Fix!ResetTrainingInstance, Fix!TestCheck, Fix!TrainingTestCheck
  <1>3. CASE Fix!Serve
    BY <1>3, FixPatchScript, FixFinishApply, FixResetDone, FixManualCheckDone, FixAllCheckRound,
       FixAllCheckScore, FixAllCheckEnd DEF Fix!Serve
  <1>4. ASSUME NEW w \in Fix!Workers, Fix!Work(w) PROVE Fix!Inductive'
    BY <1>4, FixWorkerRound, FixProcessOfficial, FixWorkerFails, FixRunChecks, FixScoreOfficial,
       FixFinishOfficial, FixPullLoop, FixJsNoPatch, FixJsSettle, FixJsPayload, FixRunJob,
       FixRecordResult, FixAcceptResult, FixRewardResult DEF Fix!Work
  <1> QED BY <1>1, <1>2, <1>3, <1>4, FixCutoff, FixCrash, FixHeartbeat, FixLeaseAges DEF Fix!Next

LEMMA FixResults ==
    Fix!Inductive =>
        Fix!TypeOK /\ Fix!FixNeedsPatch /\ Fix!PatchedIsScored /\ Fix!ScoredIsPatched
  <1> SUFFICES ASSUME Fix!Inductive
               PROVE  Fix!TypeOK /\ Fix!FixNeedsPatch /\ Fix!PatchedIsScored /\ Fix!ScoredIsPatched
    OBVIOUS
  <1>1. Fix!TypeOK
    BY DEF Fix!Inductive, Fix!TypeOK, Fix!Types
  <1>2. Fix!ScoredIsPatched
    BY DEF Fix!Inductive, Fix!ScoreFollows, Fix!ScoredIsPatched
  <1> QED BY <1>1, <1>2 DEF Fix!Inductive

----------------------------------------------------------------------------
(* AwdpPractice: the runs of a player on a game box *)

PracThread == [pc : Prac!Pcs, run : Runs, sess : 0..x1.sessions, todo : SUBSET PracticeRounds]
PracEarly == {"none", "Pending", "Break", "PreparingFix"}

LEMMA PracIdleTyped ==
    ASSUME x1.sessions \in Nat \ {0}
    PROVE  Prac!Idle \in PracThread /\ Prac!Idle.pc = "idle"
  BY PracticeAssumption DEF Prac!Idle, PracThread, Prac!Pcs

LEMMA PracInit == Prac!Init => Prac!Inductive
  <1> SUFFICES ASSUME Prac!Init PROVE Prac!Inductive
    OBVIOUS
  <1> USE DEF Prac!Init
  <1>1. x1.sessions \in Nat \ {0}
    BY DEF PracticeSettings
  <1>2. Prac!Types
    BY <1>1, PracIdleTyped DEF Prac!Types, Prac!Phases, PracThread
  <1>3. Prac!SessionsLeft /\ Prac!OpenIsUnique /\ Prac!SweepOwnsScore
    BY <1>1 DEF Prac!SessionsLeft, Prac!OpenIsUnique, Prac!SweepOwnsScore, Prac!Open
  <1> QED BY <1>2, <1>3 DEF Prac!Inductive

(* What a step may do to the rows: sessions and the unique index.          *)
PracRows ==
    /\ x1' = x1 /\ x2' \in [Runs -> Prac!Phases]
    /\ x3' \in [Runs -> [n : 0..x1.sessions, set : BOOLEAN]]
    /\ \A r \in Runs : x2'[r] \in PracEarly => x3'[r].n < x1.sessions
    /\ \A q, r \in Runs : x2'[q] \in Prac!Open /\ x2'[r] \in Prac!Open => q = r

(* Rounds, instances and locks, which have their types.                    *)
PracRest ==
    /\ x4' \in [Runs -> [PracticeRounds -> 0..x1.sessions]]
    /\ x6' \in [Runs -> {"none", "running", "stopped"}]
    /\ x7' \in [Runs -> {{}} \cup {{t} : t \in Threads}]

(* Scores, and the ALL Check that answers for one.                         *)
PracScores ==
    /\ x5' \subseteq Runs \X PracticeRounds
    /\ \A s \in x5' :
         \/ x2'[s[1]] \notin {"none", "Pending", "Break"}
         \/ \E t \in Threads : /\ x8'[t].pc = "sweep" /\ x8'[t].run = s[1]
                               /\ x8'[t].todo # PracticeRounds

LEMMA PracStepKeeps ==
    ASSUME Prac!Inductive, PracRows, PracRest, PracScores, x8' \in [Threads -> PracThread]
    PROVE  Prac!Inductive'
  <1> USE DEF Prac!Inductive
  <1>1. Prac!Types'
    BY DEF Prac!Types, PracRows, PracRest, PracScores, PracThread
  <1>2. Prac!SessionsLeft' /\ Prac!OpenIsUnique'
    BY DEF Prac!SessionsLeft, Prac!OpenIsUnique, PracRows, PracEarly, Prac!Open
  <1>3. Prac!SweepOwnsScore'
    BY DEF Prac!SweepOwnsScore, PracScores, Prac!At, Prac!My
  <1> QED BY <1>1, <1>2, <1>3

(* Types as the steps need them.                                           *)
LEMMA PracTyped ==
    ASSUME Prac!Inductive
    PROVE  /\ x1.sessions \in Nat \ {0} /\ x8 \in [Threads -> PracThread]
           /\ \A t \in Threads : x8[t] \in PracThread /\ x8[t].run \in Runs
                                 /\ x8[t].todo \subseteq PracticeRounds
           /\ Prac!Idle \in PracThread /\ Prac!Idle.pc = "idle"
  <1>1. /\ x1.sessions \in Nat \ {0} /\ x8 \in [Threads -> PracThread]
    BY DEF Prac!Inductive, Prac!Types, PracThread
  <1>2. \A t \in Threads : x8[t] \in PracThread /\ x8[t].run \in Runs
                           /\ x8[t].todo \subseteq PracticeRounds
    BY <1>1 DEF PracThread
  <1> QED BY <1>1, <1>2, PracIdleTyped

(* The parts a step leaves alone.                                          *)
LEMMA PracQuietRows ==
    ASSUME Prac!Inductive, UNCHANGED <<x1, x2, x3>> PROVE PracRows
  BY DEF PracRows, Prac!Inductive, Prac!Types, Prac!SessionsLeft, Prac!OpenIsUnique, PracEarly

LEMMA PracQuietRest ==
    ASSUME Prac!Inductive, UNCHANGED <<x4, x6, x7>> PROVE PracRest
  BY DEF PracRest, Prac!Inductive, Prac!Types

(* The threads but one stay as they are.                                   *)
PracOthers(t) == \A u \in Threads \ {t} : x8'[u] = x8[u]

(* A thread that is not sweeping takes a step, and no run goes back to     *)
(* Break.                                                                  *)
LEMMA PracQuietScores ==
    ASSUME Prac!Inductive, UNCHANGED x5, NEW t \in Threads, PracOthers(t),
           x8[t].pc # "sweep" \/ x8[t].todo = PracticeRounds,
           \A r \in Runs : x2'[r] \in {"none", "Pending", "Break"}
                             => x2[r] \in {"none", "Pending", "Break"}
    PROVE  PracScores
  <1>1. x5' \subseteq Runs \X PracticeRounds /\ \A s \in x5 : s[1] \in Runs
    BY DEF Prac!Inductive, Prac!Types
  <1> SUFFICES ASSUME NEW s \in x5, x2'[s[1]] \in {"none", "Pending", "Break"}
               PROVE  \E u \in Threads : /\ x8'[u].pc = "sweep" /\ x8'[u].run = s[1]
                                         /\ x8'[u].todo # PracticeRounds
    BY <1>1 DEF PracScores
  <1>2. PICK u \in Threads : x8[u].pc = "sweep" /\ x8[u].run = s[1] /\ x8[u].todo # PracticeRounds
    BY <1>1 DEF Prac!Inductive, Prac!SweepOwnsScore, Prac!At, Prac!My
  <1> QED BY <1>2 DEF PracOthers

(* What a thread does to its local state: it ends, moves on or begins.     *)
LEMMA PracMoves ==
    ASSUME Prac!Inductive, NEW t \in Threads, NEW x \in PracThread, x8' = [x8 EXCEPT ![t] = x]
    PROVE  x8' \in [Threads -> PracThread] /\ PracOthers(t) /\ x8'[t] = x
  BY PracTyped DEF PracOthers

LEMMA PracDone ==
    ASSUME Prac!Inductive, NEW t \in Threads, Prac!Done(t)
    PROVE  x8' \in [Threads -> PracThread] /\ PracOthers(t)
  <1>1. x8' = [x8 EXCEPT ![t] = Prac!Idle]
    BY DEF Prac!Done
  <1> QED BY <1>1, PracTyped, PracMoves

LEMMA PracStep ==
    ASSUME Prac!Inductive, NEW t \in Threads, NEW pc \in Prac!Pcs, Prac!Step(t, pc)
    PROVE  x8' \in [Threads -> PracThread] /\ PracOthers(t)
  <1> DEFINE x == [x8[t] EXCEPT !.pc = pc]
  <1>1. x8' = [x8 EXCEPT ![t] = x]
    BY PracTyped DEF Prac!Step
  <1>2. x \in PracThread
    BY PracTyped DEF PracThread
  <1> HIDE DEF x
  <1> QED BY <1>1, <1>2, PracMoves

LEMMA PracBegin ==
    ASSUME Prac!Inductive, NEW t \in Threads, NEW pc \in Prac!Pcs, NEW r \in Runs, Prac!Begin(t, pc, r)
    PROVE  x8' \in [Threads -> PracThread] /\ PracOthers(t) /\ x8[t].pc = "idle"
  <1> DEFINE x == [Prac!Idle EXCEPT !.pc = pc, !.run = r]
  <1>1. x8' = [x8 EXCEPT ![t] = x] /\ x8[t].pc = "idle"
    BY DEF Prac!Begin, Prac!At
  <1>2. x \in PracThread
    BY PracTyped DEF PracThread
  <1> HIDE DEF x
  <1> QED BY <1>1, <1>2, PracMoves

(* Requests that only begin something.                                     *)
LEMMA PracOnlyBegins ==
    ASSUME Prac!Inductive, NEW t \in Threads, NEW pc \in Prac!Pcs, NEW r \in Runs,
           Prac!Begin(t, pc, r), UNCHANGED <<x1, x2, x3, x4, x5, x6, x7>>
    PROVE  Prac!Inductive'
  <1>1. x8' \in [Threads -> PracThread] /\ PracOthers(t) /\ x8[t].pc = "idle"
    BY PracBegin
  <1>2. PracScores
    BY <1>1, PracQuietScores
  <1> QED BY <1>1, <1>2, PracQuietRows, PracQuietRest, PracStepKeeps

LEMMA PracStartTraining ==
    ASSUME Prac!Inductive, NEW t \in Threads, Prac!StartTraining(t) PROVE Prac!Inductive'
  BY PracOnlyBegins, PracticeAssumption DEF Prac!StartTraining, Prac!Pcs

LEMMA PracStartRun ==
    ASSUME Prac!Inductive, NEW t \in Threads, NEW r \in Runs, Prac!StartRun(t, r) PROVE Prac!Inductive'
  <1>1. PICK pc \in {"launch", "start"} : Prac!Begin(t, pc, r)
    BY DEF Prac!StartRun
  <1> QED BY <1>1, PracOnlyBegins DEF Prac!StartRun, Prac!Pcs

LEMMA PracTickReconcile ==
    ASSUME Prac!Inductive, NEW t \in Threads, NEW r \in Runs, Prac!TickReconcile(t, r)
    PROVE  Prac!Inductive'
  BY PracOnlyBegins DEF Prac!TickReconcile, Prac!Pcs

LEMMA PracTickRounds ==
    ASSUME Prac!Inductive, NEW t \in Threads, NEW r \in Runs, Prac!TickRounds(t, r)
    PROVE  Prac!Inductive'
  BY PracOnlyBegins DEF Prac!TickRounds, Prac!Pcs

LEMMA PracAllCheck ==
    ASSUME Prac!Inductive, NEW t \in Threads, NEW r \in Runs, Prac!AllCheck(t, r)
    PROVE  Prac!Inductive'
  BY PracOnlyBegins DEF Prac!AllCheck, Prac!Pcs

(* The instance, whatever the phase.                                       *)
LEMMA PracInstance ==
    ASSUME Prac!Inductive, NEW r, NEW v \in {"none", "running", "stopped"},
           x6' = [x6 EXCEPT ![r] = v], UNCHANGED <<x4, x7>>
    PROVE  PracRest
  BY DEF PracRest, Prac!Inductive, Prac!Types

LEMMA PracStopRun ==
    ASSUME Prac!Inductive, NEW t \in Threads, NEW r \in Runs, Prac!StopRun(t, r) \/ Prac!ResetRun(t, r)
    PROVE  Prac!Inductive'
  <1>1. /\ UNCHANGED <<x1, x2, x3, x4, x5, x7, x8>> /\ x8[t].pc = "idle"
        /\ x6' = [x6 EXCEPT ![r] = "stopped"] \/ x6' = [x6 EXCEPT ![r] = "running"]
    BY DEF Prac!StopRun, Prac!ResetRun, Prac!At
  <1>2. PracRest
    BY <1>1, PracInstance
  <1>3. PracScores
    BY <1>1, PracQuietScores DEF PracOthers
  <1> QED BY <1>1, <1>2, <1>3, PracTyped, PracQuietRows, PracStepKeeps

LEMMA PracEndRun ==
    ASSUME Prac!Inductive, NEW t \in Threads, NEW r \in Runs, Prac!EndRun(t, r) PROVE Prac!Inductive'
  <1>1. /\ UNCHANGED <<x1, x2, x3, x4, x5, x7>> /\ Prac!Begin(t, "end", r)
        /\ x6' = [x6 EXCEPT ![r] = IF x6[r] = "running" THEN "stopped" ELSE x6[r]]
    BY DEF Prac!EndRun
  <1>2. (IF x6[r] = "running" THEN "stopped" ELSE x6[r]) \in {"none", "running", "stopped"}
    BY DEF Prac!Inductive, Prac!Types
  <1>3. PracRest
    BY <1>1, <1>2, PracInstance
  <1>4. x8' \in [Threads -> PracThread] /\ PracOthers(t) /\ x8[t].pc = "idle"
    BY <1>1, PracBegin DEF Prac!Pcs
  <1>5. PracScores
    BY <1>1, <1>4, PracQuietScores
  <1> QED BY <1>1, <1>3, <1>4, <1>5, PracQuietRows, PracStepKeeps

(* A row changes its phase, or does not.                                   *)
LEMMA PracSetPhase ==
    ASSUME Prac!Inductive, NEW r \in Runs, NEW v \in Prac!Phases, UNCHANGED <<x1, x3>>,
           x2' = [x2 EXCEPT ![r] = v], v \in PracEarly => x2[r] \in PracEarly,
           v \in Prac!Open => x2[r] \in Prac!Open \/ Prac!UniqueOpen(r)
    PROVE  PracRows
  <1> USE DEF Prac!Inductive
  <1>1. x1' = x1 /\ x2' \in [Runs -> Prac!Phases] /\ x3' \in [Runs -> [n : 0..x1.sessions, set : BOOLEAN]]
    BY DEF Prac!Types
  <1>2. \A q \in Runs : x2'[q] = IF q = r THEN v ELSE x2[q]
    BY DEF Prac!Types
  <1>3. \A q \in Runs : x2'[q] \in PracEarly => x3'[q].n < x1.sessions
    BY <1>2 DEF Prac!SessionsLeft, PracEarly
  <1>4. \A p, q \in Runs : x2'[p] \in Prac!Open /\ x2'[q] \in Prac!Open => p = q
    BY <1>2 DEF Prac!OpenIsUnique, Prac!UniqueOpen
  <1> QED BY <1>1, <1>3, <1>4 DEF PracRows

LEMMA PracCreate ==
    ASSUME Prac!Inductive, NEW t \in Threads, Prac!CreatePracticeRun(t) PROVE Prac!Inductive'
  <1> USE DEF Prac!CreatePracticeRun
  <1>1. PICK r \in Runs \ Prac!Rows : x2' = [x2 EXCEPT ![r] = IF Prac!UniqueOpen(r) THEN "Pending" ELSE "none"]
    OBVIOUS
  <1>2. PICK v \in {"none", "Pending"} : v = IF Prac!UniqueOpen(r) THEN "Pending" ELSE "none"
    OBVIOUS
  <1>3. x2[r] = "none" /\ x2' = [x2 EXCEPT ![r] = v] /\ (v = "Pending" => Prac!UniqueOpen(r))
    BY <1>1, <1>2 DEF Prac!Rows
  <1>4. v \in Prac!Phases /\ UNCHANGED <<x1, x3, x4, x5, x6, x7>> /\ x8[t].pc # "sweep"
    BY DEF Prac!Phases, Prac!At
  <1>5. PracRows
    BY <1>3, <1>4, PracSetPhase DEF PracEarly, Prac!Open
  <1>6. x8' \in [Threads -> PracThread] /\ PracOthers(t)
    BY PracDone
  <1>7. \A q \in Runs : x2'[q] \in {"none", "Pending", "Break"} => x2[q] \in {"none", "Pending", "Break"}
    BY <1>3 DEF Prac!Inductive, Prac!Types
  <1>8. PracScores
    BY <1>4, <1>6, <1>7, PracQuietScores
  <1> QED BY <1>4, <1>5, <1>6, <1>8, PracQuietRest, PracStepKeeps

(* The insert is dropped.                                                  *)
LEMMA PracDropped ==
    ASSUME Prac!Inductive, NEW t \in Threads, Prac!CreateOutOfBound(t) PROVE Prac!Inductive'
  <1>1. UNCHANGED <<x1, x2, x3, x4, x5, x6, x7>> /\ x8[t].pc # "sweep" /\ Prac!Done(t)
    BY DEF Prac!CreateOutOfBound, Prac!At
  <1>2. x8' \in [Threads -> PracThread] /\ PracOthers(t)
    BY <1>1, PracDone
  <1>3. PracScores
    BY <1>1, <1>2, PracQuietScores
  <1> QED BY <1>1, <1>2, <1>3, PracQuietRows, PracQuietRest, PracStepKeeps

LEMMA PracLaunch ==
    ASSUME Prac!Inductive, NEW t \in Threads, Prac!LaunchPracticeRun(t) PROVE Prac!Inductive'
  <1> DEFINE r == x8[t].run
  <1>1. r \in Runs /\ x2[r] \in Prac!Phases
    BY PracTyped DEF Prac!Inductive, Prac!Types
  <1>2. /\ UNCHANGED <<x1, x3, x4, x5, x6, x7>> /\ x8[t].pc # "sweep" /\ Prac!Step(t, "start")
        /\ x2' = [x2 EXCEPT ![r] = IF x2[r] = "Pending" THEN "Break" ELSE x2[r]]
    BY <1>1 DEF Prac!LaunchPracticeRun, Prac!At, Prac!My
  <1>3. PICK v \in Prac!Phases : v = IF x2[r] = "Pending" THEN "Break" ELSE x2[r]
    BY <1>1 DEF Prac!Phases
  <1>4. x2' = [x2 EXCEPT ![r] = v] /\ (v = x2[r] \/ (x2[r] = "Pending" /\ v = "Break"))
    BY <1>2, <1>3
  <1> HIDE DEF r
  <1>5. PracRows
    BY <1>1, <1>2, <1>4, PracSetPhase DEF PracEarly, Prac!Open
  <1>6. x8' \in [Threads -> PracThread] /\ PracOthers(t)
    BY <1>2, PracStep DEF Prac!Pcs
  <1>7. \A q \in Runs : x2'[q] \in {"none", "Pending", "Break"} => x2[q] \in {"none", "Pending", "Break"}
    BY <1>4 DEF Prac!Inductive, Prac!Types
  <1>8. PracScores
    BY <1>2, <1>6, <1>7, PracQuietScores
  <1> QED BY <1>2, <1>5, <1>6, <1>8, PracQuietRest, PracStepKeeps

LEMMA PracStartInstance ==
    ASSUME Prac!Inductive, NEW t \in Threads, Prac!StartInstance(t) PROVE Prac!Inductive'
  <1> DEFINE r == x8[t].run
  <1>1. r \in Runs /\ x6 \in [Runs -> {"none", "running", "stopped"}]
    BY PracTyped DEF Prac!Inductive, Prac!Types
  <1>2. /\ UNCHANGED <<x1, x2, x3, x4, x5, x7>> /\ x8[t].pc # "sweep" /\ Prac!Done(t)
        /\ x6' = [x6 EXCEPT ![r] = "running"] \/ x6' = [x6 EXCEPT ![r] = x6[r]]
    BY DEF Prac!StartInstance, Prac!At, Prac!My
  <1> HIDE DEF r
  <1>3. PracRest
    BY <1>1, <1>2, PracInstance
  <1>4. x8' \in [Threads -> PracThread] /\ PracOthers(t)
    BY <1>2, PracDone
  <1>5. PracScores
    BY <1>2, <1>4, PracQuietScores
  <1> QED BY <1>2, <1>3, <1>4, <1>5, PracQuietRows, PracStepKeeps

(* A run goes to Ended, by hand or by ALL Check.                           *)
LEMMA PracEnds ==
    ASSUME Prac!Inductive, NEW r \in Runs, x2' = [x2 EXCEPT ![r] = "Ended"], UNCHANGED <<x1, x3>>
    PROVE  /\ PracRows
           /\ \A q \in Runs : x2'[q] \in {"none", "Pending", "Break"} => q # r /\ x2'[q] = x2[q]
  <1>1. PracRows
    BY PracSetPhase DEF PracEarly, Prac!Open, Prac!Phases
  <1>2. \A q \in Runs : x2'[q] = IF q = r THEN "Ended" ELSE x2[q]
    BY DEF Prac!Inductive, Prac!Types
  <1> QED BY <1>1, <1>2

LEMMA PracEndRunCommit ==
    ASSUME Prac!Inductive, NEW t \in Threads, Prac!EndRunCommit(t) PROVE Prac!Inductive'
  <1>1. /\ UNCHANGED <<x1, x3, x4, x5, x6, x7>> /\ x8[t].pc # "sweep" /\ Prac!Done(t)
        /\ x2' = [x2 EXCEPT ![x8[t].run] = "Ended"] /\ x8[t].run \in Runs
    BY PracTyped DEF Prac!EndRunCommit, Prac!EndPracticeSession, Prac!At, Prac!My
  <1>2. /\ PracRows
        /\ \A q \in Runs : x2'[q] \in {"none", "Pending", "Break"} => x2'[q] = x2[q]
    BY <1>1, PracEnds
  <1>3. x8' \in [Threads -> PracThread] /\ PracOthers(t)
    BY <1>1, PracDone
  <1>4. PracScores
    BY <1>1, <1>2, <1>3, PracQuietScores
  <1> QED BY <1>1, <1>2, <1>3, <1>4, PracQuietRest, PracStepKeeps

LEMMA PracToPreparing ==
    ASSUME Prac!Inductive, NEW t \in Threads, NEW r \in Runs, Prac!BreakToPreparingFix(t, r)
    PROVE  Prac!Inductive'
  <1>1. /\ UNCHANGED <<x1, x3, x4, x5, x6, x7>> /\ x8[t].pc # "sweep"
        /\ x2[r] = "Break" /\ x2' = [x2 EXCEPT ![r] = "PreparingFix"]
        /\ Prac!Begin(t, "reconcile", r) \/ x8' = x8
    BY DEF Prac!BreakToPreparingFix, Prac!At
  <1>2. PracRows
    BY <1>1, PracSetPhase DEF PracEarly, Prac!Open, Prac!Phases
  <1>3. x8' \in [Threads -> PracThread] /\ PracOthers(t)
    <2>1. CASE x8' = x8
      BY <2>1, PracTyped DEF PracOthers
    <2>2. CASE Prac!Begin(t, "reconcile", r)
      BY <2>2, PracBegin DEF Prac!Pcs
    <2> QED BY <1>1, <2>1, <2>2
  <1>4. \A q \in Runs : x2'[q] \in {"none", "Pending", "Break"} => x2'[q] = x2[q]
    BY <1>1 DEF Prac!Inductive, Prac!Types
  <1>5. PracScores
    BY <1>1, <1>3, <1>4, PracQuietScores
  <1> QED BY <1>1, <1>2, <1>3, <1>5, PracQuietRest, PracStepKeeps

LEMMA PracReconcile ==
    ASSUME Prac!Inductive, NEW t \in Threads, Prac!ReconcilePreparingFix(t) PROVE Prac!Inductive'
  <1> DEFINE r == x8[t].run
  <1>1. r \in Runs /\ x6 \in [Runs -> {"none", "running", "stopped"}]
    BY PracTyped DEF Prac!Inductive, Prac!Types
  <1>2. /\ UNCHANGED <<x1, x2, x3, x4, x5, x7>> /\ x8[t].pc # "sweep"
        /\ Prac!Done(t) \/ Prac!Step(t, "enterFix")
        /\ x6' = x6 \/ x6' = [x6 EXCEPT ![r] = "running"] \/ x6' = [x6 EXCEPT ![r] = "none"]
    BY <1>1 DEF Prac!ReconcilePreparingFix, Prac!At, Prac!My
  <1> HIDE DEF r
  <1>3. PracRest
    BY <1>1, <1>2, PracInstance, PracQuietRest
  <1>4. x8' \in [Threads -> PracThread] /\ PracOthers(t)
    BY <1>2, PracDone, PracStep DEF Prac!Pcs
  <1>5. PracScores
    BY <1>2, <1>4, PracQuietScores
  <1> QED BY <1>2, <1>3, <1>4, <1>5, PracQuietRows, PracStepKeeps

LEMMA PracEnterFix ==
    ASSUME Prac!Inductive, NEW t \in Threads, Prac!EnterFix(t) PROVE Prac!Inductive'
  <1> DEFINE r == x8[t].run
  <1> USE DEF Prac!Inductive
  <1>1. r \in Runs /\ x2[r] \in Prac!Phases /\ x3[r] \in [n : 0..x1.sessions, set : BOOLEAN]
    BY PracTyped DEF Prac!Types
  <1>2. /\ UNCHANGED <<x1, x4, x5, x6, x7>> /\ x8[t].pc # "sweep"
        /\ \/ /\ x2[r] = "PreparingFix" /\ Prac!UniqueOpen(r) /\ Prac!Step(t, "rounds")
              /\ x2' = [x2 EXCEPT ![r] = "Fix"]
              /\ x3' = [x3 EXCEPT ![r] = [n |-> x3[r].n + 1, set |-> TRUE]]
           \/ Prac!Done(t) /\ x2' = [x2 EXCEPT ![r] = x2[r]] /\ x3' = [x3 EXCEPT ![r] = x3[r]]
    BY <1>1 DEF Prac!EnterFix, Prac!At, Prac!My, Prac!Phase
  <1>3. x8' \in [Threads -> PracThread] /\ PracOthers(t)
    BY <1>2, PracDone, PracStep DEF Prac!Pcs
  <1> HIDE DEF r
  <1>4. /\ PracRows
        /\ \A q \in Runs : x2'[q] \in {"none", "Pending", "Break"} => x2'[q] = x2[q]
    <2>1. CASE x2' = [x2 EXCEPT ![r] = x2[r]] /\ x3' = [x3 EXCEPT ![r] = x3[r]]
      <3>1. UNCHANGED <<x1, x2, x3>>
        BY <1>2, <2>1 DEF Prac!Types
      <3> QED BY <3>1, PracQuietRows
    <2>2. CASE /\ x2[r] = "PreparingFix" /\ Prac!UniqueOpen(r)
               /\ x2' = [x2 EXCEPT ![r] = "Fix"]
               /\ x3' = [x3 EXCEPT ![r] = [n |-> x3[r].n + 1, set |-> TRUE]]
      <3>1. x3[r].n < x1.sessions /\ x3[r].n \in Nat /\ x1.sessions \in Nat
        BY <1>1, <2>2 DEF Prac!SessionsLeft, Prac!Types
      <3>2. [n |-> x3[r].n + 1, set |-> TRUE] \in [n : 0..x1.sessions, set : BOOLEAN]
        BY <3>1
      <3>3. x2' \in [Runs -> Prac!Phases] /\ \A q \in Runs : x2'[q] = IF q = r THEN "Fix" ELSE x2[q]
        BY <2>2 DEF Prac!Types, Prac!Phases
      <3>4. /\ x3' \in [Runs -> [n : 0..x1.sessions, set : BOOLEAN]]
            /\ \A q \in Runs : q # r => x3'[q] = x3[q]
        BY <2>2, <3>2 DEF Prac!Types
      <3>5. \A q \in Runs : x2'[q] \in PracEarly => x3'[q].n < x1.sessions
        BY <3>3, <3>4 DEF Prac!SessionsLeft, PracEarly
      <3>6. \A p, q \in Runs : x2'[p] \in Prac!Open /\ x2'[q] \in Prac!Open => p = q
        BY <2>2, <3>3 DEF Prac!UniqueOpen
      <3> QED BY <1>2, <3>3, <3>4, <3>5, <3>6 DEF PracRows
    <2> QED BY <1>2, <2>1, <2>2
  <1>5. PracScores
    BY <1>2, <1>3, <1>4, PracQuietScores
  <1> QED BY <1>2, <1>3, <1>4, <1>5, PracQuietRest, PracStepKeeps

LEMMA PracReadWindows ==
    ASSUME Prac!Inductive, NEW t \in Threads, Prac!ReadWindows(t) PROVE Prac!Inductive'
  <1> DEFINE x == [x8[t] EXCEPT !.pc = "window", !.sess = x3[x8[t].run].n, !.todo = PracticeRounds]
  <1>1. UNCHANGED <<x1, x2, x3, x4, x5, x6, x7>> /\ x8[t].pc # "sweep"
    BY DEF Prac!ReadWindows, Prac!At
  <1>2. Prac!Done(t) \/ x8' = [x8 EXCEPT ![t] = x]
    BY PracTyped DEF Prac!ReadWindows, Prac!My
  <1>3. x3[x8[t].run].n \in 0..x1.sessions
    BY PracTyped DEF Prac!Inductive, Prac!Types
  <1>4. x \in PracThread
    BY <1>3, PracTyped DEF PracThread, Prac!Pcs
  <1> HIDE DEF x
  <1>5. x8' \in [Threads -> PracThread] /\ PracOthers(t)
    BY <1>2, <1>4, PracDone, PracMoves
  <1>6. PracScores
    BY <1>1, <1>5, PracQuietScores
  <1> QED BY <1>1, <1>5, <1>6, PracQuietRows, PracQuietRest, PracStepKeeps

LEMMA PracInsertRound ==
    ASSUME Prac!Inductive, NEW t \in Threads, Prac!InsertRound(t) PROVE Prac!Inductive'
  <1> DEFINE r == x8[t].run
  <1>1. UNCHANGED <<x1, x2, x3, x5, x6, x7>> /\ x8[t].pc # "sweep"
    BY DEF Prac!InsertRound, Prac!At
  <1>2. /\ r \in Runs /\ x4 \in [Runs -> [PracticeRounds -> 0..x1.sessions]]
        /\ x8[t].sess \in 0..x1.sessions /\ x8[t].todo \subseteq PracticeRounds
    BY PracTyped DEF Prac!Inductive, Prac!Types, PracThread
  <1>3. /\ x4' \in [Runs -> [PracticeRounds -> 0..x1.sessions]]
        /\ x8' \in [Threads -> PracThread] /\ PracOthers(t)
    <2>1. CASE Prac!Done(t) /\ x4' = x4
      BY <1>2, <2>1, PracDone
    <2>2. CASE \E q \in x8[t].todo :
                 /\ x4' = [x4 EXCEPT ![r][q] = IF x4[r][q] = 0 THEN x8[t].sess ELSE x4[r][q]]
                 /\ x8' = [x8 EXCEPT ![t].todo = @ \ {q}]
      <3>1. PICK q \in x8[t].todo :
              /\ x4' = [x4 EXCEPT ![r][q] = IF x4[r][q] = 0 THEN x8[t].sess ELSE x4[r][q]]
              /\ x8' = [x8 EXCEPT ![t].todo = @ \ {q}]
        BY <2>2
      <3>2. PICK v \in 0..x1.sessions : v = IF x4[r][q] = 0 THEN x8[t].sess ELSE x4[r][q]
        BY <1>2
      <3>3. x4' = [x4 EXCEPT ![r] = [x4[r] EXCEPT ![q] = v]]
        BY <1>2, <3>1, <3>2
      <3>4. x4' \in [Runs -> [PracticeRounds -> 0..x1.sessions]]
        BY <1>2, <3>3
      <3> DEFINE x == [x8[t] EXCEPT !.todo = x8[t].todo \ {q}]
      <3>5. x8' = [x8 EXCEPT ![t] = x]
        BY <3>1, PracTyped
      <3>6. x \in PracThread
        BY PracTyped DEF PracThread
      <3> HIDE DEF x
      <3> QED BY <3>4, <3>5, <3>6, PracMoves
    <2> QED BY <1>2, <2>1, <2>2 DEF Prac!InsertRound, Prac!My
  <1>4. PracRest
    BY <1>1, <1>3 DEF PracRest, Prac!Inductive, Prac!Types
  <1>5. PracScores
    BY <1>1, <1>3, PracQuietScores
  <1> QED BY <1>1, <1>3, <1>4, <1>5, PracQuietRows, PracStepKeeps

LEMMA PracToBreak ==
    ASSUME Prac!Inductive, NEW r \in Runs, Prac!TransitionFixToBreak(r) PROVE Prac!Inductive'
  <1> USE DEF Prac!Inductive
  <1>1. /\ UNCHANGED <<x1, x6, x7, x8>> /\ x2[r] = "Fix" /\ x3[r].n < x1.sessions
        /\ x2' = [x2 EXCEPT ![r] = "Break"] /\ x3' = [x3 EXCEPT ![r].set = FALSE]
        /\ x4' = [x4 EXCEPT ![r] = [q \in PracticeRounds |-> 0]]
        /\ x5' = {s \in x5 : s[1] # r}
    BY DEF Prac!TransitionFixToBreak
  <1>2. PracRows
    <2>1. x2' \in [Runs -> Prac!Phases] /\ \A q \in Runs : x2'[q] = IF q = r THEN "Break" ELSE x2[q]
      BY <1>1 DEF Prac!Types, Prac!Phases
    <2>2. x3' \in [Runs -> [n : 0..x1.sessions, set : BOOLEAN]] /\ \A q \in Runs : x3'[q].n = x3[q].n
      BY <1>1 DEF Prac!Types
    <2>3. \A q \in Runs : x2'[q] \in PracEarly => x3'[q].n < x1.sessions
      BY <1>1, <2>1, <2>2 DEF Prac!SessionsLeft, PracEarly
    <2>4. \A p, q \in Runs : x2'[p] \in Prac!Open /\ x2'[q] \in Prac!Open => p = q
      BY <1>1, <2>1 DEF Prac!OpenIsUnique, Prac!Open
    <2> QED BY <1>1, <2>1, <2>2, <2>3, <2>4 DEF PracRows
  <1>3. PracRest
    <2>1. [q \in PracticeRounds |-> 0] \in [PracticeRounds -> 0..x1.sessions]
      BY DEF Prac!Types
    <2> QED BY <1>1, <2>1 DEF PracRest, Prac!Types
  <1>4. PracScores
    <2>1. \A s \in x5 : s[1] \in Runs
      BY DEF Prac!Types
    <2>2. \A q \in Runs : q # r => x2'[q] = x2[q]
      BY <1>1 DEF Prac!Types
    <2>3. \A s \in x5' : s \in x5 /\ s[1] # r
      BY <1>1
    <2> QED BY <1>1, <2>1, <2>2, <2>3 DEF PracScores, Prac!SweepOwnsScore, Prac!Types, Prac!At, Prac!My
  <1> QED BY <1>1, <1>2, <1>3, <1>4, PracTyped, PracStepKeeps

LEMMA PracTickEnd ==
    ASSUME Prac!Inductive, NEW r \in Runs, Prac!TickEnd(r) PROVE Prac!Inductive'
  <1>1. UNCHANGED <<x1, x3, x4, x5, x6, x7, x8>> /\ x2' = [x2 EXCEPT ![r] = "Ended"]
    BY DEF Prac!TickEnd
  <1>2. /\ PracRows
        /\ \A q \in Runs : x2'[q] \in {"none", "Pending", "Break"} => x2'[q] = x2[q]
    BY <1>1, PracEnds
  <1>3. PracScores
    <2>1. x5 \subseteq Runs \X PracticeRounds /\ \A s \in x5 : s[1] \in Runs
      BY DEF Prac!Inductive, Prac!Types
    <2> QED BY <1>1, <1>2, <2>1 DEF PracScores, Prac!Inductive, Prac!SweepOwnsScore, Prac!At, Prac!My
  <1> QED BY <1>1, <1>2, <1>3, PracTyped, PracQuietRest, PracStepKeeps

(* The advisory lock has at most one holder.                               *)
LEMMA PracLocked ==
    ASSUME Prac!Inductive, NEW r \in Runs, NEW h, h = {} \/ (\E t \in Threads : h = {t}),
           x7' = [x7 EXCEPT ![r] = h], UNCHANGED <<x4, x6>>
    PROVE  PracRest
  <1>1. h \in {{}} \cup {{t} : t \in Threads}
    OBVIOUS
  <1> QED BY <1>1 DEF PracRest, Prac!Inductive, Prac!Types

LEMMA PracAllCheckRun ==
    ASSUME Prac!Inductive, NEW t \in Threads, Prac!AllCheckRun(t) PROVE Prac!Inductive'
  <1> DEFINE x == [x8[t] EXCEPT !.pc = "sweep", !.todo = PracticeRounds]
  <1>1. /\ UNCHANGED <<x1, x2, x3, x4, x5, x6>> /\ x8[t].pc # "sweep" /\ x8[t].run \in Runs
        /\ x7' = [x7 EXCEPT ![x8[t].run] = {t}]
    BY PracTyped DEF Prac!AllCheckRun, Prac!At, Prac!My, Prac!Acquire
  <1>2. x8' = [x8 EXCEPT ![t] = x] \/ Prac!Step(t, "allOver")
    BY PracTyped DEF Prac!AllCheckRun
  <1>3. x \in PracThread
    BY PracTyped DEF PracThread, Prac!Pcs
  <1> HIDE DEF x
  <1>4. x8' \in [Threads -> PracThread] /\ PracOthers(t)
    BY <1>2, <1>3, PracMoves, PracStep DEF Prac!Pcs
  <1>5. PracScores
    BY <1>1, <1>4, PracQuietScores
  <1>6. PracRest
    BY <1>1, PracLocked
  <1> QED BY <1>1, <1>4, <1>5, <1>6, PracQuietRows, PracStepKeeps

LEMMA PracAllCheckOver ==
    ASSUME Prac!Inductive, NEW t \in Threads, Prac!AllCheckOver(t) PROVE Prac!Inductive'
  <1>1. /\ UNCHANGED <<x1, x2, x3, x4, x5, x6>> /\ Prac!Done(t) /\ x8[t].run \in Runs
        /\ x8[t].pc # "sweep" \/ x8[t].todo = PracticeRounds
        /\ x7' = [x7 EXCEPT ![x8[t].run] = {}]
    BY PracTyped DEF Prac!AllCheckOver, Prac!At, Prac!My, Prac!Release
  <1>2. x8' \in [Threads -> PracThread] /\ PracOthers(t)
    BY <1>1, PracDone
  <1>3. PracScores
    BY <1>1, <1>2, PracQuietScores
  <1>4. PracRest
    BY <1>1, PracLocked
  <1> QED BY <1>1, <1>2, <1>3, <1>4, PracQuietRows, PracStepKeeps

LEMMA PracAllCheckRound ==
    ASSUME Prac!Inductive, NEW t \in Threads, Prac!AllCheckRound(t) PROVE Prac!Inductive'
  <1>1. /\ UNCHANGED <<x1, x2, x3, x4, x6, x7>> /\ x8[t].pc = "sweep" /\ x8[t].run \in Runs
        /\ x8[t].todo \subseteq PracticeRounds
    BY PracTyped DEF Prac!AllCheckRound, Prac!At
  <1>2. PICK q \in x8[t].todo :
          /\ x5' = IF x4[x8[t].run][q] # 0 THEN x5 \cup {<<x8[t].run, q>>} ELSE x5
          /\ x8' = [x8 EXCEPT ![t].todo = @ \ {q}]
    BY DEF Prac!AllCheckRound, Prac!My
  <1> DEFINE x == [x8[t] EXCEPT !.todo = x8[t].todo \ {q}]
  <1>3. x8' = [x8 EXCEPT ![t] = x]
    BY <1>2, PracTyped
  <1>4. /\ x \in PracThread /\ x.pc = "sweep" /\ x.run = x8[t].run /\ x.todo = x8[t].todo \ {q}
    BY <1>1, PracTyped DEF PracThread
  <1> HIDE DEF x
  <1>5. x8' \in [Threads -> PracThread] /\ PracOthers(t) /\ x8'[t] = x
    BY <1>3, <1>4, PracMoves
  <1>6. x.todo # PracticeRounds
    BY <1>1, <1>2, <1>4
  <1>7. x5 \subseteq Runs \X PracticeRounds /\ \A s \in x5 : s[1] \in Runs
    BY DEF Prac!Inductive, Prac!Types
  <1>8. PracScores
    <2>1. x5' \subseteq Runs \X PracticeRounds
      BY <1>1, <1>2, <1>7
    <2>2. ASSUME NEW s \in x5', x2'[s[1]] \in {"none", "Pending", "Break"}
          PROVE  \E u \in Threads : /\ x8'[u].pc = "sweep" /\ x8'[u].run = s[1]
                                    /\ x8'[u].todo # PracticeRounds
      <3>1. CASE s[1] = x8[t].run
        BY <1>4, <1>5, <1>6, <3>1
      <3>2. CASE s[1] # x8[t].run
        <4>1. s \in x5
          BY <1>2, <3>2
        <4>2. PICK u \in Threads : x8[u].pc = "sweep" /\ x8[u].run = s[1] /\ x8[u].todo # PracticeRounds
          BY <1>1, <2>2, <4>1 DEF Prac!Inductive, Prac!SweepOwnsScore, Prac!At, Prac!My
        <4> QED BY <1>5, <3>2, <4>2 DEF PracOthers
      <3> QED BY <3>1, <3>2
    <2> QED BY <2>1, <2>2 DEF PracScores
  <1> QED BY <1>1, <1>5, <1>8, PracQuietRows, PracQuietRest, PracStepKeeps

LEMMA PracAllCheckEnd ==
    ASSUME Prac!Inductive, NEW t \in Threads, Prac!AllCheckEnd(t) PROVE Prac!Inductive'
  <1>1. /\ UNCHANGED <<x1, x3, x4, x5, x6>> /\ x8[t].run \in Runs
        /\ x2' = [x2 EXCEPT ![x8[t].run] = "Ended"] /\ x7' = [x7 EXCEPT ![x8[t].run] = {}]
        /\ Prac!Step(t, "allStop")
    BY PracTyped DEF Prac!AllCheckEnd, Prac!EndPracticeSession, Prac!At, Prac!My, Prac!Release
  <1>2. /\ PracRows
        /\ \A q \in Runs : x2'[q] \in {"none", "Pending", "Break"} => q # x8[t].run /\ x2'[q] = x2[q]
    BY <1>1, PracEnds
  <1>3. PracRest
    BY <1>1, PracLocked
  <1>4. x8' \in [Threads -> PracThread] /\ PracOthers(t)
    BY <1>1, PracStep DEF Prac!Pcs
  <1>5. PracScores
    <2>1. x5 \subseteq Runs \X PracticeRounds /\ \A s \in x5 : s[1] \in Runs
      BY DEF Prac!Inductive, Prac!Types
    <2>2. ASSUME NEW s \in x5, x2'[s[1]] \in {"none", "Pending", "Break"}
          PROVE  \E u \in Threads : /\ x8'[u].pc = "sweep" /\ x8'[u].run = s[1]
                                    /\ x8'[u].todo # PracticeRounds
      <3>1. s[1] # x8[t].run /\ x2'[s[1]] = x2[s[1]]
        BY <1>2, <2>1, <2>2
      <3>2. PICK u \in Threads : x8[u].pc = "sweep" /\ x8[u].run = s[1] /\ x8[u].todo # PracticeRounds
        BY <2>2, <3>1 DEF Prac!Inductive, Prac!SweepOwnsScore, Prac!At, Prac!My
      <3> QED BY <1>4, <3>1, <3>2 DEF PracOthers
    <2> QED BY <1>1, <2>1, <2>2 DEF PracScores
  <1> QED BY <1>1, <1>2, <1>3, <1>4, <1>5, PracStepKeeps

LEMMA PracAllCheckStop ==
    ASSUME Prac!Inductive, NEW t \in Threads, Prac!AllCheckStop(t) PROVE Prac!Inductive'
  <1> DEFINE r == x8[t].run
  <1>1. r \in Runs /\ x6 \in [Runs -> {"none", "running", "stopped"}]
    BY PracTyped DEF Prac!Inductive, Prac!Types
  <1>2. /\ UNCHANGED <<x1, x2, x3, x4, x5, x7>> /\ x8[t].pc # "sweep" /\ Prac!Done(t)
        /\ x6' = [x6 EXCEPT ![r] = "stopped"] \/ x6' = [x6 EXCEPT ![r] = x6[r]]
    BY <1>1 DEF Prac!AllCheckStop, Prac!At, Prac!My
  <1> HIDE DEF r
  <1>3. PracRest
    BY <1>1, <1>2, PracInstance
  <1>4. x8' \in [Threads -> PracThread] /\ PracOthers(t)
    BY <1>2, PracDone
  <1>5. PracScores
    BY <1>2, <1>4, PracQuietScores
  <1> QED BY <1>2, <1>3, <1>4, <1>5, PracQuietRows, PracStepKeeps

LEMMA PracReward ==
    ASSUME Prac!Inductive, NEW r \in Runs, NEW q \in PracticeRounds, Prac!RewardRound(r, q)
    PROVE  Prac!Inductive'
  <1>1. /\ UNCHANGED <<x1, x2, x3, x4, x6, x7, x8>> /\ x2[r] \in {"Fix", "Ended"}
        /\ x5' = x5 \cup {<<r, q>>}
    BY DEF Prac!RewardRound
  <1>2. PracScores
    BY <1>1 DEF PracScores, Prac!Inductive, Prac!Types, Prac!SweepOwnsScore, Prac!At, Prac!My
  <1> QED BY <1>1, <1>2, PracTyped, PracQuietRows, PracQuietRest, PracStepKeeps

(* One step of practice keeps the inductive invariant.                     *)
LEMMA PracNext ==
    ASSUME Prac!Inductive, Prac!Next PROVE Prac!Inductive'
  <1>1. ASSUME NEW t \in Threads, Prac!Request(t) PROVE Prac!Inductive'
    <2>1. CASE Prac!StartTraining(t)
      BY <2>1, PracStartTraining
    <2>2. CASE \E r \in Runs : \/ Prac!TrainAgain(t, r) \/ Prac!StartRun(t, r) \/ Prac!StopRun(t, r)
                               \/ Prac!ResetRun(t, r) \/ Prac!EndRun(t, r)
                               \/ Prac!BreakToPreparingFix(t, r) \/ Prac!TickReconcile(t, r)
                               \/ Prac!TickRounds(t, r) \/ Prac!AllCheck(t, r)
      BY <2>2, PracStartTraining, PracStartRun, PracStopRun, PracEndRun, PracToPreparing,
         PracTickReconcile, PracTickRounds, PracAllCheck DEF Prac!TrainAgain
    <2> QED BY <1>1, <2>1, <2>2 DEF Prac!Request
  <1>2. ASSUME NEW t \in Threads, Prac!Continue(t) PROVE Prac!Inductive'
    BY <1>2, PracCreate, PracDropped, PracLaunch, PracStartInstance, PracEndRunCommit,
       PracReconcile, PracEnterFix, PracReadWindows, PracInsertRound, PracAllCheckRun,
       PracAllCheckOver, PracAllCheckRound, PracAllCheckEnd, PracAllCheckStop DEF Prac!Continue
  <1>3. ASSUME NEW r \in Runs, \/ Prac!TransitionFixToBreak(r) \/ Prac!TickEnd(r)
                               \/ \E q \in PracticeRounds : Prac!RewardRound(r, q)
        PROVE  Prac!Inductive'
    BY <1>3, PracToBreak, PracTickEnd, PracReward
  <1> QED BY <1>1, <1>2, <1>3 DEF Prac!Next

(* What the inductive invariant says of practice.                          *)
LEMMA PracResults ==
    ASSUME Prac!Inductive
    PROVE  Prac!TypeOK /\ Prac!OneOpenRun /\ Prac!BreakHasNoFixScore
  <1> USE DEF Prac!Inductive
  <1>1. Prac!TypeOK
    <2>1. ASSUME NEW r \in Runs PROVE Prac!Cardinality(x7[r]) <= 1 /\ x7[r] \subseteq Threads
      <3>1. x7[r] = {} \/ \E t \in Threads : x7[r] = {t}
        BY DEF Prac!Types
      <3>2. Cardinality(x7[r]) \in {0, 1}
        BY <3>1, FS_EmptySet, FS_Singleton
      <3> QED BY <3>1, <3>2 DEF Prac!Cardinality, Cardinality
    <2> QED BY <2>1 DEF Prac!Types, Prac!TypeOK
  <1>2. Prac!OneOpenRun
    <2> DEFINE S == {r \in Runs : x2[r] \in Prac!Open}
    <2>1. S = {} \/ \E r \in S : S = {r}
      BY DEF Prac!OpenIsUnique
    <2>2. Cardinality(S) \in {0, 1}
      BY <2>1, FS_EmptySet, FS_Singleton
    <2> QED BY <2>2 DEF Prac!OneOpenRun, Prac!Cardinality, Cardinality
  <1>3. Prac!BreakHasNoFixScore
    BY DEF Prac!SweepOwnsScore, Prac!BreakHasNoFixScore
  <1> QED BY <1>1, <1>2, <1>3

(* A step that moves no run out of Ended and takes no score of such a run. *)
LEMMA PracHistory ==
    ASSUME Prac!Inductive, Prac!Next PROVE Prac!KeepsHistory
  <1> SUFFICES ASSUME NEW r \in Runs, x2[r] = "Ended"
               PROVE  x2'[r] = "Ended" /\ {s \in x5 : s[1] = r} \subseteq x5'
    BY DEF Prac!KeepsHistory
  <1>1. x2 \in [Runs -> Prac!Phases]
    BY DEF Prac!Inductive, Prac!Types
  <1>2. ASSUME NEW t \in Threads, Prac!Request(t) PROVE x2'[r] = "Ended" /\ x5 \subseteq x5'
    BY <1>1, <1>2 DEF Prac!Request, Prac!StartTraining, Prac!TrainAgain, Prac!StartRun, Prac!StopRun,
       Prac!ResetRun, Prac!EndRun, Prac!BreakToPreparingFix, Prac!TickReconcile, Prac!TickRounds,
       Prac!AllCheck
  <1>3. ASSUME NEW t \in Threads, Prac!Continue(t) PROVE x2'[r] = "Ended" /\ x5 \subseteq x5'
    <2>1. x8[t].run \in Runs
      BY PracTyped
    <2>2. CASE Prac!CreatePracticeRun(t)
      BY <1>1, <2>2 DEF Prac!CreatePracticeRun, Prac!Rows
    <2>3. CASE Prac!LaunchPracticeRun(t)
      BY <1>1, <2>1, <2>3 DEF Prac!LaunchPracticeRun, Prac!My
    <2>4. CASE Prac!EndRunCommit(t) \/ Prac!AllCheckEnd(t)
      BY <1>1, <2>1, <2>4 DEF Prac!EndRunCommit, Prac!AllCheckEnd, Prac!EndPracticeSession, Prac!My
    <2>5. CASE Prac!EnterFix(t)
      BY <1>1, <2>1, <2>5 DEF Prac!EnterFix, Prac!My, Prac!Phase
    <2>6. CASE Prac!AllCheckRound(t)
      BY <2>6 DEF Prac!AllCheckRound
    <2>7. CASE \/ Prac!CreateOutOfBound(t) \/ Prac!StartInstance(t) \/ Prac!ReconcilePreparingFix(t)
               \/ Prac!ReadWindows(t) \/ Prac!InsertRound(t) \/ Prac!AllCheckRun(t)
               \/ Prac!AllCheckOver(t) \/ Prac!AllCheckStop(t)
      BY <2>7 DEF Prac!CreateOutOfBound, Prac!StartInstance, Prac!ReconcilePreparingFix,
         Prac!ReadWindows, Prac!InsertRound, Prac!AllCheckRun, Prac!AllCheckOver, Prac!AllCheckStop
    <2> QED BY <1>3, <2>2, <2>3, <2>4, <2>5, <2>6, <2>7 DEF Prac!Continue
  <1>4. ASSUME NEW q \in Runs, \/ Prac!TransitionFixToBreak(q) \/ Prac!TickEnd(q)
                               \/ \E k \in PracticeRounds : Prac!RewardRound(q, k)
        PROVE  x2'[r] = "Ended" /\ {s \in x5 : s[1] = r} \subseteq x5'
    BY <1>1, <1>4 DEF Prac!TransitionFixToBreak, Prac!TickEnd, Prac!RewardRound
  <1> QED BY <1>2, <1>3, <1>4 DEF Prac!Next

----------------------------------------------------------------------------
(* AwdpNetwork: subnets, networks and judge containers *)

(* Local state of a thread, a row and a judge container.                   *)
NetThread == [pc : Net!Pcs, e : Net!All, sub : Subnets \cup {0}, key : Net!Tokens, box : BOOLEAN,
              del : BOOLEAN]
NetRow == [sub : Subnets \cup {0}, st : {"none", "allocated", "deployed", "released"}]
NetJudge == [id : Threads \cup {"none"}, token : Net!Tokens, ctl : Net!Joins, up : BOOLEAN]

NetSpent == [crashes : Nat, fails : Nat, starts : Nat, dies : Nat, moves : Nat]

(* A thread where only events of a competition have a row has such an event *)
(* and a block to insert.                                                   *)
NetFit(y) ==
    /\ y \in NetThread /\ (y.pc \in Net!OfEvent => y.e \in Events)
    /\ y.pc = "insert" => y.sub # 0

(* What a step may do to the threads, to the counters and phases, to the   *)
(* rows, to docker's networks and to the judges.                           *)
NetThreads == x8' \in [Threads -> NetThread] /\ \A t \in Threads : NetFit(x8'[t])
NetRest ==
    /\ x1' = x1 /\ x2' \in [Net!All -> {"on", "ended", "deleted"}] /\ x6' \subseteq Net!All
    /\ x9' \in NetSpent
    /\ x9.crashes + x9.moves > 0 => x9'.crashes + x9'.moves > 0
NetRows ==
    /\ x3' \in [Events -> NetRow] /\ \A e \in Events : x3'[e].sub = 0 => x3'[e] = Net!NoRow
    /\ \A d, e \in Events : d # e /\ x3'[d].sub = x3'[e].sub => x3'[d] = Net!NoRow
NetNets ==
    /\ x4' \in [Net!All -> Nat]
    /\ \A d, e \in Events : d # e /\ x4'[d] = x4'[e] => x4'[d] = 0
NetJudges ==
    /\ x5' \in [Net!All -> NetJudge] /\ \A e \in Net!All : x5'[e].up => x5'[e].id \in Threads
    /\ \A e \in Net!All : x5'[e].up /\ x5'[e].ctl = "no" =>
         \/ x8'[x5'[e].id].pc = "connect" /\ x8'[x5'[e].id].e = e
         \/ x9'.crashes + x9'.moves > 0

LEMMA NetStepKeeps ==
    ASSUME Net!Inductive, NetThreads, NetRest, NetRows, NetNets, NetJudges
    PROVE  Net!Inductive'
  <1>1. Net!Types'
    BY DEF Net!Inductive, Net!Types, NetThreads, NetRest, NetRows, NetNets, NetJudges, NetThread, NetRow,
       NetJudge, NetSpent
  <1>2. Net!ThreadsOfEvents'
    BY DEF Net!ThreadsOfEvents, Net!Ev, Net!At, NetThreads, NetFit
  <1>3. Net!RowsHaveBlocks' /\ Net!SubnetsDisjoint'
    BY DEF Net!RowsHaveBlocks, Net!SubnetsDisjoint, NetRows, NetNets, Net!NoRow
  <1>4. Net!JudgesHaveOwner' /\ Net!JudgeReachesPlatform'
    BY DEF Net!JudgesHaveOwner, Net!JudgeReachesPlatform, NetJudges, Net!At, Net!Ev
  <1> QED BY <1>1, <1>2, <1>3, <1>4 DEF Net!Inductive

LEMMA NetIdleFits == NetFit(Net!Idle) /\ Net!Idle.pc = "idle"
  BY DEF NetFit, Net!Idle, NetThread, Net!Pcs, Net!All, Net!Tokens, Net!OfEvent

LEMMA NetInit == Net!Init => Net!Inductive
  <1> SUFFICES ASSUME Net!Init PROVE Net!Inductive
    OBVIOUS
  <1> USE DEF Net!Init
  <1>1. (CHOOSE s \in Subnets : TRUE) \in Subnets /\ (CHOOSE e \in Events : TRUE) \in Events
    BY PracticeAssumption
  <1>2. x1.pool \subseteq Subnets /\ x1.events \subseteq Net!All
    BY <1>1 DEF NetworkSettings, Networks, AnEvent, Net!All
  <1>3. x3 \in [Events -> NetRow] /\ x5 \in [Net!All -> NetJudge]
    BY DEF NetRow, NetJudge, Net!NoRow, Net!NoJudge, Net!Tokens, Net!Joins
  <1>4. x8 \in [Threads -> NetThread] /\ \A t \in Threads : x8[t] = Net!Idle
    BY NetIdleFits DEF NetFit
  <1>5. Net!Types
    BY <1>2, <1>3, <1>4 DEF Net!Types, NetThread, NetRow, NetJudge
  <1>6. Net!ThreadsOfEvents
    BY <1>4, NetIdleFits DEF Net!ThreadsOfEvents, NetFit, Net!Ev, Net!At
  <1>7. Net!RowsHaveBlocks /\ Net!SubnetsDisjoint
    BY DEF Net!RowsHaveBlocks, Net!SubnetsDisjoint, Net!All
  <1>8. Net!JudgesHaveOwner /\ Net!JudgeReachesPlatform
    BY DEF Net!JudgesHaveOwner, Net!JudgeReachesPlatform, Net!NoJudge
  <1> QED BY <1>5, <1>6, <1>7, <1>8 DEF Net!Inductive

(* Types as the steps need them.                                           *)
LEMMA NetTyped ==
    ASSUME Net!Inductive
    PROVE  /\ x1.pool \subseteq Subnets /\ x1.events \subseteq Net!All
           /\ x3 \in [Events -> NetRow] /\ x4 \in [Net!All -> Nat] /\ x5 \in [Net!All -> NetJudge]
           /\ x8 \in [Threads -> NetThread] /\ x2 \in [Net!All -> {"on", "ended", "deleted"}]
           /\ \A t \in Threads : NetFit(x8[t]) /\ x8[t].e \in Net!All
  <1>1. /\ x1.pool \subseteq Subnets /\ x1.events \subseteq Net!All
        /\ x3 \in [Events -> NetRow] /\ x4 \in [Net!All -> Nat] /\ x5 \in [Net!All -> NetJudge]
        /\ x8 \in [Threads -> NetThread] /\ x2 \in [Net!All -> {"on", "ended", "deleted"}]
    BY DEF Net!Inductive, Net!Types, NetRow, NetJudge, NetThread
  <1>2. \A t \in Threads : NetFit(x8[t]) /\ x8[t].e \in Net!All
    BY <1>1 DEF Net!Inductive, Net!ThreadsOfEvents, Net!Ev, Net!At, NetFit, NetThread
  <1> QED BY <1>1, <1>2

(* The parts a step leaves alone.                                          *)
LEMMA NetQuietThreads ==
    ASSUME Net!Inductive, x8' = x8 PROVE NetThreads
  BY NetTyped DEF NetThreads

NetCounts == x9' = x9 \/ x9' = [x9 EXCEPT !.fails = @ + 1]

LEMMA NetFails == Net!Fail => NetCounts
  BY DEF Net!Fail, Net!Count, NetCounts

LEMMA NetCounted ==
    ASSUME Net!Inductive, NetCounts
    PROVE  x9' \in NetSpent /\ (x9.crashes + x9.moves > 0 => x9'.crashes + x9'.moves > 0)
  <1>1. x9 \in NetSpent
    BY DEF Net!Inductive, Net!Types, NetSpent
  <1> QED BY <1>1 DEF NetCounts, NetSpent

LEMMA NetQuietRest ==
    ASSUME Net!Inductive, UNCHANGED <<x1, x2, x6>>, NetCounts PROVE NetRest
  BY NetCounted DEF NetRest, Net!Inductive, Net!Types

LEMMA NetQuietRows ==
    ASSUME Net!Inductive, x3' = x3 PROVE NetRows
  BY NetTyped DEF NetRows, Net!Inductive, Net!RowsHaveBlocks, Net!SubnetsDisjoint

LEMMA NetQuietNets ==
    ASSUME Net!Inductive, x4' = x4 PROVE NetNets
  BY NetTyped DEF NetNets, Net!Inductive, Net!SubnetsDisjoint

(* A thread about to join its judge to the control network stays there.    *)
LEMMA NetQuietJudges ==
    ASSUME Net!Inductive, x5' = x5, NetRest,
           \A u \in Threads : x8[u].pc = "connect" => x8'[u] = x8[u]
    PROVE  NetJudges
  <1>1. \A e \in Net!All : x5[e].up => x5[e].id \in Threads
    BY DEF Net!Inductive, Net!JudgesHaveOwner
  <1>2. \A e \in Net!All : x5[e].up /\ x5[e].ctl = "no" =>
         \/ x8[x5[e].id].pc = "connect" /\ x8[x5[e].id].e = e
         \/ x9.crashes + x9.moves > 0
    BY DEF Net!Inductive, Net!JudgeReachesPlatform, Net!At, Net!Ev
  <1> QED BY <1>1, <1>2, NetTyped DEF NetJudges, NetRest

(* The judge of one event changes.                                         *)
LEMMA NetSetJudge ==
    ASSUME Net!Inductive, NetRest, NEW e \in Net!All, NEW j \in NetJudge, x5' = [x5 EXCEPT ![e] = j],
           \A u \in Threads : x8[u].pc = "connect" /\ x8[u].e # e => x8'[u] = x8[u],
           j.up => j.id \in Threads,
           j.up /\ j.ctl = "no" => \/ x8'[j.id].pc = "connect" /\ x8'[j.id].e = e
                                   \/ x9'.crashes + x9'.moves > 0
    PROVE  NetJudges
  <1>1. x5' \in [Net!All -> NetJudge] /\ \A d \in Net!All : x5'[d] = IF d = e THEN j ELSE x5[d]
    BY NetTyped
  <1>2. ASSUME NEW d \in Net!All, d # e, x5[d].up, x5[d].ctl = "no"
        PROVE  \/ x8'[x5[d].id].pc = "connect" /\ x8'[x5[d].id].e = d
               \/ x9'.crashes + x9'.moves > 0
    <2>1. \/ x8[x5[d].id].pc = "connect" /\ x8[x5[d].id].e = d
          \/ x9.crashes + x9.moves > 0
      BY <1>2 DEF Net!Inductive, Net!JudgeReachesPlatform, Net!At, Net!Ev
    <2>2. x5[d].id \in Threads
      BY <1>2 DEF Net!Inductive, Net!JudgesHaveOwner
    <2> QED BY <1>2, <2>1, <2>2 DEF NetRest
  <1>3. \A d \in Net!All : x5'[d].up => x5'[d].id \in Threads
    BY <1>1 DEF Net!Inductive, Net!JudgesHaveOwner
  <1> QED BY <1>1, <1>2, <1>3 DEF NetJudges

(* The row of one event changes.                                           *)
LEMMA NetSetRow ==
    ASSUME Net!Inductive, NEW e \in Events, NEW v \in NetRow, x3' = [x3 EXCEPT ![e] = v],
           v.sub = 0 => v = Net!NoRow,
           \A d \in Events \ {e} : x3[d].sub = v.sub => v = Net!NoRow /\ x3[d] = Net!NoRow
    PROVE  NetRows
  <1>1. x3' \in [Events -> NetRow] /\ \A d \in Events : x3'[d] = IF d = e THEN v ELSE x3[d]
    BY NetTyped
  <1> QED BY <1>1 DEF NetRows, Net!Inductive, Net!RowsHaveBlocks, Net!SubnetsDisjoint

(* The network of one event changes, to a subnet no event of a competition *)
(* has.                                                                    *)
LEMMA NetSetNet ==
    ASSUME Net!Inductive, NEW e \in Net!All, NEW v \in Nat, x4' = [x4 EXCEPT ![e] = v],
           e \in Events => v = 0 \/ \A d \in Events \ {e} : x4[d] # v
    PROVE  NetNets
  <1>1. x4' \in [Net!All -> Nat] /\ \A d \in Net!All : x4'[d] = IF d = e THEN v ELSE x4[d]
    BY NetTyped
  <1> QED BY <1>1 DEF NetNets, Net!Inductive, Net!SubnetsDisjoint, Net!All

(* What a thread does to its local state.                                  *)
NetOthers(t) == \A u \in Threads \ {t} : x8'[u] = x8[u]

LEMMA NetMoves ==
    ASSUME Net!Inductive, NEW t \in Threads, NEW y, NetFit(y), x8' = [x8 EXCEPT ![t] = y]
    PROVE  NetThreads /\ NetOthers(t) /\ x8'[t] = y
  <1>1. x8' \in [Threads -> NetThread] /\ \A u \in Threads : x8'[u] = IF u = t THEN y ELSE x8[u]
    BY NetTyped DEF NetFit
  <1> QED BY <1>1, NetTyped DEF NetThreads, NetOthers

LEMMA NetDone ==
    ASSUME Net!Inductive, NEW t \in Threads, Net!Done(t) PROVE NetThreads /\ NetOthers(t)
  <1>1. x8' = [x8 EXCEPT ![t] = Net!Idle]
    BY DEF Net!Done
  <1> QED BY <1>1, NetIdleFits, NetMoves

LEMMA NetStep ==
    ASSUME Net!Inductive, NEW t \in Threads, NEW pc \in Net!Pcs, Net!Step(t, pc), pc # "insert",
           pc \in Net!OfEvent => x8[t].e \in Events
    PROVE  NetThreads /\ NetOthers(t) /\ x8'[t].pc = pc /\ x8'[t].e = x8[t].e
  <1> DEFINE y == [x8[t] EXCEPT !.pc = pc]
  <1>1. x8' = [x8 EXCEPT ![t] = y]
    BY NetTyped DEF Net!Step
  <1>2. NetFit(y) /\ y.pc = pc /\ y.e = x8[t].e
    BY NetTyped DEF NetFit, NetThread
  <1> HIDE DEF y
  <1> QED BY <1>1, <1>2, NetMoves

LEMMA NetAfterJudge ==
    ASSUME Net!Inductive, NEW t \in Threads, Net!AfterJudge(t) \/ Net!JudgeFailed(t)
    PROVE  NetThreads /\ NetOthers(t)
  BY NetDone, NetStep DEF Net!AfterJudge, Net!JudgeFailed, Net!Pcs, Net!OfEvent

(* A step that only moves its thread, which was not about to join a judge. *)
LEMMA NetOnlyMoves ==
    ASSUME Net!Inductive, NEW t \in Threads, NetThreads, NetOthers(t), x8[t].pc # "connect",
           UNCHANGED <<x1, x2, x3, x4, x5, x6>>, NetCounts
    PROVE  Net!Inductive'
  <1>1. NetRest /\ NetRows /\ NetNets
    BY NetQuietRest, NetQuietRows, NetQuietNets
  <1>2. NetJudges
    BY <1>1, NetQuietJudges DEF NetOthers
  <1> QED BY <1>1, <1>2, NetStepKeeps

LEMMA NetStartInstance ==
    ASSUME Net!Inductive, NEW t \in Threads, NEW e \in x1.events, Net!StartInstance(t, e)
    PROVE  Net!Inductive'
  <1>1. PICK pc \in {"fixed", "alloc"} : pc = IF e = Practice THEN "fixed" ELSE "alloc"
    OBVIOUS
  <1> DEFINE y == [Net!Idle EXCEPT !.pc = pc, !.e = e, !.key = "root", !.box = TRUE]
  <1>2. x8' = [x8 EXCEPT ![t] = y]
    BY <1>1 DEF Net!StartInstance
  <1>3. /\ UNCHANGED <<x1, x2, x3, x4, x5, x6>> /\ x8[t].pc # "connect"
        /\ x9' = [x9 EXCEPT !.starts = @ + 1]
    BY DEF Net!StartInstance, Net!At, Net!Count
  <1>4. e \in Net!All /\ (pc = "alloc" => e \in Events)
    BY <1>1, NetTyped DEF Net!All
  <1>5. y \in NetThread /\ y.pc = pc /\ y.e = e
    BY <1>4, NetIdleFits DEF NetFit, NetThread, Net!Pcs, Net!Tokens
  <1>6. NetFit(y)
    BY <1>4, <1>5 DEF NetFit, Net!OfEvent
  <1> HIDE DEF y
  <1>7. NetThreads /\ NetOthers(t)
    BY <1>2, <1>6, NetMoves
  <1>8. NetRest
    BY <1>3 DEF NetRest, NetSpent, Net!Inductive, Net!Types
  <1>9. NetJudges
    BY <1>3, <1>7, <1>8, NetQuietJudges DEF NetOthers
  <1> QED BY <1>3, <1>7, <1>8, <1>9, NetQuietRows, NetQuietNets, NetStepKeeps

LEMMA NetEnsurePractice ==
    ASSUME Net!Inductive, NEW t \in Threads, Net!EnsurePracticeEnvironment(t) PROVE Net!Inductive'
  <1> DEFINE y == [Net!Idle EXCEPT !.pc = "fixed", !.key = "internal"]
  <1>1. /\ UNCHANGED <<x1, x2, x3, x4, x5, x6, x9>> /\ x8[t].pc # "connect"
        /\ x8' = [x8 EXCEPT ![t] = y]
    BY DEF Net!EnsurePracticeEnvironment, Net!At
  <1>2. y \in NetThread /\ y.pc = "fixed"
    BY NetIdleFits DEF NetFit, NetThread, Net!Pcs, Net!Tokens
  <1>3. NetFit(y)
    BY <1>2 DEF NetFit, Net!OfEvent
  <1> HIDE DEF y
  <1>4. NetThreads /\ NetOthers(t)
    BY <1>1, <1>3, NetMoves
  <1> QED BY <1>1, <1>4, NetOnlyMoves DEF NetCounts

LEMMA NetAllocate ==
    ASSUME Net!Inductive, NEW t \in Threads, Net!AllocateEventNetwork(t) PROVE Net!Inductive'
  <1>1. UNCHANGED <<x1, x2, x3, x4, x5, x6>> /\ NetCounts /\ x8[t].pc = "alloc"
    BY NetFails DEF Net!AllocateEventNetwork, Net!At, NetCounts
  <1>2. x8[t].e \in Events
    BY <1>1, NetTyped DEF NetFit, Net!OfEvent
  <1>3. NetThreads /\ NetOthers(t)
    <2>1. CASE Net!Step(t, "net")
      BY <1>2, <2>1, NetStep DEF Net!Pcs
    <2>2. CASE Net!Done(t)
      BY <2>2, NetDone
    <2>3. CASE \E s \in x1.pool : x8' = [x8 EXCEPT ![t] = [@ EXCEPT !.pc = "insert", !.sub = s]]
      <3>1. PICK s \in x1.pool : x8' = [x8 EXCEPT ![t] = [x8[t] EXCEPT !.pc = "insert", !.sub = s]]
        BY <2>3, NetTyped
      <3> DEFINE y == [x8[t] EXCEPT !.pc = "insert", !.sub = s]
      <3>2. s \in Subnets /\ s # 0
        BY NetTyped, PracticeAssumption
      <3>3. NetFit(y)
        BY <1>2, <3>2, NetTyped DEF NetFit, NetThread, Net!Pcs
      <3>4. x8' = [x8 EXCEPT ![t] = y]
        BY <3>1
      <3> HIDE DEF y
      <3> QED BY <3>3, <3>4, NetMoves
    <2> QED BY <2>1, <2>2, <2>3 DEF Net!AllocateEventNetwork
  <1> QED BY <1>1, <1>3, NetOnlyMoves

LEMMA NetInsert ==
    ASSUME Net!Inductive, NEW t \in Threads, Net!InsertEventNetwork(t) PROVE Net!Inductive'
  <1> DEFINE e == x8[t].e
             s == x8[t].sub
             ok == /\ x3[e] = Net!NoRow /\ x2[e] # "deleted" /\ \A d \in Events : x3[d].sub # s
             v == IF ok THEN [sub |-> s, st |-> "allocated"] ELSE x3[e]
  <1>1. /\ UNCHANGED <<x1, x2, x4, x5, x6, x9>> /\ x8[t].pc = "insert"
        /\ x3' = [x3 EXCEPT ![e] = v]
        /\ Net!Step(t, "net") \/ Net!Done(t)
    BY DEF Net!InsertEventNetwork, Net!At, Net!Ev
  <1>2. e \in Events /\ s \in Subnets /\ s # 0
    BY <1>1, NetTyped DEF NetFit, Net!OfEvent, NetThread
  <1>3. NetRows
    <2>1. CASE ok
      <3>1. v = [sub |-> s, st |-> "allocated"]
        BY <2>1
      <3>2. v \in NetRow /\ v.sub = s
        BY <1>2, <3>1 DEF NetRow
      <3>3. \A d \in Events : x3[d].sub # s
        BY <2>1
      <3> HIDE DEF v, ok, s, e
      <3> QED BY <1>1, <1>2, <3>2, <3>3, NetSetRow
    <2>2. CASE ~ok
      <3>1. x3' = x3
        BY <1>1, <1>2, <2>2, NetTyped
      <3> QED BY <3>1, NetQuietRows
    <2> QED BY <2>1, <2>2
  <1>4. NetThreads /\ NetOthers(t)
    BY <1>1, <1>2, NetStep, NetDone DEF Net!Pcs
  <1>5. NetRest /\ NetNets
    BY <1>1, NetQuietRest, NetQuietNets DEF NetCounts
  <1>6. NetJudges
    BY <1>1, <1>4, <1>5, NetQuietJudges DEF NetOthers
  <1> QED BY <1>3, <1>4, <1>5, <1>6, NetStepKeeps

(* A step that changes the networks and moves its thread.                  *)
LEMMA NetOnlyNets ==
    ASSUME Net!Inductive, NEW t \in Threads, NetThreads, NetOthers(t), x8[t].pc # "connect",
           NetNets, UNCHANGED <<x1, x2, x3, x5, x6>>, NetCounts
    PROVE  Net!Inductive'
  <1>1. NetRest /\ NetRows
    BY NetQuietRest, NetQuietRows
  <1>2. NetJudges
    BY <1>1, NetQuietJudges DEF NetOthers
  <1> QED BY <1>1, <1>2, NetStepKeeps

LEMMA NetEnsureExists ==
    ASSUME Net!Inductive, NEW t \in Threads, Net!EnsureNetworkExists(t) PROVE Net!Inductive'
  <1> DEFINE e == x8[t].e
  <1>1. UNCHANGED <<x1, x2, x3, x5, x6>> /\ NetCounts /\ x8[t].pc \in {"net", "again"}
    BY NetFails DEF Net!EnsureNetworkExists, Net!At, NetCounts
  <1>2. e \in Events /\ e \in Net!All
    BY <1>1, NetTyped DEF NetFit, Net!OfEvent, Net!All
  <1>3. x3[e].sub \in Nat
    <2>1. x3[e] \in NetRow
      BY <1>2, NetTyped
    <2>2. x3[e].sub \in Subnets \cup {0}
      BY <2>1 DEF NetRow
    <2>3. Subnets \cup {0} \subseteq Nat
      BY PracticeAssumption
    <2> QED BY <2>2, <2>3
  <1>4. /\ Net!Step(t, "again") \/ Net!Step(t, "judge") \/ Net!Done(t) \/ Net!JudgeFailed(t)
        /\ \/ x4' = x4
           \/ x4' = [x4 EXCEPT ![e] = x3[e].sub] /\ \A d \in Net!All : x4[d] # x3[e].sub
    BY DEF Net!EnsureNetworkExists, Net!Ev
  <1>5. NetThreads /\ NetOthers(t)
    BY <1>2, <1>4, NetStep, NetDone, NetAfterJudge DEF Net!Pcs, Net!OfEvent
  <1> HIDE DEF e
  <1>6. NetNets
    <2>1. CASE x4' = x4
      BY <2>1, NetQuietNets
    <2>2. CASE x4' = [x4 EXCEPT ![e] = x3[e].sub] /\ \A d \in Net!All : x4[d] # x3[e].sub
      <3>1. \A d \in Events \ {e} : x4[d] # x3[e].sub
        BY <2>2 DEF Net!All
      <3> QED BY <1>2, <1>3, <2>2, <3>1, NetSetNet
    <2> QED BY <1>4, <2>1, <2>2
  <1> QED BY <1>1, <1>5, <1>6, NetOnlyNets

(* A step that removes the judge of an event, or leaves it, and moves its  *)
(* thread.                                                                 *)
LEMMA NetDropsJudge ==
    ASSUME Net!Inductive, NEW t \in Threads, NetThreads, NetOthers(t), x8[t].pc # "connect",
           NEW e \in Net!All, x5' = x5 \/ x5' = [x5 EXCEPT ![e] = Net!NoJudge],
           UNCHANGED <<x1, x2, x3, x4, x6>>, NetCounts
    PROVE  Net!Inductive'
  <1>1. NetRest /\ NetRows /\ NetNets
    BY NetQuietRest, NetQuietRows, NetQuietNets
  <1>2. Net!NoJudge \in NetJudge /\ ~Net!NoJudge.up
    BY DEF Net!NoJudge, NetJudge, Net!Tokens, Net!Joins
  <1>3. NetJudges
    BY <1>1, <1>2, NetQuietJudges, NetSetJudge DEF NetOthers
  <1> QED BY <1>1, <1>3, NetStepKeeps

LEMMA NetEnsureFixed ==
    ASSUME Net!Inductive, NEW t \in Threads, Net!EnsureFixedNetwork(t) PROVE Net!Inductive'
  <1>1. /\ UNCHANGED <<x1, x2, x3, x4, x6>> /\ x8[t].pc # "connect" /\ Practice \in Net!All
        /\ x5' = x5 \/ x5' = [x5 EXCEPT ![Practice] = Net!NoJudge]
        /\ Net!Step(t, "judge") \/ Net!Step(t, "replace") \/ Net!Step(t, "create")
        /\ NetCounts
    BY NetFails DEF Net!EnsureFixedNetwork, Net!At, Net!All, NetCounts
  <1>2. NetThreads /\ NetOthers(t)
    BY <1>1, NetStep DEF Net!Pcs, Net!OfEvent
  <1> QED BY <1>1, <1>2, NetDropsJudge

LEMMA NetReplaceFixed ==
    ASSUME Net!Inductive, NEW t \in Threads, Net!ReplaceFixedNetwork(t) PROVE Net!Inductive'
  <1>1. /\ UNCHANGED <<x1, x2, x3, x5, x6>> /\ x8[t].pc # "connect" /\ Practice \in Net!All
        /\ NetCounts /\ Net!Step(t, "create")
    BY NetFails DEF Net!ReplaceFixedNetwork, Net!At, Net!All, NetCounts
  <1>2. x4' = x4 \/ x4' = [x4 EXCEPT ![Practice] = 0]
    BY <1>1, NetTyped DEF Net!ReplaceFixedNetwork
  <1>4. NetNets
    BY <1>1, <1>2, NetSetNet, NetQuietNets, PracticeAssumption
  <1>5. NetThreads /\ NetOthers(t)
    BY <1>1, NetStep DEF Net!Pcs, Net!OfEvent
  <1> QED BY <1>1, <1>4, <1>5, NetOnlyNets

LEMMA NetCreateFixed ==
    ASSUME Net!Inductive, NEW t \in Threads, Net!CreateFixedNetwork(t) PROVE Net!Inductive'
  <1>1. PICK v : v = IF x4[Practice] = 0 THEN 100 + x9.moves ELSE x4[Practice]
    OBVIOUS
  <1>2. /\ UNCHANGED <<x1, x2, x3, x5, x6>> /\ x8[t].pc # "connect" /\ Practice \in Net!All
        /\ x4' = x4 \/ x4' = [x4 EXCEPT ![Practice] = v]
        /\ Net!Step(t, "judge") \/ Net!Done(t)
        /\ NetCounts
    BY <1>1, NetTyped, NetFails DEF Net!CreateFixedNetwork, Net!At, Net!All, NetCounts
  <1>3. v \in Nat
    BY <1>1, <1>2, NetTyped DEF Net!Inductive, Net!Types
  <1>4. NetNets
    BY <1>2, <1>3, NetSetNet, NetQuietNets, PracticeAssumption
  <1>5. NetThreads /\ NetOthers(t)
    BY <1>2, NetStep, NetDone DEF Net!Pcs, Net!OfEvent
  <1> QED BY <1>2, <1>4, <1>5, NetOnlyNets

LEMMA NetInspect ==
    ASSUME Net!Inductive, NEW t \in Threads, Net!InspectJudge(t) PROVE Net!Inductive'
  <1>1. /\ UNCHANGED <<x1, x2, x3, x4, x6>> /\ x8[t].pc # "connect" /\ x8[t].e \in Net!All
        /\ x5' = x5 \/ x5' = [x5 EXCEPT ![x8[t].e] = Net!NoJudge]
        /\ Net!AfterJudge(t) \/ Net!JudgeFailed(t) \/ Net!Step(t, "deploy")
        /\ NetCounts
    BY NetTyped, NetFails DEF Net!InspectJudge, Net!At, Net!Ev, NetCounts
  <1>2. NetThreads /\ NetOthers(t)
    BY <1>1, NetAfterJudge, NetStep DEF Net!Pcs, Net!OfEvent
  <1> QED BY <1>1, <1>2, NetDropsJudge

(* The new container is the thread's own, and it goes on to join it, or it *)
(* does not run.                                                           *)
LEMMA NetDeploy ==
    ASSUME Net!Inductive, NEW t \in Threads, Net!DeployJudge(t) PROVE Net!Inductive'
  <1> DEFINE e == x8[t].e
             j == [id |-> t, token |-> Net!Token(x8[t].key), ctl |-> "no", up |-> TRUE]
             k == [id |-> t, token |-> Net!Token(x8[t].key), ctl |-> "no", up |-> FALSE]
  <1>1. /\ UNCHANGED <<x1, x2, x3, x4, x6>> /\ NetCounts /\ x8[t].pc # "connect" /\ e \in Net!All
        /\ \/ /\ x5' = x5 \/ x5' = [x5 EXCEPT ![e] = Net!NoJudge] \/ x5' = [x5 EXCEPT ![e] = k]
              /\ Net!AfterJudge(t) \/ Net!JudgeFailed(t)
           \/ x5' = [x5 EXCEPT ![e] = j] /\ Net!Step(t, "connect")
    BY NetTyped, NetFails DEF Net!DeployJudge, Net!At, Net!Ev, NetCounts
  <1>2. NetRest /\ NetRows /\ NetNets
    BY <1>1, NetQuietRest, NetQuietRows, NetQuietNets
  <1>3. Net!Token(x8[t].key) \in Net!Tokens
    BY NetTyped DEF Net!Token, Net!Tokens, NetFit, NetThread
  <1>4. j \in NetJudge /\ j.id = t /\ j.up /\ k \in NetJudge /\ ~k.up
    BY <1>3 DEF NetJudge, Net!Joins
  <1> HIDE DEF e, j, k
  <1>5. CASE Net!AfterJudge(t) \/ Net!JudgeFailed(t)
    <2>1. NetThreads /\ NetOthers(t)
      BY <1>5, NetAfterJudge
    <2>2. CASE x5' = x5 \/ x5' = [x5 EXCEPT ![e] = Net!NoJudge]
      BY <1>1, <2>1, <2>2, NetDropsJudge
    <2>3. CASE x5' = [x5 EXCEPT ![e] = k]
      <3>1. NetJudges
        BY <1>1, <1>2, <1>4, <2>1, <2>3, NetSetJudge DEF NetOthers
      <3> QED BY <1>2, <2>1, <3>1, NetStepKeeps
    <2>4. CASE x5' = [x5 EXCEPT ![e] = j] /\ Net!Step(t, "connect")
      <3>1. NetThreads /\ NetOthers(t) /\ x8'[t].pc = "connect" /\ x8'[t].e = e
        BY <2>4, NetStep DEF Net!Pcs, Net!OfEvent, e
      <3>2. NetJudges
        BY <1>1, <1>2, <1>4, <2>4, <3>1, NetSetJudge DEF NetOthers
      <3> QED BY <1>2, <3>1, <3>2, NetStepKeeps
    <2> QED BY <1>1, <2>2, <2>3, <2>4
  <1>6. CASE x5' = [x5 EXCEPT ![e] = j] /\ Net!Step(t, "connect")
    <2>1. NetThreads /\ NetOthers(t) /\ x8'[t].pc = "connect" /\ x8'[t].e = e
      BY <1>6, NetStep DEF Net!Pcs, Net!OfEvent, e
    <2>2. NetJudges
      BY <1>1, <1>2, <1>4, <1>6, <2>1, NetSetJudge DEF NetOthers
    <2> QED BY <1>2, <2>1, <2>2, NetStepKeeps
  <1> QED BY <1>1, <1>5, <1>6

(* The thread joins its own container, and no other was waiting for it.    *)
LEMMA NetConnect ==
    ASSUME Net!Inductive, NEW t \in Threads, Net!ConnectControl(t) PROVE Net!Inductive'
  <1>0. PICK joined \in {"yes", "refused"} :
             x5' = [x5 EXCEPT ![x8[t].e].ctl = IF x5[x8[t].e].id = t THEN joined ELSE @]
    BY DEF Net!ConnectControl, Net!Ev
  <1> DEFINE e == x8[t].e
             c == IF x5[e].id = t THEN joined ELSE x5[e].ctl
             j == [x5[e] EXCEPT !.ctl = c]
  <1>1. /\ UNCHANGED <<x1, x2, x3, x4, x6>> /\ NetCounts /\ x8[t].pc = "connect" /\ e \in Net!All
        /\ x5' = [x5 EXCEPT ![e] = j]
        /\ Net!AfterJudge(t) \/ (e # Practice /\ Net!Step(t, "mark"))
    BY <1>0, NetTyped, NetFails DEF Net!ConnectControl, Net!At, Net!Ev, NetCounts
  <1>2. NetRest /\ NetRows /\ NetNets
    BY <1>1, NetQuietRest, NetQuietRows, NetQuietNets
  <1>3. NetThreads /\ NetOthers(t)
    <2>1. CASE Net!AfterJudge(t)
      BY <2>1, NetAfterJudge
    <2>2. CASE e # Practice /\ Net!Step(t, "mark")
      <3>1. e \in Events
        BY <1>1, <2>2 DEF Net!All
      <3> QED BY <2>2, <3>1, NetStep DEF Net!Pcs
    <2> QED BY <1>1, <2>1, <2>2
  <1>4. x5[e] \in NetJudge
    BY <1>1, NetTyped
  <1>5. /\ j \in NetJudge /\ j.up = x5[e].up /\ j.id = x5[e].id
        /\ j.ctl = "no" => x5[e].id # t /\ x5[e].ctl = "no"
    BY <1>4 DEF NetJudge, Net!Joins
  <1>6. /\ x5[e].up => x5[e].id \in Threads
        /\ x5[e].up /\ x5[e].ctl = "no" => \/ x8[x5[e].id].pc = "connect" /\ x8[x5[e].id].e = e
                                     \/ x9.crashes + x9.moves > 0
    BY <1>1 DEF Net!Inductive, Net!JudgesHaveOwner, Net!JudgeReachesPlatform, Net!At, Net!Ev
  <1>7. \A u \in Threads : x8[u].pc = "connect" /\ x8[u].e # e => x8'[u] = x8[u]
    BY <1>3 DEF NetOthers
  <1>8. /\ j.up => j.id \in Threads
        /\ j.up /\ j.ctl = "no" => \/ x8'[j.id].pc = "connect" /\ x8'[j.id].e = e
                                   \/ x9'.crashes + x9'.moves > 0
    BY <1>1, <1>2, <1>3, <1>5, <1>6 DEF NetOthers, NetRest
  <1> HIDE DEF e, c, j
  <1>9. NetJudges
    BY <1>1, <1>2, <1>5, <1>7, <1>8, NetSetJudge
  <1> QED BY <1>2, <1>3, <1>9, NetStepKeeps

(* A row changes its status and keeps its block.                           *)
LEMMA NetStatus ==
    ASSUME Net!Inductive, NEW e \in Events, NEW s \in {"deployed", "released"},
           x3' = x3 \/ (x3[e] # Net!NoRow /\ x3' = [x3 EXCEPT ![e] = [x3[e] EXCEPT !.st = s]])
    PROVE  NetRows
  <1> DEFINE v == [x3[e] EXCEPT !.st = s]
  <1>1. CASE x3' = x3
    BY <1>1, NetQuietRows
  <1>2. CASE x3[e] # Net!NoRow /\ x3' = [x3 EXCEPT ![e] = v]
    <2>1. v \in NetRow /\ v.sub = x3[e].sub
      BY NetTyped DEF NetRow
    <2>2. v.sub # 0
      BY <1>2, <2>1 DEF Net!Inductive, Net!RowsHaveBlocks
    <2>3. \A d \in Events \ {e} : x3[d].sub # v.sub
      BY <1>2, <2>1 DEF Net!Inductive, Net!SubnetsDisjoint
    <2> HIDE DEF v
    <2> QED BY <1>2, <2>1, <2>2, <2>3, NetSetRow
  <1> QED BY <1>1, <1>2

LEMMA NetMarks ==
    ASSUME Net!Inductive, NEW t \in Threads, Net!MarkDeployed(t) \/ Net!MarkReleased(t)
    PROVE  Net!Inductive'
  <1>1. /\ UNCHANGED <<x1, x2, x4, x5, x6>> /\ NetCounts /\ x8[t].pc \in {"mark", "release"}
        /\ Net!AfterJudge(t) \/ Net!Done(t)
    BY NetFails DEF Net!MarkDeployed, Net!MarkReleased, Net!At, NetCounts
  <1>2. x8[t].e \in Events
    BY <1>1, NetTyped DEF NetFit, Net!OfEvent
  <1>3. \/ x3' = x3
        \/ /\ x3[x8[t].e] # Net!NoRow
           /\ \E s \in {"deployed", "released"} :
                x3' = [x3 EXCEPT ![x8[t].e] = [x3[x8[t].e] EXCEPT !.st = s]]
    BY <1>2, NetTyped DEF Net!MarkDeployed, Net!MarkReleased, Net!Ev
  <1>4. NetRows
    BY <1>2, <1>3, NetStatus
  <1>5. NetThreads /\ NetOthers(t)
    BY <1>1, NetAfterJudge, NetDone
  <1>6. NetRest /\ NetNets
    BY <1>1, NetQuietRest, NetQuietNets
  <1>7. NetJudges
    BY <1>1, <1>5, <1>6, NetQuietJudges DEF NetOthers
  <1> QED BY <1>4, <1>5, <1>6, <1>7, NetStepKeeps

(* A step that starts or stops boxes and moves its thread.                 *)
LEMMA NetBoxes ==
    ASSUME Net!Inductive, NEW t \in Threads, Net!LaunchBox(t) \/ Net!StopBoxes(t) PROVE Net!Inductive'
  <1>1. /\ UNCHANGED <<x1, x2, x3, x4, x5>> /\ NetCounts /\ x8[t].pc # "connect"
        /\ Net!Done(t) \/ (x8[t].pc = "stopBoxes" /\ Net!Step(t, "cleanup"))
    BY NetFails DEF Net!LaunchBox, Net!StopBoxes, Net!At, NetCounts
  <1>2. x6 \subseteq Net!All /\ x8[t].e \in Net!All
    BY NetTyped DEF Net!Inductive, Net!Types
  <1>3. x6' \subseteq Net!All
    BY <1>2 DEF Net!LaunchBox, Net!StopBoxes, Net!Ev
  <1>4. NetRest
    BY <1>1, <1>3, NetCounted DEF NetRest, Net!Inductive, Net!Types
  <1>5. x8[t].pc = "stopBoxes" => x8[t].e \in Events
    BY NetTyped DEF NetFit, Net!OfEvent
  <1>6. NetThreads /\ NetOthers(t)
    BY <1>1, <1>5, NetDone, NetStep DEF Net!Pcs
  <1>7. NetJudges
    BY <1>1, <1>4, <1>6, NetQuietJudges DEF NetOthers
  <1> QED BY <1>1, <1>4, <1>6, <1>7, NetQuietRows, NetQuietNets, NetStepKeeps

LEMMA NetCleanupJudge ==
    ASSUME Net!Inductive, NEW t \in Threads, Net!CleanupJudge(t) PROVE Net!Inductive'
  <1>1. /\ UNCHANGED <<x1, x2, x3, x4, x6>> /\ x8[t].pc = "cleanup" /\ x8[t].e \in Net!All
        /\ x5' = x5 \/ x5' = [x5 EXCEPT ![x8[t].e] = Net!NoJudge]
        /\ Net!Done(t) \/ Net!Step(t, "removeNet")
        /\ NetCounts
    BY NetTyped, NetFails DEF Net!CleanupJudge, Net!At, Net!Ev, NetCounts
  <1>2. x8[t].e \in Events
    BY <1>1, NetTyped DEF NetFit, Net!OfEvent
  <1>3. NetThreads /\ NetOthers(t)
    BY <1>1, <1>2, NetDone, NetStep DEF Net!Pcs
  <1> QED BY <1>1, <1>3, NetDropsJudge

LEMMA NetCleanupNetwork ==
    ASSUME Net!Inductive, NEW t \in Threads, Net!CleanupNetwork(t) PROVE Net!Inductive'
  <1> DEFINE e == x8[t].e
  <1>1. UNCHANGED <<x1, x2, x3, x5, x6>> /\ NetCounts /\ x8[t].pc = "removeNet" /\ e \in Net!All
    BY NetTyped, NetFails DEF Net!CleanupNetwork, Net!At, NetCounts
  <1>2. /\ x4' = x4 \/ x4' = [x4 EXCEPT ![e] = 0]
        /\ Net!Done(t) \/ Net!Step(t, "release")
    BY <1>1, NetTyped DEF Net!CleanupNetwork, Net!Ev
  <1>3. e \in Events
    BY <1>1, NetTyped DEF NetFit, Net!OfEvent
  <1>4. NetThreads /\ NetOthers(t)
    BY <1>2, <1>3, NetDone, NetStep DEF Net!Pcs
  <1> HIDE DEF e
  <1>5. NetNets
    BY <1>1, <1>2, NetQuietNets, NetSetNet
  <1> QED BY <1>1, <1>4, <1>5, NetOnlyNets

(* Finish and the snapshot before a deletion: the phase is set, or nothing *)
(* but the thread.                                                         *)
LEMMA NetCloses ==
    ASSUME Net!Inductive, NEW t \in Threads, NEW e \in x1.events \ {Practice},
           Net!FinishEvent(t, e) \/ Net!SnapshotEvent(t, e)
    PROVE  Net!Inductive'
  <1>1. e \in Net!All /\ e \in Events
    BY NetTyped DEF Net!All
  <1>2. /\ UNCHANGED <<x1, x3, x4, x5, x6>> /\ NetCounts /\ x8[t].pc # "connect"
        /\ x2' = [x2 EXCEPT ![e] = "ended"] \/ x2' = x2
    BY DEF Net!FinishEvent, Net!SnapshotEvent, Net!At, NetCounts
  <1>3. PICK y \in NetThread : /\ x8' = [x8 EXCEPT ![t] = y]
                              /\ y.pc \in {"stopBoxes", "delete"} /\ y.e = e
    <2>1. CASE Net!FinishEvent(t, e)
      <3> DEFINE y == [Net!Idle EXCEPT !.pc = "stopBoxes", !.e = e]
      <3>1. y \in NetThread /\ y.pc = "stopBoxes" /\ y.e = e
        BY <1>1, NetIdleFits DEF NetFit, NetThread, Net!Pcs
      <3> QED BY <2>1, <3>1 DEF Net!FinishEvent
    <2>2. CASE Net!SnapshotEvent(t, e)
      <3>1. (e \in x6) = TRUE \/ (e \in x6) = FALSE
        OBVIOUS
      <3>2. PICK b \in BOOLEAN : b = (e \in x6)
        BY <3>1
      <3> DEFINE y == [Net!Idle EXCEPT !.pc = "delete", !.e = e, !.box = b, !.del = TRUE]
      <3>3. y \in NetThread /\ y.pc = "delete" /\ y.e = e
        BY <1>1, NetIdleFits DEF NetFit, NetThread, Net!Pcs
      <3>4. x8' = [x8 EXCEPT ![t] = y]
        BY <2>2, <3>2 DEF Net!SnapshotEvent
      <3> QED BY <3>3, <3>4
    <2> QED BY <2>1, <2>2
  <1>5. NetFit(y)
    BY <1>1, <1>3 DEF NetFit
  <1>6. NetThreads /\ NetOthers(t)
    BY <1>3, <1>5, NetMoves
  <1>7. NetRest
    BY <1>1, <1>2, NetCounted DEF NetRest, Net!Inductive, Net!Types
  <1>8. NetJudges
    BY <1>2, <1>6, <1>7, NetQuietJudges DEF NetOthers
  <1> QED BY <1>2, <1>6, <1>7, <1>8, NetQuietRows, NetQuietNets, NetStepKeeps

(* With a deletion the row goes.                                           *)
LEMMA NetDelete ==
    ASSUME Net!Inductive, NEW t \in Threads, Net!DeleteEvent(t) PROVE Net!Inductive'
  <1> DEFINE e == x8[t].e
  <1>1. /\ UNCHANGED <<x1, x4, x5, x6>> /\ NetCounts /\ x8[t].pc = "delete"
        /\ x2' = [x2 EXCEPT ![e] = "deleted"]
        /\ x3' = [x3 EXCEPT ![e] = Net!NoRow]
        /\ Net!Step(t, "stopBoxes") \/ Net!Done(t)
    BY NetFails DEF Net!DeleteEvent, Net!At, Net!Ev, NetCounts
  <1>2. e \in Events /\ e \in Net!All
    BY <1>1, NetTyped DEF NetFit, Net!OfEvent
  <1>3. NetThreads /\ NetOthers(t)
    BY <1>1, <1>2, NetStep, NetDone DEF Net!Pcs
  <1> HIDE DEF e
  <1>4. NetRest
    BY <1>1, <1>2, NetCounted DEF NetRest, Net!Inductive, Net!Types
  <1>5. Net!NoRow \in NetRow /\ Net!NoRow.sub = 0
    BY DEF Net!NoRow, NetRow
  <1>6. \A d \in Events : x3[d].sub = 0 => x3[d] = Net!NoRow
    BY DEF Net!Inductive, Net!RowsHaveBlocks
  <1>7. NetRows
    BY <1>1, <1>2, <1>5, <1>6, NetSetRow
  <1>8. NetJudges
    BY <1>1, <1>3, <1>4, NetQuietJudges DEF NetOthers
  <1> QED BY <1>1, <1>3, <1>4, <1>7, <1>8, NetQuietNets, NetStepKeeps

(* A box stops, a judge stops.                                             *)
LEMMA NetStops ==
    ASSUME Net!Inductive, NEW e \in Net!All, Net!StopBox(e) \/ Net!JudgeDies(e) PROVE Net!Inductive'
  <1>1. /\ UNCHANGED <<x1, x2, x3, x4, x8>> /\ x6' \subseteq x6
        /\ \/ x5' = x5 /\ x9' = x9
           \/ x5' = [x5 EXCEPT ![e].up = FALSE] /\ x9' = [x9 EXCEPT !.dies = @ + 1]
    BY DEF Net!StopBox, Net!JudgeDies, Net!Count
  <1>2. NetRest
    BY <1>1 DEF NetRest, NetSpent, Net!Inductive, Net!Types
  <1>3. NetJudges
    <2>1. CASE x5' = x5
      BY <1>1, <1>2, <2>1, NetQuietJudges
    <2>2. CASE x5' = [x5 EXCEPT ![e].up = FALSE]
      <3> DEFINE j == [x5[e] EXCEPT !.up = FALSE]
      <3>1. x5' = [x5 EXCEPT ![e] = j] /\ j \in NetJudge /\ ~j.up
        BY <2>2, NetTyped DEF NetJudge
      <3> HIDE DEF j
      <3> QED BY <1>1, <1>2, <3>1, NetSetJudge
    <2> QED BY <1>1, <2>1, <2>2
  <1> QED BY <1>1, <1>2, <1>3, NetQuietThreads, NetQuietRows, NetQuietNets, NetStepKeeps

(* The process dies, and every request with it.                            *)
LEMMA NetRestarts ==
    ASSUME Net!Inductive, Net!Reconfigure \/ Net!Crash PROVE Net!Inductive'
  <1>1. /\ UNCHANGED <<x1, x2, x3, x4, x5, x6>> /\ x8' = [t \in Threads |-> Net!Idle]
        /\ x9' = [x9 EXCEPT !.moves = @ + 1] \/ x9' = [x9 EXCEPT !.crashes = @ + 1]
    BY DEF Net!Reconfigure, Net!Crash, Net!Count
  <1>2. x9 \in NetSpent
    BY DEF Net!Inductive, Net!Types, NetSpent
  <1>3. x9' \in NetSpent /\ x9'.crashes + x9'.moves > 0
    BY <1>1, <1>2 DEF NetSpent
  <1>4. NetRest /\ x9'.crashes + x9'.moves > 0
    BY <1>1, <1>3 DEF NetRest, Net!Inductive, Net!Types
  <1>5. NetThreads
    BY <1>1, NetIdleFits DEF NetThreads, NetFit
  <1>6. NetJudges
    BY <1>1, <1>4, NetTyped DEF NetJudges, Net!Inductive, Net!JudgesHaveOwner
  <1> QED BY <1>1, <1>4, <1>5, <1>6, NetQuietRows, NetQuietNets, NetStepKeeps

(* One step of the networks keeps the inductive invariant.                 *)
LEMMA NetNext ==
    ASSUME Net!Inductive, Net!Next PROVE Net!Inductive'
  <1>1. ASSUME NEW t \in Threads, Net!Continue(t) PROVE Net!Inductive'
    BY <1>1, NetAllocate, NetInsert, NetEnsureExists, NetEnsureFixed, NetReplaceFixed, NetCreateFixed,
       NetInspect, NetDeploy, NetConnect, NetMarks, NetBoxes, NetCleanupJudge, NetCleanupNetwork,
       NetDelete DEF Net!Continue
  <1>2. ASSUME NEW t \in Threads, NEW e \in x1.events, Net!StartInstance(t, e) PROVE Net!Inductive'
    BY <1>2, NetStartInstance
  <1>3. ASSUME NEW t \in Threads, NEW e \in x1.events \ {Practice},
               Net!FinishEvent(t, e) \/ Net!SnapshotEvent(t, e)
        PROVE  Net!Inductive'
    BY <1>3, NetCloses
  <1>4. ASSUME NEW t \in Threads, Net!EnsurePracticeEnvironment(t) PROVE Net!Inductive'
    BY <1>4, NetEnsurePractice
  <1>5. ASSUME NEW e \in Net!All, Net!StopBox(e) \/ Net!JudgeDies(e) PROVE Net!Inductive'
    BY <1>5, NetStops
  <1>6. ASSUME Net!Reconfigure \/ Net!Crash PROVE Net!Inductive'
    BY <1>6, NetRestarts
  <1> QED BY <1>1, <1>2, <1>3, <1>4, <1>5, <1>6 DEF Net!Next

(* What the inductive invariant says of the networks.                      *)
LEMMA NetResults ==
    ASSUME Net!Inductive PROVE Net!TypeOK /\ Net!SubnetsDisjoint /\ Net!JudgeReachesPlatform
  BY DEF Net!Inductive, Net!Types, Net!TypeOK, Net!Tokens

----------------------------------------------------------------------------
(* The two specifications of MCAwdp *)

(* What a match keeps, in its scene.                                       *)
MatchInv ==
    /\ scene \in {"run", "fix"}
    /\ scene = "run" => Run!Inductive
    /\ scene = "fix" => Fix!Inductive

(* What practice and the networks keep, in their scenes.                   *)
PracticeInv ==
    /\ scene \in {"practice", "network"}
    /\ scene = "practice" => Prac!Inductive
    /\ scene = "network" => Net!Inductive

(* A step is of the component of the scene, or none.                       *)
LEMMA SceneSteps ==
    ASSUME [Next]_vars
    PROVE  /\ scene' = scene
           /\ scene = "run" => Run!Next \/ UNCHANGED vars
           /\ scene = "fix" => Fix!Next \/ UNCHANGED vars
           /\ scene = "practice" => Prac!Next \/ UNCHANGED vars
           /\ scene = "network" => Net!Next \/ UNCHANGED vars
  <1>1. CASE InRun(Run!Next)
    BY <1>1 DEF InRun
  <1>2. CASE InFix(Fix!Next)
    BY <1>2 DEF InFix
  <1>3. CASE InPrac(Prac!Next)
    BY <1>3 DEF InPrac
  <1>4. CASE InNet(Net!Next)
    BY <1>4 DEF InNet
  <1>5. CASE UNCHANGED vars
    BY <1>5 DEF vars
  <1> QED BY <1>1, <1>2, <1>3, <1>4, <1>5 DEF Next

(* Nothing that is about the state changes with it.                        *)
LEMMA RunStutters == ASSUME Run!Inductive, UNCHANGED vars PROVE Run!Inductive'
  <1> UNCHANGED <<x1, x2, x3, x4, x5, x6, x7, x8>>
    BY DEF vars
  <1>1. Run!Types'
    BY DEF Run!Inductive, Run!Types
  <1>2. Run!IdleIsIdle' /\ Run!RowsExist' /\ Run!ResetsLeaveNone' /\ Run!BreakIsScored'
    BY DEF Run!Inductive, Run!IdleIsIdle, Run!RowsExist, Run!ResetsLeaveNone, Run!BreakIsScored, Run!At
  <1> QED BY <1>1, <1>2 DEF Run!Inductive

LEMMA FixStutters == ASSUME Fix!Inductive, UNCHANGED vars PROVE Fix!Inductive'
  <1> UNCHANGED <<x1, x2, x3, x4, x5, x6, x7, x8, x9, x10, x11, x12, x13>>
    BY DEF vars
  <1>1. FixData /\ FixEvals /\ FixVerdicts /\ FixScores /\ FixJobs /\ FixPlays
    BY FixQuietData, FixQuietEvals, FixQuietScores, FixQuietJobs, FixQuietPlays
  <1> QED BY <1>1, FixStepKeeps

LEMMA PracStutters == ASSUME Prac!Inductive, UNCHANGED vars PROVE Prac!Inductive'
  <1>1. UNCHANGED <<x1, x2, x3, x4, x5, x6, x7, x8>>
    BY DEF vars
  <1>2. PracScores
    BY <1>1 DEF PracScores, Prac!Inductive, Prac!Types, Prac!SweepOwnsScore, Prac!At, Prac!My
  <1> QED BY <1>1, <1>2, PracTyped, PracQuietRows, PracQuietRest, PracStepKeeps

LEMMA NetStutters == ASSUME Net!Inductive, UNCHANGED vars PROVE Net!Inductive'
  <1>1. UNCHANGED <<x1, x2, x3, x4, x5, x6, x8, x9>>
    BY DEF vars
  <1>2. NetThreads /\ NetRest /\ NetRows /\ NetNets
    BY <1>1, NetQuietThreads, NetQuietRest, NetQuietRows, NetQuietNets DEF NetCounts
  <1>3. NetJudges
    BY <1>1, <1>2, NetQuietJudges
  <1> QED BY <1>2, <1>3, NetStepKeeps

LEMMA MatchStarts == MatchInit => MatchInv
  BY RunInit, FixInit DEF MatchInit, Init, MatchInv

LEMMA MatchSteps == MatchInv /\ [Next]_vars => MatchInv'
  <1> SUFFICES ASSUME MatchInv, [Next]_vars PROVE MatchInv'
    OBVIOUS
  <1>1. scene = "run" => Run!Inductive'
    BY SceneSteps, RunNext, RunStutters DEF MatchInv
  <1>2. scene = "fix" => Fix!Inductive'
    BY SceneSteps, FixNext, FixStutters DEF MatchInv
  <1> QED BY <1>1, <1>2, SceneSteps DEF MatchInv

LEMMA PracticeStarts == PracticeInit => PracticeInv
  BY PracInit, NetInit DEF PracticeInit, Init, PracticeInv

LEMMA PracticeSteps == PracticeInv /\ [Next]_vars => PracticeInv'
  <1> SUFFICES ASSUME PracticeInv, [Next]_vars PROVE PracticeInv'
    OBVIOUS
  <1>1. scene = "practice" => Prac!Inductive'
    BY SceneSteps, PracNext, PracStutters DEF PracticeInv
  <1>2. scene = "network" => Net!Inductive'
    BY SceneSteps, NetNext, NetStutters DEF PracticeInv
  <1> QED BY <1>1, <1>2, SceneSteps DEF PracticeInv

(* The score of a match is what happened in it, for any number of runs,    *)
(* game boxes, threads and workers: a break on record is scored or about   *)
(* to be (record_break and its score event are two transactions); a fix is *)
(* only scored where a patch was applied in time, for a verdict that ends  *)
(* patched, and a patched verdict is scored; crashes aside.                *)
THEOREM MatchScoresHold == MatchSpec => []MatchScores
  <1>1. MatchInv => MatchScores
    BY RunResults, FixResults DEF MatchInv, MatchScores, TypeOK
  <1> QED BY <1>1, MatchStarts, MatchSteps, PTL DEF MatchSpec

(* reconcile_preparing_fix enters Fix with no container of the Break phase *)
(* left, however many starts without the lock race its resets.             *)
THEOREM FixAlwaysPristine == MatchSpec => FixStartsPristine
  <1>1. MatchInv /\ [Next]_vars => [scene = "run" => Run!EntersPristine]_vars
    BY SceneSteps, RunEntersPristine DEF MatchInv
  <1> QED BY <1>1, MatchStarts, MatchSteps, PTL DEF MatchSpec, FixStartsPristine

(* At most one open run of a player on a game box and no fix score in      *)
(* Break, for any number of runs, rounds and threads; no two events have   *)
(* the same subnet and a running judge has joined the control network or   *)
(* is about to, unless docker refused the join (connect_control_network    *)
(* only warns) or the process died, for any number of events and blocks.   *)
THEOREM PracticeStaysConsistent == PracticeSpec => []PracticeConsistent
  <1>1. PracticeInv => PracticeConsistent
    BY PracResults, NetResults DEF PracticeInv, PracticeConsistent, TypeOK
  <1> QED BY <1>1, PracticeStarts, PracticeSteps, PTL DEF PracticeSpec

(* A practice run that ended stays ended and keeps its scores, whatever    *)
(* set_phase, ALL Check and the tick still have under way.                 *)
THEOREM HistoryAlwaysStands == PracticeSpec => HistoryStands
  <1>1. PracticeInv /\ [Next]_vars => [scene = "practice" => Prac!KeepsHistory]_vars
    BY SceneSteps, PracHistory DEF PracticeInv
  <1> QED BY <1>1, PracticeStarts, PracticeSteps, PTL DEF PracticeSpec, HistoryStands
=============================================================================

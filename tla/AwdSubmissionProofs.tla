------------------------ MODULE AwdSubmissionProofs ------------------------
(***************************************************************************)
(* Proofs about AwdSubmission, for any teams, templates, rounds, handlers  *)
(* in flight, bans, pauses and crashes: its types, that the bonus of a     *)
(* template goes to the first capture of it, that no capture is turned     *)
(* down unless it is on the board already, and, where requests are served  *)
(* one at a time, that a flag counts once and the rules of the game hold.  *)
(*                                                                         *)
(* The bonus is decided in one statement of the transaction and counted at *)
(* its commit, so the invariant has to say what a transaction about to     *)
(* commit knows: if it takes the bonus nobody has it and no other          *)
(* transaction takes it, if it does not somebody has it.  The rules are    *)
(* checked in statements before the transaction, so their invariant says   *)
(* that what a handler has read is still so.                               *)
(***************************************************************************)
EXTENDS AwdSubmission, TLAPS

Issuing    == {"i_find", "i_insert"}
Submitting == {"s_round", "s_ban", "s_victim", "s_again"}
Scoring    == {"t_insert", "t_bonus", "t_commit", "refused"}

(* What the frame of a handler stands for. *)
FrameOK(p) ==
    /\ proc[p].pc \in {"i_round", "i_ban"} => proc[p].flag.box \in Boxes
    /\ proc[p].pc \in {"i_ban"} \cup Issuing => proc[p].flag \in Flags
    /\ proc[p].pc \in Submitting \cup Scoring => proc[p].by \in Teams /\ proc[p].flag \in Flags
    /\ proc[p].pc \in Scoring => proc[p].n \in Rounds

Claiming(p) == proc[p].pc = "t_commit" /\ proc[p].gets = "bonus"

(* What a transaction about to commit knows of the bonus. *)
BonusKnown(p) ==
    proc[p].pc = "t_commit" =>
       (proc[p].gets = "bonus" <=> bonus[proc[p].flag.box.tpl] = Nobody)

OneClaim ==
    \A p, q \in Procs :
       Claiming(p) /\ Claiming(q) /\ proc[p].flag.box.tpl = proc[q].flag.box.tpl => p = q

Inv ==
    /\ TypeOK
    /\ \A p \in Procs : FrameOK(p)
    /\ \A p \in Procs : BonusKnown(p)
    /\ OneClaim
    /\ FirstBloodIsFirst
    /\ NoCaptureLost
---------------------------------------------------------------------------
(* The handler that does nothing. *)
LEMMA IdleFrame == Idle \in Frames /\ Idle.pc = "idle"
  <1>1. 0 \in 0..RoundCount BY SubmissionConstants
  <1> QED BY <1>1 DEF Idle, Frames, PCs, NoFlag

(* Initially nothing has happened. *)
LEMMA InitInv == Init => Inv
  <1> SUFFICES ASSUME Init PROVE Inv OBVIOUS
  <1>1. TypeOK
    <2>1. proc \in [Procs -> Frames] BY IdleFrame DEF Init
    <2>2. used \in [pauses : Nat, bans : Nat, crashes : Nat] BY DEF Init
    <2> QED BY <2>1, <2>2 DEF Init, TypeOK, Nobody
  <1>2. \A p \in Procs : proc[p].pc = "idle" BY IdleFrame DEF Init
  <1> QED BY <1>1, <1>2 DEF Inv, FrameOK, BonusKnown, OneClaim, Claiming, FirstBloodIsFirst, NoCaptureLost,
                            At, Init, Issuing, Submitting, Scoring

---------------------------------------------------------------------------
(* Steps of one handler that leave the board alone *)

(* The handler of p moves to frame x, which decides nothing yet. *)
Moves(p, x) ==
    /\ proc' = [proc EXCEPT ![p] = x]
    /\ x \in Frames
    /\ x.pc \notin {"t_commit", "refused"}
    /\ UNCHANGED <<captures, bonus, first>>

(* FrameOK of a frame that is not in place yet. *)
Sound(x) ==
    /\ x.pc \in {"i_round", "i_ban"} => x.flag.box \in Boxes
    /\ x.pc \in {"i_ban"} \cup Issuing => x.flag \in Flags
    /\ x.pc \in Submitting \cup Scoring => x.by \in Teams /\ x.flag \in Flags
    /\ x.pc \in Scoring => x.n \in Rounds

(* A move keeps what the invariant says of the handlers and of the bonus. *)
LEMMA MoveKeeps ==
  ASSUME Inv, NEW p \in Procs, NEW x, Moves(p, x), Sound(x)
  PROVE  /\ proc' \in [Procs -> Frames]
         /\ (\A q \in Procs : FrameOK(q))'
         /\ (\A q \in Procs : BonusKnown(q))'
         /\ OneClaim' /\ FirstBloodIsFirst' /\ NoCaptureLost'
  <1>1. proc \in [Procs -> Frames] BY DEF Inv, TypeOK
  <1>2. proc' \in [Procs -> Frames] BY <1>1 DEF Moves
  <1>3. proc'[p] = x /\ \A q \in Procs : q # p => proc'[q] = proc[q] BY <1>1 DEF Moves
  <1>4. UNCHANGED <<captures, bonus, first>> BY DEF Moves
  <1>5. (\A q \in Procs : FrameOK(q))'
    BY <1>3 DEF Inv, FrameOK, Sound
  <1>6. x.pc # "t_commit" /\ x.pc # "refused" BY DEF Moves
  <1>7. (\A q \in Procs : BonusKnown(q))'
    BY <1>3, <1>4, <1>6 DEF Inv, BonusKnown
  <1>8. OneClaim'
    BY <1>3, <1>6 DEF Inv, OneClaim, Claiming
  <1>9. FirstBloodIsFirst' BY <1>4 DEF Inv, FirstBloodIsFirst
  <1>10. NoCaptureLost'
    BY <1>3, <1>4, <1>6 DEF Inv, NoCaptureLost, At, Scored, Capture, SameKey
  <1> QED BY <1>2, <1>5, <1>7, <1>8, <1>9, <1>10

(* Going idle is a move. *)
LEMMA FinishMoves ==
  ASSUME NEW p \in Procs, Finish(p), UNCHANGED <<captures, bonus, first>>
  PROVE  Moves(p, Idle) /\ Sound(Idle)
  BY IdleFrame DEF Finish, Moves, Sound, Issuing, Submitting, Scoring

(* A jump to a statement that asks no more of the frame than the last one. *)
LEMMA JumpMoves ==
  ASSUME Inv, NEW p \in Procs, NEW pc \in PCs, Goto(p, pc), UNCHANGED <<captures, bonus, first>>,
         \/ proc[p].pc = "i_ban" /\ pc = "i_find"
         \/ proc[p].pc = "i_find" /\ pc = "i_insert"
         \/ proc[p].pc \in Submitting /\ pc \in Submitting
         \/ proc[p].pc = "t_insert" /\ pc = "t_bonus"
  PROVE  \E x : Moves(p, x) /\ Sound(x)
  <1> DEFINE x == [proc[p] EXCEPT !.pc = pc]
  <1>1. proc[p] \in Frames /\ FrameOK(p) BY DEF Inv, TypeOK
  <1>2. x \in Frames BY <1>1 DEF Frames
  <1>3. x.pc = pc /\ x.by = proc[p].by /\ x.flag = proc[p].flag /\ x.n = proc[p].n BY <1>1 DEF Frames
  <1>4. proc' = [proc EXCEPT ![p] = x] BY DEF Goto
  <1> HIDE DEF x
  <1>5. Moves(p, x) BY <1>2, <1>3, <1>4 DEF Moves, Submitting
  <1>6. Sound(x) BY <1>1, <1>3 DEF Sound, FrameOK, Issuing, Submitting, Scoring
  <1> QED BY <1>5, <1>6

(* The rest of the types. *)
RestOK ==
    /\ ev \in [status : {"Running", "Paused", "Finished"}, phase : {"Attack", "Pause"}]
    /\ round \in [Rounds -> {"none", "active", "paused", "completed"}]
    /\ banned \subseteq Teams /\ issued \subseteq Flags
    /\ adjusted \in Nat
    /\ used \in [pauses : Nat, bans : Nat, crashes : Nat]

(* A move that keeps the rest of the types keeps the invariant. *)
LEMMA MoveInv ==
  ASSUME Inv, NEW p \in Procs, NEW x, Moves(p, x), Sound(x), RestOK'
  PROVE  Inv'
  BY MoveKeeps DEF Inv, TypeOK, RestOK, Moves

(* Neither does a step in which no handler moves and no score changes. *)
LEMMA StillInv ==
  ASSUME Inv, UNCHANGED <<captures, bonus, first, proc>>, RestOK'
  PROVE  Inv'
  <1>1. (\A q \in Procs : FrameOK(q))' BY DEF Inv, FrameOK
  <1>2. (\A q \in Procs : BonusKnown(q))' BY DEF Inv, BonusKnown
  <1>3. OneClaim' BY DEF Inv, OneClaim, Claiming
  <1>4. FirstBloodIsFirst' BY DEF Inv, FirstBloodIsFirst
  <1>5. NoCaptureLost' BY DEF Inv, NoCaptureLost, At, Scored, Capture, SameKey
  <1> QED BY <1>1, <1>2, <1>3, <1>4, <1>5 DEF Inv, TypeOK, RestOK

---------------------------------------------------------------------------
(* issue_flag *)

LEMMA IssueEventInv == ASSUME Inv, NEW p \in Procs, NEW b \in Boxes, IssueEvent(p, b) PROVE Inv'
  <1> DEFINE x == [Idle EXCEPT !.pc = "i_round", !.by = b.team, !.flag = [round |-> 0, box |-> b]]
  <1>1. b.team \in Teams /\ 0 \in 0..RoundCount BY SubmissionConstants DEF Boxes
  <1>2. x \in Frames BY <1>1, IdleFrame DEF Frames, PCs
  <1>3. x.pc = "i_round" /\ x.flag.box = b BY IdleFrame DEF Frames
  <1>4. proc' = [proc EXCEPT ![p] = x] /\ UNCHANGED <<captures, bonus, first>> BY DEF IssueEvent
  <1>5. RestOK' BY DEF IssueEvent, Inv, TypeOK, RestOK
  <1> HIDE DEF x
  <1>6. Moves(p, x) BY <1>2, <1>3, <1>4 DEF Moves
  <1>7. Sound(x) BY <1>3 DEF Sound, Issuing, Submitting, Scoring
  <1> QED BY <1>5, <1>6, <1>7, MoveInv

LEMMA IssueRoundInv == ASSUME Inv, NEW p \in Procs, IssueRound(p) PROVE Inv'
  <1>1. RestOK' /\ UNCHANGED <<captures, bonus, first>> BY DEF IssueRound, Inv, TypeOK, RestOK
  <1>2. CASE Finish(p) BY <1>1, <1>2, FinishMoves, MoveInv
  <1>3. CASE \E n \in Current : proc' = [proc EXCEPT ![p].pc = "i_ban", ![p].flag.round = n]
    <2>1. PICK n \in Current : proc' = [proc EXCEPT ![p].pc = "i_ban", ![p].flag.round = n] BY <1>3
    <2> DEFINE f == [proc[p].flag EXCEPT !.round = n]
               x == [proc[p] EXCEPT !.pc = "i_ban", !.flag = f]
    <2>2. proc[p] \in Frames /\ proc[p].flag.box \in Boxes BY DEF IssueRound, At, Inv, TypeOK, FrameOK
    <2>3. n \in Rounds /\ n \in 0..RoundCount BY SubmissionConstants DEF Current, Rounds
    <2>4. f \in Flags BY <2>2, <2>3 DEF Frames, Flags
    <2>5. f.box \in Boxes BY <2>4 DEF Flags
    <2>6. f \in [round : 0..RoundCount, box : Boxes \cup {NoFlag.box}] BY <2>3, <2>4 DEF Flags, Rounds
    <2>7. proc' = [proc EXCEPT ![p] = x] BY <2>1
    <2> HIDE DEF f
    <2>8. x \in Frames /\ x.pc = "i_ban" /\ x.flag = f BY <2>2, <2>6 DEF Frames, PCs
    <2> HIDE DEF x
    <2>9. Moves(p, x) BY <1>1, <2>7, <2>8 DEF Moves
    <2>10. Sound(x) BY <2>4, <2>5, <2>8 DEF Sound, Issuing, Submitting, Scoring
    <2> QED BY <1>1, <2>9, <2>10, MoveInv
  <1> QED BY <1>2, <1>3 DEF IssueRound

LEMMA IssueBanInv == ASSUME Inv, NEW p \in Procs, IssueBan(p) PROVE Inv'
  <1>1. RestOK' /\ UNCHANGED <<captures, bonus, first>> BY DEF IssueBan, Inv, TypeOK, RestOK
  <1>2. CASE Finish(p) BY <1>1, <1>2, FinishMoves, MoveInv
  <1>3. CASE Goto(p, "i_find")
    <2>1. \E x : Moves(p, x) /\ Sound(x) BY <1>1, <1>3, JumpMoves DEF IssueBan, At, PCs
    <2> QED BY <1>1, <2>1, MoveInv
  <1> QED BY <1>2, <1>3 DEF IssueBan

LEMMA IssueFindInv == ASSUME Inv, NEW p \in Procs, IssueFind(p) PROVE Inv'
  <1>1. RestOK' /\ UNCHANGED <<captures, bonus, first>> BY DEF IssueFind, Inv, TypeOK, RestOK
  <1>2. CASE Finish(p) BY <1>1, <1>2, FinishMoves, MoveInv
  <1>3. CASE Goto(p, "i_insert")
    <2>1. \E x : Moves(p, x) /\ Sound(x) BY <1>1, <1>3, JumpMoves DEF IssueFind, At, PCs
    <2> QED BY <1>1, <2>1, MoveInv
  <1> QED BY <1>2, <1>3 DEF IssueFind

(* The flag inserted is one of a round and a box. *)
LEMMA IssueInsertInv == ASSUME Inv, NEW p \in Procs, IssueInsert(p) PROVE Inv'
  <1>1. proc[p].flag \in Flags BY DEF IssueInsert, At, Inv, FrameOK, Issuing
  <1>2. RestOK' BY <1>1 DEF IssueInsert, Inv, TypeOK, RestOK
  <1>3. Finish(p) /\ UNCHANGED <<captures, bonus, first>> BY DEF IssueInsert
  <1> QED BY <1>2, <1>3, FinishMoves, MoveInv

LEMMA IssueClashInv == ASSUME Inv, NEW p \in Procs, IssueClash(p) PROVE Inv'
  <1>1. RestOK' /\ Finish(p) /\ UNCHANGED <<captures, bonus, first>>
    BY DEF IssueClash, Inv, TypeOK, RestOK
  <1> QED BY <1>1, FinishMoves, MoveInv

---------------------------------------------------------------------------
(* submit_flag *)

LEMMA SubmitEventInv ==
  ASSUME Inv, NEW p \in Procs, NEW a \in Teams, NEW f \in issued, SubmitEvent(p, a, f) PROVE Inv'
  <1> DEFINE x == [Idle EXCEPT !.pc = "s_round", !.by = a, !.flag = f]
  <1>1. f \in Flags BY DEF Inv, TypeOK
  <1>2. f \in [round : 0..RoundCount, box : Boxes \cup {NoFlag.box}]
    BY <1>1, SubmissionConstants DEF Flags, Rounds
  <1>3. x \in Frames /\ x.pc = "s_round" /\ x.by = a /\ x.flag = f BY <1>2, IdleFrame DEF Frames, PCs
  <1>4. proc' = [proc EXCEPT ![p] = x] /\ UNCHANGED <<captures, bonus, first>> BY DEF SubmitEvent
  <1>5. RestOK' BY DEF SubmitEvent, Inv, TypeOK, RestOK
  <1> HIDE DEF x
  <1>6. Moves(p, x) BY <1>3, <1>4 DEF Moves
  <1>7. Sound(x) BY <1>1, <1>3 DEF Sound, Issuing, Submitting, Scoring
  <1> QED BY <1>5, <1>6, <1>7, MoveInv

(* The three checks of validate_submission go on or give up. *)
LEMMA ValidateInv ==
  ASSUME Inv, NEW p \in Procs, SubmitRound(p) \/ SubmitAttackerBan(p) \/ SubmitVictimBan(p) PROVE Inv'
  <1>1. RestOK' /\ UNCHANGED <<captures, bonus, first>>
    BY DEF SubmitRound, SubmitAttackerBan, SubmitVictimBan, Inv, TypeOK, RestOK
  <1>2. CASE Finish(p) BY <1>1, <1>2, FinishMoves, MoveInv
  <1>3. ASSUME NEW pc \in {"s_ban", "s_victim", "s_again"}, Goto(p, pc) PROVE Inv'
    <2>1. proc[p].pc \in Submitting
      BY DEF SubmitRound, SubmitAttackerBan, SubmitVictimBan, At, Submitting
    <2>2. pc \in PCs /\ pc \in Submitting BY DEF PCs, Submitting
    <2>3. \E x : Moves(p, x) /\ Sound(x) BY <1>1, <1>3, <2>1, <2>2, JumpMoves
    <2> QED BY <1>1, <2>3, MoveInv
  <1> QED BY <1>2, <1>3 DEF SubmitRound, SubmitAttackerBan, SubmitVictimBan

LEMMA SubmitRoundAgainInv == ASSUME Inv, NEW p \in Procs, SubmitRoundAgain(p) PROVE Inv'
  <1>1. RestOK' /\ UNCHANGED <<captures, bonus, first>> BY DEF SubmitRoundAgain, Inv, TypeOK, RestOK
  <1>2. CASE Finish(p) BY <1>1, <1>2, FinishMoves, MoveInv
  <1>3. CASE \E n \in Current : proc' = [proc EXCEPT ![p].pc = "t_insert", ![p].n = n]
    <2>1. PICK n \in Current : proc' = [proc EXCEPT ![p].pc = "t_insert", ![p].n = n] BY <1>3
    <2> DEFINE x == [proc[p] EXCEPT !.pc = "t_insert", !.n = n]
    <2>2. proc[p] \in Frames /\ proc[p].by \in Teams /\ proc[p].flag \in Flags
      BY DEF SubmitRoundAgain, At, Inv, TypeOK, FrameOK, Submitting
    <2>3. n \in Rounds /\ n \in 0..RoundCount BY SubmissionConstants DEF Current, Rounds
    <2>4. proc' = [proc EXCEPT ![p] = x] BY <2>1
    <2>5. x \in Frames /\ x.pc = "t_insert" /\ x.n = n /\ x.by = proc[p].by /\ x.flag = proc[p].flag
      BY <2>2, <2>3 DEF Frames, PCs
    <2> HIDE DEF x
    <2>6. Moves(p, x) BY <1>1, <2>4, <2>5 DEF Moves
    <2>7. Sound(x) BY <2>2, <2>3, <2>5 DEF Sound, Issuing, Submitting, Scoring
    <2> QED BY <1>1, <2>6, <2>7, MoveInv
  <1> QED BY <1>2, <1>3 DEF SubmitRoundAgain

(* A capture is refused only if one with its key is on the board. *)
LEMMA TxInsertInv == ASSUME Inv, NEW p \in Procs, TxInsert(p) PROVE Inv'
  <1>1. RestOK' /\ UNCHANGED <<captures, bonus, first>> BY DEF TxInsert, Inv, TypeOK, RestOK
  <1>2. CASE ~Scored(Capture(p))
    <2>1. Goto(p, "t_bonus") BY <1>2 DEF TxInsert
    <2>2. \E x : Moves(p, x) /\ Sound(x) BY <1>1, <2>1, JumpMoves DEF TxInsert, At, PCs
    <2> QED BY <1>1, <2>2, MoveInv
  <1>3. CASE Scored(Capture(p))
    <2> DEFINE x == [proc[p] EXCEPT !.pc = "refused"]
    <2>1. proc \in [Procs -> Frames] /\ proc[p] \in Frames /\ FrameOK(p) /\ proc[p].pc = "t_insert"
      BY DEF TxInsert, At, Inv, TypeOK
    <2>2. proc' = [proc EXCEPT ![p] = x] BY <1>3 DEF TxInsert, Goto
    <2>3. x \in Frames /\ x.pc = "refused" /\ x.n = proc[p].n /\ x.by = proc[p].by /\ x.flag = proc[p].flag
      BY <2>1 DEF Frames, PCs
    <2> HIDE DEF x
    <2>4. proc' \in [Procs -> Frames] /\ proc'[p] = x /\ \A q \in Procs : q # p => proc'[q] = proc[q]
      BY <2>1, <2>2, <2>3
    <2>5. FrameOK(p)' BY <2>1, <2>3, <2>4 DEF FrameOK, Issuing, Submitting, Scoring
    <2>6. (\A q \in Procs : FrameOK(q))' BY <2>4, <2>5 DEF Inv, FrameOK
    <2>7. (\A q \in Procs : BonusKnown(q))' BY <1>1, <2>3, <2>4 DEF Inv, BonusKnown
    <2>8. OneClaim' BY <2>3, <2>4 DEF Inv, OneClaim, Claiming
    <2>9. FirstBloodIsFirst' BY <1>1 DEF Inv, FirstBloodIsFirst
    <2>10. Scored(Capture(p))' BY <1>1, <1>3, <2>3, <2>4 DEF Scored, Capture, SameKey
    <2>11. NoCaptureLost'
      BY <1>1, <2>4, <2>10 DEF Inv, NoCaptureLost, At, Scored, Capture, SameKey
    <2> QED BY <1>1, <2>4, <2>6, <2>7, <2>8, <2>9, <2>11 DEF Inv, TypeOK, RestOK
  <1> QED BY <1>2, <1>3

(* The transaction decides on the bonus when no other is about to take it. *)
LEMMA TxBonusInv == ASSUME Inv, NEW p \in Procs, TxBonus(p) PROVE Inv'
  <1> DEFINE e == proc[p].flag.box.tpl
             g == IF bonus[e] = Nobody THEN "bonus" ELSE "nothing"
             x == [proc[p] EXCEPT !.pc = "t_commit", !.gets = g]
  <1>1. RestOK' /\ UNCHANGED <<captures, bonus, first>> BY DEF TxBonus, Inv, TypeOK, RestOK
  <1>2. proc \in [Procs -> Frames] /\ proc[p] \in Frames /\ FrameOK(p) /\ proc[p].pc = "t_bonus"
    BY DEF TxBonus, At, Inv, TypeOK
  <1>3. proc' = [proc EXCEPT ![p] = x] BY DEF TxBonus, Template
  <1>4. g = "bonus" <=> bonus[e] = Nobody OBVIOUS
  <1>5. g \in {"nothing", "bonus"} OBVIOUS
  <1>6. \A q \in Procs : Claiming(q) => proc[q].flag.box.tpl # e BY DEF TxBonus, Claims, Claiming, Template, At
  <1> HIDE DEF g
  <1>7. /\ x \in Frames /\ x.pc = "t_commit" /\ x.gets = g
        /\ x.n = proc[p].n /\ x.by = proc[p].by /\ x.flag = proc[p].flag
    BY <1>2, <1>5 DEF Frames, PCs
  <1> HIDE DEF x
  <1>8. proc' \in [Procs -> Frames] /\ proc'[p] = x /\ \A q \in Procs : q # p => proc'[q] = proc[q]
    BY <1>2, <1>3, <1>7
  <1>9. FrameOK(p)' BY <1>2, <1>7, <1>8 DEF FrameOK, Issuing, Submitting, Scoring
  <1>10. (\A q \in Procs : FrameOK(q))' BY <1>8, <1>9 DEF Inv, FrameOK
  <1>11. BonusKnown(p)' BY <1>1, <1>4, <1>7, <1>8 DEF BonusKnown
  <1>12. (\A q \in Procs : BonusKnown(q))' BY <1>1, <1>8, <1>11 DEF Inv, BonusKnown
  <1>13. OneClaim' BY <1>6, <1>7, <1>8 DEF Inv, OneClaim, Claiming
  <1>14. FirstBloodIsFirst' BY <1>1 DEF Inv, FirstBloodIsFirst
  <1>15. NoCaptureLost' BY <1>1, <1>7, <1>8 DEF Inv, NoCaptureLost, At, Scored, Capture, SameKey
  <1> QED BY <1>1, <1>8, <1>10, <1>12, <1>13, <1>14, <1>15 DEF Inv, TypeOK, RestOK

(* The commit that takes the bonus is the first of its template, and leaves *)
(* no transaction behind that still believes the bonus is free.            *)
LEMMA TxCommitInv == ASSUME Inv, NEW p \in Procs, TxCommit(p) PROVE Inv'
  <1> DEFINE e == proc[p].flag.box.tpl
  <1>1. RestOK' BY DEF TxCommit, Inv, TypeOK, RestOK
  <1>2. proc \in [Procs -> Frames] /\ proc[p] \in Frames /\ proc[p].pc = "t_commit"
    BY DEF TxCommit, At, Inv, TypeOK
  <1>3. proc[p].by \in Teams /\ proc[p].flag \in Flags /\ proc[p].n \in Rounds
    BY <1>2 DEF Inv, FrameOK, Scoring
  <1>4. e \in Templates /\ proc[p].flag.box \in Boxes /\ proc[p].flag.round \in Rounds
    BY <1>3 DEF Flags, Boxes
  <1>5. proc[p].by # Nobody BY <1>3, SubmissionConstants DEF Nobody
  <1>6. proc' = [proc EXCEPT ![p] = Idle] BY DEF TxCommit, Finish
  <1>7. proc' \in [Procs -> Frames] /\ proc'[p] = Idle /\ \A q \in Procs : q # p => proc'[q] = proc[q]
    BY <1>2, <1>6, IdleFrame
  <1>8. captures' = captures \cup {Capture(p)} BY DEF TxCommit
  <1>9. captures' \subseteq Captures BY <1>3, <1>4, <1>8 DEF Capture, Captures, Inv, TypeOK
  <1>10. bonus \in [Templates -> Teams \cup {Nobody}] /\ first = bonus
    BY DEF Inv, TypeOK, FirstBloodIsFirst
  <1>11. (\A q \in Procs : FrameOK(q))'
    BY <1>7, IdleFrame DEF Inv, FrameOK, Issuing, Submitting, Scoring
  <1>12. OneClaim' BY <1>7, IdleFrame DEF Inv, OneClaim, Claiming
  <1>13. NoCaptureLost'
    BY <1>7, <1>8, IdleFrame DEF Inv, NoCaptureLost, At, Scored, Capture, SameKey
  <1>14. CASE proc[p].gets = "bonus"
    <2>1. bonus[e] = Nobody BY <1>2, <1>14 DEF Inv, BonusKnown
    <2>2. bonus' = [bonus EXCEPT ![e] = proc[p].by] BY <1>14 DEF TxCommit, Template
    <2>3. first' = [first EXCEPT ![e] = proc[p].by] BY <1>10, <2>1 DEF TxCommit, Template
    <2>4. FirstBloodIsFirst' BY <1>10, <2>2, <2>3 DEF FirstBloodIsFirst
    <2>5. bonus' \in [Templates -> Teams \cup {Nobody}] BY <1>3, <1>10, <2>2
    <2>6. ASSUME NEW q \in Procs PROVE BonusKnown(q)'
      <3>1. CASE q = p BY <1>7, <3>1, IdleFrame DEF BonusKnown
      <3>2. CASE q # p
        <4>1. proc'[q] = proc[q] /\ BonusKnown(q) BY <1>7, <3>2 DEF Inv
        <4>2. SUFFICES ASSUME proc[q].pc = "t_commit" PROVE BonusKnown(q)' BY <4>1 DEF BonusKnown
        <4>3. proc[q].flag.box.tpl # e
          <5>1. SUFFICES ASSUME proc[q].flag.box.tpl = e PROVE FALSE OBVIOUS
          <5>2. proc[q].gets = "bonus" BY <4>1, <4>2, <5>1, <2>1 DEF BonusKnown
          <5> QED BY <5>1, <5>2, <4>2, <3>2, <1>2, <1>14 DEF Inv, OneClaim, Claiming
        <4>4. proc[q].flag.box.tpl \in Templates BY <4>2 DEF Inv, FrameOK, Scoring, Flags, Boxes
        <4>5. bonus'[proc[q].flag.box.tpl] = bonus[proc[q].flag.box.tpl] BY <1>10, <2>2, <4>3, <4>4
        <4> QED BY <4>1, <4>2, <4>5 DEF BonusKnown
      <3> QED BY <3>1, <3>2
    <2> QED BY <1>1, <1>7, <1>9, <1>11, <1>12, <1>13, <2>4, <2>5, <2>6
            DEF Inv, TypeOK, RestOK, FirstBloodIsFirst
  <1>15. CASE proc[p].gets # "bonus"
    <2>1. bonus[e] # Nobody BY <1>2, <1>15 DEF Inv, BonusKnown
    <2>2. bonus' = bonus /\ first' = first BY <1>10, <1>15, <2>1 DEF TxCommit, Template
    <2>3. (\A q \in Procs : BonusKnown(q))' BY <1>7, <2>2, IdleFrame DEF Inv, BonusKnown
    <2> QED BY <1>1, <1>7, <1>9, <1>10, <1>11, <1>12, <1>13, <2>2, <2>3
            DEF Inv, TypeOK, RestOK, FirstBloodIsFirst
  <1> QED BY <1>14, <1>15

LEMMA RefuseInv == ASSUME Inv, NEW p \in Procs, Refuse(p) PROVE Inv'
  <1>1. RestOK' /\ Finish(p) /\ UNCHANGED <<captures, bonus, first>> BY DEF Refuse, Inv, TypeOK, RestOK
  <1> QED BY <1>1, FinishMoves, MoveInv

---------------------------------------------------------------------------
(* The clock, administrators and the process *)

(* A handler that keeps nothing but the number of a round. *)
LEMMA PlainMove ==
  ASSUME NEW p \in Procs, NEW pc \in {"e_start", "pa_cas", "un_cas", "ad_write"}, NEW n \in 0..RoundCount,
         NEW x, x = [Idle EXCEPT !.pc = pc] \/ x = [Idle EXCEPT !.pc = pc, !.n = n],
         proc' = [proc EXCEPT ![p] = x], UNCHANGED <<captures, bonus, first>>
  PROVE  Moves(p, x) /\ Sound(x)
  <1>1. x \in Frames /\ x.pc = pc BY IdleFrame DEF Frames, PCs
  <1> QED BY <1>1 DEF Moves, Sound, Issuing, Submitting, Scoring

(* The round started next is one of the event's. *)
LEMMA NextRoundIsRound == NextRound \in 0..RoundCount
  <1>1. RoundCount \in Nat BY SubmissionConstants
  <1>2. NextRound \in Rounds \cup {0} BY DEF NextRound
  <1> QED BY <1>1, <1>2 DEF Rounds

LEMMA EndRoundInv == ASSUME Inv, NEW p \in Procs, NEW n \in Rounds, EndRound(p, n) PROVE Inv'
  <1>1. RestOK' /\ UNCHANGED <<captures, bonus, first>> BY DEF EndRound, Inv, TypeOK, RestOK
  <1>2. CASE n < RoundCount
    <2>1. n + 1 \in 0..RoundCount BY <1>2, SubmissionConstants DEF Rounds
    <2>2. proc' = [proc EXCEPT ![p] = [Idle EXCEPT !.pc = "e_start", !.n = n + 1]] BY <1>2 DEF EndRound
    <2>3. \E x : Moves(p, x) /\ Sound(x) BY <1>1, <2>1, <2>2, PlainMove
    <2> QED BY <1>1, <2>3, MoveInv
  <1>3. CASE ~(n < RoundCount)
    <2>1. Finish(p) BY <1>3 DEF EndRound, Finish
    <2> QED BY <1>1, <2>1, FinishMoves, MoveInv
  <1> QED BY <1>2, <1>3

LEMMA StartRoundInv == ASSUME Inv, NEW p \in Procs, StartRound(p) PROVE Inv'
  <1>1. RestOK' BY DEF StartRound, Inv, TypeOK, RestOK
  <1>2. Finish(p) /\ UNCHANGED <<captures, bonus, first>> BY DEF StartRound
  <1> QED BY <1>1, <1>2, FinishMoves, MoveInv

LEMMA PauseRoundInv == ASSUME Inv, NEW p \in Procs, PauseRound(p) PROVE Inv'
  <1>1. RestOK' BY DEF PauseRound, Inv, TypeOK, RestOK
  <1>2. 0 \in 0..RoundCount BY SubmissionConstants
  <1>4. \E x : Moves(p, x) /\ Sound(x) BY <1>2, PlainMove DEF PauseRound
  <1> QED BY <1>1, <1>4, MoveInv

LEMMA PauseCasInv == ASSUME Inv, NEW p \in Procs, PauseCas(p) PROVE Inv'
  <1>1. RestOK' BY DEF PauseCas, Inv, TypeOK, RestOK
  <1>2. Finish(p) /\ UNCHANGED <<captures, bonus, first>> BY DEF PauseCas
  <1> QED BY <1>1, <1>2, FinishMoves, MoveInv

LEMMA ResumeRoundInv == ASSUME Inv, NEW p \in Procs, ResumeRound(p) PROVE Inv'
  <1>1. RestOK' BY DEF ResumeRound, Inv, TypeOK, RestOK
  <1>2. 0 \in 0..RoundCount BY SubmissionConstants
  <1>4. \E x : Moves(p, x) /\ Sound(x) BY <1>2, PlainMove DEF ResumeRound
  <1> QED BY <1>1, <1>4, MoveInv

LEMMA ResumeCasInv == ASSUME Inv, NEW p \in Procs, ResumeCas(p) PROVE Inv'
  <1>1. RestOK' /\ UNCHANGED <<captures, bonus, first>> BY DEF ResumeCas, Inv, TypeOK, RestOK
  <1>2. CASE Finish(p) BY <1>1, <1>2, FinishMoves, MoveInv
  <1>3. CASE proc' = [proc EXCEPT ![p] = [Idle EXCEPT !.pc = "e_start", !.n = NextRound]]
    <2>1. \E x : Moves(p, x) /\ Sound(x) BY <1>1, <1>3, NextRoundIsRound, PlainMove
    <2> QED BY <1>1, <2>1, MoveInv
  <1> QED BY <1>2, <1>3 DEF ResumeCas, Finish

LEMMA AdjustReadInv == ASSUME Inv, NEW p \in Procs, AdjustRead(p) PROVE Inv'
  <1>1. RestOK' BY DEF AdjustRead, Inv, TypeOK, RestOK
  <1>2. 0 \in 0..RoundCount BY SubmissionConstants
  <1>4. \E x : Moves(p, x) /\ Sound(x) BY <1>2, PlainMove DEF AdjustRead
  <1> QED BY <1>1, <1>4, MoveInv

LEMMA AdjustWriteInv == ASSUME Inv, NEW p \in Procs, AdjustWrite(p) PROVE Inv'
  <1>1. RestOK' BY DEF AdjustWrite, Inv, TypeOK, RestOK
  <1>2. Finish(p) /\ UNCHANGED <<captures, bonus, first>> BY DEF AdjustWrite
  <1> QED BY <1>1, <1>2, FinishMoves, MoveInv

LEMMA AdminInv ==
  ASSUME Inv, FinishEvent \/ \E t \in Teams : BanTeam(t) \/ UnbanTeam(t) PROVE Inv'
  <1>1. RestOK' BY DEF FinishEvent, BanTeam, UnbanTeam, Inv, TypeOK, RestOK
  <1>2. UNCHANGED <<captures, bonus, first, proc>> BY DEF FinishEvent, BanTeam, UnbanTeam
  <1> QED BY <1>1, <1>2, StillInv

(* A crash rolls every transaction back and with it its claim to the bonus. *)
LEMMA RestartInv == ASSUME Inv, Restart PROVE Inv'
  <1> DEFINE S == {"none", "active", "paused", "completed"}
  <1>1. round \in [Rounds -> S] BY DEF Inv, TypeOK
  <1>2. round' \in [Rounds -> S] BY <1>1 DEF Restart
  <1>3. used' \in [pauses : Nat, bans : Nat, crashes : Nat] BY DEF Restart, Inv, TypeOK
  <1>4. RestOK' BY <1>2, <1>3 DEF Restart, Inv, TypeOK, RestOK
  <1>5. proc' = [p \in Procs |-> Idle] /\ UNCHANGED <<captures, bonus, first>> BY DEF Restart
  <1>6. proc' \in [Procs -> Frames] /\ \A p \in Procs : proc'[p].pc = "idle" BY <1>5, IdleFrame
  <1> QED BY <1>4, <1>5, <1>6 DEF Inv, TypeOK, RestOK, FrameOK, BonusKnown, OneClaim, Claiming,
             FirstBloodIsFirst, NoCaptureLost, At, Issuing, Submitting, Scoring

---------------------------------------------------------------------------
(* Every step, and the theorems *)

LEMMA NextInv == Inv /\ [Next]_vars => Inv'
  <1> SUFFICES ASSUME Inv, [Next]_vars PROVE Inv' OBVIOUS
  <1>1. ASSUME NEW p \in Procs, Handler(p) PROVE Inv'
    BY <1>1, IssueRoundInv, IssueBanInv, IssueFindInv, IssueInsertInv, IssueClashInv, ValidateInv,
       SubmitRoundAgainInv, TxInsertInv, TxBonusInv, TxCommitInv, RefuseInv, StartRoundInv, PauseCasInv,
       ResumeCasInv, AdjustWriteInv DEF Handler
  <1>2. ASSUME NEW p \in Procs, Request(p) PROVE Inv'
    BY <1>2, IssueEventInv, SubmitEventInv, EndRoundInv, PauseRoundInv, ResumeRoundInv, AdjustReadInv
       DEF Request
  <1>3. CASE FinishEvent \/ \E t \in Teams : BanTeam(t) \/ UnbanTeam(t) BY <1>3, AdminInv
  <1>4. CASE Restart BY <1>4, RestartInv
  <1>5. CASE UNCHANGED vars
    <2>1. RestOK' BY <1>5 DEF vars, Inv, TypeOK, RestOK
    <2>2. UNCHANGED <<captures, bonus, first, proc>> BY <1>5 DEF vars
    <2> QED BY <2>1, <2>2, StillInv
  <1> QED BY <1>1, <1>2, <1>3, <1>4, <1>5 DEF Next

(* The invariant holds in every reachable state. *)
THEOREM InvHolds == Spec => []Inv
  BY InitInv, NextInv, PTL DEF Spec

(* Rows and handlers keep their types. *)
THEOREM TypeCorrect == Spec => []TypeOK
  <1>1. Inv => TypeOK BY DEF Inv
  <1> QED BY <1>1, InvHolds, PTL

(* However many captures of a template race, wait for each other or are    *)
(* rolled back, process_submission gives the first-bonus to the one that   *)
(* commits first, and gives it with that commit.                           *)
THEOREM FirstBloodToTheFirst == Spec => []FirstBloodIsFirst
  <1>1. Inv => FirstBloodIsFirst BY DEF Inv
  <1> QED BY <1>1, InvHolds, PTL

(* process_submission answers "already scored" only to a capture whose     *)
(* key, of round, attacker and instance, is on the board.                  *)
THEOREM CapturesAreNotLost == Spec => []NoCaptureLost
  <1>1. Inv => NoCaptureLost BY DEF Inv
  <1> QED BY <1>1, InvHolds, PTL

---------------------------------------------------------------------------
(* Without overlap                                                         *)
(*                                                                         *)
(* submit_flag reads the round, the bans and the status of the event in    *)
(* statements of their own, before its transaction.  In the serial scene   *)
(* nothing changes between them, and what follows is what these checks     *)
(* are worth then.                                                         *)

Lone == \A p, q \in Procs : proc[p].pc # "idle" /\ proc[q].pc # "idle" => p = q

OneCurrent == \A m, n \in Current : m = n

(* What a handler has read of event, rounds, bans and board still holds. *)
Fresh(x) ==
    /\ x.pc \in Submitting \cup Scoring => ev.status = "Running"
    /\ x.pc \in {"s_ban", "s_victim", "s_again"} => x.flag.round \in Current
    /\ x.pc \in Scoring => x.n = x.flag.round
    /\ x.pc \in {"s_victim", "s_again"} \cup Scoring => x.by \notin banned
    /\ x.pc \in {"s_again"} \cup Scoring => x.flag.box.team \notin banned
    /\ x.pc \in {"t_bonus", "t_commit"} =>
          \A d \in captures : ~(d.round = x.n /\ d.by = x.by /\ d.box = x.flag.box)
    /\ x.pc = "e_start" => Current = {}
    /\ x.pc = "ad_write" => ev.status # "Finished"

SerialInv ==
    /\ Lone
    /\ OneCurrent
    /\ ev.status = "Paused" => ev.phase = "Pause"
    /\ FlagOfItsRound /\ FlagScoresOnce
    /\ \A p \in Procs : Fresh(proc[p])

Rules == SparesBanned /\ SparesPaused /\ KeepsBoard

SceneInv == Inv /\ (scene = "serial" => SerialInv)

SerialStep == SerialInv' /\ Rules

(* A handler that does nothing has read nothing. *)
LEMMA FreshIdle == ASSUME NEW x, x.pc = "idle" PROVE Fresh(x)'
  BY DEF Fresh, Submitting, Scoring

LEMMA FreshIdleNow == ASSUME NEW x, x.pc = "idle" PROVE Fresh(x)
  BY DEF Fresh, Submitting, Scoring

(* Where no score is written no rule is broken. *)
LEMMA BoardStays == ASSUME UNCHANGED <<captures, bonus, adjusted>> PROVE Rules
  BY DEF Rules, SparesBanned, SparesPaused, KeepsBoard, board

(* Rounds that stay as they are. *)
LEMMA CurrentSame == ASSUME UNCHANGED round PROVE Current' = Current
  BY DEF Current

(* The only handler in flight has become x. *)
LEMMA OneMoves ==
  ASSUME Inv, SerialInv, NEW p \in Procs, NEW x, proc' = [proc EXCEPT ![p] = x],
         \A q \in Procs : q # p => proc[q].pc = "idle",
         Fresh(x)', OneCurrent', ev'.status = "Paused" => ev'.phase = "Pause",
         FlagOfItsRound', FlagScoresOnce'
  PROVE  SerialInv'
  <1>1. proc'[p] = x /\ \A q \in Procs : q # p => proc'[q] = proc[q] BY DEF Inv, TypeOK
  <1>2. Lone' BY <1>1 DEF Lone
  <1>3. ASSUME NEW q \in Procs PROVE Fresh(proc[q])'
    <2>1. CASE q = p BY <1>1, <2>1
    <2>2. CASE q # p
      <3>1. proc'[q].pc = "idle" BY <1>1, <2>2
      <3> DEFINE y == proc'[q]
      <3>2. y.pc = "idle" BY <3>1
      <3>3. Fresh(proc[q])' BY <3>1 DEF Fresh, Submitting, Scoring
      <3> QED BY <3>3
    <2> QED BY <2>1, <2>2
  <1> QED BY <1>2, <1>3 DEF SerialInv

(* It moves on without writing anything others read. *)
LEMMA OneReads ==
  ASSUME Inv, SerialInv, NEW p \in Procs, NEW x, proc' = [proc EXCEPT ![p] = x],
         \A q \in Procs : q # p => proc[q].pc = "idle",
         UNCHANGED <<ev, round, banned, captures, bonus, adjusted>>, Fresh(x)
  PROVE  SerialStep
  <1>1. Current' = Current BY CurrentSame
  <1>2. Fresh(x)' BY <1>1 DEF Fresh
  <1>3. OneCurrent' BY <1>1 DEF OneCurrent, SerialInv
  <1>4. FlagOfItsRound' /\ FlagScoresOnce' BY DEF SerialInv, FlagOfItsRound, FlagScoresOnce
  <1>5. SerialInv' BY <1>2, <1>3, <1>4, OneMoves DEF SerialInv
  <1> QED BY <1>5, BoardStays DEF SerialStep

LEMMA OneFinishes ==
  ASSUME Inv, SerialInv, NEW p \in Procs, Finish(p), \A q \in Procs : q # p => proc[q].pc = "idle",
         UNCHANGED <<ev, round, banned, captures, bonus, adjusted>>
  PROVE  SerialStep
  BY IdleFrame, FreshIdleNow, OneReads DEF Finish

(* A jump: the frame is the same but for its place. *)
LEMMA OneJumps ==
  ASSUME Inv, SerialInv, NEW p \in Procs, NEW pc, Goto(p, pc), \A q \in Procs : q # p => proc[q].pc = "idle",
         UNCHANGED <<ev, round, banned, captures, bonus, adjusted>>,
         \A x : /\ x.pc = pc /\ x.by = proc[p].by /\ x.flag = proc[p].flag /\ x.n = proc[p].n
                => Fresh(x)
  PROVE  SerialStep
  <1> DEFINE x == [proc[p] EXCEPT !.pc = pc]
  <1>1. proc[p] \in Frames BY DEF Inv, TypeOK
  <1>2. x.pc = pc /\ x.by = proc[p].by /\ x.flag = proc[p].flag /\ x.n = proc[p].n BY <1>1 DEF Frames
  <1>3. proc' = [proc EXCEPT ![p] = x] BY DEF Goto
  <1> HIDE DEF x
  <1> QED BY <1>2, <1>3, OneReads

(* A handler in flight is the only one. *)
LEMMA OthersIdle ==
  ASSUME SerialInv, NEW p \in Procs, proc[p].pc # "idle"
  PROVE  /\ \A q \in Procs : q # p => proc[q].pc = "idle"
         /\ Fresh(proc[p])
  BY DEF SerialInv, Lone

LEMMA IssueSerial ==
  ASSUME Inv, SerialInv, NEW p \in Procs,
         IssueRound(p) \/ IssueBan(p) \/ IssueFind(p) \/ IssueInsert(p) \/ IssueClash(p)
  PROVE  SerialStep
  <1>1. proc[p].pc # "idle" /\ UNCHANGED <<ev, round, banned, captures, bonus, adjusted>>
    BY DEF IssueRound, IssueBan, IssueFind, IssueInsert, IssueClash, At
  <1>2. \A q \in Procs : q # p => proc[q].pc = "idle" BY <1>1, OthersIdle
  <1>3. CASE Finish(p) BY <1>1, <1>2, <1>3, OneFinishes
  <1>4. ASSUME NEW pc \in {"i_find", "i_insert"}, Goto(p, pc) PROVE SerialStep
    BY <1>1, <1>2, <1>4, OneJumps DEF Fresh, Submitting, Scoring
  <1>5. ASSUME NEW n \in Current, proc' = [proc EXCEPT ![p].pc = "i_ban", ![p].flag.round = n] PROVE SerialStep
    <2> DEFINE f == [proc[p].flag EXCEPT !.round = n]
               x == [proc[p] EXCEPT !.pc = "i_ban", !.flag = f]
    <2>1. proc[p] \in Frames BY DEF Inv, TypeOK
    <2>2. proc' = [proc EXCEPT ![p] = x] BY <1>5
    <2> HIDE DEF f
    <2>3. x.pc = "i_ban" BY <2>1 DEF Frames
    <2> HIDE DEF x
    <2>4. Fresh(x) BY <2>3 DEF Fresh, Submitting, Scoring
    <2> QED BY <1>1, <1>2, <2>2, <2>4, OneReads
  <1> QED BY <1>3, <1>4, <1>5 DEF IssueRound, IssueBan, IssueFind, IssueInsert, IssueClash

LEMMA SubmitSerial ==
  ASSUME Inv, SerialInv, NEW p \in Procs,
         SubmitRound(p) \/ SubmitAttackerBan(p) \/ SubmitVictimBan(p) \/ Refuse(p)
  PROVE  SerialStep
  <1>1. proc[p].pc # "idle" /\ UNCHANGED <<ev, round, banned, captures, bonus, adjusted>>
    BY DEF SubmitRound, SubmitAttackerBan, SubmitVictimBan, Refuse, At
  <1>2. Fresh(proc[p]) /\ \A q \in Procs : q # p => proc[q].pc = "idle" BY <1>1, OthersIdle
  <1>3. CASE Finish(p) BY <1>1, <1>2, <1>3, OneFinishes
  <1>4. CASE SubmitRound(p) /\ ~Finish(p)
    <2>1. Goto(p, "s_ban") /\ proc[p].flag.round \in Current /\ proc[p].pc = "s_round"
      BY <1>4 DEF SubmitRound, At
    <2>2. ev.status = "Running" BY <1>2, <2>1 DEF Fresh, Submitting
    <2> QED BY <1>1, <1>2, <2>1, <2>2, OneJumps DEF Fresh, Submitting, Scoring
  <1>5. CASE SubmitAttackerBan(p) /\ ~Finish(p)
    <2>1. Goto(p, "s_victim") /\ proc[p].by \notin banned /\ proc[p].pc = "s_ban"
      BY <1>5 DEF SubmitAttackerBan, At
    <2>2. ev.status = "Running" /\ proc[p].flag.round \in Current BY <1>2, <2>1 DEF Fresh, Submitting
    <2> QED BY <1>1, <1>2, <2>1, <2>2, OneJumps DEF Fresh, Submitting, Scoring
  <1>6. CASE SubmitVictimBan(p) /\ ~Finish(p)
    <2>1. Goto(p, "s_again") /\ proc[p].flag.box.team \notin banned /\ proc[p].pc = "s_victim"
      BY <1>6 DEF SubmitVictimBan, At
    <2>2. ev.status = "Running" /\ proc[p].flag.round \in Current /\ proc[p].by \notin banned
      BY <1>2, <2>1 DEF Fresh, Submitting
    <2> QED BY <1>1, <1>2, <2>1, <2>2, OneJumps DEF Fresh, Submitting, Scoring
  <1> QED BY <1>3, <1>4, <1>5, <1>6 DEF Refuse

(* The round read again is the flag's, since there is only one. *)
LEMMA SubmitRoundAgainSerial ==
  ASSUME Inv, SerialInv, NEW p \in Procs, SubmitRoundAgain(p)
  PROVE  SerialStep
  <1>1. proc[p].pc = "s_again" /\ UNCHANGED <<ev, round, banned, captures, bonus, adjusted>>
    BY DEF SubmitRoundAgain, At
  <1>2. Fresh(proc[p]) /\ \A q \in Procs : q # p => proc[q].pc = "idle" BY <1>1, OthersIdle
  <1>3. CASE Finish(p) BY <1>1, <1>2, <1>3, OneFinishes
  <1>4. ASSUME NEW n \in Current, proc' = [proc EXCEPT ![p].pc = "t_insert", ![p].n = n] PROVE SerialStep
    <2> DEFINE x == [proc[p] EXCEPT !.pc = "t_insert", !.n = n]
    <2>1. proc[p] \in Frames BY DEF Inv, TypeOK
    <2>2. proc' = [proc EXCEPT ![p] = x] BY <1>4
    <2>3. x.pc = "t_insert" /\ x.n = n /\ x.flag = proc[p].flag /\ x.by = proc[p].by BY <2>1 DEF Frames
    <2> HIDE DEF x
    <2>4. /\ ev.status = "Running" /\ proc[p].flag.round \in Current /\ proc[p].by \notin banned
          /\ proc[p].flag.box.team \notin banned
      BY <1>1, <1>2 DEF Fresh, Submitting
    <2>5. n = proc[p].flag.round BY <2>4 DEF SerialInv, OneCurrent
    <2>6. Fresh(x) BY <2>3, <2>4, <2>5 DEF Fresh, Submitting, Scoring
    <2> QED BY <1>1, <1>2, <2>2, <2>6, OneReads
  <1> QED BY <1>3, <1>4 DEF SubmitRoundAgain

(* The transaction goes on only with a capture that is not on the board. *)
LEMMA TxSerial ==
  ASSUME Inv, SerialInv, NEW p \in Procs, TxInsert(p) \/ TxBonus(p)
  PROVE  SerialStep
  <1>1. proc[p].pc \in {"t_insert", "t_bonus"} /\ UNCHANGED <<ev, round, banned, captures, bonus, adjusted>>
    BY DEF TxInsert, TxBonus, At
  <1>2. Fresh(proc[p]) /\ \A q \in Procs : q # p => proc[q].pc = "idle" BY <1>1, OthersIdle
  <1>3. /\ ev.status = "Running" /\ proc[p].n = proc[p].flag.round
        /\ proc[p].by \notin banned /\ proc[p].flag.box.team \notin banned
    BY <1>1, <1>2 DEF Fresh, Scoring
  <1>4. CASE TxInsert(p) /\ Scored(Capture(p))
    <2>1. Goto(p, "refused") BY <1>4 DEF TxInsert
    <2> QED BY <1>1, <1>2, <1>3, <2>1, OneJumps DEF Fresh, Submitting, Scoring
  <1>5. CASE TxInsert(p) /\ ~Scored(Capture(p))
    <2>1. Goto(p, "t_bonus") BY <1>5 DEF TxInsert
    <2>2. \A d \in captures : ~(d.round = proc[p].n /\ d.by = proc[p].by /\ d.box = proc[p].flag.box)
      BY <1>5 DEF Scored, SameKey, Capture
    <2> QED BY <1>1, <1>2, <1>3, <2>1, <2>2, OneJumps DEF Fresh, Submitting, Scoring
  <1>6. CASE TxBonus(p)
    <2> DEFINE g == IF bonus[proc[p].flag.box.tpl] = Nobody THEN "bonus" ELSE "nothing"
               x == [proc[p] EXCEPT !.pc = "t_commit", !.gets = g]
    <2>1. proc[p] \in Frames /\ proc[p].pc = "t_bonus" BY <1>6 DEF TxBonus, At, Inv, TypeOK
    <2>2. proc' = [proc EXCEPT ![p] = x] BY <1>6 DEF TxBonus, Template
    <2> HIDE DEF g
    <2>3. x.pc = "t_commit" /\ x.n = proc[p].n /\ x.flag = proc[p].flag /\ x.by = proc[p].by
      BY <2>1 DEF Frames
    <2> HIDE DEF x
    <2>4. \A d \in captures : ~(d.round = proc[p].n /\ d.by = proc[p].by /\ d.box = proc[p].flag.box)
      BY <1>2, <2>1 DEF Fresh
    <2>5. Fresh(x) BY <1>3, <2>3, <2>4 DEF Fresh, Submitting, Scoring
    <2> QED BY <1>1, <1>2, <2>2, <2>5, OneReads
  <1> QED BY <1>4, <1>5, <1>6

(* What is committed obeys the rules the handler checked. *)
LEMMA TxCommitSerial ==
  ASSUME Inv, SerialInv, NEW p \in Procs, TxCommit(p)
  PROVE  SerialStep
  <1>1. proc[p].pc = "t_commit" /\ UNCHANGED <<ev, round, banned, adjusted>> BY DEF TxCommit, At
  <1>2. Fresh(proc[p]) /\ \A q \in Procs : q # p => proc[q].pc = "idle" BY <1>1, OthersIdle
  <1>3. /\ ev.status = "Running" /\ proc[p].n = proc[p].flag.round
        /\ proc[p].by \notin banned /\ proc[p].flag.box.team \notin banned
    BY <1>1, <1>2 DEF Fresh, Scoring
  <1>4. \A d \in captures : ~(d.round = proc[p].n /\ d.by = proc[p].by /\ d.box = proc[p].flag.box)
    BY <1>1, <1>2 DEF Fresh
  <1> DEFINE c == Capture(p)
  <1>5. captures' = captures \cup {c} BY DEF TxCommit
  <1>6. c.round = proc[p].n /\ c.of = proc[p].n /\ c.by = proc[p].by /\ c.box = proc[p].flag.box
    BY <1>3 DEF Capture
  <1> HIDE DEF c
  <1>7. FlagOfItsRound' BY <1>5, <1>6 DEF SerialInv, FlagOfItsRound
  <1>8. \A d \in captures : ~(d.by = c.by /\ d.box = c.box /\ d.of = c.of)
    BY <1>4, <1>6 DEF SerialInv, FlagOfItsRound
  <1>9. FlagScoresOnce' BY <1>5, <1>8 DEF SerialInv, FlagScoresOnce
  <1>10. Rules BY <1>3, <1>5, <1>6 DEF Rules, SparesBanned, SparesPaused, KeepsBoard
  <1>11. OneCurrent' BY <1>1, CurrentSame DEF SerialInv, OneCurrent
  <1>12. proc' = [proc EXCEPT ![p] = Idle] BY DEF TxCommit, Finish
  <1>13. Fresh(Idle)' BY IdleFrame DEF Fresh, Submitting, Scoring, Idle
  <1>14. SerialInv' BY <1>1, <1>2, <1>7, <1>9, <1>11, <1>12, <1>13, OneMoves DEF SerialInv
  <1> QED BY <1>10, <1>14 DEF SerialStep

(* The board and the bans stay, the event and its rounds may change. *)
LEMMA OneWrites ==
  ASSUME Inv, SerialInv, NEW p \in Procs, NEW x, proc' = [proc EXCEPT ![p] = x],
         \A q \in Procs : q # p => proc[q].pc = "idle",
         UNCHANGED <<captures, bonus, adjusted>>,
         Fresh(x)', OneCurrent', ev'.status = "Paused" => ev'.phase = "Pause"
  PROVE  SerialStep
  <1>1. FlagOfItsRound' /\ FlagScoresOnce' BY DEF SerialInv, FlagOfItsRound, FlagScoresOnce
  <1>2. SerialInv' BY <1>1, OneMoves
  <1> QED BY <1>2, BoardStays DEF SerialStep

(* A round is started only where there is none. *)
LEMMA OneStarts ==
  ASSUME Inv, NEW n, Current = {}, round' = [round EXCEPT ![n] = "active"]
  PROVE  OneCurrent'
  <1>1. \A m \in Rounds : m # n => round'[m] = round[m] BY DEF Inv, TypeOK
  <1>2. \A m \in Rounds : m # n => round'[m] \notin {"active", "paused"} BY <1>1 DEF Current
  <1>3. \A m \in Current' : m = n BY <1>2 DEF Current
  <1> QED BY <1>3 DEF OneCurrent

LEMMA StartRoundSerial ==
  ASSUME Inv, SerialInv, NEW p \in Procs, StartRound(p)
  PROVE  SerialStep
  <1>1. proc[p].pc = "e_start" /\ UNCHANGED <<ev, banned, captures, bonus, adjusted>> BY DEF StartRound, At
  <1>2. Fresh(proc[p]) /\ \A q \in Procs : q # p => proc[q].pc = "idle" BY <1>1, OthersIdle
  <1>3. Current = {} BY <1>1, <1>2 DEF Fresh
  <1>4. OneCurrent'
    <2>1. CASE UNCHANGED round BY <2>1, CurrentSame DEF SerialInv, OneCurrent
    <2>2. CASE round' = [round EXCEPT ![proc[p].n] = "active"] BY <1>3, <2>2, OneStarts
    <2> QED BY <2>1, <2>2 DEF StartRound
  <1>5. proc' = [proc EXCEPT ![p] = Idle] BY DEF StartRound, Finish
  <1>6. Fresh(Idle)' BY DEF Fresh, Submitting, Scoring, Idle
  <1> QED BY <1>1, <1>2, <1>4, <1>5, <1>6, OneWrites DEF SerialInv

LEMMA PauseCasSerial ==
  ASSUME Inv, SerialInv, NEW p \in Procs, PauseCas(p)
  PROVE  SerialStep
  <1>1. proc[p].pc = "pa_cas" /\ UNCHANGED <<round, banned, captures, bonus, adjusted>> BY DEF PauseCas, At
  <1>2. \A q \in Procs : q # p => proc[q].pc = "idle" BY <1>1, OthersIdle
  <1>3. OneCurrent' BY <1>1, CurrentSame DEF SerialInv, OneCurrent
  <1>4. ev'.status = "Paused" => ev'.phase = "Pause" BY DEF PauseCas, SerialInv
  <1>5. proc' = [proc EXCEPT ![p] = Idle] BY DEF PauseCas, Finish
  <1>6. Fresh(Idle)' BY DEF Fresh, Submitting, Scoring, Idle
  <1> QED BY <1>1, <1>2, <1>3, <1>4, <1>5, <1>6, OneWrites

LEMMA ResumeCasSerial ==
  ASSUME Inv, SerialInv, NEW p \in Procs, ResumeCas(p)
  PROVE  SerialStep
  <1>1. proc[p].pc = "un_cas" /\ UNCHANGED <<round, banned, captures, bonus, adjusted>> BY DEF ResumeCas, At
  <1>2. \A q \in Procs : q # p => proc[q].pc = "idle" BY <1>1, OthersIdle
  <1>3. OneCurrent' /\ Current' = Current BY <1>1, CurrentSame DEF SerialInv, OneCurrent
  <1>4. ev'.status = "Paused" => ev'.phase = "Pause" BY DEF ResumeCas, SerialInv
  <1>5. CASE proc' = [proc EXCEPT ![p] = Idle]
    <2>1. Fresh(Idle)' BY DEF Fresh, Submitting, Scoring, Idle
    <2> QED BY <1>1, <1>2, <1>3, <1>4, <1>5, <2>1, OneWrites
  <1>6. CASE Current = {} /\ proc' = [proc EXCEPT ![p] = [Idle EXCEPT !.pc = "e_start", !.n = NextRound]]
    <2> DEFINE x == [Idle EXCEPT !.pc = "e_start", !.n = NextRound]
    <2>1. x.pc = "e_start" BY DEF Idle
    <2>2. proc' = [proc EXCEPT ![p] = x] BY <1>6
    <2> HIDE DEF x
    <2>3. PICK y : y = x OBVIOUS
    <2>4. Fresh(y)' BY <1>3, <1>6, <2>1, <2>3 DEF Fresh, Submitting, Scoring
    <2>5. proc' = [proc EXCEPT ![p] = y] BY <2>2, <2>3
    <2> QED BY <1>1, <1>2, <1>3, <1>4, <2>4, <2>5, OneWrites
  <1> QED BY <1>5, <1>6 DEF ResumeCas, Finish

LEMMA AdjustWriteSerial ==
  ASSUME Inv, SerialInv, NEW p \in Procs, AdjustWrite(p)
  PROVE  SerialStep
  <1>1. proc[p].pc = "ad_write" /\ UNCHANGED <<ev, round, banned, captures, bonus>> BY DEF AdjustWrite, At
  <1>2. Fresh(proc[p]) /\ \A q \in Procs : q # p => proc[q].pc = "idle" BY <1>1, OthersIdle
  <1>3. ev.status # "Finished" BY <1>1, <1>2 DEF Fresh
  <1>4. OneCurrent' BY <1>1, CurrentSame DEF SerialInv, OneCurrent
  <1>5. proc' = [proc EXCEPT ![p] = Idle] BY DEF AdjustWrite, Finish
  <1>6. Fresh(Idle)' BY DEF Fresh, Submitting, Scoring, Idle
  <1>7. FlagOfItsRound' /\ FlagScoresOnce' BY <1>1 DEF SerialInv, FlagOfItsRound, FlagScoresOnce
  <1>8. SerialInv' BY <1>1, <1>2, <1>4, <1>5, <1>6, <1>7, OneMoves DEF SerialInv
  <1>9. Rules BY <1>1, <1>3 DEF Rules, SparesBanned, SparesPaused, KeepsBoard
  <1> QED BY <1>8, <1>9 DEF SerialStep

(* A request that only reads, taken up while nothing is in flight. *)
LEMMA AsksSerial ==
  ASSUME Inv, SerialInv, Quiet, NEW p \in Procs,
         \/ \E b \in Boxes : IssueEvent(p, b)
         \/ \E a \in Teams, f \in issued : SubmitEvent(p, a, f)
         \/ AdjustRead(p)
  PROVE  SerialStep
  <1>1. \A q \in Procs : q # p => proc[q].pc = "idle" BY DEF Quiet, At
  <1>2. ASSUME NEW b \in Boxes, IssueEvent(p, b) PROVE SerialStep
    <2> DEFINE x == [Idle EXCEPT !.pc = "i_round", !.by = b.team, !.flag = [round |-> 0, box |-> b]]
    <2>1. proc' = [proc EXCEPT ![p] = x] /\ UNCHANGED <<ev, round, banned, captures, bonus, adjusted>>
      BY <1>2 DEF IssueEvent
    <2>2. x.pc = "i_round" BY DEF Idle
    <2> HIDE DEF x
    <2>3. Fresh(x) BY <2>2 DEF Fresh, Submitting, Scoring
    <2> QED BY <1>1, <2>1, <2>3, OneReads
  <1>3. ASSUME NEW a \in Teams, NEW f \in issued, SubmitEvent(p, a, f) PROVE SerialStep
    <2> DEFINE x == [Idle EXCEPT !.pc = "s_round", !.by = a, !.flag = f]
    <2>1. proc' = [proc EXCEPT ![p] = x] /\ UNCHANGED <<ev, round, banned, captures, bonus, adjusted>>
      BY <1>3 DEF SubmitEvent
    <2>2. x.pc = "s_round" BY DEF Idle
    <2> HIDE DEF x
    <2>3. ev.status = "Running" BY <1>3 DEF SubmitEvent, Playing, SerialInv
    <2>4. Fresh(x) BY <2>2, <2>3 DEF Fresh, Submitting, Scoring
    <2> QED BY <1>1, <2>1, <2>4, OneReads
  <1>4. CASE AdjustRead(p)
    <2> DEFINE x == [Idle EXCEPT !.pc = "ad_write"]
    <2>1. /\ proc' = [proc EXCEPT ![p] = x] /\ UNCHANGED <<ev, round, banned, captures, bonus, adjusted>>
          /\ ev.status # "Finished"
      BY <1>4 DEF AdjustRead
    <2>2. x.pc = "ad_write" BY DEF Idle
    <2> HIDE DEF x
    <2>3. Fresh(x) BY <2>1, <2>2 DEF Fresh, Submitting, Scoring
    <2> QED BY <1>1, <2>1, <2>3, OneReads
  <1> QED BY <1>2, <1>3, <1>4

(* The round that ends was the only one there was. *)
LEMMA EndRoundSerial ==
  ASSUME Inv, SerialInv, Quiet, NEW p \in Procs, NEW n \in Rounds, EndRound(p, n)
  PROVE  SerialStep
  <1>1. \A q \in Procs : q # p => proc[q].pc = "idle" BY DEF Quiet, At
  <1>2. UNCHANGED <<ev, banned, captures, bonus, adjusted>> /\ round' = [round EXCEPT ![n] = "completed"]
    BY DEF EndRound
  <1>3. Current' = {}
    <2>1. n \in Current BY DEF EndRound, Current
    <2>2. \A m \in Rounds : m # n => m \notin Current BY <2>1 DEF SerialInv, OneCurrent
    <2>3. round'[n] = "completed" /\ \A m \in Rounds : m # n => round'[m] = round[m]
      BY <1>2 DEF Inv, TypeOK
    <2> QED BY <2>2, <2>3 DEF Current
  <1>4. OneCurrent' BY <1>3 DEF OneCurrent
  <1>5. PICK x : proc' = [proc EXCEPT ![p] = x] /\ x.pc \in {"idle", "e_start"}
    <2>1. CASE n < RoundCount
      <3> DEFINE x == [Idle EXCEPT !.pc = "e_start", !.n = n + 1]
      <3>1. proc' = [proc EXCEPT ![p] = x] BY <2>1 DEF EndRound
      <3>2. x.pc = "e_start" BY DEF Idle
      <3> HIDE DEF x
      <3> QED BY <3>1, <3>2
    <2>2. CASE ~(n < RoundCount)
      <3>1. proc' = [proc EXCEPT ![p] = Idle] BY <2>2 DEF EndRound
      <3> QED BY <3>1, IdleFrame
    <2> QED BY <2>1, <2>2
  <1>6. Fresh(x)' BY <1>3, <1>5 DEF Fresh, Submitting, Scoring
  <1> QED BY <1>1, <1>2, <1>4, <1>5, <1>6, OneWrites DEF SerialInv

(* Pausing and resuming a round leave it the current one. *)
LEMMA FreezeSerial ==
  ASSUME Inv, SerialInv, Quiet, NEW p \in Procs, PauseRound(p) \/ ResumeRound(p)
  PROVE  SerialStep
  <1>1. \A q \in Procs : q # p => proc[q].pc = "idle" BY DEF Quiet, At
  <1>2. UNCHANGED <<ev, banned, captures, bonus, adjusted>> BY DEF PauseRound, ResumeRound
  <1>3. \A n \in Rounds : round'[n] = round[n] \/ (round[n] \in {"active", "paused"} /\ round'[n] \in {"active", "paused"})
    BY DEF PauseRound, ResumeRound
  <1>4. Current' = Current BY <1>3 DEF Current
  <1>5. OneCurrent' BY <1>4 DEF OneCurrent, SerialInv
  <1>6. PICK x : proc' = [proc EXCEPT ![p] = x] /\ x.pc \in {"pa_cas", "un_cas"}
    <2>1. ASSUME NEW pc \in {"pa_cas", "un_cas"}, proc' = [proc EXCEPT ![p] = [Idle EXCEPT !.pc = pc]]
          PROVE  \E x : proc' = [proc EXCEPT ![p] = x] /\ x.pc \in {"pa_cas", "un_cas"}
      <3> DEFINE x == [Idle EXCEPT !.pc = pc]
      <3>1. proc' = [proc EXCEPT ![p] = x] BY <2>1
      <3>2. x.pc = pc BY DEF Idle
      <3> HIDE DEF x
      <3> QED BY <3>1, <3>2
    <2> QED BY <2>1 DEF PauseRound, ResumeRound
  <1>7. Fresh(x)' BY <1>6 DEF Fresh, Submitting, Scoring
  <1> QED BY <1>1, <1>2, <1>5, <1>6, <1>7, OneWrites DEF SerialInv

(* A step of the administrators or a restart: nothing is in flight after it. *)
LEMMA AllIdle ==
  ASSUME Inv, SerialInv, \A q \in Procs : proc'[q].pc = "idle", UNCHANGED <<captures, bonus, adjusted>>,
         OneCurrent', ev'.status = "Paused" => ev'.phase = "Pause"
  PROVE  SerialStep
  <1>1. FlagOfItsRound' /\ FlagScoresOnce' BY DEF SerialInv, FlagOfItsRound, FlagScoresOnce
  <1>2. Lone' BY DEF Lone
  <1>3. (\A q \in Procs : Fresh(proc[q]))' BY DEF Fresh, Submitting, Scoring
  <1>4. SerialInv' BY <1>1, <1>2, <1>3 DEF SerialInv
  <1> QED BY <1>4, BoardStays DEF SerialStep

LEMMA AdminSerial ==
  ASSUME Inv, SerialInv, Quiet, FinishEvent \/ \E t \in Teams : BanTeam(t) \/ UnbanTeam(t)
  PROVE  SerialStep
  <1>1. UNCHANGED <<round, captures, bonus, adjusted, proc>> BY DEF FinishEvent, BanTeam, UnbanTeam
  <1>2. \A q \in Procs : proc'[q].pc = "idle" BY <1>1 DEF Quiet, At
  <1>3. OneCurrent' BY <1>1, CurrentSame DEF OneCurrent, SerialInv
  <1>4. ev'.status = "Paused" => ev'.phase = "Pause"
    <2>1. CASE FinishEvent
      <3>1. ev' = [ev EXCEPT !.status = "Finished"]
            /\ ev \in [status : {"Running", "Paused", "Finished"}, phase : {"Attack", "Pause"}]
        BY <2>1 DEF FinishEvent, Inv, TypeOK
      <3> QED BY <3>1
    <2>2. CASE UNCHANGED ev BY <2>2 DEF SerialInv
    <2> QED BY <2>1, <2>2 DEF BanTeam, UnbanTeam
  <1> QED BY <1>1, <1>2, <1>3, <1>4, AllIdle

LEMMA RestartSerial ==
  ASSUME Inv, SerialInv, Restart
  PROVE  SerialStep
  <1>1. UNCHANGED <<ev, captures, bonus, adjusted>> BY DEF Restart
  <1>2. \A q \in Procs : proc'[q].pc = "idle" BY IdleFrame DEF Restart
  <1>3. OneCurrent'
    <2>1. CASE UNCHANGED round BY <2>1, CurrentSame DEF OneCurrent, SerialInv
    <2>2. CASE Current = {} /\ round' = [round EXCEPT ![NextRound] = "active"] BY <2>2, OneStarts
    <2> QED BY <2>1, <2>2 DEF Restart
  <1> QED BY <1>1, <1>2, <1>3, AllIdle DEF SerialInv

(* Every step of the serial scene. *)
LEMMA SerialNext ==
  ASSUME Inv, SerialInv, SceneNext, scene = "serial"
  PROVE  SerialStep
  <1>1. ASSUME NEW p \in Procs, Handler(p) PROVE SerialStep
    BY <1>1, IssueSerial, SubmitSerial, SubmitRoundAgainSerial, TxSerial, TxCommitSerial, StartRoundSerial,
       PauseCasSerial, ResumeCasSerial, AdjustWriteSerial DEF Handler
  <1>2. ASSUME NEW p \in Procs, Request(p), Quiet PROVE SerialStep
    BY <1>2, AsksSerial, EndRoundSerial, FreezeSerial DEF Request
  <1> QED BY <1>1, <1>2, AdminSerial, RestartSerial DEF SceneNext, Admits

LEMMA SceneStillSerial ==
  ASSUME SerialInv, UNCHANGED vars
  PROVE  SerialStep
  <1>1. UNCHANGED <<ev, round, banned, captures, bonus, adjusted, proc>> BY DEF vars
  <1>2. SerialInv' BY <1>1 DEF SerialInv, Lone, OneCurrent, Current, FlagOfItsRound, FlagScoresOnce, Fresh
  <1> QED BY <1>1, <1>2, BoardStays DEF SerialStep

LEMMA SceneStep ==
  ASSUME SceneInv, [SceneNext]_<<scene, vars>>
  PROVE  SceneInv' /\ (scene = "serial" => Rules)
  <1>1. UNCHANGED scene BY DEF SceneNext
  <1>2. [Next]_vars BY DEF SceneNext, Next
  <1>3. Inv' BY <1>2, NextInv DEF SceneInv
  <1>4. ASSUME scene = "serial" PROVE SerialStep
    <2>1. Inv /\ SerialInv BY <1>4 DEF SceneInv
    <2> QED BY <1>4, <2>1, SerialNext, SceneStillSerial
  <1> QED BY <1>1, <1>3, <1>4 DEF SceneInv, SerialStep

LEMMA SceneInitInv == SceneInit => SceneInv
  <1> SUFFICES ASSUME SceneInit PROVE SceneInv OBVIOUS
  <1>1. Inv BY InitInv DEF SceneInit
  <1>2. \A p \in Procs : proc[p].pc = "idle" BY IdleFrame DEF SceneInit, Init
  <1>3. OneCurrent
    <2>1. \A n \in Rounds : n # 1 => round[n] = "none" BY DEF SceneInit, Init
    <2>2. \A n \in Current : n = 1 BY <2>1 DEF Current
    <2> QED BY <2>2 DEF OneCurrent
  <1>4. captures = {} /\ ev.status = "Running" BY DEF SceneInit, Init
  <1>5. (\A q \in Procs : Fresh(proc[q])) BY <1>2 DEF Fresh, Submitting, Scoring
  <1>6. SerialInv BY <1>2, <1>3, <1>4, <1>5 DEF SerialInv, Lone, FlagOfItsRound, FlagScoresOnce
  <1> QED BY <1>1, <1>6 DEF SceneInv

(* What is in flight has read nothing stale, in every reachable state. *)
THEOREM SceneInvHolds == SceneSpec => []SceneInv
  BY SceneInitInv, SceneStep, PTL DEF SceneSpec

(* With one request at a time, submit_flag pays for a flag in the flag's   *)
(* own round only, and pays each team for it once: across pauses, resumed  *)
(* and restarted rounds, and crashes of the process.                       *)
THEOREM FlagsScoreOnce == SceneSpec => []FlagsCountOnce
  <1>1. SceneInv => FlagsCountOnce BY DEF SceneInv, SerialInv, FlagsCountOnce
  <1> QED BY <1>1, SceneInvHolds, PTL

(* With one request at a time, submit_flag scores nothing by or from a     *)
(* banned team and nothing while the event is paused, and neither it nor   *)
(* record_adjustment changes the board of a finished event.                *)
THEOREM RulesStand == SceneSpec => RulesHold
  <1>1. SceneInv /\ [SceneNext]_<<scene, vars>> =>
           [scene = "serial" => SparesBanned /\ SparesPaused /\ KeepsBoard]_<<scene, vars>>
    BY SceneStep DEF Rules
  <1> QED BY <1>1, SceneInvHolds, PTL DEF SceneSpec, RulesHold
=============================================================================

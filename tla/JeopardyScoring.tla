-------------------------- MODULE JeopardyScoring --------------------------
(***************************************************************************)
(* Flag submissions of a Jeopardy competition: score_in_transaction with   *)
(* its advisory lock per challenge, the dynamic score, the points of users *)
(* or teams, the solves they come from, and the scoreboard and the trend   *)
(* that show them.  Composed with the roster, whose rows carry the points. *)
(***************************************************************************)
EXTENDS EventRoster, Sequences, SequencesExt

CONSTANTS Challenges,
          Worth      \* dynamic_score: points by base points and number of solves before

VARIABLES chal,      \* jeopardy_event_challenges: in the event, base points, hidden
          holder,    \* who holds the advisory lock of a challenge
          solves     \* jeopardy_challenge_solves in order of insertion

vars == <<conf, clock, open, users, teams, member, founded, removed, locked, thr, requests,
          chal, holder, solves>>

Bases == DOMAIN Worth
NoChallenge == [is |-> FALSE, base |-> 0, hidden |-> FALSE]

Init ==
    /\ RosterInit
    /\ chal = [c \in Challenges |-> [is |-> TRUE, base |-> CHOOSE b \in Bases : TRUE, hidden |-> FALSE]]
    /\ holder = [c \in Challenges |-> NoThread]
    /\ solves = <<>>

\* Solves of a deleted team go with it; those of a removed user stay.
Cascade == solves' = SelectSeq(solves, LAMBDA s : s.team = "none" \/ teams'[s.team].is)
Roster == RosterNext /\ Cascade /\ UNCHANGED <<chal, holder>>

----------------------------------------------------------------------------
(* event_challenges.rs, administrators *)

Edit(t, c, row) ==
    /\ Asks(t) /\ IsAdmin(t) /\ chal[c] # row /\ chal' = [chal EXCEPT ![c] = row]
    /\ UNCHANGED <<conf, clock, open, users, teams, member, founded, removed, locked, thr, holder, solves>>
\* validate_points: positive, finite and bounded.
ValidatePoints(b) == b \in Bases
AddChallenge(t) ==
    \E c \in Challenges, b \in Bases :
        ValidatePoints(b) /\ ~chal[c].is /\ Edit(t, c, [is |-> TRUE, base |-> b, hidden |-> FALSE])
RemoveChallenge(t) == \E c \in Challenges : Edit(t, c, NoChallenge)
SetChallengePoints(t) ==
    \E c \in Challenges, b \in Bases :
        ValidatePoints(b) /\ chal[c].is /\ Edit(t, c, [chal[c] EXCEPT !.base = b])
HiddenChallenges(t) == \E c \in Challenges : chal[c].is /\ Edit(t, c, [chal[c] EXCEPT !.hidden = TRUE])
OpenChallenges(t) == \E c \in Challenges : chal[c].is /\ Edit(t, c, [chal[c] EXCEPT !.hidden = FALSE])

----------------------------------------------------------------------------
(* submission_service.rs *)

\* resolve_participant: the team of a user, in team mode only.
ResolveParticipant(u) == IF conf.mode = "team" THEN member[u].team ELSE "none"

ShouldOngoing == clock = "ongoing"
ShouldUserJoined(u) == users[u].is

\* A correct flag of a running instance, up to the advisory lock: the user
\* joined, the event is ongoing, the challenge is published, the team known.
Submit(t, u, c) ==
    /\ Asks(t) /\ Player(t)
    /\ ShouldUserJoined(u) /\ ShouldOngoing
    /\ conf.mode = "team" => member[u] # NoTeam
    /\ chal[c].is /\ ~chal[c].hidden
    /\ thr' = [thr EXCEPT ![t] = [Idle EXCEPT !.pc = "lock", !.op = c, !.user = u,
                                              !.team = ResolveParticipant(u)]]
    /\ UNCHANGED <<conf, clock, open, users, teams, member, founded, removed, locked, chal, holder, solves>>

\* Solves of a challenge, and those of the same user or team among them.
SolvedCount(c) == Len(SelectSeq(solves, LAMBDA s : s.chal = c))
SameSubject(s, u, g) == IF g = "none" THEN s.user = u ELSE s.team = g
AlreadySolved(c, u, g) == \E i \in DOMAIN solves : solves[i].chal = c /\ SameSubject(solves[i], u, g)
DynamicScore(base, n) == Worth[base][n]

\* Under the lock: a second solve ends here, else the points are computed.
LockEventChallenge(t) == LET c == thr[t].op IN
    /\ At(t, "lock") /\ holder[c] = NoThread
    /\ \/ /\ AlreadySolved(c, thr[t].user, thr[t].team) \/ ~chal[c].is
          /\ thr' = [thr EXCEPT ![t] = Idle] /\ UNCHANGED holder
       \/ /\ ~AlreadySolved(c, thr[t].user, thr[t].team) /\ chal[c].is
          /\ thr' = [thr EXCEPT ![t].pc = "award", ![t].got = DynamicScore(chal[c].base, SolvedCount(c)),
                                ![t].read = {chal[c].base}]
          /\ holder' = [holder EXCEPT ![c] = t]
    /\ UNCHANGED <<conf, clock, open, users, teams, member, founded, removed, locked, requests, chal, solves>>

\* The rows a winner is paid to: not banned, and still there.
AwardUserPoints(u, got) ==
    users[u].is /\ ~users[u].banned /\ users' = [users EXCEPT ![u].points = @ + got] /\ UNCHANGED teams
AwardTeamPoints(g, got) ==
    teams[g].is /\ ~teams[g].banned /\ teams' = [teams EXCEPT ![g].points = @ + got] /\ UNCHANGED users
Award(t) == IF thr[t].team = "none" THEN AwardUserPoints(thr[t].user, thr[t].got)
            ELSE AwardTeamPoints(thr[t].team, thr[t].got)
Payable(t) == IF thr[t].team = "none" THEN users[thr[t].user].is /\ ~users[thr[t].user].banned
              ELSE teams[thr[t].team].is /\ ~teams[thr[t].team].banned

\* The unique indexes of solves: one per challenge and user, or team.
InsertSolve(t) ==
    solves' = Append(solves, [user |-> thr[t].user, team |-> thr[t].team, chal |-> thr[t].op,
                              got |-> thr[t].got, base |-> CHOOSE b \in thr[t].read : TRUE])

Unlock(t) == holder' = [c \in Challenges |-> IF holder[c] = t THEN NoThread ELSE holder[c]]

\* Mutant: points are kept when the solve is not inserted.
AwardBeforeUniqueCheck(t) ==
    /\ At(t, "award")
    /\ \/ /\ Payable(t) /\ Award(t)
          /\ IF AlreadySolved(thr[t].op, thr[t].user, thr[t].team) \/ ~chal[thr[t].op].is
             THEN UNCHANGED solves ELSE InsertSolve(t)
       \/ ~Payable(t) /\ UNCHANGED <<users, teams, solves>>
    /\ thr' = [thr EXCEPT ![t] = Idle] /\ Unlock(t)
    /\ UNCHANGED <<conf, clock, open, member, founded, removed, locked, requests, chal>>

\* Points and solve in one transaction: no payable row or a unique
\* violation rolls both back.
ScoreInTransaction(t) ==
    /\ At(t, "award")
    /\ \/ /\ Payable(t) /\ ~AlreadySolved(thr[t].op, thr[t].user, thr[t].team)
          /\ Award(t) /\ InsertSolve(t)
       \/ /\ ~Payable(t) \/ AlreadySolved(thr[t].op, thr[t].user, thr[t].team)
          /\ UNCHANGED <<users, teams, solves>>
    /\ thr' = [thr EXCEPT ![t] = Idle] /\ Unlock(t)
    /\ UNCHANGED <<conf, clock, open, member, founded, removed, locked, requests, chal>>

Next ==
    \/ Roster
    \/ \E t \in Threads :
         \/ AddChallenge(t) \/ RemoveChallenge(t) \/ SetChallengePoints(t)
         \/ HiddenChallenges(t) \/ OpenChallenges(t)
         \/ \E u \in Users, c \in Challenges : Submit(t, u, c)
         \/ LockEventChallenge(t) \/ ScoreInTransaction(t)

Spec == Init /\ [][Next]_vars

----------------------------------------------------------------------------
(* scoreboard.rs and trend.rs *)

OwnerSolves(u, g) == SelectSeq(solves, LAMBDA s : SameSubject(s, u, g))

\* A line of the scoreboard: score from the counter, solved_count from the solves.
AssembleIndividual(u) == [score |-> users[u].points, solved |-> Len(OwnerSolves(u, "none"))]
AssembleTeam(g) == [score |-> teams[g].points, solved |-> Len(OwnerSolves("none", g))]
\* The last point of a trend.
BuildPoints(seq) == FoldSeq(LAMBDA s, n : s.got + n, 0, seq)
IndividualTrend(u) == BuildPoints(OwnerSolves(u, "none"))
TeamTrend(g) == BuildPoints(OwnerSolves("none", g))

TypeOK ==
    /\ RosterTypeOK
    /\ \A c \in Challenges : chal[c].is \in BOOLEAN /\ chal[c].base \in Bases \cup {0}
    /\ \A i \in DOMAIN solves : solves[i].user \in Users /\ solves[i].chal \in Challenges
    /\ \A c \in Challenges : holder[c] # NoThread => thr[holder[c]].op = c

(* "solved_count and score must be counted alike" (scoreboard.rs): the     *)
(* score on the scoreboard is the sum the trend ends with.                 *)
ScoreMatchesSolves ==
    /\ conf.mode = "individual" => \A u \in Enrolled : AssembleIndividual(u).score = IndividualTrend(u)
    /\ conf.mode = "team" =>
         \A g \in Teams : teams[g].is => AssembleTeam(g).score = TeamTrend(g)

(* ... but for users that an administrator removed and added again.        *)
ScoreIsSum ==
    /\ conf.mode = "individual" =>
         \A u \in Enrolled \ removed : AssembleIndividual(u).score = IndividualTrend(u)
    /\ conf.mode = "team" => ScoreMatchesSolves

(* The n-th solve of a challenge is worth the n-th score: submissions that *)
(* overlap get different ones, in the order of their solves.  (Where teams *)
(* are deleted their solves no longer count.)                              *)
EarlierIsWorthMore ==
    conf.mode = "individual" =>
    \A i, j \in DOMAIN solves :
        i < j /\ solves[i].chal = solves[j].chal /\ solves[i].base = solves[j].base
          => solves[i].got > solves[j].got
=============================================================================

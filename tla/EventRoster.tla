---------------------------- MODULE EventRoster ----------------------------
(***************************************************************************)
(* Enrollments, teams and memberships of one competition: what players do  *)
(* before the start (under the row lock of the event in team mode, without *)
(* a lock in individual mode) and what administrators do at any time       *)
(* (transactions without that lock).  event_team_members references both   *)
(* the team and the enrollment ON DELETE CASCADE and is unique per event   *)
(* and user, as are enrollments.                                           *)
(***************************************************************************)
EXTENDS Naturals, FiniteSets

CONSTANTS Users, Teams, Threads,
          Settings   \* mode, threads in use, those of administrators, bound on requests;
                     \* the roster and the time at the beginning

VARIABLES conf,      \* the setting in force, chosen once
          clock,     \* event_time_status_of: "before", "ongoing" or "ended"
          open,      \* allow_join of the event
          users,     \* event_users: NoRow, or points and banned
          teams,     \* event_teams: NoRow, or points and banned
          member,    \* event_team_members: NoTeam, or team and role of a user
          founded,   \* history: teams that players created
          removed,   \* history: users an administrator removed one by one
          locked,    \* the thread that holds the row lock of the event
          thr,       \* local state of each thread
          requests   \* requests so far

NoRow == [is |-> FALSE, points |-> 0, banned |-> FALSE]
Row == [NoRow EXCEPT !.is = TRUE]
NoTeam == [team |-> "none", role |-> "none"]
NoThread == "nobody"
Idle == [pc |-> "idle", op |-> "none", user |-> "none", team |-> "none", read |-> {}, got |-> 0]

RosterInit ==
    /\ conf \in Settings
    /\ clock = conf.clock /\ open = TRUE
    /\ member = conf.roster
    /\ users = [u \in Users |-> IF u \in conf.enrolled THEN Row ELSE NoRow]
    /\ founded = {member[u].team : u \in {v \in Users : member[v].role = "captain"}}
    /\ teams = [g \in Teams |-> IF g \in founded THEN Row ELSE NoRow]
    /\ removed = {} /\ locked = NoThread
    /\ thr = [t \in Threads |-> Idle] /\ requests = 0

Enrolled == {u \in Users : users[u].is}
MembersOf(g) == {u \in Users : member[u].team = g}
At(t, pc) == thr[t].pc = pc
Asks(t) == At(t, "idle") /\ t \in conf.threads /\ requests < conf.requests /\ requests' = requests + 1
IsAdmin(t) == t \in conf.admins
Player(t) == t \in conf.threads \ conf.admins \/ conf.threads = conf.admins

\* DELETE of enrollments and of teams, with what cascades from them.
DeleteUsers(S) ==
    /\ users' = [u \in Users |-> IF u \in S THEN NoRow ELSE users[u]]
    /\ member' = [u \in Users |-> IF u \in S THEN NoTeam ELSE member[u]]
DeleteTeam(g, S) ==
    /\ teams' = [teams EXCEPT ![g] = NoRow]
    /\ users' = [u \in Users |-> IF u \in S THEN NoRow ELSE users[u]]
    /\ member' = [u \in Users |-> IF u \in S \cup MembersOf(g) THEN NoTeam ELSE member[u]]
    /\ founded' = founded \ {g}
\* An enrollment that exists is reused.
Enroll(u) == users' = [users EXCEPT ![u] = IF @.is THEN @ ELSE Row]

EventStatusCheck == clock = "before"
RequireRosterMutable == open /\ EventStatusCheck

----------------------------------------------------------------------------
(* Players of a team event: create, quit, join and leave a team. *)

\* The transaction begins: the event row is locked and its mode, its
\* allow_join and its start are checked.
TeamOp(t) ==
    /\ Asks(t) /\ Player(t) /\ conf.mode = "team" /\ RequireRosterMutable /\ locked = NoThread
    /\ \E op \in {"create", "quit", "join", "leave"}, u \in Users, g \in Teams :
         thr' = [thr EXCEPT ![t] = [Idle EXCEPT !.pc = "roster", !.op = op, !.user = u, !.team = g]]
    /\ locked' = t
    /\ UNCHANGED <<conf, clock, open, users, teams, member, founded, removed>>

Ends(t) == /\ thr' = [thr EXCEPT ![t] = Idle]
           /\ locked' = IF locked = t THEN NoThread ELSE locked
Refused(t) == Ends(t) /\ UNCHANGED <<users, teams, member, founded>>

\* A new row of event_teams (the id is fresh, the name unique in the event).
CreateTeam(t) == LET u == thr[t].user g == thr[t].team IN
    /\ At(t, "roster") /\ thr[t].op = "create"
    /\ \/ /\ member[u] = NoTeam /\ ~teams[g].is
          /\ teams' = [teams EXCEPT ![g] = Row] /\ Enroll(u)
          /\ member' = [member EXCEPT ![u] = [team |-> g, role |-> "captain"]]
          /\ founded' = founded \cup {g} /\ Ends(t)
       \/ (member[u] # NoTeam \/ teams[g].is) /\ Refused(t)
    /\ UNCHANGED <<conf, clock, open, removed, requests>>

JoinTeam(t) == LET u == thr[t].user g == thr[t].team IN
    /\ At(t, "roster") /\ thr[t].op = "join"
    /\ \/ /\ member[u] = NoTeam /\ teams[g].is
          /\ Enroll(u) /\ member' = [member EXCEPT ![u] = [team |-> g, role |-> "member"]]
          /\ Ends(t) /\ UNCHANGED <<teams, founded>>
       \/ (member[u] # NoTeam \/ ~teams[g].is) /\ Refused(t)
    /\ UNCHANGED <<conf, clock, open, removed, requests>>

LeaveTeam(t) == LET u == thr[t].user IN
    /\ At(t, "roster") /\ thr[t].op = "leave"
    /\ \/ /\ member[u] = [team |-> thr[t].team, role |-> "member"]
          /\ DeleteUsers({u}) /\ Ends(t) /\ UNCHANGED <<teams, founded>>
       \/ member[u] # [team |-> thr[t].team, role |-> "member"] /\ Refused(t)
    /\ UNCHANGED <<conf, clock, open, removed, requests>>

\* A captain dissolves the team: its members are read, then it is deleted
\* and so are their enrollments.  Another member only leaves.
QuitTeam(t) == LET u == thr[t].user g == thr[t].team IN
    /\ At(t, "roster") /\ thr[t].op = "quit"
    /\ \/ /\ member[u] = [team |-> g, role |-> "captain"]
          /\ thr' = [thr EXCEPT ![t].pc = "dissolve", ![t].read = MembersOf(g)]
          /\ UNCHANGED <<users, teams, member, founded, locked>>
       \/ /\ member[u] = [team |-> g, role |-> "member"]
          /\ DeleteUsers({u}) /\ Ends(t) /\ UNCHANGED <<teams, founded>>
       \/ member[u].team # g /\ Refused(t)
    /\ UNCHANGED <<conf, clock, open, removed, requests>>

Dissolve(t) ==
    /\ At(t, "dissolve") /\ DeleteTeam(thr[t].team, thr[t].read) /\ Ends(t)
    /\ UNCHANGED <<conf, clock, open, removed, requests>>

----------------------------------------------------------------------------
(* Players of an individual event; no lock, the check is a read of its own. *)

JoinOrLeaveEvent(t) ==
    /\ Asks(t) /\ Player(t) /\ conf.mode = "individual" /\ open /\ EventStatusCheck
    /\ \E op \in {"join", "leave"}, u \in Users :
         thr' = [thr EXCEPT ![t] = [Idle EXCEPT !.pc = "solo", !.op = op, !.user = u]]
    /\ UNCHANGED <<conf, clock, open, users, teams, member, founded, removed, locked>>

\* Idempotent: an enrollment that exists, or that a concurrent join inserts
\* first, is the answer.
JoinEvent(t) ==
    /\ At(t, "solo") /\ thr[t].op = "join"
    /\ Enroll(thr[t].user) /\ Ends(t)
    /\ UNCHANGED <<conf, clock, open, teams, member, founded, removed, requests>>

LeaveEvent(t) ==
    /\ At(t, "solo") /\ thr[t].op = "leave"
    /\ DeleteUsers({thr[t].user}) /\ Ends(t)
    /\ UNCHANGED <<conf, clock, open, teams, founded, removed, requests>>

----------------------------------------------------------------------------
(* Administrators *)

AddTeam(t) ==
    /\ Asks(t) /\ IsAdmin(t) /\ conf.mode = "team"
    /\ \E g \in Teams : ~teams[g].is /\ teams' = [teams EXCEPT ![g] = Row]
    /\ UNCHANGED <<conf, clock, open, users, member, founded, removed, locked, thr>>

\* remove_team reads the members, remove_user_from_team their roles (and
\* refuses a captain); the writes follow in the same transaction.
RemoveTeam(t) ==
    /\ Asks(t) /\ IsAdmin(t)
    /\ \E g \in Teams : /\ teams[g].is
                        /\ thr' = [thr EXCEPT ![t] = [Idle EXCEPT !.pc = "dissolve", !.team = g,
                                                                  !.read = MembersOf(g)]]
    /\ UNCHANGED <<conf, clock, open, users, teams, member, founded, removed, locked>>

RemoveUserFromTeam(t) ==
    /\ Asks(t) /\ IsAdmin(t)
    /\ \E g \in Teams : \E S \in SUBSET MembersOf(g) :
         /\ S # {} /\ \A u \in S : member[u].role # "captain"
         /\ thr' = [thr EXCEPT ![t] = [Idle EXCEPT !.pc = "unenroll", !.read = S]]
    /\ UNCHANGED <<conf, clock, open, users, teams, member, founded, removed, locked>>

Unenroll(t) ==
    /\ At(t, "unenroll") /\ DeleteUsers(thr[t].read) /\ Ends(t)
    /\ UNCHANGED <<conf, clock, open, teams, founded, removed, requests>>

AddUserToTeam(t) ==
    /\ Asks(t) /\ IsAdmin(t) /\ conf.mode = "team"
    /\ \E u \in Users, g \in Teams :
         /\ teams[g].is /\ member[u] = NoTeam
         /\ Enroll(u) /\ member' = [member EXCEPT ![u] = [team |-> g, role |-> "member"]]
    /\ UNCHANGED <<conf, clock, open, teams, founded, removed, locked, thr>>

\* add_user inserts the users of a list one by one, outside a transaction;
\* the first that is enrolled already ends the request with an error.
AddUsers(t) ==
    /\ Asks(t) /\ IsAdmin(t) /\ conf.mode = "individual"
    /\ \E S \in SUBSET Users : S # {} /\ thr' = [thr EXCEPT ![t] = [Idle EXCEPT !.pc = "add", !.read = S]]
    /\ UNCHANGED <<conf, clock, open, users, teams, member, founded, removed, locked>>

AddUser(t) ==
    /\ At(t, "add")
    /\ \E u \in thr[t].read :
         \/ ~users[u].is /\ Enroll(u)
            /\ thr' = [thr EXCEPT ![t] = IF @.read = {u} THEN Idle ELSE [@ EXCEPT !.read = @ \ {u}]]
         \/ users[u].is /\ thr' = [thr EXCEPT ![t] = Idle] /\ UNCHANGED users
    /\ UNCHANGED <<conf, clock, open, teams, member, founded, removed, locked, requests>>

\* Individual events only; the solves of the user stay.
RemoveUser(t) ==
    /\ Asks(t) /\ IsAdmin(t) /\ conf.mode = "individual"
    /\ \E u \in Enrolled : DeleteUsers({u}) /\ removed' = removed \cup {u}
    /\ UNCHANGED <<conf, clock, open, teams, founded, locked, thr>>

SetUserBan(t, banned) ==
    /\ Asks(t) /\ IsAdmin(t)
    /\ \E u \in Enrolled : users[u].banned # banned /\ users' = [users EXCEPT ![u].banned = banned]
    /\ UNCHANGED <<conf, clock, open, teams, member, founded, removed, locked, thr>>
BannedUser(t) == SetUserBan(t, TRUE)
UnbannedUser(t) == SetUserBan(t, FALSE)

SetTeamBan(t, banned) ==
    /\ Asks(t) /\ IsAdmin(t)
    /\ \E g \in Teams : /\ teams[g].is /\ teams[g].banned # banned
                        /\ teams' = [teams EXCEPT ![g].banned = banned]
    /\ UNCHANGED <<conf, clock, open, users, member, founded, removed, locked, thr>>
BanTeam(t) == SetTeamBan(t, TRUE)
UnbannedTeam(t) == SetTeamBan(t, FALSE)

\* patch_event locks the event row.
PatchEvent(t) ==
    /\ Asks(t) /\ locked = NoThread /\ open' = ~open
    /\ UNCHANGED <<conf, clock, users, teams, member, founded, removed, locked, thr>>

Time ==
    /\ clock' = IF clock = "before" THEN "ongoing" ELSE "ended"
    /\ clock # "ended"
    /\ UNCHANGED <<conf, open, users, teams, member, founded, removed, locked, thr, requests>>

RosterStep(t) ==
    \/ TeamOp(t) \/ CreateTeam(t) \/ JoinTeam(t) \/ LeaveTeam(t) \/ QuitTeam(t) \/ Dissolve(t)
    \/ JoinOrLeaveEvent(t) \/ JoinEvent(t) \/ LeaveEvent(t)
    \/ AddTeam(t) \/ RemoveTeam(t) \/ RemoveUserFromTeam(t) \/ Unenroll(t) \/ AddUserToTeam(t)
    \/ AddUsers(t) \/ AddUser(t) \/ RemoveUser(t)
    \/ BannedUser(t) \/ UnbannedUser(t) \/ BanTeam(t) \/ UnbannedTeam(t) \/ PatchEvent(t)
RosterNext == Time \/ \E t \in Threads : RosterStep(t)

----------------------------------------------------------------------------
RosterTypeOK ==
    /\ conf \in Settings /\ clock \in {"before", "ongoing", "ended"} /\ open \in BOOLEAN
    /\ \A u \in Users : users[u].is \in BOOLEAN /\ users[u].points \in Nat /\ users[u].banned \in BOOLEAN
    /\ \A g \in Teams : teams[g].is \in BOOLEAN /\ teams[g].points \in Nat /\ teams[g].banned \in BOOLEAN
    /\ \A u \in Users : member[u] \in [team : Teams \cup {"none"}, role : {"none", "captain", "member"}]
    /\ founded \subseteq Teams /\ removed \subseteq Users /\ locked \in Threads \cup {NoThread}

\* Administrators and players do not overlap.
Alone == Cardinality(conf.threads) = 1 \/ conf.admins = {}

(* The comment of create_team: "new writes always stay atomic", no user is *)
(* enrolled in a team event without being the member of a team.            *)
NobodyHalfJoined == conf.mode = "team" => \A u \in Enrolled : member[u] # NoTeam

(* When no request of an administrator overlaps another request.           *)
RosterWhole == Alone => NobodyHalfJoined

(* A team that players founded keeps exactly one captain until it is gone, *)
(* as long as administrators and players do not overlap.                   *)
FoundedHasCaptain ==
    Alone => \A g \in founded : Cardinality({u \in MembersOf(g) : member[u].role = "captain"}) = 1

(* Players change no membership of a team event whose roster was closed:   *)
(* closing it waits for the requests that found it open.                   *)
RosterCloses == conf.admins = {} /\ member' # member => open /\ open'
=============================================================================

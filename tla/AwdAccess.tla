------------------------------ MODULE AwdAccess ------------------------------
(***************************************************************************)
(* Who reaches which game box: bans, WireGuard peers, the phase of each    *)
(* event, and the firewall table they are rendered into.  Requests and     *)
(* scheduler tasks are threads; each writes its own change, takes a        *)
(* revision, reads everything, applies it through the helper and checks    *)
(* the revision.  None of them holds a lock.                               *)
(***************************************************************************)
EXTENDS Naturals, Sequences, FiniteSets, SequencesExt

CONSTANTS Events, Teams, Users,
          EventOf, TeamOf,  \* the event of each team, the team of each player
          Threads,
          Settings          \* phase and peers at first, threads; bounds: moves, failures, crashes

----------------------------------------------------------------------------
(***************************************************************************)
(* The nftables table of the platform: what render.rs writes for the       *)
(* policies of all events, and what the kernel's forward hook makes of it. *)
(* A rule has flows, sources and destinations that it fits, may ask for an *)
(* established connection, and accepts or drops; the first rule that fits  *)
(* decides for the whole table.  A chain without one returns to the base   *)
(* chain, whose policy lets the packet pass.                               *)
(***************************************************************************)

Player(t) == <<"player", t>>     \* WireGuard subnet of the team
Box(t) == <<"box", t>>           \* game box subnet of the team
Flag(e) == <<"flag", e>>
Judge(e) == <<"judge", e>>

TeamsOf(e) == {t \in Teams : EventOf[t] = e}
Players(e) == {Player(t) : t \in TeamsOf(e)}
Boxes(e) == {Box(t) : t \in TeamsOf(e)}
Infrastructure(e) == {Flag(e), Judge(e)}
Anywhere == UNION {Players(e) \cup Boxes(e) \cup Infrastructure(e) : e \in Events}

Rule(flows, est, verdict) == [flows |-> flows, est |-> est, verdict |-> verdict]
Accept(from, to) == Rule(from \X to, FALSE, "accept")
AcceptEstablished(from, to) == Rule(from \X to, TRUE, "accept")
Drop(from, to) == Rule(from \X to, FALSE, "drop")

\* The policies that close a match: nothing of players and boxes passes.
Quiet == {"Pause", "settlement", "finished"}
Policies == {"Hardening", "Attack"} \cup Quiet

----------------------------------------------------------------------------
(* render_event_chain *)

BannedTargets(e, banned) ==
    LET boxes == {Box(t) : t \in banned} IN
    <<Drop(Players(e), boxes), Drop(Boxes(e), boxes)>>

Settlement(e) ==
    <<Drop(Players(e), Anywhere), Accept({Judge(e)}, Boxes(e)),
      AcceptEstablished(Boxes(e), {Judge(e)}), Drop(Boxes(e), Anywhere)>>

Finished(e) ==
    <<Drop(Players(e), Anywhere), Drop({Judge(e)}, Boxes(e)), Drop(Boxes(e), Anywhere)>>

\* What the rules of the teams accept, one after the other.
OwnTeam(e) ==
    Rule(UNION {{Player(t), Box(t)} \X {Box(t)} : t \in TeamsOf(e)}, FALSE, "accept")

\* Own team first, then no player to any box, nothing out of a box.
Hardening(e) ==
    <<AcceptEstablished(Anywhere, Anywhere), OwnTeam(e),
      Drop(Players(e), Boxes(e)), Drop(Boxes(e), Anywhere)>>

Attack(e) ==
    <<AcceptEstablished(Anywhere, Anywhere), Accept(Boxes(e), Boxes(e)),
      Accept(Boxes(e), {Flag(e)}), Drop(Boxes(e), Anywhere)>>

Paused(e) == <<Drop(Players(e), Anywhere), Drop(Boxes(e), Anywhere)>>

AnyInfrastructure == UNION {Infrastructure(e) : e \in Events}

EventChain(e, policy, banned) ==
    BannedTargets(e, banned)
    \o (CASE policy = "settlement" -> Settlement(e)
          [] policy = "finished" -> Finished(e)
          [] policy = "Hardening" -> Hardening(e)
          [] policy = "Attack" -> Attack(e)
          [] policy = "Pause" -> Paused(e))
    \o <<Drop(Players(e), AnyInfrastructure), Drop(Boxes(e), AnyInfrastructure)>>

----------------------------------------------------------------------------
(* render_table: the sources that are banned, then a jump per event, in    *)
(* the order in which the database returned them.                          *)

BannedSources(banned) ==
    <<Drop({Player(t) : t \in banned} \cup {Box(t) : t \in banned}, Anywhere)>>

Chains(order, policy, banned) ==
    [i \in 1..Len(order) |-> EventChain(order[i], policy[order[i]], banned)]

Table(order, policy, banned) == <<BannedSources(banned)>> \o Chains(order, policy, banned)

Orders(S) == SetToSeqs(S)

\* The verdict of the first in a list that has one.
FirstVerdict(says) ==
    LET deciding == {i \in DOMAIN says : says[i] # "return"}
    IN  IF deciding = {} THEN "return" ELSE says[Min(deciding)]

RuleSays(rule, flow, established) ==
    IF flow \in rule.flows /\ (rule.est => established) THEN rule.verdict ELSE "return"
ChainSays(chain, flow, established) ==
    FirstVerdict([i \in 1..Len(chain) |-> RuleSays(chain[i], flow, established)])
TableSays(table, flow, established) ==
    FirstVerdict([i \in 1..Len(table) |-> ChainSays(table[i], flow, established)])

Passes(table, from, to, established) == TableSays(table, <<from, to>>, established) # "drop"

----------------------------------------------------------------------------
(* The traffic matrix of one event for new connections.                    *)
MayConnect(policy, banned, from, to) ==
    LET a == from[2]  b == to[2] IN
    CASE from[1] = "judge" -> policy # "finished"
      [] from[1] \in {"player", "box"} /\ to[1] = "box" ->
           /\ {a, b} \cap banned = {}
           /\ policy = "Attack" \/ (policy = "Hardening" /\ a = b)
      [] from[1] = "box" /\ to[1] = "flag" -> a \notin banned /\ policy = "Attack"
      [] OTHER -> FALSE

----------------------------------------------------------------------------
(* The rows, the host and the requests in progress *)

VARIABLES conf,    \* the setting in force, chosen once
          policy,  \* what the rows of each event say, "off": not in the desired set
          ban,     \* active rows of awd_team_bans per team
          peer,    \* awd_wireguard_peers: address of each user's active peer, 0: none
          next,    \* next_wireguard_host of each team
          wg,      \* users whose peer is on the host interface
          rev,     \* AWD_NETWORK_REVISION
          fw,      \* the table on the host: revision, policies and banned teams
          flows,   \* connections in conntrack: from a team's players to a team's boxes
          late,    \* what went wrong so far
          thr, spent

vars == <<conf, policy, ban, peer, next, wg, rev, fw, flows, late, thr, spent>>

Empty == [rev |-> 0, policy |-> [e \in Events |-> "off"], banned |-> {}]
Idle == [pc |-> "idle", op |-> "none", who |-> "none", rev |-> 0, want |-> Empty, host |-> 0]

InDesiredSet(p) == {e \in Events : p[e] # "off"}

Init ==
    /\ conf \in Settings
    /\ policy = [e \in Events |-> conf.phase] /\ ban = [t \in Teams |-> 0]
    /\ wg = conf.peers
    /\ peer = [u \in Users |-> IF u \in wg THEN 1 ELSE 0]
    /\ next = [t \in Teams |-> IF \E u \in wg : TeamOf[u] = t THEN 2 ELSE 1]
    /\ rev = 1 /\ fw = [rev |-> 1, policy |-> policy, banned |-> {}]
    /\ flows = {} /\ late = {}
    /\ thr = [t \in Threads |-> Idle]
    /\ spent = [moves |-> 0, fails |-> 0, crashes |-> 0]

At(t, pc) == thr[t].pc = pc
Step(t, pc) == thr' = [thr EXCEPT ![t].pc = pc]
Done(t) == thr' = [thr EXCEPT ![t] = Idle]
Begin(t, pc, op, who) ==
    /\ At(t, "idle") /\ t \in conf.threads
    /\ thr' = [thr EXCEPT ![t] = [Idle EXCEPT !.pc = pc, !.op = op, !.who = who]]
Count(k) == spent[k] < conf[k] /\ spent' = [spent EXCEPT ![k] = @ + 1]
Late(k, b) == late' = IF b THEN late \cup {k} ELSE late
db == <<policy, ban, peer, next>>
host == <<wg, fw, flows>>

----------------------------------------------------------------------------
(* Bans and phases: the first write of the handler *)

\* create_ban asks for nothing: a team may have several active bans.
BanTeam(t, x) ==
    /\ Count("moves") /\ Begin(t, "suspend", "ban", x) /\ ban' = [ban EXCEPT ![x] = @ + 1]
    /\ UNCHANGED <<conf, policy, peer, next, host, rev, late>>

\* One active ban is looked for and completed.
UnbanTeam(t, x) ==
    /\ ban[x] > 0 /\ Count("moves") /\ Begin(t, "restore", "unban", x)
    /\ ban' = [ban EXCEPT ![x] = @ - 1]
    /\ UNCHANGED <<conf, policy, peer, next, host, rev, late>>

Moves(p) == CASE p = "Hardening" -> {"Attack", "Pause"} [] p = "Attack" -> {"Pause", "settlement"}
              [] p = "Pause" -> {"Attack", "off"} [] p = "settlement" -> {"finished"}
              [] p = "finished" -> {"off"} [] OTHER -> {}

\* Start, pause, resume, the last round, the finish, the archive.
PhaseMoves(t, e, p) ==
    /\ p \in Moves(policy[e]) /\ Count("moves") /\ Begin(t, "readRev", "phase", e)
    /\ policy' = [policy EXCEPT ![e] = p]
    /\ UNCHANGED <<conf, ban, peer, next, host, rev, late>>

\* The peers of the team leave the host; a failure ends the request.
SuspendTeamPeers(t) ==
    /\ At(t, "suspend")
    /\ \/ /\ wg' = {u \in wg : TeamOf[u] # thr[t].who} /\ Step(t, "readRev")
          /\ Late("suspend", ban[thr[t].who] = 0) /\ UNCHANGED spent
       \/ Count("fails") /\ Done(t) /\ wg' = wg /\ Late("host", TRUE)
    /\ UNCHANGED <<conf, db, rev, fw, flows>>

\* All active peers of the event come back, those of other banned teams too.
RestoreActivePeers(t) ==
    /\ At(t, "restore")
    /\ \/ /\ wg' = wg \cup {u \in Users : peer[u] # 0 /\ EventOf[TeamOf[u]] = EventOf[thr[t].who]}
          /\ Step(t, "readRev") /\ UNCHANGED <<late, spent>>
       \/ Count("fails") /\ Done(t) /\ wg' = wg /\ Late("host", TRUE)
    /\ UNCHANGED <<conf, db, rev, fw, flows>>

----------------------------------------------------------------------------
(* reconcile_global with next_network_revision *)

ReadRevision(t) ==
    /\ At(t, "readRev")
    /\ thr' = [thr EXCEPT ![t] = [@ EXCEPT !.pc = "writeRev", !.rev = rev + 1]]
    /\ UNCHANGED <<conf, db, host, rev, late, spent>>

WriteRevision(t) ==
    /\ At(t, "writeRev") /\ rev' = thr[t].rev /\ Step(t, "build")
    /\ Late("clash", rev >= thr[t].rev)
    /\ UNCHANGED <<conf, db, host, spent>>

BuildDesiredState(t) ==
    /\ At(t, "build")
    /\ thr' = [thr EXCEPT ![t] =
         [@ EXCEPT !.pc = "apply",
                   !.want = [rev |-> thr[t].rev, policy |-> policy,
                             banned |-> {x \in Teams : ban[x] > 0 /\ policy[EventOf[x]] # "off"}]]]
    /\ UNCHANGED <<conf, db, host, rev, late, spent>>

\* The helper replaces the table, or deletes it when there is no event.
ApplyTable(t) ==
    /\ At(t, "apply")
    /\ \/ /\ fw' = thr[t].want /\ Late("stale", thr[t].want.policy # policy)
          /\ Step(t, IF InDesiredSet(thr[t].want.policy) = {} THEN "flush" ELSE "verify")
          /\ UNCHANGED spent
       \/ Count("fails") /\ Done(t) /\ fw' = fw /\ Late("apply", TRUE)
    /\ UNCHANGED <<conf, db, wg, flows, rev>>

\* Another request may have replaced the table: the revision is not ours.
VerifyTable(t) ==
    /\ At(t, "verify") /\ IF fw.rev = thr[t].rev THEN Step(t, "flush") ELSE Done(t)
    /\ Late("flush", fw.rev # thr[t].rev)
    /\ UNCHANGED <<conf, db, host, rev, spent>>

\* Mutant: only bans flush.
FlushBanned(t) ==
    /\ At(t, "flush") /\ Done(t)
    /\ flows' = IF thr[t].op = "ban" THEN {f \in flows : f[2] # thr[t].who} ELSE flows
    /\ UNCHANGED <<conf, db, wg, fw, rev, late, spent>>

\* conntrack, best effort: of the event's boxes or of the banned team's.
FlushConnections(t) ==
    /\ At(t, "flush") /\ Done(t)
    /\ \/ /\ flows' = CASE thr[t].op = "phase" -> {f \in flows : EventOf[f[2]] # thr[t].who}
                        [] thr[t].op = "ban" -> {f \in flows : f[2] # thr[t].who}
                        [] OTHER -> flows
          /\ UNCHANGED <<late, spent>>
       \/ Count("fails") /\ flows' = flows /\ Late("flush", TRUE)
    /\ UNCHANGED <<conf, db, wg, fw, rev>>

----------------------------------------------------------------------------
(* ensure_peer_for_user *)

\* The ban is looked up, then the next host of the team is read.
EnsurePeer(t, u) ==
    /\ peer[u] = 0 /\ ban[TeamOf[u]] = 0 /\ policy[EventOf[TeamOf[u]]] \notin {"settlement", "finished", "off"}
    /\ At(t, "idle") /\ t \in conf.threads /\ Count("moves")
    /\ thr' = [thr EXCEPT ![t] = [Idle EXCEPT !.pc = "insert", !.who = u, !.host = next[TeamOf[u]]]]
    /\ UNCHANGED <<conf, db, host, rev, late>>

\* One peer per user and one per address; a second insert fails.
InsertPeer(t) ==
    /\ At(t, "insert")
    /\ LET u == thr[t].who IN
         IF peer[u] # 0 \/ \E v \in Users : TeamOf[v] = TeamOf[u] /\ peer[v] = thr[t].host
         THEN Done(t) /\ UNCHANGED peer
         ELSE peer' = [peer EXCEPT ![u] = thr[t].host] /\ Step(t, "bump")
    /\ UNCHANGED <<conf, policy, ban, next, host, rev, late, spent>>

BumpNextHost(t) ==
    /\ At(t, "bump") /\ Step(t, "add")
    /\ next' = [next EXCEPT ![TeamOf[thr[t].who]] = thr[t].host + 1]
    /\ UNCHANGED <<conf, policy, ban, peer, host, rev, late, spent>>

AddPeer(t) ==
    /\ At(t, "add") /\ Done(t)
    /\ \/ wg' = wg \cup {thr[t].who} /\ UNCHANGED <<late, spent>>
       \/ Count("fails") /\ wg' = wg /\ Late("host", TRUE)
    /\ UNCHANGED <<conf, db, fw, flows, rev>>

----------------------------------------------------------------------------
(* Traffic, and the death of the process *)

TableOnHost(order) == Table(order, fw.policy, fw.banned)
OrdersOnHost == Orders(InDesiredSet(fw.policy))

\* A player with a tunnel connects to a box when the table lets the packet in;
\* the answer then belongs to the connection.
Connect(t, x) ==
    /\ \E u \in wg : TeamOf[u] = t
    /\ EventOf[t] = EventOf[x] /\ <<t, x>> \notin flows
    /\ \E o \in OrdersOnHost : /\ Passes(TableOnHost(o), Player(t), Box(x), FALSE)
                               /\ Passes(TableOnHost(o), Box(x), Player(t), TRUE)
    /\ flows' = flows \cup {<<t, x>>}
    /\ UNCHANGED <<conf, db, wg, fw, rev, late, thr, spent>>

Crash ==
    /\ Count("crashes") /\ thr' = [t \in Threads |-> Idle] /\ Late("crash", \E t \in Threads : ~At(t, "idle"))
    /\ UNCHANGED <<conf, db, host, rev>>

Next ==
    \/ \E t \in Threads :
         \/ \E x \in Teams : BanTeam(t, x) \/ UnbanTeam(t, x)
         \/ \E e \in Events, p \in Policies \cup {"off"} : PhaseMoves(t, e, p)
         \/ \E u \in Users : EnsurePeer(t, u)
         \/ SuspendTeamPeers(t) \/ RestoreActivePeers(t) \/ ReadRevision(t) \/ WriteRevision(t)
         \/ BuildDesiredState(t) \/ ApplyTable(t) \/ VerifyTable(t) \/ FlushConnections(t)
         \/ InsertPeer(t) \/ BumpNextHost(t) \/ AddPeer(t)
    \/ \E t, x \in Teams : Connect(t, x)
    \/ Crash

Spec == Init /\ [][Next]_vars

----------------------------------------------------------------------------
TypeOK ==
    /\ policy \in [Events -> Policies \cup {"off"}] /\ ban \in [Teams -> Nat]
    /\ peer \in [Users -> Nat] /\ next \in [Teams -> Nat] /\ wg \subseteq Users
    /\ flows \subseteq Teams \X Teams /\ fw.banned \subseteq Teams

AllIdle == \A t \in Threads : At(t, "idle")

(* Within an event the table decides about new connections as the matrix   *)
(* of its own policy and bans says, in whatever order and with whatever    *)
(* policies the other events are rendered.                                 *)
Isolation ==
    \A o \in OrdersOnHost, e \in InDesiredSet(fw.policy) :
        LET table == TableOnHost(o) IN
        \A a \in Players(e) \cup Boxes(e) \cup {Judge(e)}, b \in Boxes(e) \cup Infrastructure(e) :
            (a # b /\ ~(a = Judge(e) /\ b = Flag(e))) =>
                Passes(table, a, b, FALSE) = MayConnect(fw.policy[e], fw.banned, a, b)

(* A table with the current revision renders the rows as they are, however *)
(* requests overlap, unless two of them took the same revision; an older   *)
(* table that was applied last is told by its revision.                    *)
RevisionTellsStale ==
    (AllIdle /\ fw.rev = rev /\ late \cap {"clash", "host", "apply", "crash"} = {}) =>
        /\ fw.policy = policy
        /\ fw.banned = {t \in Teams : ban[t] > 0 /\ policy[EventOf[t]] # "off"}

(* No connection into an event that is paused, settled or finished goes on *)
(* once the requests are served, if conntrack was flushed and no older     *)
(* table came last: also where another event lets established ones pass.   *)
FlowPasses(f) == \E o \in OrdersOnHost : Passes(TableOnHost(o), Player(f[1]), Box(f[2]), TRUE)
QuietFlows == {f \in flows : policy[EventOf[f[2]]] \in Quiet /\ FlowPasses(f)}
ConnectionsCut ==
    (AllIdle /\ late \cap {"flush", "stale", "clash", "apply", "crash"} = {}) => QuietFlows = {}

(* The address a team hands out next is free, although requests of its     *)
(* players overlap; a crash between the peer and the counter breaks it for *)
(* good.                                                                   *)
NextHostFree ==
    \A u \in Users : (\A t \in Threads : ~(At(t, "bump") /\ thr[t].who = u)) =>
                         peer[u] < next[TeamOf[u]] \/ "crash" \in late

(* An active peer of a team that is not banned is on the host, unless a    *)
(* host call failed, the process died or a ban suspended after its unban.  *)
ActiveReachable ==
    AllIdle /\ late \cap {"host", "crash", "suspend"} = {} =>
        \A u \in Users : peer[u] # 0 /\ ban[TeamOf[u]] = 0 => u \in wg

----------------------------------------------------------------------------
(* What every step keeps *)

Pcs == {"idle", "suspend", "restore", "readRev", "writeRev", "build", "apply", "verify", "flush",
        "insert", "bump", "add"}
Rendered == [rev : Nat, policy : [Events -> Policies \cup {"off"}], banned : SUBSET Teams]
Locals == [pc : Pcs, op : {"none", "ban", "unban", "phase"},
           who : {"none"} \cup Teams \cup Users \cup Events, rev : Nat, want : Rendered, host : Nat]

Types ==
    /\ TypeOK /\ conf \in Settings /\ rev \in Nat /\ fw \in Rendered
    /\ spent \in [{"moves", "fails", "crashes"} -> Nat] /\ thr \in [Threads -> Locals]
    /\ \A t \in Threads : /\ thr[t].pc \in {"suspend", "restore"} => thr[t].who \in Teams
                          /\ thr[t].pc \in {"insert", "bump", "add"} => thr[t].who \in Users

\* Every address below the counter of a team is taken: the request that gets
\* its peer in has the address of the counter, and has it alone.
Addresses ==
    "crash" \notin late =>
        /\ \A x \in Teams :
             /\ next[x] >= 1
             /\ \A h \in 1..(next[x] - 1) : \E u \in Users : TeamOf[u] = x /\ peer[u] = h
        /\ \A t \in Threads :
             /\ At(t, "insert") => thr[t].host \in 1..next[TeamOf[thr[t].who]]
             /\ At(t, "bump") => peer[thr[t].who] = thr[t].host /\ thr[t].host = next[TeamOf[thr[t].who]]
        /\ \A s, t \in Threads : At(s, "bump") /\ At(t, "bump") /\ TeamOf[thr[s].who] = TeamOf[thr[t].who] => s = t
        /\ \A u \in Users : peer[u] < next[TeamOf[u]] \/ \E t \in Threads : At(t, "bump") /\ thr[t].who = u

\* Who is to be on the host is there, or a request that brings it is under way.
Bringing(t, u) ==
    \/ thr[t].pc \in {"bump", "add"} /\ thr[t].who = u
    \/ At(t, "restore") /\ EventOf[thr[t].who] = EventOf[TeamOf[u]]
Reached ==
    late \cap {"host", "crash", "suspend"} = {} =>
        \A u \in Users : peer[u] # 0 /\ ban[TeamOf[u]] = 0 => u \in wg \/ \E t \in Threads : Bringing(t, u)

\* A table with the current revision renders the rows, or a request whose change
\* it lacks has yet to write its own revision.
Renders(table) ==
    /\ table.policy = policy
    /\ table.banned = {x \in Teams : ban[x] > 0 /\ policy[EventOf[x]] # "off"}
Announced == \E t \in Threads : thr[t].pc \in {"suspend", "restore", "readRev", "writeRev"}
Revisions ==
    late \cap {"clash", "host", "apply", "crash"} = {} =>
        /\ fw.rev <= rev /\ (fw.rev = rev => Renders(fw) \/ Announced)
        /\ \A t \in Threads :
             /\ At(t, "writeRev") => thr[t].rev <= rev + 1
             /\ At(t, "build") => thr[t].rev <= rev
             /\ At(t, "apply") => thr[t].want.rev <= rev
             /\ At(t, "apply") /\ thr[t].want.rev = rev => Renders(thr[t].want) \/ Announced

\* The table on the host has the policy of an event, or the request that moved it
\* has yet to apply its own; and that request has the connections to flush.
Phasing(t, e, pcs) == thr[t].op = "phase" /\ thr[t].who = e /\ thr[t].pc \in pcs
Unapplied == {"readRev", "writeRev", "build", "apply"}
Cut ==
    late \cap {"flush", "stale", "clash", "apply", "crash"} = {} =>
        \A e \in Events :
            /\ fw.policy[e] = policy[e] \/ \E t \in Threads : Phasing(t, e, Unapplied)
            /\ policy[e] \in Quiet /\ (\E f \in flows : EventOf[f[2]] = e) =>
                  \E t \in Threads : Phasing(t, e, Unapplied \cup {"verify", "flush"})

Inductive == Types /\ Addresses /\ Reached /\ Revisions /\ Cut
=============================================================================

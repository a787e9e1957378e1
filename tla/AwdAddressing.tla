---------------------------- MODULE AwdAddressing ----------------------------
(***************************************************************************)
(* The address plan of AWD events: CIDR arithmetic, the platform's pools,  *)
(* the allocator with its ledger, the listen ports and the subnets of the  *)
(* teams.  Addresses are numbers of Width bits instead of 32.  What a      *)
(* request has read of the host before the allocator's transaction is kept *)
(* in its thread.                                                          *)
(***************************************************************************)
EXTENDS Naturals, FiniteSets, FiniteSetsExt

CONSTANTS Width,     \* bits of an address
          Events, Teams, Threads,
          Plans,     \* settings of the platform an administrator may choose
          Manual,    \* pairs of blocks an administrator may ask for
          Foreign,   \* blocks other programs of the host may take
          Settings   \* bounds: plan at first, threads in use, requests

VARIABLES conf,    \* the setting in force, chosen once
          plan,    \* awd_network_settings
          net,     \* awd_event_networks
          ledger,  \* active rows of awd_network_allocations
          team,    \* awd_team_networks: slot and blocks of each team
          host,    \* blocks of docker networks and routes of other programs
          moved,   \* events reallocated after their teams got subnets
          thr, spent

vars == <<conf, plan, net, ledger, team, host, moved, thr, spent>>

----------------------------------------------------------------------------
(* Ipv4Cidr *)

Cidr(n, len) == [net |-> n, len |-> len]
Size(c) == 2 ^ (Width - c.len)
Masked(a, c) == a - (a % Size(c))
Broadcast(c) == Masked(c.net, c) + Size(c) - 1
Contains(c, a) == Masked(a, c) = Masked(c.net, c)

\* Mutant: only whether the first block has the first address of the other.
OverlapsAtStart(c, d) == Contains(c, d.net)

Overlaps(c, d) == \/ Contains(c, d.net) \/ Contains(c, Broadcast(d))
                  \/ Contains(d, c.net) \/ Contains(d, Broadcast(c))

None == Cidr(0, Width + 1)
\* nth_host and nth_subnet: beyond the block there is none.
HasHost(c, n) == Size(c) >= 3 /\ n < Size(c) - 2
NthHost(c, n) == c.net + n + 1
NthSubnet(c, len, i) ==
    IF len >= c.len /\ len <= Width /\ i < 2 ^ (len - c.len)
    THEN Cidr(c.net + i * 2 ^ (Width - len), len) ELSE None

\* What the blocks stand for.
Addresses(c) == c.net .. (c.net + Size(c) - 1)

----------------------------------------------------------------------------
(* The allocator *)

NetworkPool(p) == p.pool.len <= p.event /\ p.event <= p.team /\ p.team <= Width
EventCapacity(p) == 2 ^ (p.event - p.pool.len)

\* A block of the pool that meets no active allocation and nothing on the host.
FreeSlots(p, taken) ==
    {i \in 0..(EventCapacity(p) - 1) :
        \A c \in taken : ~Overlaps(c, NthSubnet(p.pool, p.event, i))}
FirstFreeEventSubnet(p, taken) ==
    IF FreeSlots(p, taken) = {} THEN None ELSE NthSubnet(p.pool, p.event, Min(FreeSlots(p, taken)))

\* Ports of all rows count, those of archived events too.
NoNet == [gb |-> None, wg |-> None, port |-> 0, infra |-> None, st |-> "none"]
Rows == {e \in Events : net[e].st # "none"}

UsedPorts == {net[e].port : e \in Rows}
FreePorts == plan.ports \ UsedPorts

\* Addresses .2 and .3 of the first team block.
InfraFits(gb, len) ==
    LET infra == NthSubnet(gb, len, 0) IN infra # None /\ HasHost(infra, 1) /\ HasHost(infra, 2)

ActiveCidrs == {a.cidr : a \in ledger}
OfEvent(e) == {a \in ledger : a.ev = e}
Entries(e, gb, wg) == {[ev |-> e, kind |-> "gamebox", cidr |-> gb],
                       [ev |-> e, kind |-> "wireguard", cidr |-> wg]}

----------------------------------------------------------------------------
Idle == [pc |-> "idle", ev |-> "none", ext |-> {}]

Init ==
    /\ conf \in Settings /\ plan = conf.plan
    /\ net = [e \in Events |-> NoNet] /\ ledger = {} /\ moved = {}
    /\ team = [e \in Events |-> [t \in Teams |-> [slot |-> 0, gb |-> None, wg |-> None]]]
    /\ host = {} /\ thr = [t \in Threads |-> Idle] /\ spent = 0

\* update_settings: prefixes in order, pools apart, ports in order.
UpdateSettings(p) ==
    /\ spent < conf.moves /\ spent' = spent + 1 /\ p # plan
    /\ NetworkPool(p.gb) /\ NetworkPool(p.wg) /\ ~Overlaps(p.gb.pool, p.wg.pool)
    /\ plan' = p
    /\ UNCHANGED <<conf, net, ledger, team, host, moved, thr>>

\* collect_external_reserved_cidrs, before the transaction.
Collect(t, e, pc) ==
    /\ thr[t].pc = "idle" /\ t \in conf.threads /\ spent < conf.moves /\ spent' = spent + 1
    /\ IF pc = "realloc" THEN net[e].st = "open" ELSE net[e].st = "none"
    /\ thr' = [thr EXCEPT ![t] = [pc |-> pc, ev |-> e, ext |-> host]]
    /\ UNCHANGED <<conf, plan, net, ledger, team, host, moved>>

Persist(e, gb, wg, port, len) ==
    net' = [net EXCEPT ![e] = [gb |-> gb, wg |-> wg, port |-> port,
                               infra |-> NthSubnet(gb, len, 0), st |-> "open"]]

Refuse(t) == thr' = [thr EXCEPT ![t] = Idle] /\ UNCHANGED <<net, ledger, moved>>

\* One transaction under the advisory lock; a second row of an event fails.
AllocateAutomatic(t) ==
    /\ thr[t].pc = "auto"
    /\ LET e == thr[t].ev
           taken == ActiveCidrs \cup thr[t].ext
           gb == FirstFreeEventSubnet(plan.gb, taken)
           wg == FirstFreeEventSubnet(plan.wg, taken) IN
         IF /\ net[e].st = "none" /\ gb # None /\ wg # None /\ FreePorts # {}
            /\ InfraFits(gb, plan.gb.team)
         THEN /\ Persist(e, gb, wg, Min(FreePorts), plan.gb.team)
              /\ ledger' = ledger \cup Entries(e, gb, wg)
              /\ thr' = [thr EXCEPT ![t] = Idle] /\ UNCHANGED moved
         ELSE Refuse(t)
    /\ UNCHANGED <<conf, plan, team, host, spent>>

\* The administrator may choose the port too; it has to be free and of the pool.
AllocateManual(t) ==
    /\ thr[t].pc = "manual"
    /\ \E m \in Manual, port \in UNION {p.ports : p \in Plans} :
         LET e == thr[t].ev  gb == m[1]  wg == m[2] IN
         IF /\ net[e].st = "none" /\ ~Overlaps(gb, wg) /\ port \in FreePorts
            /\ \A c \in ActiveCidrs \cup thr[t].ext : ~Overlaps(c, gb) /\ ~Overlaps(c, wg)
            /\ gb.len <= plan.gb.team /\ InfraFits(gb, plan.gb.team)
         THEN /\ Persist(e, gb, wg, port, plan.gb.team)
              /\ ledger' = ledger \cup Entries(e, gb, wg)
              /\ thr' = [thr EXCEPT ![t] = Idle] /\ UNCHANGED moved
         ELSE Refuse(t)
    /\ UNCHANGED <<conf, plan, team, host, spent>>

\* The event's own blocks count as taken; the ledger changes with the row.
\* The subnets of the teams stay what they were.
Reallocate(t) ==
    /\ thr[t].pc = "realloc"
    /\ LET e == thr[t].ev
           taken == ActiveCidrs \cup thr[t].ext
           gb == FirstFreeEventSubnet(plan.gb, taken)
           wg == FirstFreeEventSubnet(plan.wg, taken) IN
         IF gb # None /\ wg # None /\ FreePorts # {} /\ InfraFits(gb, plan.gb.team)
         THEN /\ Persist(e, gb, wg, Min(FreePorts), plan.gb.team)
              /\ ledger' = (ledger \ OfEvent(e)) \cup Entries(e, gb, wg)
              /\ moved' = IF \E x \in Teams : team[e][x].slot # 0 THEN moved \cup {e} ELSE moved
              /\ thr' = [thr EXCEPT ![t] = Idle]
         ELSE Refuse(t)
    /\ UNCHANGED <<conf, plan, team, host, spent>>

\* ensure_team_networks for one team: the first slot that no row of the event
\* has, 0 being the infrastructure's; the prefix is that of the infrastructure
\* block, for the WireGuard side too.
TeamSlots(e) ==
    {i \in 1..(2 ^ (net[e].infra.len - net[e].gb.len) - 1) : \A x \in Teams : team[e][x].slot # i}
EnsureTeamNetwork(e, x) ==
    /\ net[e].st = "open" /\ team[e][x].slot = 0 /\ TeamSlots(e) # {}
    /\ LET i == Min(TeamSlots(e))  len == net[e].infra.len IN
         /\ NthSubnet(net[e].wg, len, i) # None
         /\ team' = [team EXCEPT ![e][x] = [slot |-> i, gb |-> NthSubnet(net[e].gb, len, i),
                                            wg |-> NthSubnet(net[e].wg, len, i)]]
    /\ UNCHANGED <<conf, plan, net, ledger, host, moved, thr, spent>>

\* The archive gives the blocks back and keeps the row.  A reallocation that
\* is under way meanwhile is AwdPreparation's.
ReleaseAllocations(e) ==
    /\ net[e].st = "open" /\ \A t \in Threads : thr[t].ev # e
    /\ spent < conf.moves /\ spent' = spent + 1
    /\ ledger' = ledger \ OfEvent(e) /\ net' = [net EXCEPT ![e].st = "archived"]
    /\ UNCHANGED <<conf, plan, team, host, moved, thr>>

HostChanges(c) ==
    /\ spent < conf.moves /\ spent' = spent + 1
    /\ host' = IF c \in host THEN host \ {c} ELSE host \cup {c}
    /\ UNCHANGED <<conf, plan, net, ledger, team, moved, thr>>

Next ==
    \/ \E p \in Plans : UpdateSettings(p)
    \/ \E t \in Threads : \/ \E e \in Events, pc \in {"auto", "manual", "realloc"} : Collect(t, e, pc)
                          \/ AllocateAutomatic(t) \/ AllocateManual(t) \/ Reallocate(t)
    \/ \E e \in Events, x \in Teams : EnsureTeamNetwork(e, x)
    \/ \E e \in Events : ReleaseAllocations(e)
    \/ \E c \in Foreign : HostChanges(c)

Spec == Init /\ [][Next]_vars

----------------------------------------------------------------------------
TypeOK ==
    /\ plan \in Plans /\ Rows \subseteq Events /\ moved \subseteq Events
    /\ \A a \in ledger : Addresses(a.cidr) \subseteq 0..(2 ^ Width - 1)

(* Active allocations share no address, whatever pools, prefixes and      *)
(* manual blocks follow each other and however the requests overlap.       *)
AllocationsDisjoint ==
    \A a, b \in ledger : a # b => Addresses(a.cidr) \cap Addresses(b.cidr) = {}

(* The ledger holds exactly the two blocks of every event that has its     *)
(* network, through reallocations that fail and overlap.                   *)
LedgerMatchesRows ==
    \A e \in Events : OfEvent(e) = IF net[e].st = "open" THEN Entries(e, net[e].gb, net[e].wg) ELSE {}

(* The subnets of all teams of the platform share no address, and none has *)
(* that of a server or of the gateway; teams of an event that was moved    *)
(* under them, whose old blocks another event may own, aside.              *)
Current(e) == net[e].st = "open" /\ e \notin moved
TeamBlocksDisjoint ==
    \A e, f \in {g \in Events : Current(g)}, x, y \in Teams :
        (team[e][x].slot # 0 /\ team[f][y].slot # 0) =>
            /\ <<e, x>> # <<f, y>> =>
                 /\ Addresses(team[e][x].gb) \cap Addresses(team[f][y].gb) = {}
                 /\ Addresses(team[e][x].wg) \cap Addresses(team[f][y].wg) = {}
            /\ Addresses(team[e][x].gb) \cap Addresses(net[f].infra) = {}
            /\ NthHost(net[f].wg, 0) \notin Addresses(team[e][x].wg)
            /\ Addresses(team[e][x].gb) \subseteq Addresses(net[e].gb)

(* No two events have the same port, archived ones included: a port that   *)
(* was ever given is not given again.                                      *)
PortsDistinct ==
    \A e, f \in Rows : e # f => net[e].port # net[f].port

----------------------------------------------------------------------------
(* What every step keeps *)

\* A block as Ipv4Cidr::new makes them: on a multiple of its size, in range.
Cidrs == [net : Nat, len : 0..Width]
Fits(c) == c \in Cidrs /\ c.net % Size(c) = 0 /\ c.net + Size(c) <= 2 ^ Width
PlanFits(p) ==
    /\ Fits(p.gb.pool) /\ Fits(p.wg.pool) /\ {p.gb.event, p.gb.team, p.wg.event, p.wg.team} \subseteq Nat
    /\ p.ports \subseteq Nat
\* What update_settings demands of the settings.
Sound(p) == NetworkPool(p.gb) /\ NetworkPool(p.wg) /\ ~Overlaps(p.gb.pool, p.wg.pool)

Blocks == [net : Nat, len : 0..(Width + 1)]
NetRows == [gb : Blocks, wg : Blocks, port : Nat, infra : Blocks, st : {"none", "open", "archived"}]
TeamRows == [slot : Nat, gb : Blocks, wg : Blocks]
Requests == [pc : {"idle", "auto", "manual", "realloc"}, ev : Events \cup {"none"}, ext : SUBSET Foreign]
Types ==
    /\ conf \in Settings /\ plan \in Plans /\ Sound(plan) /\ host \subseteq Foreign /\ moved \subseteq Events
    /\ net \in [Events -> NetRows] /\ team \in [Events -> [Teams -> TeamRows]]
    /\ thr \in [Threads -> Requests]

\* A request is about an event, and a reallocation about one with a network.
Asked == \A t \in Threads : thr[t].pc # "idle" =>
             thr[t].ev \in Events /\ (thr[t].pc = "realloc" => net[thr[t].ev].st = "open")

Recorded == \A a \in ledger : a.ev \in Events /\ net[a.ev].st = "open"

\* The blocks of an event, and the first team block of the one for game boxes.
Laid(n) == /\ Fits(n.gb) /\ Fits(n.wg) /\ n.gb.len <= n.infra.len /\ n.infra.len <= Width
           /\ n.infra = NthSubnet(n.gb, n.infra.len, 0) /\ Size(n.infra) >= 3
LaidOut == \A e \in Events : net[e].st = "open" => Laid(net[e])

\* The blocks of a team are those of its slot; an event without a row has no
\* teams yet.
Seat(n, r) == /\ r.gb = NthSubnet(n.gb, n.infra.len, r.slot) /\ r.gb # None
              /\ r.wg = NthSubnet(n.wg, n.infra.len, r.slot) /\ r.wg # None
Seated ==
    \A e \in Events, x \in Teams :
        /\ net[e].st = "none" => team[e][x].slot = 0
        /\ Current(e) /\ team[e][x].slot # 0 =>
             /\ Seat(net[e], team[e][x])
             /\ \A y \in Teams : team[e][y].slot = team[e][x].slot => x = y

Inductive == /\ Types /\ Asked /\ Recorded /\ LaidOut /\ Seated
             /\ LedgerMatchesRows /\ AllocationsDisjoint /\ PortsDistinct
=============================================================================

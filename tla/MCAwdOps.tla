------------------------------ MODULE MCAwdOps ------------------------------
(***************************************************************************)
(* The operations around an AWD match for TLC: behaviours of AwdReset, of  *)
(* AwdPreparation, of AwdAccess, of AwdAddressing and of AwdTokens. They   *)
(* share no state in this model, so a behaviour is of one of them, its     *)
(* scene: the variables x1, x2, ... stand for that component's.            *)
(* The second half proves what is claimed of each: of AwdAddressing,       *)
(* AwdTokens and AwdAccess that the invariant Inductive holds at first     *)
(* (AddrInit, TokInit, AccInit), is kept by every step (AddrNext ...) and  *)
(* implies the properties (AddrResults ...).                               *)
(***************************************************************************)
EXTENDS Naturals, Sequences, FiniteSets, FiniteSetTheorems, TLAPS

CONSTANTS Threads,
          Records, Free,                         \* AwdReset
          Members, PlayingTeams, PlayingEvents,  \* AwdAccess
          PlaysIn, PlaysFor,
          Teams, Events, Width                   \* AwdPreparation, AwdAddressing

ASSUME OpsConstants ==
    /\ IsFiniteSet(Threads) /\ "t1" \in Threads /\ "none" \notin Threads
    /\ IsFiniteSet(Records) /\ Free \in Nat /\ {"x", "y"} \subseteq Teams
    /\ "u" \in Members /\ IsFiniteSet(PlayingEvents)
    /\ PlaysIn \in [PlayingTeams -> PlayingEvents] /\ PlaysFor \in [Members -> PlayingTeams]

VARIABLES scene,  \* the component this behaviour is about, chosen once
          \* its variables, in the order of its INSTANCE
          x1, x2, x3, x4, x5, x6, x7, x8, x9, x10, x11, x12, x13, x14, x15, x16, x17

vars == <<scene, x1, x2, x3, x4, x5, x6, x7, x8, x9, x10, x11, x12, x13, x14, x15, x16, x17>>

\* One request at a time, which may die; two that overlap.
ResetSettings ==
    {[threads |-> {"t1"}, records |-> 3, crashes |-> 1, fails |-> 1, moves |-> 1],
     [threads |-> Threads, records |-> 2, crashes |-> 0, fails |-> 1, moves |-> 0]}
\* One request at a time, with a crash, or with two failures; two that overlap.
PrepareSettings ==
    {[threads |-> {"t1"}, teams |-> {"x", "y"}, moves |-> 2, fails |-> 1, crashes |-> 1],
     [threads |-> {"t1"}, teams |-> {"x"}, moves |-> 2, fails |-> 2, crashes |-> 0],
     [threads |-> Threads, teams |-> {"x"}, moves |-> 1, fails |-> 1, crashes |-> 0]}

\* Two players of one team, another team of the same event, one of another event.
TwoEvents == [t \in PlayingTeams |-> IF t = "c" THEN "e2" ELSE "e1"]
OneTeam == [u \in Members |-> "a"]
AccessSetting(threads, phase, peers, fails, crashes) ==
    [threads |-> threads, phase |-> phase, peers |-> peers, moves |-> 2, fails |-> fails,
     crashes |-> crashes]
AccessSettings ==
    {AccessSetting({"t1"}, "Attack", {"u"}, 1, 1), AccessSetting({"t1"}, "Hardening", {}, 0, 1),
     AccessSetting(Threads, "Attack", {"u"}, 0, 0), AccessSetting(Threads, "Hardening", {}, 0, 0)}

\* Pools of four and of two blocks; a pool that lies where the other one was.
Block(n, len) == [net |-> n, len |-> len]
Pool(n, len, ofEvent, ofTeam) == [pool |-> Block(n, len), event |-> ofEvent, team |-> ofTeam]
Plan1 == [gb |-> Pool(0, 1, 2, 3), wg |-> Pool(32, 1, 2, 3), ports |-> {1, 2, 3}]
Plan2 == [gb |-> Pool(0, 1, 1, 3), wg |-> Pool(32, 2, 2, 3), ports |-> {1, 2}]
Plan3 == [gb |-> Pool(48, 2, 2, 3), wg |-> Pool(0, 1, 2, 2), ports |-> {2, 3, 4}]
Plans == {Plan1, Plan2, Plan3}
Manual == {<<Block(16, 2), Block(32, 2)>>, <<Block(32, 1), Block(0, 3)>>}
Foreign == {Block(8, 3)}
AddressSettings ==
    {[plan |-> Plan1, threads |-> Threads, moves |-> 4],
     [plan |-> Plan3, threads |-> {"t1"}, moves |-> 5]}

Rotation(rotations, fails, deploys, crashes, network, control) ==
    [threads |-> Threads, rotations |-> rotations, fails |-> fails, deploys |-> deploys,
     crashes |-> crashes, network |-> network, control |-> control]
\* Rotations that overlap; one of them with a deployment, on a control network;
\* one of an event that has no network yet.
TokenSettings ==
    {Rotation(2, 1, 1, 1, TRUE, FALSE), Rotation(1, 2, 1, 0, TRUE, TRUE), Rotation(1, 0, 0, 0, FALSE, TRUE)}

Reset == INSTANCE AwdResetProofs WITH
    Settings <- ResetSettings, conf <- x1, event <- x2, status <- x3, gen <- x4, con <- x5,
    rec <- x6, rebuilt <- x7, penalty <- x8, thr <- x9, spent <- x10
Prep == INSTANCE AwdPreparationProofs WITH
    Settings <- PrepareSettings, conf <- x1, status <- x2, cfg <- x3, ver <- x4,
    checked <- x5, net <- x6, held <- x7, dnet <- x8, infra <- x9, teams <- x10,
    tnet <- x11, box <- x12, con <- x13, fwd <- x14, late <- x15, thr <- x16, spent <- x17
Access == INSTANCE AwdAccess WITH
    Settings <- AccessSettings, Events <- PlayingEvents, Teams <- PlayingTeams,
    EventOf <- PlaysIn, Users <- Members, TeamOf <- PlaysFor, conf <- x1, policy <- x2,
    ban <- x3, peer <- x4, next <- x5, wg <- x6, rev <- x7, fw <- x8, flows <- x9,
    late <- x10, thr <- x11, spent <- x12
Addr == INSTANCE AwdAddressing WITH
    Settings <- AddressSettings, conf <- x1, plan <- x2, net <- x3, ledger <- x4, team <- x5,
    host <- x6, moved <- x7, thr <- x8, spent <- x9
Tokens == INSTANCE AwdTokens WITH
    Settings <- TokenSettings, conf <- x1, row <- x2, con <- x3, tracked <- x4, made <- x5,
    last <- x6, thr <- x7, spent <- x8

\* The pools and the blocks an administrator writes down fit the width, and
\* the settings at first are ones that would be accepted.  The law of powers of
\* two is arithmetic, spelled out for the proofs.
ASSUME AddressConstants ==
    /\ Width \in Nat
    /\ \A m, n \in 0..Width : m + n <= Width => 2 ^ m \in Nat \ {0} /\ 2 ^ (m + n) = 2 ^ m * 2 ^ n
    /\ \A p \in Plans : Addr!PlanFits(p)
    /\ \A s \in AddressSettings : Addr!Sound(s.plan)
    /\ \A m \in Manual : Addr!Fits(m[1]) /\ Addr!Fits(m[2])

\* A step of the resets.
InReset(A) == /\ scene = "reset" /\ A
              /\ UNCHANGED <<scene, x11, x12, x13, x14, x15, x16, x17>>
\* A step of the preparation.
InPrep(A) == /\ scene = "prepare" /\ A
             /\ UNCHANGED <<scene>>
\* A step of the access control.
InAccess(A) == /\ scene = "access" /\ A
               /\ UNCHANGED <<scene, x13, x14, x15, x16, x17>>
\* A step of the allocator.
InAddr(A) == /\ scene = "address" /\ A
             /\ UNCHANGED <<scene, x10, x11, x12, x13, x14, x15, x16, x17>>
\* A step of the token rotation.
InTokens(A) == /\ scene = "tokens" /\ A
               /\ UNCHANGED <<scene, x9, x10, x11, x12, x13, x14, x15, x16, x17>>

Unused == "unused"
Init ==
    \/ /\ scene = "reset" /\ Reset!Init
       /\ x11 = Unused /\ x12 = Unused /\ x13 = Unused /\ x14 = Unused /\ x15 = Unused
       /\ x16 = Unused /\ x17 = Unused
    \/ /\ scene = "prepare" /\ Prep!Init
    \/ /\ scene = "access" /\ Access!Init
       /\ x13 = Unused /\ x14 = Unused /\ x15 = Unused /\ x16 = Unused /\ x17 = Unused
    \/ /\ scene = "address" /\ Addr!Init
       /\ x10 = Unused /\ x11 = Unused /\ x12 = Unused /\ x13 = Unused /\ x14 = Unused
       /\ x15 = Unused /\ x16 = Unused /\ x17 = Unused
    \/ /\ scene = "tokens" /\ Tokens!Init
       /\ x9 = Unused /\ x10 = Unused /\ x11 = Unused /\ x12 = Unused /\ x13 = Unused
       /\ x14 = Unused /\ x15 = Unused /\ x16 = Unused /\ x17 = Unused

Next ==
    \/ InReset(Reset!Next)
    \/ InPrep(Prep!Next)
    \/ InAccess(Access!Next)
    \/ InAddr(Addr!Next)
    \/ InTokens(Tokens!Next)

\* The executor goes on with every request that was accepted.
Fairness ==
    \A t \in Threads : WF_vars(InReset(Reset!Continue(t)) \/ InPrep(Prep!Continue(t)))

Spec == Init /\ [][Next]_vars /\ Fairness

----------------------------------------------------------------------------
\* Each property includes the type invariant of the components it is about.

(* AwdReset: a penalty stands for a rebuild that was not free and every    *)
(* completed one that was not free has it, recoveries included; requests   *)
(* that overlap get at most one free reset more each; a box that is Ready  *)
(* has its container once nobody works on it.                              *)
ResetsFair ==
    scene = "reset" => /\ Reset!TypeOK /\ Reset!PenaltyForRebuild
                       /\ Reset!FreeResetsBounded /\ Reset!ReadyHasContainer

(* AwdPreparation: a verified or running event lives in the subnet of its  *)
(* network row unless a reallocation came in between or the precheck could *)
(* not see the forward rules; a deployed event keeps its network locked;   *)
(* the archive leaves behind only what docker refused to remove.           *)
DeployedAsRecorded ==
    scene = "prepare" => /\ Prep!TypeOK /\ Prep!RunsOnItsNetwork
                         /\ Prep!DeployedIsLocked /\ Prep!ArchiveIsEmpty

(* AwdPreparation: an event starts with the configuration that was checked.*)
StartsAsChecked == [][scene = "prepare" => Prep!StartsAsChecked]_vars

(* AwdTokens: after a rotation that ran alone and succeeded, no server     *)
(* runs with a token the platform refuses.                                 *)
TokensCurrent == scene = "tokens" => Tokens!TypeOK /\ Tokens!NoSilentMismatch

(* AwdAccess: the table decides within an event as its own policy says, a  *)
(* stale table does not carry the current revision, no connection into a   *)
(* silent event survives, the address a team hands out next is free, and   *)
(* the active peers of a team that is not banned are on the host.          *)
(* AwdTokens: TokensCurrent.                                               *)
AccessHolds ==
    /\ scene = "access" => /\ Access!Isolation /\ Access!RevisionTellsStale
                           /\ Access!ConnectionsCut /\ Access!NextHostFree
                           /\ Access!ActiveReachable /\ Access!TypeOK
    /\ TokensCurrent

(* AwdAddressing: active allocations share no address, the ledger is what  *)
(* the network rows say, teams, servers and gateways share no address, and *)
(* events that are not archived have their own ports.                      *)
AddressesDisjoint ==
    scene = "address" => /\ Addr!AllocationsDisjoint /\ Addr!LedgerMatchesRows
                         /\ Addr!TeamBlocksDisjoint /\ Addr!PortsDistinct
                         /\ Addr!TypeOK

(* Every reset request is answered (AwdReset); a deployment ends and an    *)
(* archive returns the subnets, unless a crash or a failed reconciliation  *)
(* cut the last request off (AwdPreparation).                              *)
OperationsSettle ==
    /\ \A t \in Threads : []<>(scene = "reset" => Reset!Answered(t))
    /\ []<>(scene = "prepare" => Prep!Settled)

----------------------------------------------------------------------------
(* In the scene of the resets the invariant of AwdResetProofs holds.       *)
ResetInv == scene = "reset" => Reset!Inv

LEMMA ResetConstantsHold == Reset!ResetConstants
  <1>1. \A s \in ResetSettings : s.threads \in {{"t1"}, Threads} BY DEF ResetSettings
  <1>2. \A s \in ResetSettings : s.threads \subseteq Threads /\ s.threads # {} BY <1>1, OpsConstants
  <1>3. Reset!IsFiniteSet(Threads) /\ Reset!IsFiniteSet(Records) BY OpsConstants DEF IsFiniteSet, Reset!IsFiniteSet
  <1> QED BY <1>2, <1>3, OpsConstants DEF Reset!ResetConstants

(* Resets of any number of requests in flight, records and free resets     *)
(* are fair: see AwdResetProofs for the argument.                          *)
THEOREM ResetsStayFair == Spec => []ResetsFair
  <1>1. Init => ResetInv
    BY ResetConstantsHold, Reset!InitInv DEF Init, ResetInv
  <1>2. ResetInv /\ [Next]_vars => ResetInv'
    <2> SUFFICES ASSUME ResetInv, [Next]_vars, scene' = "reset" PROVE Reset!Inv' BY DEF ResetInv
    <2>1. scene = "reset" BY DEF Next, InReset, InPrep, InAccess, InAddr, InTokens, vars
    <2>2. Reset!Inv BY <2>1 DEF ResetInv
    <2>3. [Reset!Next]_(Reset!vars)
      <3>1. CASE InReset(Reset!Next) BY <3>1 DEF InReset
      <3>2. CASE UNCHANGED vars BY <3>2 DEF vars, Reset!vars
      <3> QED BY <2>1, <3>1, <3>2 DEF Next, InPrep, InAccess, InAddr, InTokens
    <2> QED BY <2>2, <2>3, ResetConstantsHold, Reset!NextInv
  <1>3. ResetInv => ResetsFair
    BY ResetConstantsHold, Reset!InvResults DEF ResetInv, ResetsFair
  <1> QED BY <1>1, <1>2, <1>3, PTL DEF Spec

(* In the scene of the preparation the invariant of AwdPreparationProofs   *)
(* holds.                                                                  *)
PrepInv == scene = "prepare" => Prep!Inv

LEMMA PrepConstantsHold == Prep!PreparationConstants
  <1>1. \A s \in PrepareSettings : s.teams \in {{"x"}, {"x", "y"}} /\ s.moves \in {1, 2} BY DEF PrepareSettings
  <1> QED BY <1>1, OpsConstants DEF Prep!PreparationConstants

LEMMA PrepSteps ==
  ASSUME [Next]_vars PROVE scene' = scene /\ (scene = "prepare" => [Prep!Next]_(Prep!vars))
  <1>1. CASE InPrep(Prep!Next) BY <1>1 DEF InPrep
  <1>2. CASE UNCHANGED vars BY <1>2 DEF vars, Prep!vars
  <1> QED BY <1>1, <1>2 DEF Next, InReset, InAccess, InAddr, InTokens

LEMMA PrepInvInit == ASSUME Init PROVE PrepInv
  BY PrepConstantsHold, Prep!InitInv DEF Init, PrepInv

LEMMA PrepInvStep == ASSUME PrepInv, [Next]_vars PROVE PrepInv'
  BY PrepSteps, PrepConstantsHold, Prep!NextInv DEF PrepInv

(* Any number of deployments, prechecks, reallocations and archives in     *)
(* flight leave an event as its rows say: see AwdPreparationProofs.        *)
THEOREM DeployedStaysAsRecorded == Spec => []DeployedAsRecorded
  <1>1. Init => PrepInv BY PrepInvInit
  <1>2. PrepInv /\ [Next]_vars => PrepInv' BY PrepInvStep
  <1>3. PrepInv => DeployedAsRecorded
    BY PrepConstantsHold, Prep!InvResults DEF PrepInv, DeployedAsRecorded
  <1> QED BY <1>1, <1>2, <1>3, PTL DEF Spec

(* start_event starts what run_precheck looked at.                         *)
THEOREM StartIsOfWhatWasChecked == Spec => StartsAsChecked
  <1>1. Init => PrepInv BY PrepInvInit
  <1>2. PrepInv /\ [Next]_vars => PrepInv' BY PrepInvStep
  <1>3. PrepInv /\ [Next]_vars => [scene = "prepare" => Prep!StartsAsChecked]_vars
    BY PrepSteps, Prep!StartStep DEF PrepInv
  <1> QED BY <1>1, <1>2, <1>3, PTL DEF Spec, StartsAsChecked
----------------------------------------------------------------------------
(* AwdAddressing: the arithmetic of blocks, then the allocator.           *)

LEMMA MulGap ==
    ASSUME NEW s \in Nat, NEW q \in Nat, NEW r \in Nat, q < r
    PROVE  s * q + s <= s * r
  <1>1. PICK k \in Nat : r = (q + 1) + k
    <2>1. r - (q + 1) \in Nat /\ r = (q + 1) + (r - (q + 1))
      OBVIOUS
    <2> QED BY <2>1
  <1>2. s * ((q + 1) + k) = s * q + s + s * k
    OBVIOUS
  <1>3. s * k \in Nat /\ s * q \in Nat
    OBVIOUS
  <1> QED BY <1>1, <1>2, <1>3

LEMMA ModIs ==
    ASSUME NEW s \in Nat, s >= 1, NEW q \in Nat, NEW r \in Nat, r < s
    PROVE  (s * q + r) % s = r
  <1>1. PICK x \in Nat : x = s * q + r
    OBVIOUS
  <1>2. x = s * (x \div s) + (x % s) /\ x % s \in Nat /\ x % s < s /\ x \div s \in Nat
    BY <1>1
  <1>3. PICK a \in Nat, b \in Nat : a = x \div s /\ b = x % s
    BY <1>2
  <1>4. s * q + r = s * a + b /\ b < s
    BY <1>1, <1>2, <1>3
  <1>5. s * q \in Nat /\ s * a \in Nat
    OBVIOUS
  <1>6. ~(q < a)
    <2> SUFFICES ASSUME q < a PROVE FALSE
      OBVIOUS
    <2>1. s * q + s <= s * a
      BY MulGap
    <2> QED BY <1>4, <1>5, <2>1
  <1>7. ~(a < q)
    <2> SUFFICES ASSUME a < q PROVE FALSE
      OBVIOUS
    <2>1. s * a + s <= s * q
      BY MulGap
    <2> QED BY <1>4, <1>5, <2>1
  <1>8. a = q
    BY <1>6, <1>7
  <1>9. b = r
    BY <1>4, <1>5, <1>8
  <1> QED BY <1>1, <1>3, <1>9

(* A block of size s that starts at a multiple of s holds what rounds to   *)
(* its start.                                                              *)
LEMMA RoundsTo ==
    ASSUME NEW s \in Nat, s >= 1, NEW n \in Nat, n % s = 0, NEW a \in Nat
    PROVE  a - (a % s) = n <=> n <= a /\ a < n + s
  <1>1. a % s \in Nat /\ a % s < s
    OBVIOUS
  <1>2. a - (a % s) = n => n <= a /\ a < n + s
    BY <1>1
  <1>3. ASSUME n <= a, a < n + s PROVE a - (a % s) = n
    <2>1. n = s * (n \div s) + (n % s) /\ n \div s \in Nat
      OBVIOUS
    <2>2. PICK q \in Nat : n = s * q
      BY <2>1
    <2>3. PICK r \in Nat : r = a - n
      BY <1>3
    <2>4. r < s /\ a = s * q + r
      BY <1>3, <2>2, <2>3
    <2>5. a % s = r
      BY <2>4, ModIs
    <2> QED BY <2>3, <2>5
  <1> QED BY <1>2, <1>3

LEMMA Divides ==
    ASSUME NEW m \in Nat, m >= 1, NEW n \in Nat, n % m = 0
    PROVE  \E q \in Nat : n = m * q
  <1>1. n = m * (n \div m) + (n % m) /\ n \div m \in Nat
    OBVIOUS
  <1> QED BY <1>1

(* A multiple of k * s plus a multiple of s is a multiple of s.            *)
LEMMA MultipleIn ==
    ASSUME NEW s \in Nat, s >= 1, NEW k \in Nat, k >= 1, NEW m \in Nat, m = k * s, m >= 1,
           NEW n \in Nat, n % m = 0, NEW i \in Nat
    PROVE  (n + i * s) % s = 0
  <1>1. PICK q \in Nat : n = m * q
    BY Divides
  <1>2. PICK z \in Nat : z = k * q + i
    OBVIOUS
  <1>3. m * q + i * s = s * z
    <2>1. (k * s) * q = s * (k * q)
      OBVIOUS
    <2>2. s * (k * q + i) = s * (k * q) + s * i
      OBVIOUS
    <2> QED BY <1>2, <2>1, <2>2
  <1>4. 0 \in Nat /\ 0 < s /\ s * z + 0 = s * z
    OBVIOUS
  <1>5. (s * z + 0) % s = 0
    BY <1>4, ModIs
  <1>6. n + i * s = s * z + 0
    BY <1>1, <1>3, <1>4
  <1> QED BY <1>5, <1>6

LEMMA LeastNat ==
    ASSUME NEW S \in SUBSET Nat, S # {} PROVE \E m \in S : \A n \in S : m <= n
  <1>1. PICK m \in S : \A n \in S : <<n, m>> \notin OpToRel(<, Nat)
    BY NatLessThanWellFounded, WFMin, Zenon
  <1>2. \A n \in S : ~(n < m)
    BY <1>1 DEF OpToRel
  <1> QED BY <1>2

LEMMA MinIn ==
    ASSUME NEW S \in SUBSET Nat, S # {} PROVE Addr!Min(S) \in S
  <1>1. \E m \in S : \A n \in S : m <= n
    BY LeastNat
  <1> QED BY <1>1 DEF Addr!Min

LEMMA PowerNat ==
    ASSUME NEW n \in 0..Width
    PROVE  2 ^ n \in Nat /\ 2 ^ n >= 1
  <1>1. 0 \in 0..Width /\ n + 0 <= Width
    BY AddressConstants
  <1>2. 2 ^ n \in Nat \ {0}
    BY <1>1, AddressConstants
  <1> QED BY <1>2

LEMMA PowerSum ==
    ASSUME NEW k \in 0..Width, NEW n \in 0..Width, k <= n
    PROVE  2 ^ (Width - k) = 2 ^ (n - k) * 2 ^ (Width - n)
  <1>1. n - k \in 0..Width /\ Width - n \in 0..Width /\ (n - k) + (Width - n) = Width - k /\ Width - k <= Width
    BY AddressConstants
  <1>2. 2 ^ ((n - k) + (Width - n)) = 2 ^ (n - k) * 2 ^ (Width - n)
    BY <1>1, AddressConstants
  <1> QED BY <1>1, <1>2

LEMMA CidrSize ==
    ASSUME NEW c \in Addr!Cidrs
    PROVE  /\ c.net \in Nat /\ c.len \in 0..Width /\ c.len \in Nat /\ Addr!Size(c) = 2 ^ (Width - c.len)
           /\ Addr!Size(c) \in Nat /\ Addr!Size(c) >= 1
  <1>1. c.net \in Nat /\ c.len \in 0..Width /\ Width - c.len \in 0..Width /\ c.len \in Nat
    BY AddressConstants DEF Addr!Cidrs
  <1>2. 2 ^ (Width - c.len) \in Nat /\ 2 ^ (Width - c.len) >= 1
    BY <1>1, PowerNat
  <1> QED BY <1>1, <1>2 DEF Addr!Size

(* Contains tells whether an address is in the block.                      *)
LEMMA ContainsIs ==
    ASSUME NEW c, Addr!Fits(c), NEW a \in Nat
    PROVE  Addr!Contains(c, a) <=> a \in Addr!Addresses(c)
  <1>1. c \in Addr!Cidrs /\ c.net % Addr!Size(c) = 0
    BY DEF Addr!Fits
  <1>2. PICK s \in Nat, n \in Nat : s = Addr!Size(c) /\ n = c.net
    BY <1>1, CidrSize
  <1>3. s >= 1 /\ n % s = 0
    BY <1>1, <1>2, CidrSize
  <1>4. a - (a % s) = n <=> n <= a /\ a < n + s
    BY <1>3, RoundsTo
  <1>5. n - (n % s) = n
    BY <1>3
  <1>6. Addr!Contains(c, a) <=> a - (a % s) = n
    BY <1>2, <1>5 DEF Addr!Contains, Addr!Masked
  <1>7. a \in Addr!Addresses(c) <=> n <= a /\ a < n + s
    BY <1>2 DEF Addr!Addresses
  <1> QED BY <1>4, <1>6, <1>7

(* Blocks that do not overlap share no address.                            *)
LEMMA ApartIs ==
    ASSUME NEW c, NEW d, Addr!Fits(c), Addr!Fits(d), ~Addr!Overlaps(c, d)
    PROVE  Addr!Addresses(c) \cap Addr!Addresses(d) = {}
  <1>1. c \in Addr!Cidrs /\ d \in Addr!Cidrs
    BY DEF Addr!Fits
  <1>2. PICK s \in Nat, n \in Nat : s = Addr!Size(c) /\ n = c.net
    BY <1>1, CidrSize
  <1>3. PICK r \in Nat, m \in Nat : r = Addr!Size(d) /\ m = d.net
    BY <1>1, CidrSize
  <1>4. m \notin Addr!Addresses(c)
    BY <1>3, ContainsIs DEF Addr!Overlaps
  <1>5. n \notin Addr!Addresses(d)
    BY <1>2, ContainsIs DEF Addr!Overlaps
  <1>6. Addr!Addresses(c) = n..(n + s - 1) /\ Addr!Addresses(d) = m..(m + r - 1)
    BY <1>2, <1>3 DEF Addr!Addresses
  <1> QED BY <1>4, <1>5, <1>6

(* The i-th block of a longer prefix lies in the block.                    *)
LEMMA SubnetIs ==
    ASSUME NEW c, Addr!Fits(c), NEW n \in Nat, NEW i \in Nat, Addr!NthSubnet(c, n, i) # Addr!None
    PROVE  /\ n \in 0..Width /\ c.len <= n /\ i < 2 ^ (n - c.len)
           /\ Addr!NthSubnet(c, n, i) = [net |-> c.net + i * 2 ^ (Width - n), len |-> n]
           /\ Addr!Fits(Addr!NthSubnet(c, n, i)) /\ Addr!Size(Addr!NthSubnet(c, n, i)) = 2 ^ (Width - n)
           /\ Addr!Addresses(Addr!NthSubnet(c, n, i)) \subseteq Addr!Addresses(c)
  <1>1. c \in Addr!Cidrs /\ c.net % Addr!Size(c) = 0 /\ c.net + Addr!Size(c) <= 2 ^ Width
    BY DEF Addr!Fits
  <1>2. /\ c.len <= n /\ n <= Width /\ i < 2 ^ (n - c.len) /\ c.len \in 0..Width
        /\ Addr!NthSubnet(c, n, i) = [net |-> c.net + i * 2 ^ (Width - n), len |-> n]
    BY <1>1, CidrSize DEF Addr!NthSubnet, Addr!Cidr
  <1>3. n \in 0..Width /\ Width - n \in 0..Width /\ n - c.len \in 0..Width /\ Width \in 0..Width
    BY <1>2, AddressConstants
  <1>4. PICK s \in Nat : s = 2 ^ (Width - n) /\ s >= 1
    BY <1>3, PowerNat
  <1>5. PICK k \in Nat : k = 2 ^ (n - c.len) /\ k >= 1
    BY <1>3, PowerNat
  <1>6. PICK m \in Nat : m = Addr!Size(c) /\ m >= 1
    BY <1>1, CidrSize
  <1>7. m = k * s
    BY <1>1, <1>2, <1>3, <1>4, <1>5, <1>6, PowerSum, CidrSize
  <1>8. PICK b \in Nat : b = c.net
    BY <1>1, CidrSize
  <1>9. PICK d : d = Addr!NthSubnet(c, n, i)
    OBVIOUS
  <1>10. i * s \in Nat /\ b + i * s \in Nat
    OBVIOUS
  <1>11. d = [net |-> b + i * s, len |-> n]
    BY <1>2, <1>4, <1>8, <1>9
  <1>12. d \in Addr!Cidrs /\ d.net = b + i * s /\ d.len = n
    BY <1>3, <1>10, <1>11 DEF Addr!Cidrs
  <1>13. Addr!Size(d) = s
    BY <1>4, <1>12, CidrSize
  <1>14. (b + i * s) % s = 0
    <2>1. s >= 1 /\ k >= 1 /\ m = k * s /\ m >= 1 /\ b % m = 0
      BY <1>1, <1>4, <1>5, <1>6, <1>7, <1>8
    <2> QED BY <2>1, MultipleIn
  <1>15. i * s + s <= m
    <2>1. i < k
      BY <1>2, <1>5
    <2>2. s * i + s <= s * k
      BY <2>1, MulGap
    <2>3. s * i = i * s /\ s * k = m
      BY <1>7
    <2> QED BY <2>2, <2>3
  <1>16. PICK w : w = 2 ^ Width /\ w \in Nat
    BY <1>3, PowerNat
  <1>17. b + m <= w
    BY <1>1, <1>6, <1>8, <1>16
  <1>18. (b + i * s) + s <= w
    BY <1>10, <1>15, <1>16, <1>17
  <1>19. Addr!Fits(d)
    BY <1>12, <1>13, <1>14, <1>16, <1>18 DEF Addr!Fits
  <1>20. Addr!Addresses(d) \subseteq Addr!Addresses(c)
    <2>1. Addr!Addresses(d) = (b + i * s)..((b + i * s) + s - 1) /\ Addr!Addresses(c) = b..(b + m - 1)
      BY <1>6, <1>8, <1>12, <1>13 DEF Addr!Addresses
    <2> QED BY <1>10, <1>15, <2>1
  <1> QED BY <1>2, <1>3, <1>4, <1>9, <1>13, <1>19, <1>20

(* Two of them share no address.                                           *)
LEMMA SubnetsApart ==
    ASSUME NEW c, Addr!Fits(c), NEW n \in Nat, NEW i \in Nat, NEW j \in Nat, i < j,
           Addr!NthSubnet(c, n, i) # Addr!None, Addr!NthSubnet(c, n, j) # Addr!None
    PROVE  /\ Addr!Addresses(Addr!NthSubnet(c, n, i)) \cap Addr!Addresses(Addr!NthSubnet(c, n, j)) = {}
           /\ \A a \in Addr!Addresses(Addr!NthSubnet(c, n, j)) : c.net + 2 ^ (Width - n) <= a /\ a \in Nat
  <1>1. PICK d : d = Addr!NthSubnet(c, n, i)
    OBVIOUS
  <1>2. PICK f : f = Addr!NthSubnet(c, n, j)
    OBVIOUS
  <1>3. n \in 0..Width /\ Width - n \in 0..Width /\ c.net \in Nat
    BY SubnetIs, CidrSize, AddressConstants DEF Addr!Fits
  <1>4. PICK s \in Nat : s = 2 ^ (Width - n) /\ s >= 1
    BY <1>3, PowerNat
  <1>5. PICK b \in Nat : b = c.net
    BY <1>3
  <1>6. d = [net |-> b + i * s, len |-> n] /\ Addr!Size(d) = s
    BY <1>1, <1>4, <1>5, SubnetIs
  <1>7. f = [net |-> b + j * s, len |-> n] /\ Addr!Size(f) = s
    BY <1>2, <1>4, <1>5, SubnetIs
  <1>8. PICK p \in Nat, q \in Nat : p = i * s /\ q = j * s
    OBVIOUS
  <1>9. p + s <= q /\ s <= q
    <2>1. s * i + s <= s * j
      BY MulGap
    <2>2. s * i = p /\ s * j = q
      BY <1>8
    <2> QED BY <2>1, <2>2
  <1>10. Addr!Addresses(d) = (b + p)..(b + p + s - 1) /\ Addr!Addresses(f) = (b + q)..(b + q + s - 1)
    BY <1>6, <1>7, <1>8 DEF Addr!Addresses
  <1>11. \A a \in Addr!Addresses(f) : b + s <= a /\ a \in Nat
    BY <1>9, <1>10
  <1>12. Addr!Addresses(d) \cap Addr!Addresses(f) = {}
    BY <1>9, <1>10
  <1> QED BY <1>1, <1>2, <1>4, <1>5, <1>11, <1>12

(* All but the first begin after it.                                       *)
LEMMA SubnetsLater ==
    ASSUME NEW c, Addr!Fits(c), NEW n \in Nat, NEW j \in Nat, j > 0, Addr!NthSubnet(c, n, j) # Addr!None
    PROVE  \A a \in Addr!Addresses(Addr!NthSubnet(c, n, j)) :
             a \in Addr!Addresses(c) /\ a \in Nat /\ c.net + 2 ^ (Width - n) <= a
  <1>1. /\ n \in 0..Width /\ c.len <= n /\ j < 2 ^ (n - c.len)
        /\ Addr!Addresses(Addr!NthSubnet(c, n, j)) \subseteq Addr!Addresses(c)
    BY SubnetIs
  <1>2. c.len \in 0..Width
    BY CidrSize DEF Addr!Fits
  <1>3. n - c.len \in 0..Width /\ n <= Width
    BY <1>1, <1>2, AddressConstants
  <1>4. PICK k \in Nat : k = 2 ^ (n - c.len)
    BY <1>3, PowerNat
  <1>5. 0 < k
    BY <1>1, <1>4
  <1>6. Addr!NthSubnet(c, n, 0) = Addr!Cidr(c.net + 0 * 2 ^ (Width - n), n)
    BY <1>1, <1>3, <1>4, <1>5 DEF Addr!NthSubnet
  <1>7. Addr!NthSubnet(c, n, 0).len # Width + 1
    BY <1>3, <1>6, AddressConstants DEF Addr!Cidr
  <1>8. Addr!NthSubnet(c, n, 0) # Addr!None
    BY <1>7 DEF Addr!None, Addr!Cidr
  <1> QED BY <1>1, <1>8, SubnetsApart

(* What the variables are.                                                 *)
LEMMA AddrTyped ==
    ASSUME Addr!Inductive
    PROVE  /\ x1 \in AddressSettings /\ x2 \in Plans /\ Addr!Sound(x2) /\ x6 \subseteq Foreign /\ x7 \subseteq Events
           /\ x3 \in [Events -> Addr!NetRows] /\ x5 \in [Events -> [Teams -> Addr!TeamRows]]
           /\ x8 \in [Threads -> Addr!Requests]
  BY DEF Addr!Inductive, Addr!Types

LEMMA AddrIdle == Addr!Idle \in Addr!Requests /\ Addr!Idle.pc = "idle" /\ Addr!Idle.ev = "none"
  BY DEF Addr!Idle, Addr!Requests

LEMMA AddrNone == Addr!None \in Addr!Blocks /\ Addr!None.len = Width + 1
  BY AddressConstants DEF Addr!None, Addr!Cidr, Addr!Blocks

LEMMA AddrFits ==
    ASSUME NEW c, Addr!Fits(c)
    PROVE  c \in Addr!Cidrs /\ c \in Addr!Blocks /\ c # Addr!None
  <1>1. c \in Addr!Cidrs
    BY DEF Addr!Fits
  <1>2. c.len # Width + 1
    BY <1>1, AddressConstants DEF Addr!Cidrs
  <1> QED BY <1>1, <1>2, AddrNone, AddressConstants DEF Addr!Cidrs, Addr!Blocks

LEMMA AddrInit == Addr!Init => Addr!Inductive
  <1> SUFFICES ASSUME Addr!Init PROVE Addr!Inductive
    OBVIOUS
  <1>1. /\ Addr!NoNet \in Addr!NetRows /\ Addr!NoNet.st = "none"
        /\ [slot |-> 0, gb |-> Addr!None, wg |-> Addr!None] \in Addr!TeamRows
    BY AddrNone DEF Addr!NoNet, Addr!NetRows, Addr!TeamRows
  <1>2. x3 \in [Events -> Addr!NetRows] /\ \A e \in Events : x3[e].st = "none"
    BY <1>1 DEF Addr!Init
  <1>3. x5 \in [Events -> [Teams -> Addr!TeamRows]] /\ \A e \in Events, x \in Teams : x5[e][x].slot = 0
    BY <1>1 DEF Addr!Init
  <1>4. x8 \in [Threads -> Addr!Requests] /\ \A t \in Threads : x8[t].pc = "idle"
    BY AddrIdle DEF Addr!Init
  <1>5. x1 \in AddressSettings /\ x2 = x1.plan /\ x4 = {} /\ x6 = {} /\ x7 = {}
    BY DEF Addr!Init
  <1>6. x2 \in Plans
    <2>1. x1.plan \in {Plan1, Plan3}
      BY <1>5 DEF AddressSettings
    <2> QED BY <1>5, <2>1 DEF Plans
  <1>7. Addr!Sound(x2)
    BY <1>5, AddressConstants
  <1>8. Addr!Types
    BY <1>2, <1>3, <1>4, <1>5, <1>6, <1>7 DEF Addr!Types
  <1>9. Addr!Asked /\ Addr!Recorded /\ Addr!LaidOut /\ Addr!AllocationsDisjoint
    BY <1>2, <1>4, <1>5 DEF Addr!Asked, Addr!Recorded, Addr!LaidOut, Addr!AllocationsDisjoint
  <1>10. Addr!Seated
    BY <1>2, <1>3 DEF Addr!Seated, Addr!Current
  <1>11. Addr!LedgerMatchesRows /\ Addr!PortsDistinct
    BY <1>2, <1>5 DEF Addr!LedgerMatchesRows, Addr!PortsDistinct, Addr!OfEvent, Addr!Rows
  <1> QED BY <1>8, <1>9, <1>10, <1>11 DEF Addr!Inductive

(* An event gets blocks that nobody has.                                   *)
AddrGives(t, e, row) ==
    /\ t \in Threads /\ e \in Events /\ x3[e].st \in {"none", "open"}
    /\ row \in Addr!NetRows /\ row.st = "open" /\ Addr!Laid(row)
    /\ Addr!Addresses(row.gb) \cap Addr!Addresses(row.wg) = {}
    /\ \A c \in Addr!ActiveCidrs : /\ Addr!Addresses(c) \cap Addr!Addresses(row.gb) = {}
                                   /\ Addr!Addresses(c) \cap Addr!Addresses(row.wg) = {}
    /\ row.port \notin Addr!UsedPorts
    /\ x3' = [x3 EXCEPT ![e] = row] /\ x4' = (x4 \ Addr!OfEvent(e)) \cup Addr!Entries(e, row.gb, row.wg)
    /\ x7' = IF \E x \in Teams : x5[e][x].slot # 0 THEN x7 \cup {e} ELSE x7
    /\ x8' = [x8 EXCEPT ![t] = Addr!Idle] /\ UNCHANGED <<x1, x2, x5, x6>>

LEMMA AddrGivesKeeps ==
    ASSUME Addr!Inductive, NEW t, NEW e, NEW row, AddrGives(t, e, row)
    PROVE  Addr!Inductive'
  <1>1. /\ t \in Threads /\ e \in Events /\ row \in Addr!NetRows /\ row.st = "open" /\ Addr!Laid(row)
        /\ UNCHANGED <<x1, x2, x5, x6>> /\ x7' \subseteq x7 \cup {e}
        /\ x3' = [x3 EXCEPT ![e] = row] /\ x8' = [x8 EXCEPT ![t] = Addr!Idle]
        /\ x4' = (x4 \ Addr!OfEvent(e)) \cup Addr!Entries(e, row.gb, row.wg)
    BY DEF AddrGives
  <1>2. x3 \in [Events -> Addr!NetRows] /\ x8 \in [Threads -> Addr!Requests] /\ x7 \subseteq Events
    BY AddrTyped
  <1>3. /\ x3' \in [Events -> Addr!NetRows] /\ x3'[e] = row /\ \A f \in Events : f # e => x3'[f] = x3[f]
        /\ x8' \in [Threads -> Addr!Requests] /\ x8'[t] = Addr!Idle /\ \A u \in Threads : u # t => x8'[u] = x8[u]
    BY <1>1, <1>2, AddrIdle
  <1>4. Addr!Types'
    <2>1. x1' = x1 /\ x2' = x2 /\ x5' = x5 /\ x6' = x6 /\ x7' \subseteq Events
      BY <1>1, <1>2
    <2>2. Addr!Sound(x2)
      BY AddrTyped
    <2> QED BY <1>3, <2>1, <2>2, AddrTyped DEF Addr!Types, Addr!Inductive
  <1>5. Addr!Asked'
    BY <1>1, <1>3, AddrIdle DEF Addr!Asked, Addr!Inductive
  <1>6. \A a \in x4 : a.ev \in Events /\ x3[a.ev].st = "open"
    BY DEF Addr!Inductive, Addr!Recorded
  <1>7. \A a \in Addr!Entries(e, row.gb, row.wg) : a.ev = e /\ a.cidr \in {row.gb, row.wg}
    BY DEF Addr!Entries
  <1>8. \A a \in x4' : \/ a \in x4 /\ a.ev # e
                       \/ a \in Addr!Entries(e, row.gb, row.wg)
    BY <1>1 DEF Addr!OfEvent
  <1>9. Addr!Recorded'
    <2>1. ASSUME NEW a \in x4' PROVE a.ev \in Events /\ x3'[a.ev].st = "open"
      BY <1>1, <1>3, <1>6, <1>7, <1>8
    <2> QED BY <2>1 DEF Addr!Recorded
  <1>10. Addr!LaidOut'
    BY <1>1, <1>3 DEF Addr!LaidOut, Addr!Inductive
  <1>11. Addr!Seated'
    <2>1. ASSUME NEW f \in Events, NEW x \in Teams
          PROVE  /\ x3'[f].st = "none" => x5[f][x].slot = 0
                 /\ x3'[f].st = "open" /\ f \notin x7' /\ x5[f][x].slot # 0 =>
                      /\ Addr!Seat(x3'[f], x5[f][x])
                      /\ \A y \in Teams : x5[f][y].slot = x5[f][x].slot => x = y
      <3>1. CASE f = e
        BY <1>1, <1>3, <3>1 DEF AddrGives
      <3>2. CASE f # e
        <4>1. x3'[f] = x3[f] /\ (f \notin x7' => f \notin x7)
          BY <1>3, <3>2 DEF AddrGives
        <4> QED BY <4>1 DEF Addr!Inductive, Addr!Seated, Addr!Current
      <3> QED BY <3>1, <3>2
    <2> QED BY <1>1, <2>1 DEF Addr!Seated, Addr!Current
  <1>12. Addr!LedgerMatchesRows'
    <2> SUFFICES ASSUME NEW f \in Events
                 PROVE  {a \in x4' : a.ev = f} = IF x3'[f].st = "open" THEN Addr!Entries(f, x3'[f].gb, x3'[f].wg) ELSE {}
      BY DEF Addr!LedgerMatchesRows, Addr!OfEvent
    <2>1. CASE f = e
      BY <1>1, <1>3, <1>7, <1>8, <2>1
    <2>2. CASE f # e
      <3>1. {a \in x4' : a.ev = f} = {a \in x4 : a.ev = f}
        BY <1>1, <1>7, <1>8, <2>2 DEF Addr!OfEvent
      <3>2. {a \in x4 : a.ev = f} = IF x3[f].st = "open" THEN Addr!Entries(f, x3[f].gb, x3[f].wg) ELSE {}
        BY DEF Addr!Inductive, Addr!LedgerMatchesRows, Addr!OfEvent
      <3> QED BY <1>3, <2>2, <3>1, <3>2
    <2> QED BY <2>1, <2>2
  <1>13. Addr!AllocationsDisjoint'
    <2> SUFFICES ASSUME NEW a \in x4', NEW b \in x4', a # b
                 PROVE  Addr!Addresses(a.cidr) \cap Addr!Addresses(b.cidr) = {}
      BY DEF Addr!AllocationsDisjoint
    <2>1. CASE a \in x4 /\ b \in x4
      BY <2>1 DEF Addr!Inductive, Addr!AllocationsDisjoint
    <2>2. ASSUME NEW c \in x4, NEW d \in Addr!Entries(e, row.gb, row.wg)
          PROVE  Addr!Addresses(c.cidr) \cap Addr!Addresses(d.cidr) = {}
      <3>1. c.cidr \in Addr!ActiveCidrs /\ d.cidr \in {row.gb, row.wg}
        BY <1>7 DEF Addr!ActiveCidrs
      <3> QED BY <3>1 DEF AddrGives
    <2>3. CASE a \in Addr!Entries(e, row.gb, row.wg) /\ b \in Addr!Entries(e, row.gb, row.wg)
      <3>1. \/ a.cidr = row.gb /\ b.cidr = row.wg
            \/ a.cidr = row.wg /\ b.cidr = row.gb
        BY <2>3 DEF Addr!Entries
      <3>2. Addr!Addresses(row.gb) \cap Addr!Addresses(row.wg) = {}
        BY DEF AddrGives
      <3> QED BY <3>1, <3>2
    <2> QED BY <1>8, <2>1, <2>2, <2>3
  <1>14. Addr!PortsDistinct'
    <2> SUFFICES ASSUME NEW f \in Events, NEW g \in Events, f # g, x3'[f].st # "none", x3'[g].st # "none"
                 PROVE  x3'[f].port # x3'[g].port
      BY DEF Addr!PortsDistinct, Addr!Rows
    <2>1. \A h \in Events : x3[h].st # "none" => x3[h].port # row.port
      BY DEF AddrGives, Addr!UsedPorts, Addr!Rows
    <2>2. CASE f = e \/ g = e
      BY <1>3, <2>1, <2>2
    <2>3. CASE f # e /\ g # e
      BY <1>3, <2>3 DEF Addr!Inductive, Addr!PortsDistinct, Addr!Rows
    <2> QED BY <2>2, <2>3
  <1> QED BY <1>4, <1>5, <1>9, <1>10, <1>11, <1>12, <1>13, <1>14 DEF Addr!Inductive

LEMMA AddrActive ==
    ASSUME Addr!Inductive, NEW c \in Addr!ActiveCidrs
    PROVE  Addr!Fits(c)
  <1>1. PICK a \in x4 : c = a.cidr
    BY DEF Addr!ActiveCidrs
  <1>2. PICK e \in Events : e = a.ev /\ x3[e].st = "open"
    BY DEF Addr!Inductive, Addr!Recorded
  <1>3. a \in Addr!Entries(e, x3[e].gb, x3[e].wg)
    BY <1>2 DEF Addr!Inductive, Addr!LedgerMatchesRows, Addr!OfEvent
  <1>4. c \in {x3[e].gb, x3[e].wg}
    BY <1>1, <1>3 DEF Addr!Entries
  <1> QED BY <1>2, <1>4 DEF Addr!Inductive, Addr!LaidOut, Addr!Laid

(* The first block of a pool that is free.                                 *)
LEMMA AddrFirst ==
    ASSUME NEW p, Addr!Fits(p.pool), Addr!NetworkPool(p), p.event \in Nat, NEW taken, NEW c,
           c = Addr!FirstFreeEventSubnet(p, taken), c # Addr!None
    PROVE  /\ Addr!Fits(c) /\ Addr!Addresses(c) \subseteq Addr!Addresses(p.pool)
           /\ \A d \in taken : ~Addr!Overlaps(d, c)
  <1>1. PICK S : S = Addr!FreeSlots(p, taken)
    OBVIOUS
  <1>2. S # {} /\ c = Addr!NthSubnet(p.pool, p.event, Addr!Min(S))
    BY <1>1 DEF Addr!FirstFreeEventSubnet
  <1>3. S \in SUBSET Nat
    BY <1>1 DEF Addr!FreeSlots
  <1>4. PICK i \in S : i = Addr!Min(S)
    BY <1>2, <1>3, MinIn
  <1>5. i \in Nat /\ c = Addr!NthSubnet(p.pool, p.event, i)
    BY <1>2, <1>3, <1>4
  <1>6. \A d \in taken : ~Addr!Overlaps(d, c)
    BY <1>1, <1>5 DEF Addr!FreeSlots
  <1> QED BY <1>5, <1>6, SubnetIs

LEMMA AddrPort ==
    ASSUME Addr!Inductive, Addr!FreePorts # {}
    PROVE  Addr!Min(Addr!FreePorts) \in Nat /\ Addr!Min(Addr!FreePorts) \notin Addr!UsedPorts
  <1>1. Addr!FreePorts \subseteq Nat /\ Addr!FreePorts \cap Addr!UsedPorts = {}
    BY AddrTyped, AddressConstants DEF Addr!FreePorts, Addr!PlanFits
  <1>2. Addr!Min(Addr!FreePorts) \in Addr!FreePorts
    BY <1>1, MinIn
  <1> QED BY <1>1, <1>2

(* The row an event gets.                                                  *)
LEMMA AddrRow ==
    ASSUME NEW gb, NEW wg, NEW port \in Nat, NEW len \in Nat, Addr!Fits(gb), Addr!Fits(wg), Addr!InfraFits(gb, len)
    PROVE  \E row \in Addr!NetRows :
             /\ row = [gb |-> gb, wg |-> wg, port |-> port, infra |-> Addr!NthSubnet(gb, len, 0), st |-> "open"]
             /\ row.gb = gb /\ row.wg = wg /\ row.port = port /\ row.st = "open" /\ Addr!Laid(row)
  <1>1. PICK infra : infra = Addr!NthSubnet(gb, len, 0)
    OBVIOUS
  <1>2. infra # Addr!None /\ Addr!Size(infra) >= 3
    BY <1>1 DEF Addr!InfraFits, Addr!HasHost
  <1>3. /\ len \in 0..Width /\ gb.len <= len /\ Addr!Fits(infra) /\ infra.len = len
    BY <1>1, <1>2, SubnetIs
  <1>4. PICK row : row = [gb |-> gb, wg |-> wg, port |-> port, infra |-> infra, st |-> "open"]
    OBVIOUS
  <1>5. row \in Addr!NetRows
    BY <1>3, <1>4, AddrFits DEF Addr!NetRows
  <1>6. row.gb = gb /\ row.wg = wg /\ row.port = port /\ row.st = "open" /\ row.infra = infra
    BY <1>4
  <1>7. len <= Width
    BY <1>3
  <1>8. Addr!Laid(row)
    BY <1>1, <1>2, <1>3, <1>6, <1>7 DEF Addr!Laid
  <1> QED BY <1>1, <1>4, <1>5, <1>6, <1>8

(* Blocks from the two pools of the settings, and those of the ledger.     *)
LEMMA AddrPools ==
    ASSUME Addr!Inductive, NEW taken, Addr!ActiveCidrs \subseteq taken, NEW gb, NEW wg,
           gb = Addr!FirstFreeEventSubnet(x2.gb, taken), wg = Addr!FirstFreeEventSubnet(x2.wg, taken),
           gb # Addr!None, wg # Addr!None
    PROVE  /\ Addr!Fits(gb) /\ Addr!Fits(wg) /\ Addr!Addresses(gb) \cap Addr!Addresses(wg) = {}
           /\ \A c \in Addr!ActiveCidrs : /\ Addr!Addresses(c) \cap Addr!Addresses(gb) = {}
                                          /\ Addr!Addresses(c) \cap Addr!Addresses(wg) = {}
  <1>1. Addr!Sound(x2) /\ Addr!PlanFits(x2)
    BY AddrTyped, AddressConstants
  <1>2. /\ Addr!Fits(x2.gb.pool) /\ Addr!Fits(x2.wg.pool) /\ x2.gb.event \in Nat /\ x2.wg.event \in Nat
        /\ Addr!NetworkPool(x2.gb) /\ Addr!NetworkPool(x2.wg) /\ ~Addr!Overlaps(x2.gb.pool, x2.wg.pool)
    BY <1>1 DEF Addr!Sound, Addr!PlanFits
  <1>3. /\ Addr!Fits(gb) /\ Addr!Addresses(gb) \subseteq Addr!Addresses(x2.gb.pool)
        /\ \A d \in taken : ~Addr!Overlaps(d, gb)
    BY <1>2, AddrFirst
  <1>4. /\ Addr!Fits(wg) /\ Addr!Addresses(wg) \subseteq Addr!Addresses(x2.wg.pool)
        /\ \A d \in taken : ~Addr!Overlaps(d, wg)
    BY <1>2, AddrFirst
  <1>5. Addr!Addresses(x2.gb.pool) \cap Addr!Addresses(x2.wg.pool) = {}
    BY <1>2, ApartIs
  <1>6. ASSUME NEW c \in Addr!ActiveCidrs
        PROVE  /\ Addr!Addresses(c) \cap Addr!Addresses(gb) = {}
               /\ Addr!Addresses(c) \cap Addr!Addresses(wg) = {}
    <2>1. Addr!Fits(c) /\ ~Addr!Overlaps(c, gb) /\ ~Addr!Overlaps(c, wg)
      BY <1>3, <1>4, AddrActive
    <2> QED BY <1>3, <1>4, <2>1, ApartIs
  <1> QED BY <1>3, <1>4, <1>5, <1>6

(* A request that is refused leaves no trace.                              *)
LEMMA AddrRefused ==
    ASSUME Addr!Inductive, NEW t \in Threads, Addr!Refuse(t), UNCHANGED <<x1, x2, x5, x6>>
    PROVE  Addr!Inductive'
  <1>1. UNCHANGED <<x1, x2, x3, x4, x5, x6, x7>> /\ x8' = [x8 EXCEPT ![t] = Addr!Idle]
    BY DEF Addr!Refuse
  <1>2. x8 \in [Threads -> Addr!Requests]
    BY AddrTyped
  <1>3. x8' \in [Threads -> Addr!Requests] /\ x8'[t] = Addr!Idle /\ \A u \in Threads : u # t => x8'[u] = x8[u]
    BY <1>1, <1>2, AddrIdle
  <1>4. Addr!Types'
    BY <1>1, <1>3 DEF Addr!Inductive, Addr!Types
  <1>5. Addr!Asked'
    BY <1>1, <1>3, AddrIdle DEF Addr!Inductive, Addr!Asked
  <1>6. Addr!Recorded' /\ Addr!LaidOut' /\ Addr!Seated'
    BY <1>1 DEF Addr!Inductive, Addr!Recorded, Addr!LaidOut, Addr!Seated, Addr!Current
  <1>7. Addr!LedgerMatchesRows' /\ Addr!AllocationsDisjoint' /\ Addr!PortsDistinct'
    BY <1>1 DEF Addr!Inductive, Addr!LedgerMatchesRows, Addr!OfEvent, Addr!AllocationsDisjoint, Addr!PortsDistinct, Addr!Rows
  <1> QED BY <1>4, <1>5, <1>6, <1>7 DEF Addr!Inductive

(* An event without a row: nothing of it is in the ledger, no team has a   *)
(* slot.                                                                   *)
LEMMA AddrFresh ==
    ASSUME Addr!Inductive, NEW e \in Events, x3[e].st = "none"
    PROVE  x4 \ Addr!OfEvent(e) = x4 /\ \A x \in Teams : x5[e][x].slot = 0
  <1>1. Addr!OfEvent(e) = {}
    BY DEF Addr!Inductive, Addr!LedgerMatchesRows
  <1> QED BY <1>1 DEF Addr!Inductive, Addr!Seated

LEMMA AddrAutomatic ==
    ASSUME Addr!Inductive, NEW t \in Threads, Addr!AllocateAutomatic(t)
    PROVE  Addr!Inductive'
  <1>1. x8[t].pc = "auto" /\ UNCHANGED <<x1, x2, x5, x6>>
    BY DEF Addr!AllocateAutomatic
  <1>2. PICK e \in Events : e = x8[t].ev
    BY <1>1 DEF Addr!Inductive, Addr!Asked
  <1>3. PICK taken : taken = Addr!ActiveCidrs \cup x8[t].ext
    OBVIOUS
  <1>4. PICK gb, wg : gb = Addr!FirstFreeEventSubnet(x2.gb, taken) /\ wg = Addr!FirstFreeEventSubnet(x2.wg, taken)
    OBVIOUS
  <1>5. PICK port, len : port = Addr!Min(Addr!FreePorts) /\ len = x2.gb.team
    OBVIOUS
  <1>6. \/ /\ x3[e].st = "none" /\ gb # Addr!None /\ wg # Addr!None /\ Addr!FreePorts # {} /\ Addr!InfraFits(gb, len)
           /\ Addr!Persist(e, gb, wg, port, len) /\ x4' = x4 \cup Addr!Entries(e, gb, wg)
           /\ x8' = [x8 EXCEPT ![t] = Addr!Idle] /\ x7' = x7
        \/ Addr!Refuse(t)
    BY <1>2, <1>3, <1>4, <1>5 DEF Addr!AllocateAutomatic
  <1>7. CASE Addr!Refuse(t)
    BY <1>1, <1>7, AddrRefused
  <1>8. CASE /\ x3[e].st = "none" /\ gb # Addr!None /\ wg # Addr!None /\ Addr!FreePorts # {} /\ Addr!InfraFits(gb, len)
             /\ Addr!Persist(e, gb, wg, port, len) /\ x4' = x4 \cup Addr!Entries(e, gb, wg)
             /\ x8' = [x8 EXCEPT ![t] = Addr!Idle] /\ x7' = x7
    <2>1. /\ Addr!Fits(gb) /\ Addr!Fits(wg) /\ Addr!Addresses(gb) \cap Addr!Addresses(wg) = {}
          /\ \A c \in Addr!ActiveCidrs : /\ Addr!Addresses(c) \cap Addr!Addresses(gb) = {}
                                         /\ Addr!Addresses(c) \cap Addr!Addresses(wg) = {}
      BY <1>3, <1>4, <1>8, AddrPools
    <2>2. port \in Nat /\ port \notin Addr!UsedPorts /\ len \in Nat
      BY <1>5, <1>8, AddrPort, AddrTyped, AddressConstants DEF Addr!PlanFits
    <2>3. PICK row \in Addr!NetRows :
             /\ row = [gb |-> gb, wg |-> wg, port |-> port, infra |-> Addr!NthSubnet(gb, len, 0), st |-> "open"]
             /\ row.gb = gb /\ row.wg = wg /\ row.port = port /\ row.st = "open" /\ Addr!Laid(row)
      BY <1>8, <2>1, <2>2, AddrRow
    <2>4. x3' = [x3 EXCEPT ![e] = row]
      BY <1>8, <2>3 DEF Addr!Persist
    <2>5. x4 \ Addr!OfEvent(e) = x4 /\ ~(\E x \in Teams : x5[e][x].slot # 0)
      BY <1>8, AddrFresh
    <2>6. AddrGives(t, e, row)
      BY <1>1, <1>8, <2>1, <2>2, <2>3, <2>4, <2>5 DEF AddrGives
    <2> QED BY <2>6, AddrGivesKeeps
  <1> QED BY <1>6, <1>7, <1>8

LEMMA AddrManual ==
    ASSUME Addr!Inductive, NEW t \in Threads, Addr!AllocateManual(t)
    PROVE  Addr!Inductive'
  <1>1. x8[t].pc = "manual" /\ UNCHANGED <<x1, x2, x5, x6>>
    BY DEF Addr!AllocateManual
  <1>2. PICK e \in Events : e = x8[t].ev
    BY <1>1 DEF Addr!Inductive, Addr!Asked
  <1>3. PICK len : len = x2.gb.team
    OBVIOUS
  <1>4. \/ \E m \in Manual, port \in UNION {p.ports : p \in Plans} :
           /\ x3[e].st = "none" /\ ~Addr!Overlaps(m[1], m[2]) /\ port \in Addr!FreePorts /\ Addr!InfraFits(m[1], len)
           /\ \A c \in Addr!ActiveCidrs : ~Addr!Overlaps(c, m[1]) /\ ~Addr!Overlaps(c, m[2])
           /\ Addr!Persist(e, m[1], m[2], port, len) /\ x4' = x4 \cup Addr!Entries(e, m[1], m[2])
           /\ x8' = [x8 EXCEPT ![t] = Addr!Idle] /\ x7' = x7
        \/ Addr!Refuse(t)
    <2>1. PICK m \in Manual, port \in UNION {p.ports : p \in Plans} :
           IF /\ x3[e].st = "none" /\ ~Addr!Overlaps(m[1], m[2]) /\ port \in Addr!FreePorts
              /\ \A c \in Addr!ActiveCidrs \cup x8[t].ext : ~Addr!Overlaps(c, m[1]) /\ ~Addr!Overlaps(c, m[2])
              /\ m[1].len <= len /\ Addr!InfraFits(m[1], len)
           THEN /\ Addr!Persist(e, m[1], m[2], port, len)
                /\ x4' = x4 \cup Addr!Entries(e, m[1], m[2])
                /\ x8' = [x8 EXCEPT ![t] = Addr!Idle] /\ x7' = x7
           ELSE Addr!Refuse(t)
      BY <1>2, <1>3 DEF Addr!AllocateManual
    <2> QED BY <2>1
  <1>5. CASE Addr!Refuse(t)
    BY <1>1, <1>5, AddrRefused
  <1>6. ASSUME NEW m \in Manual, NEW port \in Addr!FreePorts,
               x3[e].st = "none", ~Addr!Overlaps(m[1], m[2]), Addr!InfraFits(m[1], len),
               \A c \in Addr!ActiveCidrs : ~Addr!Overlaps(c, m[1]) /\ ~Addr!Overlaps(c, m[2]),
               Addr!Persist(e, m[1], m[2], port, len), x4' = x4 \cup Addr!Entries(e, m[1], m[2]),
               x8' = [x8 EXCEPT ![t] = Addr!Idle], x7' = x7
        PROVE  Addr!Inductive'
    <2>1. PICK gb, wg : gb = m[1] /\ wg = m[2]
      OBVIOUS
    <2>2. Addr!Fits(gb) /\ Addr!Fits(wg)
      BY <2>1, AddressConstants
    <2>3. /\ Addr!Addresses(gb) \cap Addr!Addresses(wg) = {}
          /\ \A c \in Addr!ActiveCidrs : /\ Addr!Addresses(c) \cap Addr!Addresses(gb) = {}
                                         /\ Addr!Addresses(c) \cap Addr!Addresses(wg) = {}
      BY <1>6, <2>1, <2>2, AddrActive, ApartIs
    <2>4. port \in Nat /\ port \notin Addr!UsedPorts /\ len \in Nat
      BY <1>3, <1>6, AddrTyped, AddressConstants DEF Addr!PlanFits, Addr!FreePorts
    <2>5. PICK row \in Addr!NetRows :
             /\ row = [gb |-> gb, wg |-> wg, port |-> port, infra |-> Addr!NthSubnet(gb, len, 0), st |-> "open"]
             /\ row.gb = gb /\ row.wg = wg /\ row.port = port /\ row.st = "open" /\ Addr!Laid(row)
      BY <1>6, <2>1, <2>2, <2>4, AddrRow
    <2>6. x3' = [x3 EXCEPT ![e] = row]
      BY <1>6, <2>1, <2>5 DEF Addr!Persist
    <2>7. x4 \ Addr!OfEvent(e) = x4 /\ ~(\E x \in Teams : x5[e][x].slot # 0)
      BY <1>6, AddrFresh
    <2>8. AddrGives(t, e, row)
      BY <1>1, <1>6, <2>1, <2>3, <2>4, <2>5, <2>6, <2>7 DEF AddrGives
    <2> QED BY <2>8, AddrGivesKeeps
  <1> QED BY <1>4, <1>5, <1>6

LEMMA AddrReallocates ==
    ASSUME Addr!Inductive, NEW t \in Threads, Addr!Reallocate(t)
    PROVE  Addr!Inductive'
  <1>1. x8[t].pc = "realloc" /\ UNCHANGED <<x1, x2, x5, x6>>
    BY DEF Addr!Reallocate
  <1>2. PICK e \in Events : e = x8[t].ev /\ x3[e].st = "open"
    BY <1>1 DEF Addr!Inductive, Addr!Asked
  <1>3. PICK taken : taken = Addr!ActiveCidrs \cup x8[t].ext
    OBVIOUS
  <1>4. PICK gb, wg : gb = Addr!FirstFreeEventSubnet(x2.gb, taken) /\ wg = Addr!FirstFreeEventSubnet(x2.wg, taken)
    OBVIOUS
  <1>5. PICK port, len : port = Addr!Min(Addr!FreePorts) /\ len = x2.gb.team
    OBVIOUS
  <1>6. \/ /\ gb # Addr!None /\ wg # Addr!None /\ Addr!FreePorts # {} /\ Addr!InfraFits(gb, len)
           /\ Addr!Persist(e, gb, wg, port, len) /\ x4' = (x4 \ Addr!OfEvent(e)) \cup Addr!Entries(e, gb, wg)
           /\ x7' = IF \E x \in Teams : x5[e][x].slot # 0 THEN x7 \cup {e} ELSE x7
           /\ x8' = [x8 EXCEPT ![t] = Addr!Idle]
        \/ Addr!Refuse(t)
    BY <1>2, <1>3, <1>4, <1>5 DEF Addr!Reallocate
  <1>7. CASE Addr!Refuse(t)
    BY <1>1, <1>7, AddrRefused
  <1>8. CASE /\ gb # Addr!None /\ wg # Addr!None /\ Addr!FreePorts # {} /\ Addr!InfraFits(gb, len)
             /\ Addr!Persist(e, gb, wg, port, len) /\ x4' = (x4 \ Addr!OfEvent(e)) \cup Addr!Entries(e, gb, wg)
             /\ x7' = IF \E x \in Teams : x5[e][x].slot # 0 THEN x7 \cup {e} ELSE x7
             /\ x8' = [x8 EXCEPT ![t] = Addr!Idle]
    <2>1. /\ Addr!Fits(gb) /\ Addr!Fits(wg) /\ Addr!Addresses(gb) \cap Addr!Addresses(wg) = {}
          /\ \A c \in Addr!ActiveCidrs : /\ Addr!Addresses(c) \cap Addr!Addresses(gb) = {}
                                         /\ Addr!Addresses(c) \cap Addr!Addresses(wg) = {}
      BY <1>3, <1>4, <1>8, AddrPools
    <2>2. port \in Nat /\ port \notin Addr!UsedPorts /\ len \in Nat
      BY <1>5, <1>8, AddrPort, AddrTyped, AddressConstants DEF Addr!PlanFits
    <2>3. PICK row \in Addr!NetRows :
             /\ row = [gb |-> gb, wg |-> wg, port |-> port, infra |-> Addr!NthSubnet(gb, len, 0), st |-> "open"]
             /\ row.gb = gb /\ row.wg = wg /\ row.port = port /\ row.st = "open" /\ Addr!Laid(row)
      BY <1>8, <2>1, <2>2, AddrRow
    <2>4. x3' = [x3 EXCEPT ![e] = row]
      BY <1>8, <2>3 DEF Addr!Persist
    <2>5. AddrGives(t, e, row)
      BY <1>1, <1>2, <1>8, <2>1, <2>2, <2>3, <2>4 DEF AddrGives
    <2> QED BY <2>5, AddrGivesKeeps
  <1> QED BY <1>6, <1>7, <1>8

(* Steps that leave rows, ledger and teams alone.                          *)
LEMMA AddrElsewhere ==
    ASSUME Addr!Inductive, UNCHANGED <<x1, x3, x4, x5, x7>>, x2' \in Plans, Addr!Sound(x2'), x6' \subseteq Foreign,
           x8' \in [Threads -> Addr!Requests],
           \A t \in Threads : x8'[t] = x8[t] \/ (x8'[t].ev \in Events /\ (x8'[t].pc = "realloc" => x3[x8'[t].ev].st = "open"))
    PROVE  Addr!Inductive'
  <1>1. Addr!Types'
    BY DEF Addr!Inductive, Addr!Types
  <1>2. Addr!Asked'
    BY DEF Addr!Inductive, Addr!Asked
  <1>3. Addr!Recorded' /\ Addr!LaidOut' /\ Addr!Seated'
    BY DEF Addr!Inductive, Addr!Recorded, Addr!LaidOut, Addr!Seated, Addr!Current
  <1>4. Addr!LedgerMatchesRows' /\ Addr!AllocationsDisjoint' /\ Addr!PortsDistinct'
    BY DEF Addr!Inductive, Addr!LedgerMatchesRows, Addr!OfEvent, Addr!AllocationsDisjoint, Addr!PortsDistinct, Addr!Rows
  <1> QED BY <1>1, <1>2, <1>3, <1>4 DEF Addr!Inductive

LEMMA AddrUpdates ==
    ASSUME Addr!Inductive, NEW p \in Plans, Addr!UpdateSettings(p)
    PROVE  Addr!Inductive'
  <1>1. UNCHANGED <<x1, x3, x4, x5, x6, x7, x8>> /\ x2' = p /\ Addr!Sound(p)
    BY DEF Addr!UpdateSettings, Addr!Sound
  <1>2. x2' \in Plans /\ Addr!Sound(x2') /\ x6' \subseteq Foreign /\ x8' \in [Threads -> Addr!Requests]
    BY <1>1, AddrTyped
  <1> QED BY <1>1, <1>2, AddrElsewhere

LEMMA AddrCollects ==
    ASSUME Addr!Inductive, NEW t \in Threads, NEW e \in Events, NEW pc \in {"auto", "manual", "realloc"}, Addr!Collect(t, e, pc)
    PROVE  Addr!Inductive'
  <1>1. PICK r : r = [pc |-> pc, ev |-> e, ext |-> x6]
    OBVIOUS
  <1>2. /\ UNCHANGED <<x1, x2, x3, x4, x5, x6, x7>> /\ (pc = "realloc" => x3[e].st = "open") /\ x8' = [x8 EXCEPT ![t] = r]
    BY <1>1 DEF Addr!Collect
  <1>3. r \in Addr!Requests /\ r.pc = pc /\ r.ev = e
    BY <1>1, AddrTyped DEF Addr!Requests
  <1>4. x8 \in [Threads -> Addr!Requests]
    BY AddrTyped
  <1>5. x8' \in [Threads -> Addr!Requests] /\ x8'[t] = r /\ \A u \in Threads : u # t => x8'[u] = x8[u]
    BY <1>2, <1>3, <1>4
  <1>6. \A u \in Threads : x8'[u] = x8[u] \/ (x8'[u].ev \in Events /\ (x8'[u].pc = "realloc" => x3[x8'[u].ev].st = "open"))
    BY <1>2, <1>3, <1>5
  <1>7. x2' \in Plans /\ Addr!Sound(x2') /\ x6' \subseteq Foreign
    BY <1>2, AddrTyped
  <1> QED BY <1>2, <1>5, <1>6, <1>7, AddrElsewhere

LEMMA AddrHost ==
    ASSUME Addr!Inductive, NEW c \in Foreign, Addr!HostChanges(c)
    PROVE  Addr!Inductive'
  <1>1. UNCHANGED <<x1, x2, x3, x4, x5, x7, x8>> /\ x6' \subseteq x6 \cup {c}
    BY DEF Addr!HostChanges
  <1>2. x2' \in Plans /\ Addr!Sound(x2') /\ x6' \subseteq Foreign /\ x8' \in [Threads -> Addr!Requests]
    BY <1>1, AddrTyped
  <1> QED BY <1>1, <1>2, AddrElsewhere

LEMMA AddrReleases ==
    ASSUME Addr!Inductive, NEW e \in Events, Addr!ReleaseAllocations(e)
    PROVE  Addr!Inductive'
  <1>1. PICK row : row = [x3[e] EXCEPT !.st = "archived"]
    OBVIOUS
  <1>2. /\ x3[e].st = "open" /\ UNCHANGED <<x1, x2, x5, x6, x7, x8>> /\ x4' = x4 \ Addr!OfEvent(e)
        /\ x3' = [x3 EXCEPT ![e] = row] /\ \A t \in Threads : x8[t].ev # e
    BY <1>1 DEF Addr!ReleaseAllocations
  <1>3. x3 \in [Events -> Addr!NetRows] /\ x3[e] \in Addr!NetRows
    BY AddrTyped
  <1>4. row \in Addr!NetRows /\ row.st = "archived" /\ row.port = x3[e].port
    BY <1>1, <1>3 DEF Addr!NetRows
  <1>5. x3' \in [Events -> Addr!NetRows] /\ x3'[e] = row /\ \A f \in Events : f # e => x3'[f] = x3[f]
    BY <1>2, <1>3, <1>4
  <1>6. Addr!Types'
    <2>1. x1' = x1 /\ x2' = x2 /\ x5' = x5 /\ x6' = x6 /\ x7' = x7 /\ x8' = x8
      BY <1>2
    <2> QED BY <1>5, <2>1 DEF Addr!Inductive, Addr!Types
  <1>7. Addr!Asked'
    BY <1>2, <1>5 DEF Addr!Inductive, Addr!Asked
  <1>8. \A a \in x4' : a \in x4 /\ a.ev # e
    BY <1>2 DEF Addr!OfEvent
  <1>9. Addr!Recorded'
    <2>1. ASSUME NEW a \in x4' PROVE a.ev \in Events /\ x3'[a.ev].st = "open"
      <3>1. a \in x4 /\ a.ev # e /\ a.ev \in Events /\ x3[a.ev].st = "open"
        BY <1>8 DEF Addr!Inductive, Addr!Recorded
      <3> QED BY <1>5, <3>1
    <2> QED BY <2>1 DEF Addr!Recorded
  <1>10. Addr!LaidOut'
    BY <1>4, <1>5 DEF Addr!Inductive, Addr!LaidOut
  <1>11. Addr!Seated'
    <2>1. ASSUME NEW f \in Events, NEW x \in Teams
          PROVE  /\ x3'[f].st = "none" => x5[f][x].slot = 0
                 /\ x3'[f].st = "open" /\ f \notin x7 /\ x5[f][x].slot # 0 =>
                      /\ Addr!Seat(x3'[f], x5[f][x])
                      /\ \A y \in Teams : x5[f][y].slot = x5[f][x].slot => x = y
      <3>1. CASE f = e
        BY <1>4, <1>5, <3>1
      <3>2. CASE f # e
        BY <1>5, <3>2 DEF Addr!Inductive, Addr!Seated, Addr!Current
      <3> QED BY <3>1, <3>2
    <2> QED BY <1>2, <2>1 DEF Addr!Seated, Addr!Current
  <1>12. Addr!LedgerMatchesRows'
    <2> SUFFICES ASSUME NEW f \in Events
                 PROVE  {a \in x4' : a.ev = f} = IF x3'[f].st = "open" THEN Addr!Entries(f, x3'[f].gb, x3'[f].wg) ELSE {}
      BY DEF Addr!LedgerMatchesRows, Addr!OfEvent
    <2>1. CASE f = e
      BY <1>4, <1>5, <1>8, <2>1
    <2>2. CASE f # e
      <3>1. {a \in x4' : a.ev = f} = {a \in x4 : a.ev = f}
        BY <1>2, <2>2 DEF Addr!OfEvent
      <3>2. {a \in x4 : a.ev = f} = IF x3[f].st = "open" THEN Addr!Entries(f, x3[f].gb, x3[f].wg) ELSE {}
        BY DEF Addr!Inductive, Addr!LedgerMatchesRows, Addr!OfEvent
      <3> QED BY <1>5, <2>2, <3>1, <3>2
    <2> QED BY <2>1, <2>2
  <1>13. Addr!AllocationsDisjoint'
    BY <1>8 DEF Addr!Inductive, Addr!AllocationsDisjoint
  <1>14. Addr!PortsDistinct'
    <2> SUFFICES ASSUME NEW f \in Events, NEW g \in Events, f # g, x3'[f].st # "none", x3'[g].st # "none"
                 PROVE  x3'[f].port # x3'[g].port
      BY DEF Addr!PortsDistinct, Addr!Rows
    <2>1. x3[f].st # "none" /\ x3[g].st # "none" /\ x3'[f].port = x3[f].port /\ x3'[g].port = x3[g].port
      BY <1>2, <1>4, <1>5
    <2> QED BY <2>1 DEF Addr!Inductive, Addr!PortsDistinct, Addr!Rows
  <1> QED BY <1>6, <1>7, <1>9, <1>10, <1>11, <1>12, <1>13, <1>14 DEF Addr!Inductive

LEMMA AddrEnsures ==
    ASSUME Addr!Inductive, NEW e \in Events, NEW x \in Teams, Addr!EnsureTeamNetwork(e, x)
    PROVE  Addr!Inductive'
  <1>1. PICK n \in Addr!NetRows : n = x3[e]
    BY AddrTyped
  <1>2. n.st = "open" /\ Addr!Laid(n)
    BY <1>1 DEF Addr!EnsureTeamNetwork, Addr!Inductive, Addr!LaidOut
  <1>3. PICK len \in Nat : len = n.infra.len
    BY <1>1 DEF Addr!NetRows, Addr!Blocks
  <1>4. PICK S : S = Addr!TeamSlots(e)
    OBVIOUS
  <1>5. S = {i \in 1..(2 ^ (len - n.gb.len) - 1) : \A y \in Teams : x5[e][y].slot # i} /\ S # {}
    BY <1>1, <1>3, <1>4 DEF Addr!TeamSlots, Addr!EnsureTeamNetwork
  <1>6. S \in SUBSET Nat
    BY <1>5
  <1>7. PICK i \in S : i = Addr!Min(S)
    BY <1>5, <1>6, MinIn
  <1>8. /\ Addr!Fits(n.gb) /\ n.gb.len <= len /\ len <= Width /\ n.gb.len \in 0..Width
         /\ len \in 0..Width /\ len - n.gb.len \in 0..Width
    <2>1. Addr!Fits(n.gb) /\ n.gb.len <= len /\ len <= Width
      BY <1>2, <1>3 DEF Addr!Laid
    <2> QED BY <2>1, AddrFits, CidrSize, AddressConstants
  <1>9. PICK k \in Nat : k = 2 ^ (len - n.gb.len)
    BY <1>8, PowerNat
  <1>10. /\ i \in Nat /\ i >= 1 /\ i < k /\ \A y \in Teams : x5[e][y].slot # i
    <2>1. i \in 1..(k - 1) /\ \A y \in Teams : x5[e][y].slot # i
      BY <1>5, <1>7, <1>9
    <2> QED BY <2>1
  <1>11. PICK gb, wg : gb = Addr!NthSubnet(n.gb, len, i) /\ wg = Addr!NthSubnet(n.wg, len, i)
    OBVIOUS
  <1>12. PICK r : r = [slot |-> i, gb |-> gb, wg |-> wg]
    OBVIOUS
  <1>13. /\ UNCHANGED <<x1, x2, x3, x4, x6, x7, x8>> /\ wg # Addr!None
         /\ x5' = [x5 EXCEPT ![e] = [x5[e] EXCEPT ![x] = r]]
    BY <1>1, <1>3, <1>4, <1>7, <1>11, <1>12 DEF Addr!EnsureTeamNetwork
  <1>14. gb # Addr!None
    <2>1. gb = Addr!Cidr(n.gb.net + i * 2 ^ (Width - len), len)
      BY <1>10, <1>11, <1>8, <1>9 DEF Addr!NthSubnet
    <2>2. gb.len = len
      BY <2>1 DEF Addr!Cidr
    <2> QED BY <1>8, <2>2, AddrNone, AddressConstants
  <1>15. Addr!Fits(gb) /\ Addr!Fits(wg)
    BY <1>2, <1>10, <1>11, <1>13, <1>14, SubnetIs DEF Addr!Laid
  <1>16. r \in Addr!TeamRows /\ r.slot = i /\ r.gb = gb /\ r.wg = wg
    BY <1>10, <1>12, <1>15, AddrFits DEF Addr!TeamRows
  <1>17. x5 \in [Events -> [Teams -> Addr!TeamRows]]
    BY AddrTyped
  <1>18. /\ x5' \in [Events -> [Teams -> Addr!TeamRows]] /\ x5'[e][x] = r
         /\ \A f \in Events, y \in Teams : f # e \/ y # x => x5'[f][y] = x5[f][y]
    BY <1>13, <1>16, <1>17
  <1>19. Addr!Types'
    BY <1>13, <1>18 DEF Addr!Inductive, Addr!Types
  <1>20. Addr!Asked' /\ Addr!Recorded' /\ Addr!LaidOut'
    BY <1>13 DEF Addr!Inductive, Addr!Asked, Addr!Recorded, Addr!LaidOut
  <1>21. Addr!LedgerMatchesRows' /\ Addr!AllocationsDisjoint' /\ Addr!PortsDistinct'
    BY <1>13 DEF Addr!Inductive, Addr!LedgerMatchesRows, Addr!OfEvent, Addr!AllocationsDisjoint, Addr!PortsDistinct, Addr!Rows
  <1>22. Addr!Seated'
    <2>1. ASSUME NEW f \in Events, NEW z \in Teams
          PROVE  /\ x3[f].st = "none" => x5'[f][z].slot = 0
                 /\ x3[f].st = "open" /\ f \notin x7 /\ x5'[f][z].slot # 0 =>
                      /\ Addr!Seat(x3[f], x5'[f][z])
                      /\ \A y \in Teams : x5'[f][y].slot = x5'[f][z].slot => z = y
      <3>1. CASE f # e
        BY <1>18, <3>1 DEF Addr!Inductive, Addr!Seated, Addr!Current
      <3>2. CASE f = e /\ z = x
        <4>1. Addr!Seat(x3[e], r)
          BY <1>1, <1>3, <1>11, <1>13, <1>14, <1>16 DEF Addr!Seat
        <4>2. \A y \in Teams : x5'[e][y].slot = i => y = x
          BY <1>10, <1>18
        <4> QED BY <1>1, <1>2, <1>16, <1>18, <3>2, <4>1, <4>2
      <3>3. CASE f = e /\ z # x
        <4>1. x5'[e][z] = x5[e][z] /\ x5[e][z].slot # i
          BY <1>10, <1>18, <3>3
        <4>2. \A y \in Teams : x5'[e][y].slot = x5[e][z].slot => x5[e][y].slot = x5[e][z].slot
          BY <1>16, <1>18, <4>1
        <4> QED BY <1>1, <1>2, <3>3, <4>1, <4>2 DEF Addr!Inductive, Addr!Seated, Addr!Current
      <3> QED BY <3>1, <3>2, <3>3
    <2> QED BY <1>13, <2>1 DEF Addr!Seated, Addr!Current
  <1> QED BY <1>19, <1>20, <1>21, <1>22 DEF Addr!Inductive

LEMMA AddrNext ==
    ASSUME Addr!Inductive, [Addr!Next]_(Addr!vars)
    PROVE  Addr!Inductive'
  <1>1. CASE Addr!Next
    BY <1>1, AddrUpdates, AddrCollects, AddrAutomatic, AddrManual, AddrReallocates, AddrEnsures, AddrReleases,
       AddrHost DEF Addr!Next
  <1>2. CASE UNCHANGED Addr!vars
    <2>1. UNCHANGED <<x1, x2, x3, x4, x5, x6, x7, x8>>
      BY <1>2 DEF Addr!vars
    <2>2. x2' \in Plans /\ Addr!Sound(x2') /\ x6' \subseteq Foreign /\ x8' \in [Threads -> Addr!Requests]
      BY <2>1, AddrTyped
    <2> QED BY <2>1, <2>2, AddrElsewhere
  <1> QED BY <1>1, <1>2

(* What is left to see: teams, servers and gateways.                       *)
LEMMA AddrResults ==
    ASSUME Addr!Inductive
    PROVE  /\ Addr!AllocationsDisjoint /\ Addr!LedgerMatchesRows /\ Addr!TeamBlocksDisjoint /\ Addr!PortsDistinct
           /\ Addr!TypeOK
  <1>1. Addr!TypeOK
    <2>1. x2 \in Plans /\ x7 \subseteq Events /\ Addr!Rows \subseteq Events
      BY AddrTyped DEF Addr!Rows
    <2>2. ASSUME NEW a \in x4 PROVE Addr!Addresses(a.cidr) \subseteq 0..(2 ^ Width - 1)
      <3>1. PICK c : c = a.cidr
        OBVIOUS
      <3>2. Addr!Fits(c)
        BY <3>1, AddrActive DEF Addr!ActiveCidrs
      <3>3. c \in Addr!Cidrs /\ c.net + Addr!Size(c) <= 2 ^ Width
        BY <3>2 DEF Addr!Fits
      <3>4. Width \in 0..Width
        BY AddressConstants
      <3>5. PICK w \in Nat : w = 2 ^ Width
        BY <3>4, PowerNat
      <3>6. PICK s \in Nat, n \in Nat : s = Addr!Size(c) /\ n = c.net
        BY <3>3, CidrSize
      <3>7. n + s <= w
        BY <3>3, <3>5, <3>6
      <3>8. Addr!Addresses(c) = n..(n + s - 1)
        BY <3>6 DEF Addr!Addresses
      <3>9. n..(n + s - 1) \subseteq 0..(w - 1)
        BY <3>7
      <3> QED BY <3>1, <3>5, <3>8, <3>9
    <2> QED BY <2>1, <2>2 DEF Addr!TypeOK
  <1>2. ASSUME NEW e \in Events, NEW x \in Teams, x3[e].st = "open", e \notin x7, x5[e][x].slot # 0
        PROVE  \E i \in Nat, len \in Nat :
                 /\ i = x5[e][x].slot /\ i > 0 /\ len = x3[e].infra.len /\ Addr!Laid(x3[e])
                 /\ x5[e][x].gb = Addr!NthSubnet(x3[e].gb, len, i) /\ x5[e][x].gb # Addr!None
                 /\ x5[e][x].wg = Addr!NthSubnet(x3[e].wg, len, i) /\ x5[e][x].wg # Addr!None
                 /\ Addr!Addresses(x5[e][x].gb) \subseteq Addr!Addresses(x3[e].gb)
                 /\ Addr!Addresses(x5[e][x].wg) \subseteq Addr!Addresses(x3[e].wg)
    <2>1. Addr!Seat(x3[e], x5[e][x])
      BY <1>2 DEF Addr!Inductive, Addr!Seated, Addr!Current
    <2>2. Addr!Laid(x3[e])
      BY <1>2 DEF Addr!Inductive, Addr!LaidOut
    <2>3. PICK i \in Nat : i = x5[e][x].slot
      BY AddrTyped DEF Addr!TeamRows
    <2>4. PICK len \in Nat : len = x3[e].infra.len
      BY AddrTyped DEF Addr!NetRows, Addr!Blocks
    <2>5. i > 0
      BY <1>2, <2>3
    <2>6. /\ x5[e][x].gb = Addr!NthSubnet(x3[e].gb, len, i) /\ x5[e][x].gb # Addr!None
          /\ x5[e][x].wg = Addr!NthSubnet(x3[e].wg, len, i) /\ x5[e][x].wg # Addr!None
      BY <2>1, <2>3, <2>4 DEF Addr!Seat
    <2>7. Addr!Fits(x3[e].gb) /\ Addr!Fits(x3[e].wg)
      BY <2>2 DEF Addr!Laid
    <2>8. /\ Addr!Addresses(x5[e][x].gb) \subseteq Addr!Addresses(x3[e].gb)
          /\ Addr!Addresses(x5[e][x].wg) \subseteq Addr!Addresses(x3[e].wg)
      BY <2>6, <2>7, SubnetIs
    <2> QED BY <2>2, <2>3, <2>4, <2>5, <2>6, <2>8
  <1>3. ASSUME NEW e \in Events, NEW f \in Events, e # f, x3[e].st = "open", x3[f].st = "open"
        PROVE  /\ Addr!Addresses(x3[e].gb) \cap Addr!Addresses(x3[f].gb) = {}
               /\ Addr!Addresses(x3[e].wg) \cap Addr!Addresses(x3[f].wg) = {}
    <2>1. /\ [ev |-> e, kind |-> "gamebox", cidr |-> x3[e].gb] \in x4
          /\ [ev |-> f, kind |-> "gamebox", cidr |-> x3[f].gb] \in x4
          /\ [ev |-> e, kind |-> "wireguard", cidr |-> x3[e].wg] \in x4
          /\ [ev |-> f, kind |-> "wireguard", cidr |-> x3[f].wg] \in x4
      <3>1. Addr!Entries(e, x3[e].gb, x3[e].wg) \subseteq x4 /\ Addr!Entries(f, x3[f].gb, x3[f].wg) \subseteq x4
        BY <1>3 DEF Addr!Inductive, Addr!LedgerMatchesRows, Addr!OfEvent
      <3> QED BY <3>1 DEF Addr!Entries
    <2>2. \A a, b \in x4 : a # b => Addr!Addresses(a.cidr) \cap Addr!Addresses(b.cidr) = {}
      BY DEF Addr!Inductive, Addr!AllocationsDisjoint
    <2>3. /\ [ev |-> e, kind |-> "gamebox", cidr |-> x3[e].gb] # [ev |-> f, kind |-> "gamebox", cidr |-> x3[f].gb]
          /\ [ev |-> e, kind |-> "wireguard", cidr |-> x3[e].wg] # [ev |-> f, kind |-> "wireguard", cidr |-> x3[f].wg]
      BY <1>3
    <2> QED BY <2>1, <2>2, <2>3
  <1>4. Addr!TeamBlocksDisjoint
    <2> SUFFICES ASSUME NEW e \in {g \in Events : Addr!Current(g)}, NEW f \in {g \in Events : Addr!Current(g)},
                        NEW x \in Teams, NEW y \in Teams, x5[e][x].slot # 0, x5[f][y].slot # 0
                 PROVE  /\ <<e, x>> # <<f, y>> =>
                             /\ Addr!Addresses(x5[e][x].gb) \cap Addr!Addresses(x5[f][y].gb) = {}
                             /\ Addr!Addresses(x5[e][x].wg) \cap Addr!Addresses(x5[f][y].wg) = {}
                        /\ Addr!Addresses(x5[e][x].gb) \cap Addr!Addresses(x3[f].infra) = {}
                        /\ Addr!NthHost(x3[f].wg, 0) \notin Addr!Addresses(x5[e][x].wg)
                        /\ Addr!Addresses(x5[e][x].gb) \subseteq Addr!Addresses(x3[e].gb)
      BY Zenon DEF Addr!TeamBlocksDisjoint
    <2> e \in Events /\ f \in Events /\ x3[e].st = "open" /\ e \notin x7 /\ x3[f].st = "open" /\ f \notin x7
      BY DEF Addr!Current
    <2>1. PICK i \in Nat, len \in Nat :
                 /\ i = x5[e][x].slot /\ i > 0 /\ len = x3[e].infra.len /\ Addr!Laid(x3[e])
                 /\ x5[e][x].gb = Addr!NthSubnet(x3[e].gb, len, i) /\ x5[e][x].gb # Addr!None
                 /\ x5[e][x].wg = Addr!NthSubnet(x3[e].wg, len, i) /\ x5[e][x].wg # Addr!None
                 /\ Addr!Addresses(x5[e][x].gb) \subseteq Addr!Addresses(x3[e].gb)
                 /\ Addr!Addresses(x5[e][x].wg) \subseteq Addr!Addresses(x3[e].wg)
      BY <1>2
    <2>2. PICK j \in Nat, l \in Nat :
                 /\ j = x5[f][y].slot /\ j > 0 /\ l = x3[f].infra.len /\ Addr!Laid(x3[f])
                 /\ x5[f][y].gb = Addr!NthSubnet(x3[f].gb, l, j) /\ x5[f][y].gb # Addr!None
                 /\ x5[f][y].wg = Addr!NthSubnet(x3[f].wg, l, j) /\ x5[f][y].wg # Addr!None
                 /\ Addr!Addresses(x5[f][y].gb) \subseteq Addr!Addresses(x3[f].gb)
                 /\ Addr!Addresses(x5[f][y].wg) \subseteq Addr!Addresses(x3[f].wg)
      BY <1>2
    <2>3. /\ Addr!Fits(x3[e].gb) /\ Addr!Fits(x3[e].wg) /\ Addr!Fits(x3[f].gb) /\ Addr!Fits(x3[f].wg)
          /\ x3[f].infra = Addr!NthSubnet(x3[f].gb, l, 0) /\ Addr!Size(x3[f].infra) >= 3
      BY <2>1, <2>2 DEF Addr!Laid
    <2>4. x3[f].infra # Addr!None
      <3>1. x3[f].infra.len <= Width
        BY <2>2 DEF Addr!Laid
      <3>2. l \in Nat /\ x3[f].infra.len = l
        BY <2>2
      <3> QED BY <3>1, <3>2, AddrNone, AddressConstants
    <2>5. Addr!Addresses(x3[f].infra) \subseteq Addr!Addresses(x3[f].gb)
      BY <2>3, <2>4, SubnetIs
    <2>6. PICK s \in Nat, b \in Nat : s = 2 ^ (Width - l) /\ b = x3[f].wg.net /\ s >= 3
      <3>1. Addr!Size(x3[f].infra) = 2 ^ (Width - l) /\ l \in 0..Width
        BY <2>3, <2>4, SubnetIs
      <3>2. Width - l \in 0..Width
        BY <3>1, AddressConstants
      <3>3. 2 ^ (Width - l) \in Nat
        BY <3>2, PowerNat
      <3>4. x3[f].wg.net \in Nat
        BY <2>3, AddrFits, CidrSize
      <3> QED BY <2>3, <3>1, <3>3, <3>4
    <2>7. Addr!NthHost(x3[f].wg, 0) = b + 1
      BY <2>6 DEF Addr!NthHost
    <2>8. CASE e # f
      <3>1. /\ Addr!Addresses(x3[e].gb) \cap Addr!Addresses(x3[f].gb) = {}
            /\ Addr!Addresses(x3[e].wg) \cap Addr!Addresses(x3[f].wg) = {}
        BY <1>3, <2>8
      <3>2. b + 1 \in Addr!Addresses(x3[f].wg)
        <4>1. PICK m \in Nat : m = Addr!Size(x3[f].wg)
          BY <2>3, AddrFits, CidrSize
        <4>2. PICK d : d = x5[f][y].wg
          OBVIOUS
        <4>3. \A a \in Addr!Addresses(d) : a \in Addr!Addresses(x3[f].wg) /\ b + s <= a
          BY <2>2, <2>3, <2>6, <4>2, SubnetsLater
        <4>4. d.net \in Addr!Addresses(d)
          <5>1. Addr!Fits(d)
            <6>1. d = Addr!NthSubnet(x3[f].wg, l, j) /\ Addr!NthSubnet(x3[f].wg, l, j) # Addr!None
              BY <2>2, <4>2
            <6>2. Addr!Fits(Addr!NthSubnet(x3[f].wg, l, j))
              BY <2>3, <6>1, SubnetIs
            <6> QED BY <6>1, <6>2
          <5>2. d.net \in Nat /\ Addr!Size(d) \in Nat /\ Addr!Size(d) >= 1
            BY <5>1, AddrFits, CidrSize
          <5> QED BY <5>2 DEF Addr!Addresses
        <4>5. PICK a \in Nat : a \in b..(b + m - 1) /\ b + s <= a
          BY <2>6, <4>1, <4>3, <4>4 DEF Addr!Addresses
        <4>6. b + 1 \in b..(b + m - 1)
          BY <2>6, <4>5
        <4> QED BY <2>6, <4>1, <4>6 DEF Addr!Addresses
      <3> QED BY <2>1, <2>2, <2>5, <2>7, <2>8, <3>1, <3>2
    <2>9. CASE e = f
      <3>1. i = j => x = y
        BY <2>1, <2>2, <2>9 DEF Addr!Inductive, Addr!Seated, Addr!Current
      <3>2. len = l
        BY <2>1, <2>2, <2>9
      <3>3. i # j => /\ Addr!Addresses(x5[e][x].gb) \cap Addr!Addresses(x5[f][y].gb) = {}
                     /\ Addr!Addresses(x5[e][x].wg) \cap Addr!Addresses(x5[f][y].wg) = {}
        <4>1. CASE i < j
          BY <2>1, <2>2, <2>3, <2>9, <3>2, <4>1, SubnetsApart
        <4>2. CASE j < i
          BY <2>1, <2>2, <2>3, <2>9, <3>2, <4>2, SubnetsApart
        <4> QED BY <4>1, <4>2
      <3>4. Addr!Addresses(x5[e][x].gb) \cap Addr!Addresses(x3[f].infra) = {}
        BY <2>1, <2>3, <2>4, <2>9, <3>2, SubnetsApart
      <3>5. b + 1 \notin Addr!Addresses(x5[e][x].wg)
        <4>1. \A a \in Addr!Addresses(x5[e][x].wg) : a \in Nat /\ b + s <= a
          BY <2>1, <2>2, <2>3, <2>6, <2>9, <3>2, SubnetsLater
        <4> QED BY <2>6, <4>1
      <3> QED BY <2>1, <2>7, <2>9, <3>1, <3>3, <3>4, <3>5
    <2> QED BY <2>8, <2>9
  <1> QED BY <1>1, <1>4 DEF Addr!Inductive

(* In the scene of the allocator its inductive invariant holds.            *)
AddrInv == scene = "address" => Addr!Inductive

LEMMA AddrSteps ==
  ASSUME [Next]_vars PROVE scene' = scene /\ (scene = "address" => [Addr!Next]_(Addr!vars))
  <1>1. CASE InAddr(Addr!Next) BY <1>1 DEF InAddr
  <1>2. CASE UNCHANGED vars BY <1>2 DEF vars, Addr!vars
  <1> QED BY <1>1, <1>2 DEF Next, InReset, InPrep, InAccess, InTokens

(* For any number of requests in flight, any teams and events, allocations *)
(* that are active share no address, the ledger is what the network rows   *)
(* say, and teams, servers, gateways and ports stay apart.                 *)
THEOREM AddressesStayDisjoint == Spec => []AddressesDisjoint
  <1>1. Init => AddrInv BY AddrInit DEF Init, AddrInv
  <1>2. AddrInv /\ [Next]_vars => AddrInv' BY AddrSteps, AddrNext DEF AddrInv
  <1>3. AddrInv => AddressesDisjoint BY AddrResults DEF AddrInv, AddressesDisjoint
  <1> QED BY <1>1, <1>2, <1>3, PTL DEF Spec

----------------------------------------------------------------------------
(* AwdTokens: the rotation, the deployment and the two containers *)

TokSpent == [fails : Nat, deploys : Nat, crashes : Nat]
TokLast == [answer : {"none", "ok", "error", "lost"}, alone : BOOLEAN]

(* What the variables are.                                                 *)
LEMMA TokTyped ==
    ASSUME Tokens!Inductive
    PROVE  /\ x1 \in TokenSettings /\ x2 \in [n : Nat, ver : Nat] /\ x2.n \in Nat /\ x2.ver \in Nat
           /\ x3 \in [Tokens!Kinds -> Tokens!Containers] /\ x4 \subseteq Tokens!Kinds /\ x5 \in Nat
           /\ x6 \in TokLast /\ x7 \in [Threads -> Tokens!Locals] /\ x8 \in TokSpent
           /\ \A t \in Threads : Tokens!Jobs(x7[t])
  BY DEF Tokens!Inductive, Tokens!Types, TokSpent, TokLast

LEMMA TokSettings ==
    ASSUME NEW s \in TokenSettings
    PROVE  s.threads = Threads /\ s.rotations \in Nat /\ s.network \in BOOLEAN
  <1>1. \/ s = Rotation(2, 1, 1, 1, TRUE, FALSE) \/ s = Rotation(1, 2, 1, 0, TRUE, TRUE)
        \/ s = Rotation(1, 0, 0, 0, FALSE, TRUE)
    BY DEF TokenSettings
  <1>2. ASSUME NEW m \in Nat, NEW f, NEW d, NEW x, NEW n \in BOOLEAN, NEW g, s = Rotation(m, f, d, x, n, g)
        PROVE  s.threads = Threads /\ s.rotations \in Nat /\ s.network \in BOOLEAN
    BY <1>2 DEF Rotation
  <1> QED BY <1>1, <1>2

(* A name is free or held.                                                 *)
LEMMA TokContainer ==
    ASSUME NEW c \in Tokens!Containers
    PROVE  /\ c.env \in Nat /\ c.st \in {"gone", "created", "up", "down"}
           /\ c = Tokens!Gone <=> c.id = "none" \/ c.st = "gone"
           /\ c # Tokens!Gone => c \in [st : {"created", "up", "down"}, env : Nat, id : Threads \cup {"first"}]
           /\ \A t \in Threads : c.id = t => c # Tokens!Gone
  BY OpsConstants DEF Tokens!Containers, Tokens!Gone

LEMMA TokFree ==
    ASSUME NEW c \in Tokens!Containers
    PROVE  c = Tokens!Gone <=> c.id = "none"
  BY OpsConstants DEF Tokens!Containers, Tokens!Gone

LEMMA TokLocal ==
    ASSUME NEW w \in Tokens!Locals
    PROVE  /\ w.pc \in Tokens!Pcs /\ w.job \in {"none", "rotate", "deploy"} /\ w.n \in Nat /\ w.ver \in Nat
           /\ w.kind \in Tokens!Kinds /\ w.alone \in BOOLEAN
  BY DEF Tokens!Locals

LEMMA TokIdle ==
    /\ Tokens!Idle \in Tokens!Locals /\ Tokens!Idle.pc = "idle" /\ Tokens!Idle.job = "none"
    /\ Tokens!Jobs(Tokens!Idle) /\ \A k : ~Tokens!Owns(Tokens!Idle, k)
  BY DEF Tokens!Idle, Tokens!Locals, Tokens!Pcs, Tokens!Kinds, Tokens!Jobs, Tokens!Owns

LEMMA TokInit == Tokens!Init => Tokens!Inductive
  <1> SUFFICES ASSUME Tokens!Init PROVE Tokens!Inductive
    OBVIOUS
  <1>1. \A t \in Threads : x7[t] = Tokens!Idle
    BY DEF Tokens!Init
  <1>2. x1 \in TokenSettings /\ x1.rotations \in Nat /\ x2 = [n |-> 1, ver |-> 1] /\ x5 = 1
    BY TokSettings DEF Tokens!Init
  <1>3. /\ Tokens!Gone \in Tokens!Containers /\ Tokens!Held("up", 1, "first") \in Tokens!Containers
        /\ Tokens!Held("up", 1, "first").env = 1
    BY DEF Tokens!Containers, Tokens!Held
  <1>4. /\ x3 \in [Tokens!Kinds -> Tokens!Containers]
        /\ \A k \in Tokens!Kinds : x3[k] # Tokens!Gone => x3[k].env = 1
    BY <1>3 DEF Tokens!Init
  <1>5. Tokens!Types
    <2>1. x7 \in [Threads -> Tokens!Locals]
      BY TokIdle DEF Tokens!Init
    <2> QED BY <1>2, <1>4, <2>1 DEF Tokens!Types, Tokens!Init
  <1>6. Tokens!Counted
    <2>1. 1 <= x5 /\ x5 <= x1.rotations + 1 /\ 1 <= x2.n /\ x2.n <= x5 /\ 1 <= x2.ver /\ x2.ver <= x5
      BY <1>2
    <2>2. \A k \in Tokens!Kinds : x3[k] # Tokens!Gone => 1 <= x3[k].env /\ x3[k].env <= x5
      BY <1>2, <1>4
    <2> QED BY <1>1, <2>1, <2>2, TokIdle DEF Tokens!Counted
  <1>7. Tokens!Alone /\ Tokens!Settled /\ \A t \in Threads : Tokens!Jobs(x7[t])
    BY <1>1, TokIdle DEF Tokens!Alone, Tokens!Settled, Tokens!Init
  <1> QED BY <1>5, <1>6, <1>7 DEF Tokens!Inductive

(* Thread t goes on as w; the container of its kind becomes c.             *)
TokKeepsName(t, c) == c.id = x3[x7[t].kind].id /\ c.env = x3[x7[t].kind].env
TokWork(t, c) ==
    /\ x7[t].pc \notin {"idle", "commit"} /\ UNCHANGED <<x1, x2, x5>>
    /\ x4' \subseteq Tokens!Kinds /\ x8' \in TokSpent
    /\ c \in Tokens!Containers /\ x3' = [x3 EXCEPT ![x7[t].kind] = c]
TokGoes(t, w, c) ==
    /\ TokWork(t, c) /\ x6' = x6 /\ x7' = [x7 EXCEPT ![t] = w]
    /\ w \in Tokens!Locals /\ w.pc \notin {"idle", "commit"} /\ Tokens!Jobs(w)
    /\ w.job = x7[t].job /\ w.n = x7[t].n /\ w.alone = x7[t].alone
    /\ \/ /\ TokKeepsName(t, c) /\ \A k \in Tokens!Kinds : Tokens!Owns(w, k) => Tokens!Owns(x7[t], k)
          /\ w.job = "rotate" => Tokens!Replaced(w) \subseteq Tokens!Replaced(x7[t])
       \/ /\ x3[x7[t].kind] = Tokens!Gone /\ c.id = t /\ c.env = w.n /\ w.kind = x7[t].kind
          /\ Tokens!Replaced(w) = Tokens!Replaced(x7[t]) \cup {w.kind}
       \/ /\ c = Tokens!Gone /\ w.job = "rotate" /\ w.kind = x7[t].kind /\ \A k \in Tokens!Kinds : ~Tokens!Owns(w, k)
          /\ w.kind \notin Tokens!Replaced(w) /\ Tokens!Replaced(w) \subseteq Tokens!Replaced(x7[t])
TokEnds(t, a, c) ==
    /\ TokWork(t, c) /\ Tokens!Answer(t, a) /\ a \in {"ok", "error"}
    /\ \/ TokKeepsName(t, c)
       \/ a = "error" /\ c = Tokens!Gone /\ x3[x7[t].kind].id = t /\ Tokens!Owns(x7[t], x7[t].kind)
    /\ a = "ok" /\ x7[t].job = "rotate" => Tokens!Replaced(x7[t]) = Tokens!Kinds

LEMMA TokGoesKeeps ==
    ASSUME Tokens!Inductive, NEW t \in Threads, NEW w, NEW c, TokGoes(t, w, c)
    PROVE  Tokens!Inductive'
  <1>1. UNCHANGED <<x1, x2, x5, x6>> /\ c \in Tokens!Containers /\ w \in Tokens!Locals
    BY DEF TokGoes, TokWork
  <1>2. x7 \in [Threads -> Tokens!Locals] /\ x3 \in [Tokens!Kinds -> Tokens!Containers] /\ x7[t].kind \in Tokens!Kinds
    BY TokTyped, TokLocal
  <1>3. PICK k \in Tokens!Kinds : k = x7[t].kind
    BY <1>2
  <1>4. /\ x7' \in [Threads -> Tokens!Locals] /\ x7'[t] = w /\ \A u \in Threads : u # t => x7'[u] = x7[u]
        /\ x3' \in [Tokens!Kinds -> Tokens!Containers] /\ x3'[k] = c /\ \A j \in Tokens!Kinds : j # k => x3'[j] = x3[j]
    BY <1>1, <1>2, <1>3 DEF TokGoes, TokWork
  <1>5. Tokens!Types'
    BY <1>1, <1>4 DEF TokGoes, TokWork, Tokens!Inductive, Tokens!Types, TokSpent
  <1>6. \A u \in Threads : Tokens!Jobs(x7'[u])
    BY <1>4, TokTyped DEF TokGoes
  <1>7. c # Tokens!Gone => (TokKeepsName(t, c) /\ x3[k] # Tokens!Gone) \/ c.env = x7[t].n
    <2>1. TokKeepsName(t, c) /\ c # Tokens!Gone => x3[k] # Tokens!Gone
      <3>1. x3[k] \in Tokens!Containers
        BY <1>2
      <3>2. TokKeepsName(t, c) => c.id = x3[k].id
        BY <1>3 DEF TokKeepsName
      <3> QED BY <1>1, <3>1, <3>2, TokFree
    <2> QED BY <2>1 DEF TokGoes
  <1>8. Tokens!Counted'
    <2>1. 1 <= x7[t].n /\ x7[t].n <= x5
      BY DEF TokGoes, TokWork, Tokens!Inductive, Tokens!Counted
    <2>2. c # Tokens!Gone => 1 <= c.env /\ c.env <= x5
      BY <1>3, <1>7, <2>1 DEF TokKeepsName, Tokens!Inductive, Tokens!Counted
    <2>3. w.n = x7[t].n /\ w.pc # "commit"
      BY DEF TokGoes
    <2>4. \A j \in Tokens!Kinds : x3'[j] # Tokens!Gone => 1 <= x3'[j].env /\ x3'[j].env <= x5
      BY <1>4, <2>2 DEF Tokens!Inductive, Tokens!Counted
    <2>5. \A u \in Threads : /\ x7'[u].pc # "idle" => 1 <= x7'[u].n /\ x7'[u].n <= x5
                             /\ x7'[u].pc = "commit" => 1 <= x7'[u].ver /\ x7'[u].ver < x5
      BY <1>4, <2>1, <2>3 DEF Tokens!Inductive, Tokens!Counted
    <2> QED BY <1>1, <2>4, <2>5 DEF Tokens!Inductive, Tokens!Counted
  <1>9. \A u \in Threads : x7'[u].job = x7[u].job /\ x7'[u].alone = x7[u].alone /\ x7'[u].n = x7[u].n
    BY <1>4 DEF TokGoes
  <1>10. ASSUME NEW u \in Threads, x7[u].job = "rotate", x7[u].alone, x7'[u].pc # "commit",
                NEW j \in Tokens!Replaced(x7'[u])
         PROVE  x3'[j].id = u /\ x3'[j].env = x7[u].n
    <2>1. j \in Tokens!Kinds /\ x7[u].pc # "commit" /\ \A v \in Threads : x7[v].job = "rotate" => v = u
      BY <1>4, <1>10 DEF Tokens!Replaced, TokGoes, TokWork, Tokens!Inductive, Tokens!Alone
    <2>2. \A i \in Tokens!Replaced(x7[u]) : x3[i].id = u /\ x3[i].env = x7[u].n
      BY <1>10, <2>1 DEF Tokens!Inductive, Tokens!Alone
    <2>3. CASE u = t
      <3>1. j \in Tokens!Replaced(w)
        BY <1>4, <1>10, <2>3
      <3>2. CASE TokKeepsName(t, c) /\ Tokens!Replaced(w) \subseteq Tokens!Replaced(x7[t])
        BY <1>3, <1>4, <2>1, <2>2, <2>3, <3>1, <3>2 DEF TokKeepsName
      <3>3. CASE c.id = t /\ c.env = w.n /\ w.kind = k /\ Tokens!Replaced(w) = Tokens!Replaced(x7[t]) \cup {w.kind}
        BY <1>3, <1>4, <1>9, <2>1, <2>2, <2>3, <3>1, <3>3
      <3>4. CASE w.kind = k /\ w.kind \notin Tokens!Replaced(w) /\ Tokens!Replaced(w) \subseteq Tokens!Replaced(x7[t])
        BY <1>3, <1>4, <2>1, <2>2, <2>3, <3>1, <3>4
      <3> QED BY <1>3, <1>9, <1>10, <2>3, <3>2, <3>3, <3>4, <1>4 DEF TokGoes
    <2>4. CASE u # t
      <3>1. x7[t].job # "rotate" /\ j \in Tokens!Replaced(x7[u]) /\ x3[j].id = u /\ x3[j].env = x7[u].n
        BY <1>4, <1>10, <2>1, <2>2, <2>4
      <3>2. CASE j # k
        BY <1>4, <2>1, <3>1, <3>2
      <3>3. CASE j = k
        <4>1. x3[k] # Tokens!Gone
          BY <1>2, <3>1, <3>3, TokContainer
        <4>2. TokKeepsName(t, c)
          BY <1>3, <3>1, <4>1 DEF TokGoes
        <4> QED BY <1>3, <1>4, <3>1, <3>3, <4>2 DEF TokKeepsName
      <3> QED BY <3>2, <3>3
    <2> QED BY <2>3, <2>4
  <1>11. Tokens!Alone'
    <2>1. ASSUME NEW u \in Threads, x7'[u].job = "rotate", x7'[u].alone
          PROVE  /\ \A v \in Threads : x7'[v].job = "rotate" => v = u
                 /\ x7'[u].pc # "commit" => /\ x2'.n = x7'[u].n
                                            /\ \A j \in Tokens!Replaced(x7'[u]) : x3'[j].id = u /\ x3'[j].env = x7'[u].n
      <3>1. x7[u].job = "rotate" /\ x7[u].alone /\ (x7'[u].pc # "commit" => x7[u].pc # "commit")
        BY <1>4, <1>9, <2>1 DEF TokGoes, TokWork
      <3>2. /\ \A v \in Threads : x7[v].job = "rotate" => v = u
            /\ x7[u].pc # "commit" => x2.n = x7[u].n
        BY <3>1 DEF Tokens!Inductive, Tokens!Alone
      <3> QED BY <1>1, <1>9, <1>10, <3>1, <3>2
    <2> QED BY <2>1 DEF Tokens!Alone
  <1>12. Tokens!Settled'
    <2> SUFFICES ASSUME \A u \in Threads : x7'[u].job # "rotate", x6.answer = "ok", x6.alone, NEW j \in Tokens!Kinds
                 PROVE  /\ x3'[j] # Tokens!Gone /\ x3'[j].env = x2.n
                        /\ \A u \in Threads : Tokens!Owns(x7'[u], j) => x3'[j].id # u
      BY <1>1 DEF Tokens!Settled
    <2>1. \A u \in Threads : x7[u].job # "rotate"
      BY <1>9
    <2>2. \A i \in Tokens!Kinds : /\ x3[i] # Tokens!Gone /\ x3[i].env = x2.n
                                  /\ \A u \in Threads : Tokens!Owns(x7[u], i) => x3[i].id # u
      BY <2>1 DEF Tokens!Inductive, Tokens!Settled
    <2>3. TokKeepsName(t, c) /\ \A i \in Tokens!Kinds : Tokens!Owns(w, i) => Tokens!Owns(x7[t], i)
      BY <1>3, <1>9, <2>1, <2>2 DEF TokGoes
    <2>4. c.id = x3[k].id /\ c.env = x3[k].env
      BY <1>3, <2>3 DEF TokKeepsName
    <2>5. c # Tokens!Gone
      <3>1. x3[k] \in Tokens!Containers /\ x3[k] # Tokens!Gone
        BY <1>2, <2>2
      <3> QED BY <1>1, <2>4, <3>1, TokFree
    <2>6. \A u \in Threads : Tokens!Owns(x7'[u], j) => Tokens!Owns(x7[u], j)
      BY <1>4, <2>3
    <2> QED BY <1>4, <2>2, <2>4, <2>5, <2>6
  <1> QED BY <1>5, <1>6, <1>8, <1>11, <1>12 DEF Tokens!Inductive

LEMMA TokEndsKeeps ==
    ASSUME Tokens!Inductive, NEW t \in Threads, NEW a, NEW c, TokEnds(t, a, c)
    PROVE  Tokens!Inductive'
  <1>1. UNCHANGED <<x1, x2, x5>> /\ c \in Tokens!Containers /\ x7[t].pc # "commit" /\ x7[t].pc # "idle"
    BY DEF TokEnds, TokWork
  <1>2. x7 \in [Threads -> Tokens!Locals] /\ x3 \in [Tokens!Kinds -> Tokens!Containers] /\ x7[t].kind \in Tokens!Kinds
    BY TokTyped, TokLocal
  <1>3. PICK k \in Tokens!Kinds : k = x7[t].kind
    BY <1>2
  <1>4. /\ x7' \in [Threads -> Tokens!Locals] /\ x7'[t] = Tokens!Idle /\ \A u \in Threads : u # t => x7'[u] = x7[u]
        /\ x3' \in [Tokens!Kinds -> Tokens!Containers] /\ x3'[k] = c /\ \A j \in Tokens!Kinds : j # k => x3'[j] = x3[j]
    BY <1>1, <1>2, <1>3, TokIdle DEF TokEnds, TokWork, Tokens!Answer
  <1>5. x6' = IF x7[t].job = "rotate" THEN [answer |-> a, alone |-> x7[t].alone] ELSE x6
    BY DEF TokEnds, Tokens!Answer
  <1>6. x7[t].alone \in BOOLEAN /\ a \in {"ok", "error"} /\ x6 \in TokLast
    BY <1>2, TokLocal, TokTyped DEF TokEnds
  <1>7. x6' \in TokLast
    BY <1>5, <1>6 DEF TokLast
  <1>8. Tokens!Types'
    BY <1>1, <1>4, <1>7 DEF TokEnds, TokWork, Tokens!Inductive, Tokens!Types, TokSpent, TokLast
  <1>9. \A u \in Threads : Tokens!Jobs(x7'[u])
    BY <1>4, TokTyped, TokIdle
  <1>10. c # Tokens!Gone => c.id = x3[k].id /\ c.env = x3[k].env /\ x3[k] # Tokens!Gone
    <2>1. x3[k] \in Tokens!Containers
      BY <1>2
    <2> QED BY <1>1, <1>3, <2>1, TokFree DEF TokEnds, TokKeepsName
  <1>11. Tokens!Counted'
    <2>1. c # Tokens!Gone => 1 <= c.env /\ c.env <= x5
      BY <1>10 DEF Tokens!Inductive, Tokens!Counted
    <2>2. \A j \in Tokens!Kinds : x3'[j] # Tokens!Gone => 1 <= x3'[j].env /\ x3'[j].env <= x5
      BY <1>4, <2>1 DEF Tokens!Inductive, Tokens!Counted
    <2>3. \A u \in Threads : /\ x7'[u].pc # "idle" => 1 <= x7'[u].n /\ x7'[u].n <= x5
                             /\ x7'[u].pc = "commit" => 1 <= x7'[u].ver /\ x7'[u].ver < x5
      BY <1>4, TokIdle DEF Tokens!Inductive, Tokens!Counted
    <2> QED BY <1>1, <2>2, <2>3 DEF Tokens!Inductive, Tokens!Counted
  <1>12. ASSUME NEW u \in Threads, u # t, NEW j \in Tokens!Kinds, x3[j].id = u
         PROVE  x3'[j].id = x3[j].id /\ x3'[j].env = x3[j].env
    <2>1. CASE j # k
      BY <1>4, <2>1
    <2>2. CASE j = k
      BY <1>3, <1>4, <1>12, <2>2 DEF TokEnds, TokKeepsName
    <2> QED BY <2>1, <2>2
  <1>13. Tokens!Alone'
    <2>1. ASSUME NEW u \in Threads, x7'[u].job = "rotate", x7'[u].alone
          PROVE  /\ \A v \in Threads : x7'[v].job = "rotate" => v = u
                 /\ x7'[u].pc # "commit" => /\ x2'.n = x7'[u].n
                                            /\ \A j \in Tokens!Replaced(x7'[u]) : x3'[j].id = u /\ x3'[j].env = x7'[u].n
      <3>1. u # t /\ x7'[u] = x7[u]
        BY <1>4, <2>1, TokIdle
      <3>2. /\ \A v \in Threads : x7[v].job = "rotate" => v = u
            /\ x7[u].pc # "commit" => x2.n = x7[u].n /\ \A j \in Tokens!Replaced(x7[u]) : x3[j].id = u /\ x3[j].env = x7[u].n
        BY <2>1, <3>1 DEF Tokens!Inductive, Tokens!Alone
      <3>3. \A j \in Tokens!Replaced(x7[u]) : j \in Tokens!Kinds
        BY DEF Tokens!Replaced
      <3>4. x7[u].pc # "commit" => \A j \in Tokens!Replaced(x7[u]) : x3'[j].id = u /\ x3'[j].env = x7[u].n
        BY <1>12, <3>1, <3>2, <3>3
      <3>5. \A v \in Threads : x7'[v].job = "rotate" => x7[v].job = "rotate"
        BY <1>4, TokIdle
      <3> QED BY <1>1, <3>1, <3>2, <3>4, <3>5
    <2> QED BY <2>1 DEF Tokens!Alone
  <1>14. Tokens!Settled'
    <2> SUFFICES ASSUME \A u \in Threads : x7'[u].job # "rotate", x6'.answer = "ok", x6'.alone, NEW j \in Tokens!Kinds
                 PROVE  /\ x3'[j] # Tokens!Gone /\ x3'[j].env = x2.n
                        /\ \A u \in Threads : Tokens!Owns(x7'[u], j) => x3'[j].id # u
      BY <1>1 DEF Tokens!Settled
    <2>1. \A u \in Threads : Tokens!Owns(x7'[u], j) => u # t /\ Tokens!Owns(x7[u], j)
      BY <1>4, TokIdle
    <2>2. x3[j] \in Tokens!Containers /\ x3'[j] \in Tokens!Containers
      BY <1>2, <1>4
    <2>3. CASE x7[t].job = "rotate"
      <3>1. a = "ok" /\ x7[t].alone
        BY <1>5, <2>3
      <3>2. x2.n = x7[t].n /\ x3[j].id = t /\ x3[j].env = x7[t].n
        BY <1>1, <2>3, <3>1 DEF TokEnds, Tokens!Inductive, Tokens!Alone
      <3>3. x3'[j].id = t /\ x3'[j].env = x7[t].n
        <4>1. CASE j # k
          BY <1>4, <3>2, <4>1
        <4>2. CASE j = k
          BY <1>3, <1>4, <3>1, <3>2, <4>2 DEF TokEnds, TokKeepsName
        <4> QED BY <4>1, <4>2
      <3>4. x3'[j] # Tokens!Gone
        BY <2>2, <3>3, TokContainer
      <3> QED BY <2>1, <3>2, <3>3, <3>4
    <2>4. CASE x7[t].job # "rotate"
      <3>1. x6' = x6 /\ \A u \in Threads : x7[u].job # "rotate"
        BY <1>4, <1>5, <2>4
      <3>2. \A i \in Tokens!Kinds : /\ x3[i] # Tokens!Gone /\ x3[i].env = x2.n
                                    /\ \A u \in Threads : Tokens!Owns(x7[u], i) => x3[i].id # u
        BY <3>1 DEF Tokens!Inductive, Tokens!Settled
      <3>3. c.id = x3[k].id /\ c.env = x3[k].env
        BY <1>3, <3>2 DEF TokEnds, TokKeepsName
      <3>4. x3'[j].id = x3[j].id /\ x3'[j].env = x3[j].env
        BY <1>4, <3>3
      <3>5. x3'[j] # Tokens!Gone
        BY <2>2, <3>2, <3>4, TokFree
      <3> QED BY <2>1, <3>2, <3>4, <3>5
    <2> QED BY <2>3, <2>4
  <1> QED BY <1>8, <1>9, <1>11, <1>13, <1>14 DEF Tokens!Inductive

LEMMA TokCounts ==
    ASSUME Tokens!Inductive, NEW f \in {"fails", "deploys", "crashes"}, Tokens!Count(f)
    PROVE  x8' \in TokSpent
  <1>1. x8 \in TokSpent
    BY TokTyped
  <1> QED BY <1>1 DEF Tokens!Count, TokSpent

(* A rotation begins: whoever rotates is not alone any more.               *)
LEMMA TokRotates ==
    ASSUME Tokens!Inductive, NEW t \in Threads, Tokens!RotateTokens(t)
    PROVE  Tokens!Inductive'
  <1>1. /\ UNCHANGED <<x1, x2, x3, x4, x6, x8>> /\ x7[t].pc = "idle" /\ x5 < x1.rotations + 1 /\ x5' = x5 + 1
        /\ x1.rotations \in Nat /\ x5 \in Nat /\ x2.ver \in Nat /\ x2.n \in Nat
    BY TokTyped, TokSettings DEF Tokens!RotateTokens, Tokens!At
  <1>2. PICK m \in BOOLEAN : m = (Tokens!Rotating = {})
    OBVIOUS
  <1>3. PICK w : w = [Tokens!Idle EXCEPT !.pc = "commit", !.job = "rotate", !.n = x5 + 1, !.ver = x2.ver,
                                         !.alone = (Tokens!Rotating = {})]
    OBVIOUS
  <1>4. /\ w \in Tokens!Locals /\ w.pc = "commit" /\ w.job = "rotate" /\ w.n = x5 + 1 /\ w.ver = x2.ver
        /\ w.alone = (Tokens!Rotating = {}) /\ Tokens!Jobs(w) /\ \A k : ~Tokens!Owns(w, k)
    <2>1. PICK r : r = [Tokens!Idle EXCEPT !.pc = "commit", !.job = "rotate", !.n = x5 + 1, !.ver = x2.ver, !.alone = m]
      OBVIOUS
    <2>2. r = w
      BY <1>2, <1>3, <2>1, Zenon
    <2>3. r \in Tokens!Locals
      <3>1. CASE m = TRUE
        <4>1. r = [Tokens!Idle EXCEPT !.pc = "commit", !.job = "rotate", !.n = x5 + 1, !.ver = x2.ver, !.alone = TRUE]
          BY <2>1, <3>1, Zenon
        <4>2. x5 + 1 \in Nat /\ x2.ver \in Nat
          BY <1>1
        <4> QED BY <4>1, <4>2 DEF Tokens!Idle, Tokens!Locals, Tokens!Pcs, Tokens!Kinds
      <3>2. CASE m = FALSE
        <4>1. r = [Tokens!Idle EXCEPT !.pc = "commit", !.job = "rotate", !.n = x5 + 1, !.ver = x2.ver, !.alone = FALSE]
          BY <2>1, <3>2, Zenon
        <4>2. x5 + 1 \in Nat /\ x2.ver \in Nat
          BY <1>1
        <4> QED BY <4>1, <4>2 DEF Tokens!Idle, Tokens!Locals, Tokens!Pcs, Tokens!Kinds
      <3> QED BY <1>2, <3>1, <3>2, Zenon
    <2>4. r.pc = "commit" /\ r.job = "rotate" /\ r.n = x5 + 1 /\ r.ver = x2.ver /\ r.kind = "flagserver"
      BY <2>1 DEF Tokens!Idle
    <2>5. r.alone = m
      BY <2>1 DEF Tokens!Idle
    <2>6. w.alone = (Tokens!Rotating = {})
      BY <1>2, <2>2, <2>5, Zenon
    <2>7. Tokens!Jobs(r) /\ \A k : ~Tokens!Owns(r, k)
      BY <2>4 DEF Tokens!Jobs, Tokens!Owns
    <2> QED BY <2>2, <2>3, <2>4, <2>6, <2>7, Zenon
  <1>5. x7 \in [Threads -> Tokens!Locals] /\ \A u \in Threads : Tokens!Jobs(x7[u])
    BY TokTyped
  <1>6. /\ x7'[t] = w
        /\ \A u \in Threads : u # t => \/ x7[u].job # "rotate" /\ x7'[u] = x7[u]
                                       \/ x7[u].job = "rotate" /\ x7'[u] = [x7[u] EXCEPT !.alone = FALSE]
        /\ DOMAIN x7' = Threads /\ x7' = [u \in Threads |-> x7'[u]]
    BY <1>3 DEF Tokens!RotateTokens, Tokens!Rotating
  <1>7. \A u \in Threads : u # t => /\ x7'[u] \in Tokens!Locals /\ x7'[u].pc = x7[u].pc /\ x7'[u].job = x7[u].job
                                    /\ x7'[u].n = x7[u].n /\ x7'[u].ver = x7[u].ver /\ x7'[u].kind = x7[u].kind
                                    /\ x7'[u].job = "rotate" => x7'[u].alone = FALSE
    <2> SUFFICES ASSUME NEW u \in Threads, u # t
                 PROVE  /\ x7'[u] \in Tokens!Locals /\ x7'[u].pc = x7[u].pc /\ x7'[u].job = x7[u].job
                        /\ x7'[u].n = x7[u].n /\ x7'[u].ver = x7[u].ver /\ x7'[u].kind = x7[u].kind
                        /\ x7'[u].job = "rotate" => x7'[u].alone = FALSE
      OBVIOUS
    <2>1. x7[u] \in Tokens!Locals
      BY <1>5
    <2>2. CASE x7[u].job # "rotate" /\ x7'[u] = x7[u]
      BY <2>1, <2>2
    <2>3. CASE x7[u].job = "rotate" /\ x7'[u] = [x7[u] EXCEPT !.alone = FALSE]
      <3>1. PICK v : v = x7[u]
        OBVIOUS
      <3>2. PICK r : r = [v EXCEPT !.alone = FALSE]
        OBVIOUS
      <3>3. v \in Tokens!Locals
        BY <2>1, <3>1
      <3>4. r \in Tokens!Locals
        BY <3>2, <3>3 DEF Tokens!Locals
      <3>5. r.pc = v.pc /\ r.job = v.job /\ r.n = v.n /\ r.ver = v.ver /\ r.kind = v.kind
        BY <3>2, <3>3 DEF Tokens!Locals
      <3>6. r.alone = FALSE
        BY <3>2, <3>3 DEF Tokens!Locals
      <3>7. x7'[u] = r
        BY <2>3, <3>1, <3>2, Zenon
      <3> QED BY <3>1, <3>4, <3>5, <3>6, <3>7, Zenon
    <2> QED BY <1>6, <2>2, <2>3
  <1>8. x7' \in [Threads -> Tokens!Locals]
    BY <1>4, <1>6, <1>7
  <1>9. x5' \in Nat /\ x5 <= x5' /\ 1 <= x5' /\ x5' <= x1.rotations + 1
    BY <1>1
  <1>10. Tokens!Types'
    BY <1>1, <1>8, <1>9 DEF Tokens!Inductive, Tokens!Types
  <1>11. \A u \in Threads : Tokens!Jobs(x7'[u])
    BY <1>4, <1>5, <1>6, <1>7 DEF Tokens!Jobs
  <1>12. Tokens!Counted'
    <2>1. 1 <= x2.n /\ x2.n <= x5 /\ 1 <= x2.ver /\ x2.ver <= x5
      BY DEF Tokens!Inductive, Tokens!Counted
    <2>2. ASSUME NEW k \in Tokens!Kinds, x3[k] # Tokens!Gone PROVE 1 <= x3[k].env /\ x3[k].env <= x5'
      <3>1. x3[k].env \in Nat /\ 1 <= x3[k].env /\ x3[k].env <= x5
        BY <2>2, TokTyped, TokContainer DEF Tokens!Inductive, Tokens!Counted
      <3> QED BY <1>1, <3>1
    <2>3. ASSUME NEW u \in Threads, x7'[u].pc # "idle" PROVE 1 <= x7'[u].n /\ x7'[u].n <= x5'
      <3>1. CASE u = t
        BY <1>1, <1>4, <1>6, <3>1
      <3>2. CASE u # t
        <4>1. x7[u].n \in Nat /\ 1 <= x7[u].n /\ x7[u].n <= x5
          BY <1>5, <1>7, <2>3, <3>2, TokLocal DEF Tokens!Inductive, Tokens!Counted
        <4> QED BY <1>1, <1>7, <3>2, <4>1
      <3> QED BY <3>1, <3>2
    <2>4. ASSUME NEW u \in Threads, x7'[u].pc = "commit" PROVE 1 <= x7'[u].ver /\ x7'[u].ver < x5'
      <3>1. CASE u = t
        BY <1>1, <1>4, <1>6, <2>1, <3>1
      <3>2. CASE u # t
        <4>1. x7[u].ver \in Nat /\ 1 <= x7[u].ver /\ x7[u].ver < x5
          BY <1>5, <1>7, <2>4, <3>2, TokLocal DEF Tokens!Inductive, Tokens!Counted
        <4> QED BY <1>1, <1>7, <3>2, <4>1
      <3> QED BY <3>1, <3>2
    <2>5. x2.n <= x5' /\ x2.ver <= x5'
      BY <1>1, <2>1
    <2> QED BY <1>1, <1>9, <2>1, <2>2, <2>3, <2>4, <2>5 DEF Tokens!Counted
  <1>13. Tokens!Alone'
    <2>1. ASSUME NEW u \in Threads, x7'[u].job = "rotate", x7'[u].alone
          PROVE  u = t /\ \A v \in Threads : x7'[v].job = "rotate" => v = u
      <3>1. u = t
        BY <1>7, <2>1
      <3>2. Tokens!Rotating = {}
        BY <1>4, <1>6, <2>1, <3>1
      <3> QED BY <1>7, <3>1, <3>2 DEF Tokens!Rotating
    <2>2. x7'[t].pc = "commit"
      BY <1>4, <1>6
    <2> QED BY <2>1, <2>2 DEF Tokens!Alone
  <1>14. Tokens!Settled'
    BY <1>4, <1>6 DEF Tokens!Settled
  <1> QED BY <1>10, <1>11, <1>12, <1>13, <1>14 DEF Tokens!Inductive

(* What a call of the daemon leaves under the name.                        *)
LEMMA TokStopOut ==
    ASSUME NEW c \in Tokens!Containers, NEW s \in BOOLEAN, NEW o \in Tokens!StopContainer(c, s)
    PROVE  o.con \in Tokens!Containers /\ o.con.id = c.id /\ o.con.env = c.env
  <1>1. CASE o.con = c
    BY <1>1
  <1>2. CASE c.st = "up" /\ o.con = [c EXCEPT !.st = "down"]
    <2>1. c \in [st : {"created", "up", "down"}, env : Nat, id : Threads \cup {"first"}]
      BY <1>2, TokContainer DEF Tokens!Gone
    <2> QED BY <1>2, <2>1 DEF Tokens!Containers
  <1> QED BY <1>1, <1>2 DEF Tokens!StopContainer, Tokens!Refused, Tokens!Out

LEMMA TokRemoveOut ==
    ASSUME NEW c \in Tokens!Containers, NEW s \in BOOLEAN, NEW o \in Tokens!RemoveContainer(c, s)
    PROVE  o.con \in Tokens!Containers /\ (o.con = c \/ o.con = Tokens!Gone)
  <1>1. o.con = c \/ o.con = Tokens!Gone
    BY DEF Tokens!RemoveContainer, Tokens!Refused, Tokens!Out
  <1> QED BY <1>1 DEF Tokens!Containers

LEMMA TokCreateOut ==
    ASSUME NEW c \in Tokens!Containers, NEW s \in BOOLEAN, NEW e \in Nat, NEW t \in Threads,
           NEW o \in Tokens!CreateContainer(c, e, t, s)
    PROVE  /\ o.con \in Tokens!Containers
           /\ o.ok = TRUE => c = Tokens!Gone /\ o.con.id = t /\ o.con.env = e
           /\ o.ok = FALSE => o.con = c
           /\ o.ok \in BOOLEAN
  <1>1. \/ o = Tokens!Out(FALSE, c)
        \/ c = Tokens!Gone /\ o = Tokens!Out(TRUE, Tokens!Held("created", e, t))
    BY DEF Tokens!CreateContainer, Tokens!Refused
  <1>2. /\ Tokens!Held("created", e, t) \in Tokens!Containers /\ Tokens!Held("created", e, t).id = t
        /\ Tokens!Held("created", e, t).env = e
    BY DEF Tokens!Held, Tokens!Containers
  <1>3. CASE o = Tokens!Out(FALSE, c)
    BY <1>3 DEF Tokens!Out
  <1>4. CASE c = Tokens!Gone /\ o = Tokens!Out(TRUE, Tokens!Held("created", e, t))
    BY <1>2, <1>4 DEF Tokens!Out
  <1> QED BY <1>1, <1>3, <1>4

LEMMA TokStartOut ==
    ASSUME NEW c \in Tokens!Containers, NEW s \in BOOLEAN, NEW t \in Threads,
           NEW o \in Tokens!StartContainer(c, t, s)
    PROVE  /\ o.con \in Tokens!Containers /\ o.con.id = c.id /\ o.con.env = c.env
           /\ o.ok \in BOOLEAN
  <1>1. \/ o = Tokens!Out(FALSE, c)
        \/ c.id = t /\ o = Tokens!Out(TRUE, [c EXCEPT !.st = "up"])
    BY DEF Tokens!StartContainer, Tokens!Refused
  <1>2. CASE o = Tokens!Out(FALSE, c)
    BY <1>2 DEF Tokens!Out
  <1>3. CASE c.id = t /\ o = Tokens!Out(TRUE, [c EXCEPT !.st = "up"])
    <2>1. c \in [st : {"created", "up", "down"}, env : Nat, id : Threads \cup {"first"}]
      BY <1>3, TokContainer
    <2>2. PICK d : d = [c EXCEPT !.st = "up"]
      OBVIOUS
    <2>3. d \in Tokens!Containers /\ d.id = c.id /\ d.env = c.env
      BY <2>1, <2>2 DEF Tokens!Containers
    <2> QED BY <1>3, <2>2, <2>3 DEF Tokens!Out
  <1> QED BY <1>1, <1>2, <1>3

LEMMA TokInspectOut ==
    ASSUME NEW c, NEW s \in BOOLEAN, NEW o \in Tokens!InspectContainer(c, s)
    PROVE  o.con = c
  BY DEF Tokens!InspectContainer, Tokens!Refused, Tokens!Out

(* The thread and its container, before a step.                            *)
TokAt(t, v, c) == /\ t \in Threads /\ v = x7[t] /\ v \in Tokens!Locals /\ Tokens!Jobs(v)
                  /\ c = x3[v.kind] /\ c \in Tokens!Containers /\ v.kind \in Tokens!Kinds
                  /\ x3 = [x3 EXCEPT ![v.kind] = c]

LEMMA TokBefore ==
    ASSUME Tokens!Inductive, NEW t \in Threads
    PROVE  \E v, c : TokAt(t, v, c)
  <1>1. PICK v : v = x7[t]
    OBVIOUS
  <1>2. v \in Tokens!Locals /\ Tokens!Jobs(v) /\ v.kind \in Tokens!Kinds
    BY <1>1, TokTyped, TokLocal
  <1>3. PICK c : c = x3[v.kind]
    OBVIOUS
  <1>4. x3 \in [Tokens!Kinds -> Tokens!Containers]
    BY TokTyped
  <1> QED BY <1>1, <1>2, <1>3, <1>4 DEF TokAt

LEMMA TokPc ==
    ASSUME NEW v \in Tokens!Locals, NEW p \in Tokens!Pcs
    PROVE  \E w : /\ w = [v EXCEPT !.pc = p] /\ w \in Tokens!Locals /\ w.pc = p /\ w.job = v.job /\ w.n = v.n
                  /\ w.kind = v.kind /\ w.alone = v.alone
  <1>1. PICK w : w = [v EXCEPT !.pc = p]
    OBVIOUS
  <1>2. w \in Tokens!Locals
    BY <1>1 DEF Tokens!Locals
  <1>3. w.pc = p /\ w.job = v.job /\ w.n = v.n /\ w.kind = v.kind
    BY <1>1 DEF Tokens!Locals
  <1>4. w.alone = v.alone
    BY <1>1 DEF Tokens!Locals
  <1> QED BY <1>1, <1>2, <1>3, <1>4, Zenon

TokKept == UNCHANGED <<x1, x2, x5>> /\ x4' \subseteq Tokens!Kinds /\ x8' \in TokSpent

(* Thread t goes on at p, and its container keeps its id and token, is new *)
(* or is removed.                                                          *)
TokMove(t, v, c, p, d) ==
    /\ TokAt(t, v, c) /\ p \in Tokens!Pcs /\ d \in Tokens!Containers
    /\ v.pc \notin {"idle", "commit"} /\ p \notin {"idle", "commit"} /\ TokKept /\ x6' = x6
    /\ x3' = [x3 EXCEPT ![v.kind] = d] /\ Tokens!Step(t, p)
    /\ p \in {"stop", "remove", "probe"} => v.job = "rotate"
    /\ p \in {"ensure", "inspect", "track"} => v.job = "deploy"
    /\ \/ /\ d.id = c.id /\ d.env = c.env
          /\ p \in {"start", "connect", "undo_stop", "undo_remove"} =>
                v.pc \in {"start", "connect", "undo_stop", "undo_remove"}
          /\ p \in {"start", "connect", "probe"} => v.pc \in {"start", "connect", "probe"}
       \/ c = Tokens!Gone /\ d.id = t /\ d.env = v.n /\ p = "start" /\ v.pc = "create"
       \/ d = Tokens!Gone /\ v.job = "rotate" /\ p = "create"
LEMMA TokMoves ==
    ASSUME Tokens!Inductive, NEW t, NEW v, NEW c, NEW p, NEW d, TokMove(t, v, c, p, d)
    PROVE  Tokens!Inductive'
  <1>1. PICK w : /\ w = [v EXCEPT !.pc = p] /\ w \in Tokens!Locals /\ w.pc = p /\ w.job = v.job /\ w.n = v.n
                 /\ w.kind = v.kind /\ w.alone = v.alone
    BY TokPc DEF TokAt, TokMove
  <1>2. x7' = [x7 EXCEPT ![t] = w]
    BY <1>1 DEF Tokens!Step, TokAt, TokMove
  <1>3. TokWork(t, d)
    BY DEF TokWork, TokKept, TokAt, TokMove
  <1>4. Tokens!Jobs(w)
    BY <1>1 DEF TokAt, Tokens!Jobs, TokMove
  <1>5. v = x7[t] /\ c = x3[v.kind] /\ t \in Threads
    BY DEF TokAt, TokMove
  <1>6. CASE /\ d.id = c.id /\ d.env = c.env
             /\ p \in {"start", "connect", "undo_stop", "undo_remove"} =>
                   v.pc \in {"start", "connect", "undo_stop", "undo_remove"}
             /\ p \in {"start", "connect", "probe"} => v.pc \in {"start", "connect", "probe"}
    <2>1. TokKeepsName(t, d)
      BY <1>5, <1>6 DEF TokKeepsName
    <2>2. \A k \in Tokens!Kinds : Tokens!Owns(w, k) => Tokens!Owns(v, k)
      BY <1>1, <1>6 DEF Tokens!Owns
    <2>3. Tokens!Replaced(w) \subseteq Tokens!Replaced(v)
      BY <1>1, <1>6 DEF Tokens!Replaced
    <2>4. TokGoes(t, w, d)
      BY <1>1, <1>2, <1>3, <1>4, <1>5, <2>1, <2>2, <2>3 DEF TokGoes, TokMove
    <2> QED BY <1>5, <2>4, TokGoesKeeps
  <1>7. CASE c = Tokens!Gone /\ d.id = t /\ d.env = v.n /\ p = "start" /\ v.pc = "create"
    <2>1. Tokens!Replaced(w) = Tokens!Replaced(v) \cup {w.kind}
      BY <1>1, <1>7 DEF Tokens!Replaced, TokAt, TokMove
    <2>2. TokGoes(t, w, d)
      BY <1>1, <1>2, <1>3, <1>4, <1>5, <1>7, <2>1 DEF TokGoes, TokMove
    <2> QED BY <1>5, <2>2, TokGoesKeeps
  <1>8. CASE d = Tokens!Gone /\ v.job = "rotate" /\ p = "create"
    <2>1. w.kind \notin Tokens!Replaced(w) /\ Tokens!Replaced(w) \subseteq Tokens!Replaced(v)
      BY <1>1, <1>8 DEF Tokens!Replaced
    <2>2. \A k \in Tokens!Kinds : ~Tokens!Owns(w, k)
      BY <1>1, <1>8 DEF Tokens!Owns
    <2>3. TokGoes(t, w, d)
      BY <1>1, <1>2, <1>3, <1>4, <1>5, <1>8, <2>1, <2>2 DEF TokGoes, TokMove
    <2> QED BY <1>5, <2>3, TokGoesKeeps
  <1> QED BY <1>6, <1>7, <1>8 DEF TokMove

(* Thread t answers; its container keeps its id and token.                 *)
TokAnswer(t, v, c, d, a) ==
    /\ TokAt(t, v, c) /\ d \in Tokens!Containers /\ a \in {"ok", "error"}
    /\ v.pc \notin {"idle", "commit"} /\ TokKept /\ x3' = [x3 EXCEPT ![v.kind] = d] /\ Tokens!Answer(t, a)
    /\ \/ d.id = c.id /\ d.env = c.env
       \/ a = "error" /\ d = Tokens!Gone /\ c.id = t /\ v.pc = "undo_remove"
    /\ a = "ok" /\ v.job = "rotate" => v.kind = "judgeserver" /\ v.pc = "probe"
LEMMA TokAnswers ==
    ASSUME Tokens!Inductive, NEW t, NEW v, NEW c, NEW d, NEW a, TokAnswer(t, v, c, d, a)
    PROVE  Tokens!Inductive'
  <1>1. v = x7[t] /\ c = x3[v.kind] /\ t \in Threads
    BY DEF TokAnswer, TokAt
  <1>2. TokWork(t, d)
    BY DEF TokAnswer, TokWork, TokKept, TokAt
  <1>3. a = "ok" /\ v.job = "rotate" => Tokens!Replaced(v) = Tokens!Kinds
    BY DEF TokAnswer, Tokens!Replaced, Tokens!Kinds
  <1>4. v.pc = "undo_remove" => Tokens!Owns(v, v.kind)
    BY DEF Tokens!Owns
  <1>5. TokEnds(t, a, d)
    BY <1>1, <1>2, <1>3, <1>4 DEF TokAnswer, TokEnds, TokKeepsName
  <1> QED BY <1>1, <1>5, TokEndsKeeps

(* Done with one container, thread t turns to the other or answers.        *)
LEMMA TokTurns ==
    ASSUME Tokens!Inductive, NEW t, NEW v, NEW c, TokAt(t, v, c), NEW p \in {"stop", "ensure"},
           v.pc \notin {"idle", "commit"}, TokKept, x3' = x3, Tokens!NextKind(t, p),
           p = "stop" => v.pc = "probe" /\ v.job = "rotate", p = "ensure" => v.job = "deploy"
    PROVE  Tokens!Inductive'
  <1>1. v = x7[t] /\ c = x3[v.kind] /\ t \in Threads /\ v \in Tokens!Locals /\ c \in Tokens!Containers
        /\ x3' = [x3 EXCEPT ![v.kind] = c]
    BY DEF TokAt
  <1>2. CASE v.kind = "flagserver"
    <2>1. PICK w : w = [v EXCEPT !.kind = "judgeserver", !.pc = p]
      OBVIOUS
    <2>2. w \in Tokens!Locals
      BY <1>1, <2>1 DEF Tokens!Locals, Tokens!Pcs, Tokens!Kinds
    <2>3. w.pc = p /\ w.kind = "judgeserver" /\ w.job = v.job /\ w.n = v.n
      BY <1>1, <2>1 DEF Tokens!Locals
    <2>4. w.alone = v.alone
      BY <1>1, <2>1 DEF Tokens!Locals
    <2>5. x7' = [x7 EXCEPT ![t] = w] /\ x6' = x6
      BY <1>1, <1>2, <2>1 DEF Tokens!NextKind
    <2>6. Tokens!Jobs(w) /\ \A k \in Tokens!Kinds : ~Tokens!Owns(w, k)
      BY <2>3 DEF Tokens!Jobs, Tokens!Owns
    <2>7. w.job = "rotate" => Tokens!Replaced(w) \subseteq Tokens!Replaced(v)
      BY <1>2, <2>3 DEF Tokens!Replaced
    <2>8. TokWork(t, c) /\ TokKeepsName(t, c)
      BY <1>1 DEF TokWork, TokKept, TokKeepsName
    <2>9. TokGoes(t, w, c)
      BY <1>1, <2>2, <2>3, <2>4, <2>5, <2>6, <2>7, <2>8 DEF TokGoes
    <2> QED BY <1>1, <2>9, TokGoesKeeps
  <1>3. CASE v.kind # "flagserver"
    <2>1. Tokens!Answer(t, "ok") /\ v.kind = "judgeserver"
      BY <1>1, <1>3 DEF Tokens!NextKind, TokAt, Tokens!Kinds
    <2>2. v.job = "rotate" => v.pc = "probe"
      OBVIOUS
    <2>3. TokAnswer(t, v, c, c, "ok")
      BY <1>1, <2>1, <2>2 DEF TokAnswer
    <2> QED BY <2>3, TokAnswers
  <1> QED BY <1>2, <1>3

LEMMA TokSpentKept ==
    ASSUME Tokens!Inductive, x8' = x8 \/ Tokens!Count("fails")
    PROVE  x8' \in TokSpent
  BY TokTyped, TokCounts

(* What the steps of a thread have in common.                              *)
TokFrame == UNCHANGED <<x1, x2, x4, x5>> /\ (x8' = x8 \/ Tokens!Count("fails"))

LEMMA TokFrameKept ==
    ASSUME Tokens!Inductive, TokFrame
    PROVE  TokKept
  BY TokSpentKept, TokTyped DEF TokFrame, TokKept

LEMMA TokStops ==
    ASSUME Tokens!Inductive, NEW t \in Threads, Tokens!StopOld(t)
    PROVE  Tokens!Inductive'
  <1>1. PICK v, c : TokAt(t, v, c)
    BY TokBefore
  <1>2. v = x7[t] /\ c = x3[v.kind] /\ c \in Tokens!Containers /\ Tokens!Jobs(v)
    BY <1>1 DEF TokAt
  <1>3. /\ v.pc = "stop" /\ TokFrame /\ Tokens!Step(t, "remove") /\ x6' = x6
        /\ \E s \in BOOLEAN : \E o \in Tokens!StopContainer(c, s) : x3' = [x3 EXCEPT ![v.kind] = o.con]
    BY <1>2 DEF Tokens!StopOld, Tokens!At, Tokens!Call, Tokens!Here, Tokens!Step, TokFrame
  <1>4. PICK s \in BOOLEAN : \E o \in Tokens!StopContainer(c, s) : x3' = [x3 EXCEPT ![v.kind] = o.con]
    BY <1>3
  <1>5. PICK o \in Tokens!StopContainer(c, s) : x3' = [x3 EXCEPT ![v.kind] = o.con]
    BY <1>4
  <1>6. o.con \in Tokens!Containers /\ o.con.id = c.id /\ o.con.env = c.env
    BY <1>2, TokStopOut
  <1>7. TokMove(t, v, c, "remove", o.con)
    BY <1>1, <1>2, <1>3, <1>5, <1>6, TokFrameKept DEF TokMove, Tokens!Pcs, Tokens!Jobs
  <1> QED BY <1>7, TokMoves

LEMMA TokRemoves ==
    ASSUME Tokens!Inductive, NEW t \in Threads, Tokens!RemoveOld(t)
    PROVE  Tokens!Inductive'
  <1>1. PICK v, c : TokAt(t, v, c)
    BY TokBefore
  <1>2. v = x7[t] /\ c = x3[v.kind] /\ c \in Tokens!Containers /\ Tokens!Jobs(v)
    BY <1>1 DEF TokAt
  <1>3. /\ v.pc = "remove" /\ TokFrame /\ Tokens!Step(t, "create") /\ x6' = x6
        /\ \E s \in BOOLEAN : \E o \in Tokens!RemoveContainer(c, s) : x3' = [x3 EXCEPT ![v.kind] = o.con]
    BY <1>2 DEF Tokens!RemoveOld, Tokens!At, Tokens!Call, Tokens!Here, Tokens!Step, TokFrame
  <1>4. PICK s \in BOOLEAN : \E o \in Tokens!RemoveContainer(c, s) : x3' = [x3 EXCEPT ![v.kind] = o.con]
    BY <1>3
  <1>5. PICK o \in Tokens!RemoveContainer(c, s) : x3' = [x3 EXCEPT ![v.kind] = o.con]
    BY <1>4
  <1>6. o.con \in Tokens!Containers /\ (o.con = c \/ o.con = Tokens!Gone)
    BY <1>2, TokRemoveOut
  <1>7. TokMove(t, v, c, "create", o.con)
    BY <1>1, <1>2, <1>3, <1>5, <1>6, TokFrameKept DEF TokMove, Tokens!Pcs, Tokens!Jobs
  <1> QED BY <1>7, TokMoves

LEMMA TokCreates ==
    ASSUME Tokens!Inductive, NEW t \in Threads, Tokens!CreateInfrastructureContainer(t)
    PROVE  Tokens!Inductive'
  <1>1. PICK v, c : TokAt(t, v, c)
    BY TokBefore
  <1>2. v = x7[t] /\ c = x3[v.kind] /\ c \in Tokens!Containers /\ Tokens!Jobs(v) /\ v.n \in Nat
    BY <1>1, TokLocal DEF TokAt
  <1>3. /\ v.pc = "create" /\ TokFrame
        /\ \E s \in BOOLEAN : \E o \in Tokens!CreateContainer(c, v.n, t, s) :
             /\ x3' = [x3 EXCEPT ![v.kind] = o.con]
             /\ IF o.ok THEN Tokens!Step(t, "start") /\ x6' = x6 ELSE Tokens!Answer(t, "error")
    BY <1>2 DEF Tokens!CreateInfrastructureContainer, Tokens!At, Tokens!Call, Tokens!Here, TokFrame
  <1>4. PICK s \in BOOLEAN : \E o \in Tokens!CreateContainer(c, v.n, t, s) :
             /\ x3' = [x3 EXCEPT ![v.kind] = o.con]
             /\ IF o.ok THEN Tokens!Step(t, "start") /\ x6' = x6 ELSE Tokens!Answer(t, "error")
    BY <1>3
  <1>5. PICK o \in Tokens!CreateContainer(c, v.n, t, s) :
             /\ x3' = [x3 EXCEPT ![v.kind] = o.con]
             /\ IF o.ok THEN Tokens!Step(t, "start") /\ x6' = x6 ELSE Tokens!Answer(t, "error")
    BY <1>4
  <1>6. /\ o.con \in Tokens!Containers
        /\ o.ok = TRUE => c = Tokens!Gone /\ o.con.id = t /\ o.con.env = v.n
        /\ o.ok = FALSE => o.con = c
        /\ o.ok \in BOOLEAN
    BY <1>2, TokCreateOut
  <1>7. CASE o.ok = TRUE
    <2>1. TokMove(t, v, c, "start", o.con)
      BY <1>1, <1>2, <1>3, <1>5, <1>6, <1>7, TokFrameKept DEF TokMove, Tokens!Pcs, Tokens!Jobs
    <2> QED BY <2>1, TokMoves
  <1>8. CASE o.ok = FALSE
    <2>1. TokAnswer(t, v, c, o.con, "error")
      BY <1>1, <1>2, <1>3, <1>5, <1>6, <1>8, TokFrameKept DEF TokAnswer
    <2> QED BY <2>1, TokAnswers
  <1> QED BY <1>6, <1>7, <1>8

LEMMA TokStarts ==
    ASSUME Tokens!Inductive, NEW t \in Threads, Tokens!StartInfrastructureContainer(t)
    PROVE  Tokens!Inductive'
  <1>1. PICK v, c : TokAt(t, v, c)
    BY TokBefore
  <1>2. v = x7[t] /\ c = x3[v.kind] /\ c \in Tokens!Containers /\ Tokens!Jobs(v) /\ v.job \in {"none", "rotate", "deploy"}
    BY <1>1, TokLocal DEF TokAt
  <1>3. PICK p : p = IF x1.control THEN "connect" ELSE Tokens!AfterStart(t)
    OBVIOUS
  <1>4. /\ v.pc = "start" /\ TokFrame
        /\ \E s \in BOOLEAN : \E o \in Tokens!StartContainer(c, t, s) :
             /\ x3' = [x3 EXCEPT ![v.kind] = o.con]
             /\ IF o.ok THEN Tokens!Step(t, p) /\ x6' = x6 ELSE Tokens!Answer(t, "error")
    BY <1>2, <1>3 DEF Tokens!StartInfrastructureContainer, Tokens!At, Tokens!Call, Tokens!Here, TokFrame
  <1>5. PICK s \in BOOLEAN : \E o \in Tokens!StartContainer(c, t, s) :
             /\ x3' = [x3 EXCEPT ![v.kind] = o.con]
             /\ IF o.ok THEN Tokens!Step(t, p) /\ x6' = x6 ELSE Tokens!Answer(t, "error")
    BY <1>4
  <1>6. PICK o \in Tokens!StartContainer(c, t, s) :
             /\ x3' = [x3 EXCEPT ![v.kind] = o.con]
             /\ IF o.ok THEN Tokens!Step(t, p) /\ x6' = x6 ELSE Tokens!Answer(t, "error")
    BY <1>5
  <1>7. /\ o.con \in Tokens!Containers /\ o.con.id = c.id /\ o.con.env = c.env
        /\ o.ok \in BOOLEAN
    BY <1>2, TokStartOut
  <1>8. p \in {"connect", "probe", "track"} /\ (p = "probe" => v.job = "rotate") /\ (p = "track" => v.job = "deploy")
    BY <1>2, <1>3, <1>4 DEF Tokens!AfterStart, Tokens!Jobs
  <1>9. CASE o.ok = TRUE
    <2>1. TokMove(t, v, c, p, o.con)
      BY <1>1, <1>2, <1>4, <1>6, <1>7, <1>8, <1>9, TokFrameKept DEF TokMove, Tokens!Pcs
    <2> QED BY <2>1, TokMoves
  <1>10. CASE o.ok = FALSE
    <2>1. TokAnswer(t, v, c, o.con, "error")
      BY <1>1, <1>2, <1>4, <1>6, <1>7, <1>10, TokFrameKept DEF TokAnswer
    <2> QED BY <2>1, TokAnswers
  <1> QED BY <1>7, <1>9, <1>10

LEMMA TokConnects ==
    ASSUME Tokens!Inductive, NEW t \in Threads, Tokens!ConnectControlNetwork(t)
    PROVE  Tokens!Inductive'
  <1>1. PICK v, c : TokAt(t, v, c)
    BY TokBefore
  <1>2. /\ v = x7[t] /\ c = x3[v.kind] /\ c \in Tokens!Containers /\ Tokens!Jobs(v) /\ v.job \in {"none", "rotate", "deploy"}
        /\ x3 = [x3 EXCEPT ![v.kind] = c]
    BY <1>1, TokLocal DEF TokAt
  <1>3. /\ v.pc = "connect" /\ TokFrame /\ x6' = x6 /\ x3' = x3
        /\ Tokens!Step(t, Tokens!AfterStart(t)) \/ Tokens!Step(t, "undo_stop")
    BY <1>2 DEF Tokens!ConnectControlNetwork, Tokens!At, TokFrame
  <1>4. PICK p : p \in {Tokens!AfterStart(t), "undo_stop"} /\ Tokens!Step(t, p)
    BY <1>3
  <1>5. p \in {"undo_stop", "probe", "track"} /\ (p = "probe" => v.job = "rotate") /\ (p = "track" => v.job = "deploy")
    BY <1>2, <1>3, <1>4 DEF Tokens!AfterStart, Tokens!Jobs
  <1>6. TokMove(t, v, c, p, c)
    BY <1>1, <1>2, <1>3, <1>4, <1>5, TokFrameKept DEF TokMove, Tokens!Pcs
  <1> QED BY <1>6, TokMoves

LEMMA TokUndoStops ==
    ASSUME Tokens!Inductive, NEW t \in Threads, Tokens!UndoStop(t)
    PROVE  Tokens!Inductive'
  <1>1. PICK v, c : TokAt(t, v, c)
    BY TokBefore
  <1>2. v = x7[t] /\ c = x3[v.kind] /\ c \in Tokens!Containers
    BY <1>1 DEF TokAt
  <1>3. /\ v.pc = "undo_stop" /\ TokFrame /\ Tokens!Step(t, "undo_remove") /\ x6' = x6
        /\ \E s \in BOOLEAN : \E o \in (IF c.id = t THEN Tokens!StopContainer(c, s) ELSE {Tokens!Out(TRUE, c)}) :
              x3' = [x3 EXCEPT ![v.kind] = o.con]
    BY <1>2 DEF Tokens!UndoStop, Tokens!At, Tokens!Call, Tokens!Here, Tokens!ById, Tokens!Step, TokFrame
  <1>4. PICK s \in BOOLEAN : \E o \in (IF c.id = t THEN Tokens!StopContainer(c, s) ELSE {Tokens!Out(TRUE, c)}) :
              x3' = [x3 EXCEPT ![v.kind] = o.con]
    BY <1>3
  <1>5. PICK o \in (IF c.id = t THEN Tokens!StopContainer(c, s) ELSE {Tokens!Out(TRUE, c)}) :
              x3' = [x3 EXCEPT ![v.kind] = o.con]
    BY <1>4
  <1>6. o.con \in Tokens!Containers /\ o.con.id = c.id /\ o.con.env = c.env
    BY <1>2, TokStopOut DEF Tokens!Out
  <1>7. TokMove(t, v, c, "undo_remove", o.con)
    BY <1>1, <1>2, <1>3, <1>5, <1>6, TokFrameKept DEF TokMove, Tokens!Pcs
  <1> QED BY <1>7, TokMoves

LEMMA TokUndoRemoves ==
    ASSUME Tokens!Inductive, NEW t \in Threads, Tokens!UndoRemove(t)
    PROVE  Tokens!Inductive'
  <1>1. PICK v, c : TokAt(t, v, c)
    BY TokBefore
  <1>2. v = x7[t] /\ c = x3[v.kind] /\ c \in Tokens!Containers
    BY <1>1 DEF TokAt
  <1>3. /\ v.pc = "undo_remove" /\ TokFrame /\ Tokens!Answer(t, "error")
        /\ \E s \in BOOLEAN : \E o \in (IF c.id = t THEN Tokens!RemoveContainer(c, s) ELSE {Tokens!Out(TRUE, c)}) :
              x3' = [x3 EXCEPT ![v.kind] = o.con]
    BY <1>2 DEF Tokens!UndoRemove, Tokens!At, Tokens!Call, Tokens!Here, Tokens!ById, Tokens!Answer, TokFrame
  <1>4. PICK s \in BOOLEAN : \E o \in (IF c.id = t THEN Tokens!RemoveContainer(c, s) ELSE {Tokens!Out(TRUE, c)}) :
              x3' = [x3 EXCEPT ![v.kind] = o.con]
    BY <1>3
  <1>5. PICK o \in (IF c.id = t THEN Tokens!RemoveContainer(c, s) ELSE {Tokens!Out(TRUE, c)}) :
              x3' = [x3 EXCEPT ![v.kind] = o.con]
    BY <1>4
  <1>6. o.con \in Tokens!Containers /\ (o.con = c \/ (o.con = Tokens!Gone /\ c.id = t))
    BY <1>2, TokRemoveOut DEF Tokens!Out
  <1>7. TokAnswer(t, v, c, o.con, "error")
    BY <1>1, <1>2, <1>3, <1>5, <1>6, TokFrameKept DEF TokAnswer
  <1> QED BY <1>7, TokAnswers

LEMMA TokProbes ==
    ASSUME Tokens!Inductive, NEW t \in Threads, Tokens!WaitForTcpReady(t)
    PROVE  Tokens!Inductive'
  <1>1. PICK v, c : TokAt(t, v, c)
    BY TokBefore
  <1>2. /\ v = x7[t] /\ c = x3[v.kind] /\ c \in Tokens!Containers /\ Tokens!Jobs(v)
        /\ x3 = [x3 EXCEPT ![v.kind] = c]
    BY <1>1 DEF TokAt
  <1>3. /\ v.pc = "probe" /\ TokFrame /\ x3' = x3
        /\ Tokens!NextKind(t, "stop") \/ Tokens!Answer(t, "error")
    BY <1>2 DEF Tokens!WaitForTcpReady, Tokens!At, TokFrame
  <1>4. TokKept /\ v.job = "rotate"
    BY <1>2, <1>3, TokFrameKept DEF Tokens!Jobs
  <1>5. CASE Tokens!NextKind(t, "stop")
    BY <1>1, <1>3, <1>4, <1>5, TokTurns
  <1>6. CASE Tokens!Answer(t, "error")
    <2>1. TokAnswer(t, v, c, c, "error")
      BY <1>1, <1>2, <1>3, <1>4, <1>6 DEF TokAnswer
    <2> QED BY <2>1, TokAnswers
  <1> QED BY <1>3, <1>5, <1>6

LEMMA TokLooks ==
    ASSUME Tokens!Inductive, NEW t \in Threads, Tokens!ResourceExists(t)
    PROVE  Tokens!Inductive'
  <1>1. PICK v, c : TokAt(t, v, c)
    BY TokBefore
  <1>2. /\ v = x7[t] /\ c = x3[v.kind] /\ c \in Tokens!Containers /\ Tokens!Jobs(v) /\ v \in Tokens!Locals
        /\ x3 = [x3 EXCEPT ![v.kind] = c]
    BY <1>1 DEF TokAt
  <1>3. PICK w : w = [v EXCEPT !.pc = "inspect", !.known = v.kind \in x4]
    OBVIOUS
  <1>4. /\ v.pc = "ensure" /\ TokFrame /\ x6' = x6 /\ x3' = x3 /\ x7' = [x7 EXCEPT ![t] = w]
    BY <1>2, <1>3 DEF Tokens!ResourceExists, Tokens!At, TokFrame
  <1>5. w \in Tokens!Locals
    <2>1. CASE v.kind \in x4
      <3>1. w = [v EXCEPT !.pc = "inspect", !.known = TRUE]
        BY <1>3, <2>1
      <3> QED BY <1>2, <3>1 DEF Tokens!Locals, Tokens!Pcs
    <2>2. CASE v.kind \notin x4
      <3>1. w = [v EXCEPT !.pc = "inspect", !.known = FALSE]
        <4>1. (v.kind \in x4) = FALSE
          BY <2>2
        <4> QED BY <1>3, <4>1, Zenon
      <3> QED BY <1>2, <3>1 DEF Tokens!Locals, Tokens!Pcs
    <2> QED BY <2>1, <2>2
  <1>6. w.pc = "inspect" /\ w.job = v.job /\ w.n = v.n /\ w.kind = v.kind
    BY <1>2, <1>3 DEF Tokens!Locals
  <1>7. w.alone = v.alone
    BY <1>2, <1>3 DEF Tokens!Locals
  <1>8. TokWork(t, c) /\ TokKeepsName(t, c)
    BY <1>2, <1>4, TokFrameKept DEF TokWork, TokKept, TokKeepsName
  <1>9. Tokens!Jobs(w) /\ \A k \in Tokens!Kinds : ~Tokens!Owns(w, k)
    BY <1>2, <1>4, <1>6 DEF Tokens!Jobs, Tokens!Owns
  <1>10. Tokens!Replaced(w) \subseteq Tokens!Replaced(v)
    BY <1>6 DEF Tokens!Replaced
  <1>11. TokGoes(t, w, c)
    BY <1>2, <1>4, <1>5, <1>6, <1>7, <1>8, <1>9, <1>10 DEF TokGoes
  <1> QED BY <1>11, TokGoesKeeps

LEMMA TokInspects ==
    ASSUME Tokens!Inductive, NEW t \in Threads, Tokens!EnsureInfraContainer(t)
    PROVE  Tokens!Inductive'
  <1>1. PICK v, c : TokAt(t, v, c)
    BY TokBefore
  <1>2. /\ v = x7[t] /\ c = x3[v.kind] /\ c \in Tokens!Containers /\ Tokens!Jobs(v)
        /\ x3 = [x3 EXCEPT ![v.kind] = c]
    BY <1>1 DEF TokAt
  <1>3. /\ v.pc = "inspect" /\ TokFrame
        /\ \E s \in BOOLEAN : \E o \in Tokens!InspectContainer(c, s) :
             /\ x3' = [x3 EXCEPT ![v.kind] = o.con]
             /\ Tokens!NextKind(t, "ensure") \/ (Tokens!Step(t, "create") /\ x6' = x6)
    BY <1>2 DEF Tokens!EnsureInfraContainer, Tokens!At, Tokens!Call, Tokens!Here, TokFrame
  <1>4. /\ x3' = x3
        /\ Tokens!NextKind(t, "ensure") \/ (Tokens!Step(t, "create") /\ x6' = x6)
    <2>1. PICK s \in BOOLEAN : \E o \in Tokens!InspectContainer(c, s) : x3' = [x3 EXCEPT ![v.kind] = o.con]
      BY <1>3
    <2>2. PICK o \in Tokens!InspectContainer(c, s) : x3' = [x3 EXCEPT ![v.kind] = o.con]
      BY <2>1
    <2>3. o.con = c
      BY TokInspectOut
    <2> QED BY <1>2, <1>3, <2>2, <2>3
  <1>5. TokKept /\ v.job = "deploy"
    BY <1>2, <1>3, TokFrameKept DEF Tokens!Jobs
  <1>6. CASE Tokens!NextKind(t, "ensure")
    BY <1>1, <1>3, <1>4, <1>5, <1>6, TokTurns
  <1>7. CASE Tokens!Step(t, "create") /\ x6' = x6
    <2>1. TokMove(t, v, c, "create", c)
      BY <1>1, <1>2, <1>3, <1>4, <1>5, <1>7 DEF TokMove, Tokens!Pcs
    <2> QED BY <2>1, TokMoves
  <1> QED BY <1>4, <1>6, <1>7

LEMMA TokRecords ==
    ASSUME Tokens!Inductive, NEW t \in Threads, Tokens!RecordResource(t)
    PROVE  Tokens!Inductive'
  <1>1. PICK v, c : TokAt(t, v, c)
    BY TokBefore
  <1>2. /\ v = x7[t] /\ c = x3[v.kind] /\ c \in Tokens!Containers /\ Tokens!Jobs(v) /\ v.kind \in Tokens!Kinds
        /\ x3 = [x3 EXCEPT ![v.kind] = c]
    BY <1>1 DEF TokAt
  <1>3. /\ v.pc = "track" /\ UNCHANGED <<x1, x2, x5, x8>> /\ x3' = x3 /\ x4' = x4 \cup {v.kind}
        /\ Tokens!NextKind(t, "ensure") \/ Tokens!Answer(t, "error")
    BY <1>2 DEF Tokens!RecordResource, Tokens!At
  <1>4. TokKept /\ v.job = "deploy"
    BY <1>2, <1>3, TokTyped DEF Tokens!Jobs, TokKept
  <1>5. CASE Tokens!NextKind(t, "ensure")
    BY <1>1, <1>3, <1>4, <1>5, TokTurns
  <1>6. CASE Tokens!Answer(t, "error")
    <2>1. TokAnswer(t, v, c, c, "error")
      BY <1>1, <1>2, <1>3, <1>4, <1>6 DEF TokAnswer
    <2> QED BY <2>1, TokAnswers
  <1> QED BY <1>3, <1>5, <1>6

(* The commit: the row has the tokens of this rotation.                    *)
LEMMA TokCommits ==
    ASSUME Tokens!Inductive, NEW t \in Threads, Tokens!CommitTokens(t)
    PROVE  Tokens!Inductive'
  <1>1. PICK v, c : TokAt(t, v, c)
    BY TokBefore
  <1>2. /\ v = x7[t] /\ Tokens!Jobs(v) /\ v \in Tokens!Locals /\ v.n \in Nat /\ v.ver \in Nat /\ v.alone \in BOOLEAN
    BY <1>1, TokLocal DEF TokAt
  <1>3. /\ v.pc = "commit" /\ UNCHANGED <<x1, x3, x4, x5, x8>> /\ x2' = [n |-> v.n, ver |-> v.ver + 1]
    BY <1>2 DEF Tokens!CommitTokens, Tokens!At
  <1>4. v.job = "rotate" /\ 1 <= v.n /\ v.n <= x5 /\ 1 <= v.ver /\ v.ver < x5 /\ x5 \in Nat
    BY <1>2, <1>3, TokTyped DEF Tokens!Jobs, Tokens!Inductive, Tokens!Counted
  <1>5. x2' \in [n : Nat, ver : Nat] /\ x2'.n = v.n /\ x2'.ver = v.ver + 1 /\ 1 <= x2'.ver /\ x2'.ver <= x5 /\ v.ver + 1 \in Nat
    BY <1>2, <1>3, <1>4
  <1>6. \E w : /\ w \in Tokens!Locals /\ x7' = [x7 EXCEPT ![t] = w] /\ Tokens!Jobs(w) /\ w.pc # "commit"
               /\ \/ /\ w.pc = "stop" /\ w.job = "rotate" /\ w.n = v.n /\ w.alone = v.alone /\ w.kind = v.kind /\ x6' = x6
                  \/ w = Tokens!Idle /\ x6' = [answer |-> "error", alone |-> v.alone]
    <2>1. CASE x1.network
      <3>1. Tokens!Step(t, "stop") /\ x6' = x6
        BY <2>1 DEF Tokens!CommitTokens
      <3>2. "stop" \in Tokens!Pcs
        BY DEF Tokens!Pcs
      <3>3. PICK w : /\ w = [v EXCEPT !.pc = "stop"] /\ w \in Tokens!Locals /\ w.pc = "stop" /\ w.job = v.job /\ w.n = v.n
                     /\ w.kind = v.kind /\ w.alone = v.alone
        BY <1>2, <3>2, TokPc
      <3>4. x7' = [x7 EXCEPT ![t] = w]
        BY <1>2, <3>1, <3>3 DEF Tokens!Step
      <3>5. Tokens!Jobs(w)
        BY <1>4, <3>3 DEF Tokens!Jobs
      <3> QED BY <1>4, <3>1, <3>3, <3>4, <3>5
    <2>2. CASE ~x1.network
      <3>1. x7' = [x7 EXCEPT ![t] = Tokens!Idle] /\ x6' = [answer |-> "error", alone |-> v.alone]
        BY <1>2, <1>4, <2>2 DEF Tokens!CommitTokens, Tokens!Answer
      <3> QED BY <3>1, TokIdle
    <2> QED BY <2>1, <2>2
  <1>7. PICK w : /\ w \in Tokens!Locals /\ x7' = [x7 EXCEPT ![t] = w] /\ Tokens!Jobs(w) /\ w.pc # "commit"
               /\ \/ /\ w.pc = "stop" /\ w.job = "rotate" /\ w.n = v.n /\ w.alone = v.alone /\ w.kind = v.kind /\ x6' = x6
                  \/ w = Tokens!Idle /\ x6' = [answer |-> "error", alone |-> v.alone]
    BY <1>6
  <1>8. x7 \in [Threads -> Tokens!Locals]
    BY TokTyped
  <1>9. x7' \in [Threads -> Tokens!Locals] /\ x7'[t] = w /\ \A u \in Threads : u # t => x7'[u] = x7[u]
    BY <1>7, <1>8
  <1>10. x6' \in TokLast
    <2>1. x6 \in TokLast
      BY TokTyped
    <2> QED BY <1>2, <1>7, <2>1 DEF TokLast
  <1>11. Tokens!Types'
    BY <1>3, <1>5, <1>9, <1>10 DEF Tokens!Inductive, Tokens!Types, TokLast
  <1>12. \A u \in Threads : Tokens!Jobs(x7'[u])
    BY <1>7, <1>9, TokTyped
  <1>13. Tokens!Counted'
    <2>1. \A u \in Threads : /\ x7'[u].pc # "idle" => 1 <= x7'[u].n /\ x7'[u].n <= x5
                             /\ x7'[u].pc = "commit" => 1 <= x7'[u].ver /\ x7'[u].ver < x5
      BY <1>4, <1>7, <1>9, TokIdle DEF Tokens!Inductive, Tokens!Counted
    <2> QED BY <1>3, <1>4, <1>5, <2>1 DEF Tokens!Inductive, Tokens!Counted
  <1>14. Tokens!Alone'
    <2>1. ASSUME NEW u \in Threads, x7'[u].job = "rotate", x7'[u].alone
          PROVE  /\ \A z \in Threads : x7'[z].job = "rotate" => z = u
                 /\ x7'[u].pc # "commit" => /\ x2'.n = x7'[u].n
                                            /\ \A j \in Tokens!Replaced(x7'[u]) : x3'[j].id = u /\ x3'[j].env = x7'[u].n
      <3>1. CASE u = t
        <4>1. w.pc = "stop" /\ w.n = v.n /\ w.alone = v.alone /\ w.kind = v.kind
          BY <1>7, <1>9, <2>1, <3>1, TokIdle
        <4>2. \A z \in Threads : x7[z].job = "rotate" => z = t
          BY <1>2, <1>4, <1>9, <2>1, <3>1, <4>1 DEF Tokens!Inductive, Tokens!Alone
        <4>3. v.kind = "flagserver"
          BY <1>2, <1>3 DEF Tokens!Jobs
        <4>4. Tokens!Replaced(w) = {}
          BY <4>1, <4>3 DEF Tokens!Replaced
        <4> QED BY <1>5, <1>9, <3>1, <4>1, <4>2, <4>4
      <3>2. CASE u # t
        <4>1. x7'[u] = x7[u] /\ \A z \in Threads : x7[z].job = "rotate" => z = u
          BY <1>9, <2>1, <3>2 DEF Tokens!Inductive, Tokens!Alone
        <4> QED BY <1>2, <1>4, <3>2, <4>1
      <3> QED BY <3>1, <3>2
    <2> QED BY <2>1 DEF Tokens!Alone
  <1>15. Tokens!Settled'
    BY <1>7, <1>9 DEF Tokens!Settled
  <1> QED BY <1>11, <1>12, <1>13, <1>14, <1>15 DEF Tokens!Inductive

LEMMA TokDeploys ==
    ASSUME Tokens!Inductive, NEW t \in Threads, Tokens!DeployEvent(t)
    PROVE  Tokens!Inductive'
  <1>1. /\ x7[t].pc = "idle" /\ UNCHANGED <<x1, x2, x3, x4, x5, x6>> /\ x8' \in TokSpent
        /\ x7' = [x7 EXCEPT ![t] = [Tokens!Idle EXCEPT !.pc = "ensure", !.job = "deploy", !.n = x2.n]]
    BY TokCounts DEF Tokens!DeployEvent, Tokens!At
  <1>2. PICK w : w = [Tokens!Idle EXCEPT !.pc = "ensure", !.job = "deploy", !.n = x2.n]
    OBVIOUS
  <1>3. x2.n \in Nat /\ x7 \in [Threads -> Tokens!Locals] /\ \A u \in Threads : Tokens!Jobs(x7[u])
    BY TokTyped
  <1>4. /\ w \in Tokens!Locals /\ w.pc = "ensure" /\ w.job = "deploy" /\ w.n = x2.n /\ Tokens!Jobs(w)
        /\ \A k : ~Tokens!Owns(w, k)
    BY <1>2, <1>3 DEF Tokens!Idle, Tokens!Locals, Tokens!Pcs, Tokens!Kinds, Tokens!Jobs, Tokens!Owns
  <1>5. x7' \in [Threads -> Tokens!Locals] /\ x7'[t] = w /\ \A u \in Threads : u # t => x7'[u] = x7[u]
    BY <1>1, <1>2, <1>3, <1>4
  <1>6. Tokens!Types'
    BY <1>1, <1>5 DEF Tokens!Inductive, Tokens!Types, TokSpent
  <1>7. \A u \in Threads : Tokens!Jobs(x7'[u])
    BY <1>3, <1>4, <1>5
  <1>8. Tokens!Counted'
    <2>1. 1 <= x2.n /\ x2.n <= x5
      BY DEF Tokens!Inductive, Tokens!Counted
    <2>2. \A u \in Threads : /\ x7'[u].pc # "idle" => 1 <= x7'[u].n /\ x7'[u].n <= x5
                             /\ x7'[u].pc = "commit" => 1 <= x7'[u].ver /\ x7'[u].ver < x5
      BY <1>4, <1>5, <2>1 DEF Tokens!Inductive, Tokens!Counted
    <2> QED BY <1>1, <2>2 DEF Tokens!Inductive, Tokens!Counted
  <1>9. x7[t].job # "rotate"
    BY <1>1, <1>3 DEF Tokens!Jobs
  <1>10. Tokens!Alone'
    <2>1. ASSUME NEW u \in Threads, x7'[u].job = "rotate", x7'[u].alone
          PROVE  /\ \A z \in Threads : x7'[z].job = "rotate" => z = u
                 /\ x7'[u].pc # "commit" => /\ x2'.n = x7'[u].n
                                            /\ \A j \in Tokens!Replaced(x7'[u]) : x3'[j].id = u /\ x3'[j].env = x7'[u].n
      <3>1. u # t /\ x7'[u] = x7[u] /\ \A z \in Threads : x7'[z].job = "rotate" => x7[z].job = "rotate"
        BY <1>4, <1>5, <2>1
      <3>2. /\ \A z \in Threads : x7[z].job = "rotate" => z = u
            /\ x7[u].pc # "commit" => x2.n = x7[u].n /\ \A j \in Tokens!Replaced(x7[u]) : x3[j].id = u /\ x3[j].env = x7[u].n
        BY <2>1, <3>1 DEF Tokens!Inductive, Tokens!Alone
      <3> QED BY <1>1, <3>1, <3>2
    <2> QED BY <2>1 DEF Tokens!Alone
  <1>11. Tokens!Settled'
    <2>1. (\A u \in Threads : x7'[u].job # "rotate") => \A u \in Threads : x7[u].job # "rotate"
      BY <1>5, <1>9
    <2>2. \A u \in Threads, k \in Tokens!Kinds : Tokens!Owns(x7'[u], k) => Tokens!Owns(x7[u], k)
      BY <1>4, <1>5
    <2> QED BY <1>1, <2>1, <2>2 DEF Tokens!Inductive, Tokens!Settled
  <1> QED BY <1>6, <1>7, <1>8, <1>10, <1>11 DEF Tokens!Inductive

LEMMA TokDies ==
    ASSUME Tokens!Inductive, NEW k \in Tokens!Kinds, Tokens!ContainerDies(k)
    PROVE  Tokens!Inductive'
  <1>1. PICK c : c = x3[k]
    OBVIOUS
  <1>2. x3 \in [Tokens!Kinds -> Tokens!Containers] /\ c \in Tokens!Containers
    BY <1>1, TokTyped
  <1>3. PICK d : d = [c EXCEPT !.st = "down"]
    OBVIOUS
  <1>4. /\ UNCHANGED <<x1, x2, x4, x5, x6, x7>> /\ x8' \in TokSpent /\ c.st = "up" /\ x3' = [x3 EXCEPT ![k] = d]
    BY <1>1, <1>3, TokCounts DEF Tokens!ContainerDies, Tokens!Running
  <1>5. c \in [st : {"created", "up", "down"}, env : Nat, id : Threads \cup {"first"}]
    BY <1>2, <1>4, TokContainer DEF Tokens!Gone
  <1>6. d \in Tokens!Containers /\ d.id = c.id /\ d.env = c.env /\ d # Tokens!Gone /\ c # Tokens!Gone
    <2>1. d \in Tokens!Containers /\ d.id = c.id /\ d.env = c.env /\ d.st = "down"
      BY <1>3, <1>5 DEF Tokens!Containers
    <2> QED BY <1>4, <2>1 DEF Tokens!Gone
  <1>7. /\ x3' \in [Tokens!Kinds -> Tokens!Containers]
        /\ \A j \in Tokens!Kinds : x3'[j].id = x3[j].id /\ x3'[j].env = x3[j].env /\ (x3'[j] = Tokens!Gone <=> x3[j] = Tokens!Gone)
    BY <1>1, <1>2, <1>4, <1>6
  <1>8. Tokens!Types'
    BY <1>4, <1>7 DEF Tokens!Inductive, Tokens!Types, TokSpent
  <1>9. Tokens!Counted'
    BY <1>4, <1>7 DEF Tokens!Inductive, Tokens!Counted
  <1>10. \A u \in Threads : \A j \in Tokens!Replaced(x7[u]) : j \in Tokens!Kinds
    BY DEF Tokens!Replaced
  <1>11. Tokens!Alone'
    BY <1>4, <1>7, <1>10 DEF Tokens!Inductive, Tokens!Alone
  <1>12. Tokens!Settled'
    BY <1>4, <1>7 DEF Tokens!Inductive, Tokens!Settled
  <1>13. \A u \in Threads : Tokens!Jobs(x7'[u])
    BY <1>4, TokTyped
  <1> QED BY <1>8, <1>9, <1>11, <1>12, <1>13 DEF Tokens!Inductive

LEMMA TokCrashes ==
    ASSUME Tokens!Inductive, Tokens!Crash
    PROVE  Tokens!Inductive'
  <1>1. /\ UNCHANGED <<x1, x2, x3, x4, x5>> /\ x8' \in TokSpent /\ x7' = [t \in Threads |-> Tokens!Idle]
        /\ x6' = IF Tokens!Rotating = {} THEN x6 ELSE [answer |-> "lost", alone |-> FALSE]
    BY TokCounts DEF Tokens!Crash
  <1>2. x7' \in [Threads -> Tokens!Locals] /\ \A u \in Threads : x7'[u] = Tokens!Idle
    BY <1>1, TokIdle
  <1>3. x6' \in TokLast
    <2>1. x6 \in TokLast
      BY TokTyped
    <2>2. [answer |-> "lost", alone |-> FALSE] \in TokLast
      BY DEF TokLast
    <2> QED BY <1>1, <2>1, <2>2
  <1>4. Tokens!Types'
    BY <1>1, <1>2, <1>3 DEF Tokens!Inductive, Tokens!Types, TokSpent, TokLast
  <1>5. Tokens!Counted'
    BY <1>1, <1>2, TokIdle DEF Tokens!Inductive, Tokens!Counted
  <1>6. Tokens!Alone' /\ \A u \in Threads : Tokens!Jobs(x7'[u])
    BY <1>2, TokIdle DEF Tokens!Alone
  <1>7. Tokens!Settled'
    <2>1. CASE Tokens!Rotating = {}
      <3>1. x6' = x6 /\ \A u \in Threads : x7[u].job # "rotate"
        BY <1>1, <2>1 DEF Tokens!Rotating
      <3> QED BY <1>1, <1>2, <3>1, TokIdle DEF Tokens!Inductive, Tokens!Settled
    <2>2. CASE Tokens!Rotating # {}
      <3>1. x6'.answer = "lost"
        BY <1>1, <2>2
      <3> QED BY <3>1 DEF Tokens!Settled
    <2> QED BY <2>1, <2>2
  <1> QED BY <1>4, <1>5, <1>6, <1>7 DEF Tokens!Inductive

LEMMA TokNext ==
    ASSUME Tokens!Inductive, [Tokens!Next]_(Tokens!vars)
    PROVE  Tokens!Inductive'
  <1>1. CASE Tokens!Next
    <2>1. x1.threads = Threads
      BY TokTyped, TokSettings
    <2>2. ASSUME NEW t \in Threads, Tokens!Continue(t) PROVE Tokens!Inductive'
      BY <2>2, TokCommits, TokStops, TokRemoves, TokCreates, TokStarts, TokConnects, TokUndoStops, TokUndoRemoves,
         TokProbes, TokLooks, TokInspects, TokRecords DEF Tokens!Continue
    <2> QED BY <1>1, <2>1, <2>2, TokRotates, TokDeploys, TokDies, TokCrashes DEF Tokens!Next
  <1>2. CASE UNCHANGED Tokens!vars
    <2>1. UNCHANGED <<x1, x2, x3, x4, x5, x6, x7, x8>>
      BY <1>2 DEF Tokens!vars
    <2> QED BY <2>1 DEF Tokens!Inductive, Tokens!Types, Tokens!Counted, Tokens!Alone, Tokens!Settled
  <1> QED BY <1>1, <1>2

LEMMA TokResults ==
    ASSUME Tokens!Inductive
    PROVE  Tokens!TypeOK /\ Tokens!NoSilentMismatch
  <1>1. x1.rotations \in Nat
    BY TokTyped, TokSettings
  <1>2. \A t \in Threads : x7[t].pc \in Tokens!Pcs
    BY TokTyped, TokLocal
  <1>3. x2 \in [n : 1..(x1.rotations + 1), ver : 1..(x1.rotations + 1)] /\ x5 \in 1..(x1.rotations + 1)
    <2>1. /\ x2 \in [n : Nat, ver : Nat] /\ x2.n \in Nat /\ x2.ver \in Nat /\ x5 \in Nat /\ x5 <= x1.rotations + 1
          /\ 1 <= x2.n /\ x2.n <= x5 /\ 1 <= x2.ver /\ x2.ver <= x5 /\ 1 <= x5
      BY TokTyped DEF Tokens!Inductive, Tokens!Counted
    <2>2. x2.n \in 1..(x1.rotations + 1) /\ x2.ver \in 1..(x1.rotations + 1)
      BY <1>1, <2>1
    <2> QED BY <1>1, <2>1, <2>2
  <1>4. x3 \in [Tokens!Kinds -> {Tokens!Gone} \cup
                  [st : {"created", "up", "down"}, env : 1..(x1.rotations + 1), id : Threads \cup {"first"}]]
    <2>1. ASSUME NEW k \in Tokens!Kinds
          PROVE  x3[k] \in {Tokens!Gone} \cup
                  [st : {"created", "up", "down"}, env : 1..(x1.rotations + 1), id : Threads \cup {"first"}]
      <3>1. x3[k] \in Tokens!Containers
        BY TokTyped
      <3>2. CASE x3[k] # Tokens!Gone
        <4>1. PICK c : c = x3[k]
          OBVIOUS
        <4>2. /\ c \in [st : {"created", "up", "down"}, env : Nat, id : Threads \cup {"first"}]
              /\ 1 <= c.env /\ c.env <= x5 /\ x5 \in Nat /\ x5 <= x1.rotations + 1
          BY <3>1, <3>2, <4>1, TokContainer, TokTyped DEF Tokens!Inductive, Tokens!Counted
        <4>3. c.env \in 1..(x1.rotations + 1)
          BY <1>1, <4>2
        <4> QED BY <4>1, <4>2, <4>3
      <3> QED BY <3>2
    <2>2. x3 \in [Tokens!Kinds -> Tokens!Containers]
      BY TokTyped
    <2> QED BY <2>1, <2>2
  <1>5. x6.answer \in {"none", "ok", "error", "lost"}
    <2>1. x6 \in TokLast
      BY TokTyped
    <2> QED BY <2>1 DEF TokLast
  <1>6. Tokens!TypeOK
    BY <1>2, <1>3, <1>4, <1>5, TokTyped DEF Tokens!TypeOK, Tokens!Pcs
  <1>7. Tokens!NoSilentMismatch
    <2> SUFFICES ASSUME Tokens!Rotating = {}, x6 = [answer |-> "ok", alone |-> TRUE], NEW k \in Tokens!Kinds
                 PROVE  Tokens!FromRequest(<<k, x3[k].env>>) = k
      BY DEF Tokens!NoSilentMismatch
    <2>1. \A u \in Threads : x7[u].job # "rotate"
      BY DEF Tokens!Rotating
    <2>2. x6.answer = "ok" /\ x6.alone
      OBVIOUS
    <2>3. x3[k].env = x2.n
      BY <2>1, <2>2 DEF Tokens!Inductive, Tokens!Settled
    <2> QED BY <2>3 DEF Tokens!FromRequest, Tokens!IsValidToken, Tokens!Kinds
  <1> QED BY <1>6, <1>7

(* In the scene of the tokens the inductive invariant of AwdTokens holds.  *)
TokensInv == scene = "tokens" => Tokens!Inductive

LEMMA TokenSteps ==
  ASSUME [Next]_vars PROVE scene' = scene /\ (scene = "tokens" => [Tokens!Next]_(Tokens!vars))
  <1>1. CASE InTokens(Tokens!Next) BY <1>1 DEF InTokens
  <1>2. CASE UNCHANGED vars BY <1>2 DEF vars, Tokens!vars
  <1> QED BY <1>1, <1>2 DEF Next, InReset, InPrep, InAccess, InAddr

(* For any number of rotations and deployments in flight, a rotation that  *)
(* ran alone and succeeded leaves no server with a token the platform      *)
(* refuses.                                                                *)
THEOREM TokensStayCurrent == Spec => []TokensCurrent
  <1>1. Init => TokensInv BY TokInit DEF Init, TokensInv
  <1>2. TokensInv /\ [Next]_vars => TokensInv' BY TokenSteps, TokNext DEF TokensInv
  <1>3. TokensInv => TokensCurrent BY TokResults DEF TokensInv, TokensCurrent
  <1> QED BY <1>1, <1>2, <1>3, PTL DEF Spec

----------------------------------------------------------------------------
(* AwdAccess: what the table says of a packet.                             *)

(* The first that has a verdict decides.                                   *)
LEMMA FirstDecides ==
    ASSUME NEW n \in Nat, NEW says, DOMAIN says = 1..n, NEW k \in 1..n, says[k] # "return",
           \A i \in 1..(k - 1) : says[i] = "return"
    PROVE  Access!FirstVerdict(says) = says[k]
  <1>1. PICK S : S = {i \in DOMAIN says : says[i] # "return"}
    OBVIOUS
  <1>2. k \in S /\ \A i \in S : k <= i
    BY <1>1
  <1>3. Access!Min(S) \in S /\ Access!Min(S) <= k
    <2>1. \E x \in S : \A y \in S : x =< y
      BY <1>2
    <2>2. Access!Min(S) \in S /\ \A y \in S : Access!Min(S) =< y
      BY <2>1 DEF Access!Min
    <2> QED BY <1>2, <2>2
  <1>4. Access!Min(S) = k
    BY <1>1, <1>2, <1>3
  <1>5. S # {}
    BY <1>2
  <1> QED BY <1>1, <1>4, <1>5 DEF Access!FirstVerdict

LEMMA NoneDecides ==
    ASSUME NEW says, \A i \in DOMAIN says : says[i] = "return"
    PROVE  Access!FirstVerdict(says) = "return"
  BY DEF Access!FirstVerdict

(* What a rule and a chain say of the packet that opens a connection.      *)
NewRule(rule, flow) == Access!RuleSays(rule, flow, FALSE)
NewChain(chain, flow) == Access!ChainSays(chain, flow, FALSE)
Then(first, second) == IF first = "return" THEN second ELSE first

(* What the rules of a chain say, one by one, decides what it says.        *)
LEMMA ChainCases ==
    ASSUME NEW S, NEW c \in Seq(S), NEW f
    PROVE  \/ /\ \A i \in 1..Len(c) : NewRule(c[i], f) = "return"
              /\ NewChain(c, f) = "return"
           \/ \E k \in 1..Len(c) : /\ NewRule(c[k], f) # "return"
                                   /\ \A i \in 1..(k - 1) : NewRule(c[i], f) = "return"
                                   /\ NewChain(c, f) = NewRule(c[k], f)
  <1>1. PICK says : says = [i \in 1..Len(c) |-> NewRule(c[i], f)]
    OBVIOUS
  <1>2. Len(c) \in Nat /\ DOMAIN says = 1..Len(c) /\ NewChain(c, f) = Access!FirstVerdict(says)
    BY <1>1 DEF NewChain, NewRule, Access!ChainSays
  <1>3. \A i \in 1..Len(c) : says[i] = NewRule(c[i], f)
    BY <1>1
  <1>4. CASE \A i \in 1..Len(c) : says[i] = "return"
    BY <1>2, <1>3, <1>4, NoneDecides
  <1>5. CASE ~\A i \in 1..Len(c) : says[i] = "return"
    <2>1. PICK D : D = {i \in 1..Len(c) : says[i] # "return"}
      OBVIOUS
    <2>2. D \in SUBSET Nat /\ D # {}
      BY <1>2, <1>5, <2>1
    <2>3. PICK k \in D : \A i \in D : k <= i
      BY <2>2, LeastNat
    <2>4. k \in 1..Len(c) /\ says[k] # "return" /\ k \in Nat
      BY <2>1, <2>2, <2>3
    <2>5. \A i \in 1..(k - 1) : says[i] = "return"
      <3> SUFFICES ASSUME NEW i \in 1..(k - 1), says[i] # "return" PROVE FALSE
        OBVIOUS
      <3>1. i \in D
        BY <1>2, <2>1, <2>4
      <3> QED BY <2>3, <2>4, <3>1
    <2>6. Access!FirstVerdict(says) = says[k]
      BY <1>2, <2>4, <2>5, FirstDecides
    <2>7. \A i \in 1..(k - 1) : NewRule(c[i], f) = "return"
      BY <1>2, <1>3, <2>4, <2>5
    <2>8. NewChain(c, f) = NewRule(c[k], f) /\ NewRule(c[k], f) # "return"
      BY <1>2, <1>3, <2>4, <2>6
    <2> QED BY <2>4, <2>7, <2>8
  <1> QED BY <1>4, <1>5

LEMMA ChainDecided ==
    ASSUME NEW S, NEW c \in Seq(S), NEW f, NEW k \in 1..Len(c), NewRule(c[k], f) # "return",
           \A i \in 1..(k - 1) : NewRule(c[i], f) = "return"
    PROVE  NewChain(c, f) = NewRule(c[k], f)
  <1>1. PICK n \in Nat : n = Len(c)
    OBVIOUS
  <1>2. PICK j \in 1..n : /\ NewRule(c[j], f) # "return"
                          /\ \A i \in 1..(j - 1) : NewRule(c[i], f) = "return"
                          /\ NewChain(c, f) = NewRule(c[j], f)
    BY <1>1, ChainCases
  <1>3. ~(j < k) /\ ~(k < j)
    BY <1>1, <1>2
  <1>4. j = k
    BY <1>1, <1>3
  <1> QED BY <1>2, <1>4

(* A chain is read to the end of its first part, then on.                  *)
LEMMA ChainGoesOn ==
    ASSUME NEW S, NEW a \in Seq(S), NEW b \in Seq(S), NEW f
    PROVE  NewChain(a \o b, f) = Then(NewChain(a, f), NewChain(b, f))
  <1>1. PICK c \in Seq(S) : c = a \o b
    <2>1. a \o b \in Seq(S)
      OBVIOUS
    <2> QED BY <2>1
  <1>2. /\ Len(c) = Len(a) + Len(b) /\ Len(a) \in Nat /\ Len(b) \in Nat
        /\ \A i \in 1..Len(a) : c[i] = a[i]
        /\ \A i \in 1..Len(b) : c[Len(a) + i] = b[i]
    BY <1>1
  <1>3. CASE NewChain(a, f) = "return"
    <2>1. \A i \in 1..Len(a) : NewRule(a[i], f) = "return"
      BY <1>3, ChainCases
    <2>2. \A i \in 1..Len(a) : NewRule(c[i], f) = "return"
      BY <1>2, <2>1
    <2>3. CASE /\ \A i \in 1..Len(b) : NewRule(b[i], f) = "return"
               /\ NewChain(b, f) = "return"
      <3>1. \A i \in 1..Len(c) : NewRule(c[i], f) = "return"
        <4> SUFFICES ASSUME NEW i \in 1..Len(c), i > Len(a) PROVE NewRule(c[i], f) = "return"
          BY <1>2, <2>2
        <4>1. i - Len(a) \in 1..Len(b) /\ Len(a) + (i - Len(a)) = i
          BY <1>2
        <4>2. c[i] = b[i - Len(a)]
          BY <1>2, <4>1
        <4> QED BY <2>3, <4>1, <4>2
      <3>2. NewChain(c, f) = "return"
        BY <3>1, ChainCases
      <3> QED BY <1>1, <1>3, <2>3, <3>2 DEF Then
    <2>4. CASE \E k \in 1..Len(b) : /\ NewRule(b[k], f) # "return"
                                    /\ \A i \in 1..(k - 1) : NewRule(b[i], f) = "return"
                                    /\ NewChain(b, f) = NewRule(b[k], f)
      <3>1. PICK k \in 1..Len(b) : /\ NewRule(b[k], f) # "return"
                                   /\ \A i \in 1..(k - 1) : NewRule(b[i], f) = "return"
                                   /\ NewChain(b, f) = NewRule(b[k], f)
        BY <2>4
      <3>2. PICK m : m = Len(a) + k
        OBVIOUS
      <3>3. m \in 1..Len(c) /\ c[m] = b[k]
        BY <1>2, <3>2
      <3>4. \A i \in 1..(m - 1) : NewRule(c[i], f) = "return"
        <4> SUFFICES ASSUME NEW i \in 1..(m - 1) PROVE NewRule(c[i], f) = "return"
          OBVIOUS
        <4>0. CASE i <= Len(a)
          <5>1. i \in 1..Len(a)
            BY <1>2, <3>2, <4>0
          <5> QED BY <2>2, <5>1
        <4>. SUFFICES ASSUME ~(i <= Len(a)) PROVE NewRule(c[i], f) = "return"
          BY <4>0
        <4>1. i - Len(a) \in 1..(k - 1) /\ i - Len(a) \in 1..Len(b) /\ Len(a) + (i - Len(a)) = i
          BY <1>2, <3>2
        <4>2. c[i] = b[i - Len(a)]
          BY <1>2, <4>1
        <4> QED BY <3>1, <4>1, <4>2
      <3>5. NewChain(c, f) = NewRule(c[m], f)
        BY <3>1, <3>3, <3>4, ChainDecided
      <3> QED BY <1>1, <1>3, <3>1, <3>3, <3>5 DEF Then
    <2> QED BY <2>3, <2>4, ChainCases
  <1>4. CASE NewChain(a, f) # "return"
    <2>1. PICK k \in 1..Len(a) : /\ NewRule(a[k], f) # "return"
                                 /\ \A i \in 1..(k - 1) : NewRule(a[i], f) = "return"
                                 /\ NewChain(a, f) = NewRule(a[k], f)
      BY <1>4, ChainCases
    <2>2. k \in 1..Len(c) /\ \A i \in 1..(k - 1) : NewRule(c[i], f) = "return"
      <3>1. \A i \in 1..(k - 1) : c[i] = a[i]
        BY <1>2
      <3> QED BY <1>2, <2>1, <3>1
    <2>3. NewRule(c[k], f) # "return" /\ c[k] = a[k]
      BY <1>2, <2>1
    <2>4. NewChain(c, f) = NewRule(c[k], f)
      BY <2>2, <2>3, ChainDecided
    <2> QED BY <1>1, <1>4, <2>1, <2>3, <2>4 DEF Then
  <1> QED BY <1>3, <1>4

(* A chain of one rule, and a rule before a chain.                         *)
LEMMA OneRule ==
    ASSUME NEW r, NEW f
    PROVE  NewChain(<<r>>, f) = NewRule(r, f)
  <1>1. PICK c : c = <<r>>
    OBVIOUS
  <1>2. c \in Seq({r}) /\ Len(c) = 1 /\ c[1] = r
    BY <1>1
  <1>3. 1..Len(c) = {1} /\ 1..(1 - 1) = {}
    BY <1>2
  <1>4. CASE NewRule(r, f) = "return"
    <2>1. \A i \in 1..Len(c) : NewRule(c[i], f) = "return"
      BY <1>2, <1>3, <1>4
    <2>2. ~ \E k \in 1..Len(c) : NewRule(c[k], f) # "return"
      BY <2>1
    <2>3. NewChain(c, f) = "return"
      BY <1>2, <2>2, ChainCases, Zenon
    <2> QED BY <1>1, <1>4, <2>3
  <1>5. CASE NewRule(r, f) # "return"
    <2>1. NewChain(c, f) = NewRule(c[1], f)
      BY <1>2, <1>3, <1>5, ChainDecided
    <2> QED BY <1>1, <1>2, <2>1
  <1> QED BY <1>4, <1>5

LEMMA TwoRules ==
    ASSUME NEW r, NEW s, NEW f
    PROVE  NewChain(<<r, s>>, f) = Then(NewRule(r, f), NewRule(s, f))
  <1>1. PICK c : c = <<r, s>>
    OBVIOUS
  <1>2. c \in Seq({r, s}) /\ Len(c) = 2 /\ c[1] = r /\ c[2] = s
    BY <1>1
  <1>3. 1..Len(c) = {1, 2} /\ 1..(1 - 1) = {} /\ 1..(2 - 1) = {1}
    BY <1>2
  <1>4. CASE NewRule(r, f) # "return"
    <2>1. NewChain(c, f) = NewRule(c[1], f)
      BY <1>2, <1>3, <1>4, ChainDecided
    <2> QED BY <1>1, <1>2, <1>4, <2>1 DEF Then
  <1>5. CASE NewRule(r, f) = "return" /\ NewRule(s, f) # "return"
    <2>1. \A i \in 1..(2 - 1) : NewRule(c[i], f) = "return"
      BY <1>2, <1>3, <1>5
    <2>2. 2 \in 1..Len(c) /\ NewRule(c[2], f) # "return"
      BY <1>2, <1>3, <1>5
    <2>3. NewChain(c, f) = NewRule(c[2], f)
      BY <1>2, <2>1, <2>2, ChainDecided
    <2> QED BY <1>1, <1>2, <1>5, <2>3 DEF Then
  <1>6. CASE NewRule(r, f) = "return" /\ NewRule(s, f) = "return"
    <2>1. \A i \in 1..Len(c) : NewRule(c[i], f) = "return"
      BY <1>2, <1>3, <1>6
    <2>2. ~ \E k \in 1..Len(c) : NewRule(c[k], f) # "return"
      BY <2>1
    <2>3. NewChain(c, f) = "return"
      BY <1>2, <2>2, ChainCases, Zenon
    <2> QED BY <1>1, <1>6, <2>3 DEF Then
  <1> QED BY <1>4, <1>5, <1>6

LEMMA ThreeRules ==
    ASSUME NEW r, NEW s, NEW q, NEW f
    PROVE  NewChain(<<r, s, q>>, f) = Then(NewRule(r, f), Then(NewRule(s, f), NewRule(q, f)))
  <1>1. PICK a, b : a = <<r>> /\ b = <<s, q>>
    OBVIOUS
  <1>3. <<r, s, q>> = a \o b
    BY <1>1
  <1>4. a \in Seq({r, s, q}) /\ b \in Seq({r, s, q})
    BY <1>1
  <1>5. NewChain(a \o b, f) = Then(NewChain(a, f), NewChain(b, f))
    BY <1>4, ChainGoesOn
  <1>2. NewChain(<<r>>, f) = NewRule(r, f)
    BY OneRule
  <1>6. NewChain(<<s, q>>, f) = Then(NewRule(s, f), NewRule(q, f))
    BY TwoRules
  <1> QED BY <1>1, <1>2, <1>3, <1>5, <1>6, Zenon

LEMMA FourRules ==
    ASSUME NEW r, NEW s, NEW q, NEW p, NEW f
    PROVE  NewChain(<<r, s, q, p>>, f) = Then(NewRule(r, f), Then(NewRule(s, f), Then(NewRule(q, f), NewRule(p, f))))
  <1>1. PICK a, b : a = <<r>> /\ b = <<s, q, p>>
    OBVIOUS
  <1>3. <<r, s, q, p>> = a \o b
    BY <1>1
  <1>4. a \in Seq({r, s, q, p}) /\ b \in Seq({r, s, q, p})
    BY <1>1
  <1>5. NewChain(a \o b, f) = Then(NewChain(a, f), NewChain(b, f))
    BY <1>4, ChainGoesOn
  <1>2. NewChain(<<r>>, f) = NewRule(r, f)
    BY OneRule
  <1>6. NewChain(<<s, q, p>>, f) = Then(NewRule(s, f), Then(NewRule(q, f), NewRule(p, f)))
    BY ThreeRules
  <1> QED BY <1>1, <1>2, <1>3, <1>5, <1>6, Zenon

(* What a rule says of a new connection.                                   *)
LEMMA DropSays ==
    ASSUME NEW from, NEW to, NEW a, NEW b
    PROVE  NewRule(Access!Drop(from, to), <<a, b>>) = IF a \in from /\ b \in to THEN "drop" ELSE "return"
  BY DEF NewRule, Access!RuleSays, Access!Drop, Access!Rule

LEMMA AcceptSays ==
    ASSUME NEW from, NEW to, NEW a, NEW b
    PROVE  NewRule(Access!Accept(from, to), <<a, b>>) = IF a \in from /\ b \in to THEN "accept" ELSE "return"
  BY DEF NewRule, Access!RuleSays, Access!Accept, Access!Rule

LEMMA EstablishedSays ==
    ASSUME NEW from, NEW to, NEW f
    PROVE  NewRule(Access!AcceptEstablished(from, to), f) = "return"
  BY DEF NewRule, Access!RuleSays, Access!AcceptEstablished, Access!Rule

LEMMA OwnTeamSays ==
    ASSUME NEW e, NEW a, NEW b
    PROVE  NewRule(Access!OwnTeam(e), <<a, b>>) =
             IF \E t \in Access!TeamsOf(e) : a \in {Access!Player(t), Access!Box(t)} /\ b = Access!Box(t) THEN "accept" ELSE "return"
  <1>1. <<a, b>> \in UNION {{Access!Player(t), Access!Box(t)} \X {Access!Box(t)} : t \in Access!TeamsOf(e)}
          <=> \E t \in Access!TeamsOf(e) : a \in {Access!Player(t), Access!Box(t)} /\ b = Access!Box(t)
    OBVIOUS
  <1> QED BY <1>1 DEF NewRule, Access!RuleSays, Access!OwnTeam, Access!Rule

(* Who is where.                                                           *)
LEMMA Places ==
    ASSUME NEW e \in PlayingEvents, NEW t \in PlayingTeams
    PROVE  /\ t \in Access!TeamsOf(e) <=> PlaysIn[t] = e
           /\ Access!Player(t) \in Access!Players(e) <=> PlaysIn[t] = e
           /\ Access!Box(t) \in Access!Boxes(e) <=> PlaysIn[t] = e
           /\ Access!Player(t) \notin Access!Boxes(e) /\ Access!Box(t) \notin Access!Players(e)
           /\ Access!Player(t) \notin Access!Infrastructure(e) /\ Access!Box(t) \notin Access!Infrastructure(e)
  <1>1. t \in Access!TeamsOf(e) <=> PlaysIn[t] = e
    BY DEF Access!TeamsOf
  <1> QED BY <1>1 DEF Access!Players, Access!Boxes, Access!Player, Access!Box, Access!Infrastructure, Access!Flag, Access!Judge

LEMMA Servers ==
    ASSUME NEW e \in PlayingEvents, NEW d \in PlayingEvents
    PROVE  /\ Access!Judge(e) \notin Access!Players(d) /\ Access!Judge(e) \notin Access!Boxes(d)
           /\ Access!Flag(e) \notin Access!Players(d) /\ Access!Flag(e) \notin Access!Boxes(d)
           /\ Access!Judge(e) = Access!Judge(d) <=> e = d
           /\ Access!Flag(e) = Access!Flag(d) <=> e = d
           /\ Access!Judge(e) # Access!Flag(d)
           /\ Access!Judge(e) \in Access!AnyInfrastructure /\ Access!Flag(e) \in Access!AnyInfrastructure
  <1>1. {Access!Flag(e), Access!Judge(e)} \subseteq Access!AnyInfrastructure
    BY DEF Access!AnyInfrastructure, Access!Infrastructure
  <1> QED BY <1>1 DEF Access!Players, Access!Boxes, Access!Player, Access!Box, Access!Flag, Access!Judge

LEMMA Everywhere ==
    ASSUME NEW e \in PlayingEvents
    PROVE  Access!Players(e) \cup Access!Boxes(e) \cup Access!Infrastructure(e) \subseteq Access!Anywhere
  BY DEF Access!Anywhere

LEMMA NotInfrastructure ==
    ASSUME NEW t \in PlayingTeams
    PROVE  Access!Box(t) \notin Access!AnyInfrastructure
  BY DEF Access!AnyInfrastructure, Access!Infrastructure, Access!Box, Access!Flag, Access!Judge

(* The chain of an event: its two ends and what the policy says.           *)
PolicyRules(e, p) ==
    CASE p = "settlement" -> Access!Settlement(e)
      [] p = "finished" -> Access!Finished(e)
      [] p = "Hardening" -> Access!Hardening(e)
      [] p = "Attack" -> Access!Attack(e)
      [] p = "Pause" -> Access!Paused(e)

LastRules(e) == <<Access!Drop(Access!Players(e), Access!AnyInfrastructure), Access!Drop(Access!Boxes(e), Access!AnyInfrastructure)>>

LEMMA PartsOfChain ==
    ASSUME NEW T, NEW r1, NEW r2, NEW m \in Seq(T), NEW s1, NEW s2, NEW f
    PROVE  NewChain(<<r1, r2>> \o m \o <<s1, s2>>, f) =
             Then(NewChain(<<r1, r2>>, f), Then(NewChain(m, f), NewChain(<<s1, s2>>, f)))
  <1>1. PICK S : S = T \cup {r1, r2, s1, s2}
    OBVIOUS
  <1>2. PICK a, c : a = <<r1, r2>> /\ c = <<s1, s2>>
    OBVIOUS
  <1>3. a \in Seq(S) /\ c \in Seq(S)
    BY <1>1, <1>2
  <1>4. m \in Seq(S)
    BY <1>1
  <1>5. a \o m \in Seq(S)
    BY <1>3, <1>4
  <1>6. NewChain((a \o m) \o c, f) = Then(NewChain(a \o m, f), NewChain(c, f))
    <2>1. PICK g \in Seq(S) : g = a \o m
      BY <1>5
    <2>2. NewChain(g \o c, f) = Then(NewChain(g, f), NewChain(c, f))
      BY <1>3, ChainGoesOn
    <2> QED BY <2>1, <2>2
  <1>7. NewChain(a \o m, f) = Then(NewChain(a, f), NewChain(m, f))
    BY <1>3, <1>4, ChainGoesOn
  <1> QED BY <1>2, <1>6, <1>7 DEF Then

LEMMA PolicyIsChain ==
    ASSUME NEW e, NEW p \in Access!Policies
    PROVE  \E T : PolicyRules(e, p) \in Seq(T)
  <1>1. \A r, s : <<r, s>> \in Seq({r, s})
    OBVIOUS
  <1>2. \A r, s, q : <<r, s, q>> \in Seq({r, s, q})
    OBVIOUS
  <1>3. \A r, s, q, o : <<r, s, q, o>> \in Seq({r, s, q, o})
    OBVIOUS
  <1>4. CASE p = "settlement"
    <2>1. PolicyRules(e, p) = Access!Settlement(e)
      BY <1>4 DEF PolicyRules
    <2>2. PICK r, s, q, o : Access!Settlement(e) = <<r, s, q, o>>
      BY Zenon DEF Access!Settlement
    <2>3. <<r, s, q, o>> \in Seq({r, s, q, o})
      BY <1>3
    <2> QED BY <2>1, <2>2, <2>3, Zenon
  <1>5. CASE p = "finished"
    <2>1. PolicyRules(e, p) = Access!Finished(e)
      BY <1>5 DEF PolicyRules
    <2>2. PICK r, s, q : Access!Finished(e) = <<r, s, q>>
      BY Zenon DEF Access!Finished
    <2>3. <<r, s, q>> \in Seq({r, s, q})
      BY <1>2
    <2> QED BY <2>1, <2>2, <2>3, Zenon
  <1>6. CASE p = "Hardening"
    <2>1. PolicyRules(e, p) = Access!Hardening(e)
      BY <1>6 DEF PolicyRules
    <2>2. PICK r, s, q, o : Access!Hardening(e) = <<r, s, q, o>>
      BY Zenon DEF Access!Hardening
    <2>3. <<r, s, q, o>> \in Seq({r, s, q, o})
      BY <1>3
    <2> QED BY <2>1, <2>2, <2>3, Zenon
  <1>7. CASE p = "Attack"
    <2>1. PolicyRules(e, p) = Access!Attack(e)
      BY <1>7 DEF PolicyRules
    <2>2. PICK r, s, q, o : Access!Attack(e) = <<r, s, q, o>>
      BY Zenon DEF Access!Attack
    <2>3. <<r, s, q, o>> \in Seq({r, s, q, o})
      BY <1>3
    <2> QED BY <2>1, <2>2, <2>3, Zenon
  <1>8. CASE p = "Pause"
    <2>1. PolicyRules(e, p) = Access!Paused(e)
      BY <1>8 DEF PolicyRules
    <2>2. PICK r, s : Access!Paused(e) = <<r, s>>
      BY Zenon DEF Access!Paused
    <2>3. <<r, s>> \in Seq({r, s})
      BY <1>1
    <2> QED BY <2>1, <2>2, <2>3, Zenon
  <1> QED BY <1>4, <1>5, <1>6, <1>7, <1>8 DEF Access!Policies, Access!Quiet

LEMMA EventSays ==
    ASSUME NEW e, NEW p \in Access!Policies, NEW banned, NEW f
    PROVE  NewChain(Access!EventChain(e, p, banned), f) =
             Then(NewChain(Access!BannedTargets(e, banned), f), Then(NewChain(PolicyRules(e, p), f), NewChain(LastRules(e), f)))
  <1>1. PICK T : PolicyRules(e, p) \in Seq(T)
    BY PolicyIsChain
  <1>2. PICK r1, r2, s1, s2 : Access!BannedTargets(e, banned) = <<r1, r2>> /\ LastRules(e) = <<s1, s2>>
    BY DEF Access!BannedTargets, LastRules
  <1>3. Access!EventChain(e, p, banned) = <<r1, r2>> \o PolicyRules(e, p) \o <<s1, s2>>
    BY <1>2, Zenon DEF Access!EventChain, PolicyRules, LastRules
  <1>4. PICK m \in Seq(T) : m = PolicyRules(e, p)
    BY <1>1
  <1>5. NewChain(<<r1, r2>> \o m \o <<s1, s2>>, f) =
             Then(NewChain(<<r1, r2>>, f), Then(NewChain(m, f), NewChain(<<s1, s2>>, f)))
    BY PartsOfChain
  <1> QED BY <1>2, <1>3, <1>4, <1>5

(* The chain of another event has nothing to say of a new connection.      *)
LEMMA OtherEventReturns ==
    ASSUME NEW d, NEW p \in Access!Policies, NEW banned, NEW a, NEW b,
           a \notin Access!Players(d), a \notin Access!Boxes(d), a # Access!Judge(d)
    PROVE  NewChain(Access!EventChain(d, p, banned), <<a, b>>) = "return"
  <1>1. \A to : NewRule(Access!Drop(Access!Players(d), to), <<a, b>>) = "return"
    BY DropSays
  <1>2. \A to : NewRule(Access!Drop(Access!Boxes(d), to), <<a, b>>) = "return"
    BY DropSays
  <1>3. \A to : NewRule(Access!Drop({Access!Judge(d)}, to), <<a, b>>) = "return"
    BY DropSays
  <1>4. \A to : NewRule(Access!Accept(Access!Boxes(d), to), <<a, b>>) = "return"
    BY AcceptSays
  <1>5. \A to : NewRule(Access!Accept({Access!Judge(d)}, to), <<a, b>>) = "return"
    BY AcceptSays
  <1>6. \A from, to : NewRule(Access!AcceptEstablished(from, to), <<a, b>>) = "return"
    BY EstablishedSays
  <1>7. NewRule(Access!OwnTeam(d), <<a, b>>) = "return"
    <2>1. ~ \E t \in Access!TeamsOf(d) : a \in {Access!Player(t), Access!Box(t)}
      BY DEF Access!Players, Access!Boxes
    <2> QED BY <2>1, OwnTeamSays
  <1>8. NewChain(Access!BannedTargets(d, banned), <<a, b>>) = "return"
    <2>1. PICK r, s : Access!BannedTargets(d, banned) = <<r, s>> /\ NewRule(r, <<a, b>>) = "return" /\ NewRule(s, <<a, b>>) = "return"
      BY <1>1, <1>2, Zenon DEF Access!BannedTargets
    <2> QED BY <2>1, TwoRules DEF Then
  <1>9. NewChain(LastRules(d), <<a, b>>) = "return"
    <2>1. PICK r, s : LastRules(d) = <<r, s>> /\ NewRule(r, <<a, b>>) = "return" /\ NewRule(s, <<a, b>>) = "return"
      BY <1>1, <1>2, Zenon DEF LastRules
    <2> QED BY <2>1, TwoRules DEF Then
  <1>10. NewChain(PolicyRules(d, p), <<a, b>>) = "return"
    <2>1. CASE p = "settlement"
      <3>1. PolicyRules(d, p) = Access!Settlement(d)
        BY <2>1 DEF PolicyRules
      <3>2. PICK r, s, q, o :
              /\ Access!Settlement(d) = <<r, s, q, o>>
              /\ NewRule(r, <<a, b>>) = "return"
              /\ NewRule(s, <<a, b>>) = "return"
              /\ NewRule(q, <<a, b>>) = "return"
              /\ NewRule(o, <<a, b>>) = "return"
        BY <1>1, <1>2, <1>5, <1>6, Zenon DEF Access!Settlement
      <3> QED BY <3>1, <3>2, FourRules DEF Then
    <2>2. CASE p = "finished"
      <3>1. PolicyRules(d, p) = Access!Finished(d)
        BY <2>2 DEF PolicyRules
      <3>2. PICK r, s, q :
              /\ Access!Finished(d) = <<r, s, q>>
              /\ NewRule(r, <<a, b>>) = "return"
              /\ NewRule(s, <<a, b>>) = "return"
              /\ NewRule(q, <<a, b>>) = "return"
        BY <1>1, <1>2, <1>3, Zenon DEF Access!Finished
      <3> QED BY <3>1, <3>2, ThreeRules DEF Then
    <2>3. CASE p = "Hardening"
      <3>1. PolicyRules(d, p) = Access!Hardening(d)
        BY <2>3 DEF PolicyRules
      <3>2. PICK r, s, q, o :
              /\ Access!Hardening(d) = <<r, s, q, o>>
              /\ NewRule(r, <<a, b>>) = "return"
              /\ NewRule(s, <<a, b>>) = "return"
              /\ NewRule(q, <<a, b>>) = "return"
              /\ NewRule(o, <<a, b>>) = "return"
        BY <1>1, <1>2, <1>6, <1>7, Zenon DEF Access!Hardening
      <3> QED BY <3>1, <3>2, FourRules DEF Then
    <2>4. CASE p = "Attack"
      <3>1. PolicyRules(d, p) = Access!Attack(d)
        BY <2>4 DEF PolicyRules
      <3>2. PICK r, s, q, o :
              /\ Access!Attack(d) = <<r, s, q, o>>
              /\ NewRule(r, <<a, b>>) = "return"
              /\ NewRule(s, <<a, b>>) = "return"
              /\ NewRule(q, <<a, b>>) = "return"
              /\ NewRule(o, <<a, b>>) = "return"
        BY <1>2, <1>4, <1>6, Zenon DEF Access!Attack
      <3> QED BY <3>1, <3>2, FourRules DEF Then
    <2>5. CASE p = "Pause"
      <3>1. PolicyRules(d, p) = Access!Paused(d)
        BY <2>5 DEF PolicyRules
      <3>2. PICK r, s :
              /\ Access!Paused(d) = <<r, s>>
              /\ NewRule(r, <<a, b>>) = "return"
              /\ NewRule(s, <<a, b>>) = "return"
        BY <1>1, <1>2, Zenon DEF Access!Paused
      <3> QED BY <3>1, <3>2, TwoRules DEF Then
    <2> QED BY <2>1, <2>2, <2>3, <2>4, <2>5 DEF Access!Policies, Access!Quiet
  <1>11. PICK f : f = <<a, b>>
    OBVIOUS
  <1> QED BY <1>8, <1>9, <1>10, <1>11, EventSays DEF Then

(* The rules of a policy as the match they allow.                          *)
OfPlayer(e, a) == a \in Access!Players(e)
OfBox(e, a) == a \in Access!Boxes(e)
OwnBox(e, a, b) == \E t \in Access!TeamsOf(e) : a \in {Access!Player(t), Access!Box(t)} /\ b = Access!Box(t)

LEMMA SettlementSays ==
    ASSUME NEW e, NEW a, NEW b \in Access!Anywhere
    PROVE  NewChain(Access!Settlement(e), <<a, b>>) =
             IF OfPlayer(e, a) THEN "drop" ELSE IF a = Access!Judge(e) /\ OfBox(e, b) THEN "accept"
             ELSE IF OfBox(e, a) THEN "drop" ELSE "return"
  <1>1. PICK r, s, q, o : /\ Access!Settlement(e) = <<r, s, q, o>>
                          /\ NewRule(r, <<a, b>>) = IF OfPlayer(e, a) THEN "drop" ELSE "return"
                          /\ NewRule(s, <<a, b>>) = IF a = Access!Judge(e) /\ OfBox(e, b) THEN "accept" ELSE "return"
                          /\ NewRule(q, <<a, b>>) = "return"
                          /\ NewRule(o, <<a, b>>) = IF OfBox(e, a) THEN "drop" ELSE "return"
    <2>1. NewRule(Access!Drop(Access!Players(e), Access!Anywhere), <<a, b>>) = IF OfPlayer(e, a) THEN "drop" ELSE "return"
      BY DropSays DEF OfPlayer
    <2>2. NewRule(Access!Accept({Access!Judge(e)}, Access!Boxes(e)), <<a, b>>) = IF a = Access!Judge(e) /\ OfBox(e, b) THEN "accept" ELSE "return"
      BY AcceptSays DEF OfBox
    <2>3. NewRule(Access!AcceptEstablished(Access!Boxes(e), {Access!Judge(e)}), <<a, b>>) = "return"
      BY EstablishedSays
    <2>4. NewRule(Access!Drop(Access!Boxes(e), Access!Anywhere), <<a, b>>) = IF OfBox(e, a) THEN "drop" ELSE "return"
      BY DropSays DEF OfBox
    <2> QED BY <2>1, <2>2, <2>3, <2>4, Zenon DEF Access!Settlement
  <1> QED BY <1>1, FourRules DEF Then

LEMMA FinishedSays ==
    ASSUME NEW e, NEW a, NEW b \in Access!Anywhere
    PROVE  NewChain(Access!Finished(e), <<a, b>>) =
             IF OfPlayer(e, a) THEN "drop" ELSE IF a = Access!Judge(e) /\ OfBox(e, b) THEN "drop"
             ELSE IF OfBox(e, a) THEN "drop" ELSE "return"
  <1>1. PICK r, s, o : /\ Access!Finished(e) = <<r, s, o>>
                       /\ NewRule(r, <<a, b>>) = IF OfPlayer(e, a) THEN "drop" ELSE "return"
                       /\ NewRule(s, <<a, b>>) = IF a = Access!Judge(e) /\ OfBox(e, b) THEN "drop" ELSE "return"
                       /\ NewRule(o, <<a, b>>) = IF OfBox(e, a) THEN "drop" ELSE "return"
    <2>1. NewRule(Access!Drop(Access!Players(e), Access!Anywhere), <<a, b>>) = IF OfPlayer(e, a) THEN "drop" ELSE "return"
      BY DropSays DEF OfPlayer
    <2>2. NewRule(Access!Drop({Access!Judge(e)}, Access!Boxes(e)), <<a, b>>) = IF a = Access!Judge(e) /\ OfBox(e, b) THEN "drop" ELSE "return"
      BY DropSays DEF OfBox
    <2>4. NewRule(Access!Drop(Access!Boxes(e), Access!Anywhere), <<a, b>>) = IF OfBox(e, a) THEN "drop" ELSE "return"
      BY DropSays DEF OfBox
    <2> QED BY <2>1, <2>2, <2>4, Zenon DEF Access!Finished
  <1> QED BY <1>1, ThreeRules DEF Then

LEMMA HardeningSays ==
    ASSUME NEW e, NEW a, NEW b \in Access!Anywhere
    PROVE  NewChain(Access!Hardening(e), <<a, b>>) =
             IF OwnBox(e, a, b) THEN "accept" ELSE IF OfPlayer(e, a) /\ OfBox(e, b) THEN "drop"
             ELSE IF OfBox(e, a) THEN "drop" ELSE "return"
  <1>1. PICK r, s, q, o : /\ Access!Hardening(e) = <<r, s, q, o>>
                          /\ NewRule(r, <<a, b>>) = "return"
                          /\ NewRule(s, <<a, b>>) = IF OwnBox(e, a, b) THEN "accept" ELSE "return"
                          /\ NewRule(q, <<a, b>>) = IF OfPlayer(e, a) /\ OfBox(e, b) THEN "drop" ELSE "return"
                          /\ NewRule(o, <<a, b>>) = IF OfBox(e, a) THEN "drop" ELSE "return"
    <2>1. NewRule(Access!AcceptEstablished(Access!Anywhere, Access!Anywhere), <<a, b>>) = "return"
      BY EstablishedSays
    <2>2. NewRule(Access!OwnTeam(e), <<a, b>>) = IF OwnBox(e, a, b) THEN "accept" ELSE "return"
      BY OwnTeamSays DEF OwnBox
    <2>3. NewRule(Access!Drop(Access!Players(e), Access!Boxes(e)), <<a, b>>) = IF OfPlayer(e, a) /\ OfBox(e, b) THEN "drop" ELSE "return"
      BY DropSays DEF OfPlayer, OfBox
    <2>4. NewRule(Access!Drop(Access!Boxes(e), Access!Anywhere), <<a, b>>) = IF OfBox(e, a) THEN "drop" ELSE "return"
      BY DropSays DEF OfBox
    <2> QED BY <2>1, <2>2, <2>3, <2>4, Zenon DEF Access!Hardening
  <1> QED BY <1>1, FourRules DEF Then

LEMMA AttackSays ==
    ASSUME NEW e, NEW a, NEW b \in Access!Anywhere
    PROVE  NewChain(Access!Attack(e), <<a, b>>) =
             IF OfBox(e, a) /\ OfBox(e, b) THEN "accept" ELSE IF OfBox(e, a) /\ b = Access!Flag(e) THEN "accept"
             ELSE IF OfBox(e, a) THEN "drop" ELSE "return"
  <1>1. PICK r, s, q, o : /\ Access!Attack(e) = <<r, s, q, o>>
                          /\ NewRule(r, <<a, b>>) = "return"
                          /\ NewRule(s, <<a, b>>) = IF OfBox(e, a) /\ OfBox(e, b) THEN "accept" ELSE "return"
                          /\ NewRule(q, <<a, b>>) = IF OfBox(e, a) /\ b = Access!Flag(e) THEN "accept" ELSE "return"
                          /\ NewRule(o, <<a, b>>) = IF OfBox(e, a) THEN "drop" ELSE "return"
    <2>1. NewRule(Access!AcceptEstablished(Access!Anywhere, Access!Anywhere), <<a, b>>) = "return"
      BY EstablishedSays
    <2>2. NewRule(Access!Accept(Access!Boxes(e), Access!Boxes(e)), <<a, b>>) = IF OfBox(e, a) /\ OfBox(e, b) THEN "accept" ELSE "return"
      BY AcceptSays DEF OfBox
    <2>3. NewRule(Access!Accept(Access!Boxes(e), {Access!Flag(e)}), <<a, b>>) = IF OfBox(e, a) /\ b = Access!Flag(e) THEN "accept" ELSE "return"
      BY AcceptSays DEF OfBox
    <2>4. NewRule(Access!Drop(Access!Boxes(e), Access!Anywhere), <<a, b>>) = IF OfBox(e, a) THEN "drop" ELSE "return"
      BY DropSays DEF OfBox
    <2> QED BY <2>1, <2>2, <2>3, <2>4, Zenon DEF Access!Attack
  <1> QED BY <1>1, FourRules DEF Then

LEMMA PausedSays ==
    ASSUME NEW e, NEW a, NEW b \in Access!Anywhere
    PROVE  NewChain(Access!Paused(e), <<a, b>>) = IF OfPlayer(e, a) THEN "drop" ELSE IF OfBox(e, a) THEN "drop" ELSE "return"
  <1>1. PICK r, o : /\ Access!Paused(e) = <<r, o>>
                    /\ NewRule(r, <<a, b>>) = IF OfPlayer(e, a) THEN "drop" ELSE "return"
                    /\ NewRule(o, <<a, b>>) = IF OfBox(e, a) THEN "drop" ELSE "return"
    <2>1. NewRule(Access!Drop(Access!Players(e), Access!Anywhere), <<a, b>>) = IF OfPlayer(e, a) THEN "drop" ELSE "return"
      BY DropSays DEF OfPlayer
    <2>4. NewRule(Access!Drop(Access!Boxes(e), Access!Anywhere), <<a, b>>) = IF OfBox(e, a) THEN "drop" ELSE "return"
      BY DropSays DEF OfBox
    <2> QED BY <2>1, <2>4, Zenon DEF Access!Paused
  <1> QED BY <1>1, TwoRules DEF Then

LEMMA TargetsSay ==
    ASSUME NEW e, NEW banned, NEW a, NEW b
    PROVE  NewChain(Access!BannedTargets(e, banned), <<a, b>>) =
             IF (OfPlayer(e, a) \/ OfBox(e, a)) /\ (\E t \in banned : b = Access!Box(t)) THEN "drop" ELSE "return"
  <1>1. PICK bx : bx = {Access!Box(t) : t \in banned}
    OBVIOUS
  <1>2. b \in bx <=> \E t \in banned : b = Access!Box(t)
    BY <1>1
  <1>3. NewRule(Access!Drop(Access!Players(e), bx), <<a, b>>) = IF OfPlayer(e, a) /\ b \in bx THEN "drop" ELSE "return"
    BY DropSays DEF OfPlayer
  <1>4. NewRule(Access!Drop(Access!Boxes(e), bx), <<a, b>>) = IF OfBox(e, a) /\ b \in bx THEN "drop" ELSE "return"
    BY DropSays DEF OfBox
  <1>5. PICK r, s : /\ Access!BannedTargets(e, banned) = <<r, s>>
                    /\ NewRule(r, <<a, b>>) = IF OfPlayer(e, a) /\ b \in bx THEN "drop" ELSE "return"
                    /\ NewRule(s, <<a, b>>) = IF OfBox(e, a) /\ b \in bx THEN "drop" ELSE "return"
    BY <1>1, <1>3, <1>4, Zenon DEF Access!BannedTargets
  <1> QED BY <1>2, <1>5, TwoRules DEF Then

LEMMA LastSay ==
    ASSUME NEW e, NEW a, NEW b
    PROVE  NewChain(LastRules(e), <<a, b>>) =
             IF (OfPlayer(e, a) \/ OfBox(e, a)) /\ b \in Access!AnyInfrastructure THEN "drop" ELSE "return"
  <1>1. PICK r, s : /\ LastRules(e) = <<r, s>>
                    /\ NewRule(r, <<a, b>>) = IF OfPlayer(e, a) /\ b \in Access!AnyInfrastructure THEN "drop" ELSE "return"
                    /\ NewRule(s, <<a, b>>) = IF OfBox(e, a) /\ b \in Access!AnyInfrastructure THEN "drop" ELSE "return"
    <2>1. NewRule(Access!Drop(Access!Players(e), Access!AnyInfrastructure), <<a, b>>) = IF OfPlayer(e, a) /\ b \in Access!AnyInfrastructure THEN "drop" ELSE "return"
      BY DropSays DEF OfPlayer
    <2>2. NewRule(Access!Drop(Access!Boxes(e), Access!AnyInfrastructure), <<a, b>>) = IF OfBox(e, a) /\ b \in Access!AnyInfrastructure THEN "drop" ELSE "return"
      BY DropSays DEF OfBox
    <2> QED BY <2>1, <2>2, Zenon DEF LastRules
  <1> QED BY <1>1, TwoRules DEF Then

(* A packet from a to b, as the chain of its event sees it.                *)
Says(e, p, banned, a, b) ==
    LET t == NewChain(Access!BannedTargets(e, banned), <<a, b>>)
        r == NewChain(PolicyRules(e, p), <<a, b>>)
    IN  Then(t, Then(r, NewChain(LastRules(e), <<a, b>>)))

LEMMA SaysIs ==
    ASSUME NEW e, NEW p \in Access!Policies, NEW banned, NEW a, NEW b
    PROVE  NewChain(Access!EventChain(e, p, banned), <<a, b>>) = Says(e, p, banned, a, b)
  <1>1. PICK f : f = <<a, b>>
    OBVIOUS
  <1>2. NewChain(Access!EventChain(e, p, banned), f)
          = Then(NewChain(Access!BannedTargets(e, banned), f), Then(NewChain(PolicyRules(e, p), f), NewChain(LastRules(e), f)))
    BY EventSays
  <1> QED BY <1>1, <1>2 DEF Says

(* What the policy says of a source and a destination of its own event.    *)
LEMMA PolicySays ==
    ASSUME NEW e, NEW p \in Access!Policies, NEW a, NEW b \in Access!Anywhere
    PROVE  NewChain(PolicyRules(e, p), <<a, b>>) =
             CASE p = "settlement" -> (IF OfPlayer(e, a) THEN "drop" ELSE IF a = Access!Judge(e) /\ OfBox(e, b) THEN "accept"
                                       ELSE IF OfBox(e, a) THEN "drop" ELSE "return")
               [] p = "finished" -> (IF OfPlayer(e, a) THEN "drop" ELSE IF a = Access!Judge(e) /\ OfBox(e, b) THEN "drop"
                                     ELSE IF OfBox(e, a) THEN "drop" ELSE "return")
               [] p = "Hardening" -> (IF OwnBox(e, a, b) THEN "accept" ELSE IF OfPlayer(e, a) /\ OfBox(e, b) THEN "drop"
                                      ELSE IF OfBox(e, a) THEN "drop" ELSE "return")
               [] p = "Attack" -> (IF OfBox(e, a) /\ OfBox(e, b) THEN "accept" ELSE IF OfBox(e, a) /\ b = Access!Flag(e) THEN "accept"
                                   ELSE IF OfBox(e, a) THEN "drop" ELSE "return")
               [] p = "Pause" -> (IF OfPlayer(e, a) THEN "drop" ELSE IF OfBox(e, a) THEN "drop" ELSE "return")
  <1>1. CASE p = "settlement"
    BY <1>1, SettlementSays DEF PolicyRules
  <1>2. CASE p = "finished"
    BY <1>2, FinishedSays DEF PolicyRules
  <1>3. CASE p = "Hardening"
    BY <1>3, HardeningSays DEF PolicyRules
  <1>4. CASE p = "Attack"
    BY <1>4, AttackSays DEF PolicyRules
  <1>5. CASE p = "Pause"
    BY <1>5, PausedSays DEF PolicyRules
  <1> QED BY <1>1, <1>2, <1>3, <1>4, <1>5 DEF Access!Policies, Access!Quiet

(* From a player.                                                          *)
LEMMA PlayerSays ==
    ASSUME NEW e \in PlayingEvents, NEW p \in Access!Policies, NEW banned \in SUBSET PlayingTeams,
           NEW s \in Access!TeamsOf(e), s \notin banned, NEW b \in Access!Boxes(e) \cup Access!Infrastructure(e)
    PROVE  Says(e, p, banned, Access!Player(s), b) # "drop" <=> Access!MayConnect(p, banned, Access!Player(s), b)
  <1>1. PICK a : a = Access!Player(s)
    OBVIOUS
  <1>2. s \in PlayingTeams /\ PlaysIn[s] = e
    BY DEF Access!TeamsOf
  <1>3. OfPlayer(e, a) /\ ~OfBox(e, a) /\ a # Access!Judge(e) /\ b \in Access!Anywhere /\ a[1] = "player" /\ a[2] = s
    <2>1. OfPlayer(e, a) /\ ~OfBox(e, a) /\ a # Access!Judge(e)
      BY <1>1, <1>2, Places, Servers DEF OfPlayer, OfBox
    <2> QED BY <1>1, <2>1, Everywhere DEF Access!Player
  <1>4. CASE b \in Access!Boxes(e)
    <2>1. PICK t \in Access!TeamsOf(e) : b = Access!Box(t)
      BY <1>4 DEF Access!Boxes
    <2>2. t \in PlayingTeams /\ b \notin Access!AnyInfrastructure /\ OfBox(e, b) /\ b # Access!Flag(e) /\ b[1] = "box" /\ b[2] = t
      <3>1. t \in PlayingTeams
        BY DEF Access!TeamsOf
      <3> QED BY <1>4, <2>1, <3>1, NotInfrastructure DEF OfBox, Access!Box, Access!Flag
    <2>3. (\E x \in banned : b = Access!Box(x)) <=> t \in banned
      BY <2>1 DEF Access!Box
    <2>4. OwnBox(e, a, b) <=> s = t
      BY <1>1, <2>1 DEF OwnBox, Access!Box, Access!Player
    <2>5. NewChain(LastRules(e), <<a, b>>) = "return"
      BY <2>2, LastSay
    <2>6. NewChain(Access!BannedTargets(e, banned), <<a, b>>) = IF t \in banned THEN "drop" ELSE "return"
      BY <1>3, <2>3, TargetsSay
    <2>7. NewChain(PolicyRules(e, p), <<a, b>>) = CASE p = "Hardening" -> (IF s = t THEN "accept" ELSE "drop")
                                                    [] p = "Attack" -> "return" [] OTHER -> "drop"
      BY <1>3, <2>2, <2>4, PolicySays DEF Access!Policies, Access!Quiet
    <2>8. Says(e, p, banned, a, b) # "drop" <=> t \notin banned /\ (p = "Attack" \/ (p = "Hardening" /\ s = t))
      BY <2>5, <2>6, <2>7 DEF Says, Then
    <2>9. Access!MayConnect(p, banned, a, b) <=> t \notin banned /\ (p = "Attack" \/ (p = "Hardening" /\ s = t))
      BY <1>3, <2>2 DEF Access!MayConnect
    <2> QED BY <1>1, <2>8, <2>9
  <1>5. CASE b \in Access!Infrastructure(e)
    <2>1. b \in Access!AnyInfrastructure /\ ~OfBox(e, b) /\ b[1] \in {"flag", "judge"}
      <3>1. b = Access!Flag(e) \/ b = Access!Judge(e)
        BY <1>5 DEF Access!Infrastructure
      <3>2. b \in Access!AnyInfrastructure /\ ~OfBox(e, b)
        BY <3>1, Servers DEF OfBox
      <3> QED BY <3>1, <3>2 DEF Access!Flag, Access!Judge
    <2>2. ~(\E x \in banned : b = Access!Box(x)) /\ ~OwnBox(e, a, b)
      BY <2>1 DEF Access!Box, OwnBox
    <2>3. NewChain(LastRules(e), <<a, b>>) = "drop"
      BY <1>3, <2>1, LastSay
    <2>4. NewChain(Access!BannedTargets(e, banned), <<a, b>>) = "return"
      BY <2>2, TargetsSay
    <2>5. NewChain(PolicyRules(e, p), <<a, b>>) \in {"return", "drop"}
      BY <1>3, <2>1, <2>2, PolicySays DEF Access!Policies, Access!Quiet
    <2>6. Says(e, p, banned, a, b) = "drop"
      BY <2>3, <2>4, <2>5 DEF Says, Then
    <2>7. ~Access!MayConnect(p, banned, a, b)
      BY <1>3, <2>1 DEF Access!MayConnect
    <2> QED BY <1>1, <2>6, <2>7
  <1> QED BY <1>4, <1>5

(* From a box, to another.                                                 *)
LEMMA BoxSays ==
    ASSUME NEW e \in PlayingEvents, NEW p \in Access!Policies, NEW banned \in SUBSET PlayingTeams,
           NEW s \in Access!TeamsOf(e), s \notin banned, NEW b \in Access!Boxes(e) \cup Access!Infrastructure(e), b # Access!Box(s)
    PROVE  Says(e, p, banned, Access!Box(s), b) # "drop" <=> Access!MayConnect(p, banned, Access!Box(s), b)
  <1>1. PICK a : a = Access!Box(s)
    OBVIOUS
  <1>2. s \in PlayingTeams /\ PlaysIn[s] = e
    BY DEF Access!TeamsOf
  <1>3. ~OfPlayer(e, a) /\ OfBox(e, a) /\ a # Access!Judge(e) /\ b \in Access!Anywhere /\ a[1] = "box" /\ a[2] = s
    <2>1. ~OfPlayer(e, a) /\ OfBox(e, a) /\ a # Access!Judge(e)
      BY <1>1, <1>2, Places, Servers DEF OfPlayer, OfBox
    <2> QED BY <1>1, <2>1, Everywhere DEF Access!Box
  <1>4. CASE b \in Access!Boxes(e)
    <2>1. PICK t \in Access!TeamsOf(e) : b = Access!Box(t)
      BY <1>4 DEF Access!Boxes
    <2>2. t \in PlayingTeams /\ b \notin Access!AnyInfrastructure /\ OfBox(e, b) /\ b # Access!Flag(e) /\ b[1] = "box" /\ b[2] = t
      <3>1. t \in PlayingTeams
        BY DEF Access!TeamsOf
      <3> QED BY <1>4, <2>1, <3>1, NotInfrastructure DEF OfBox, Access!Box, Access!Flag
    <2>3. (\E x \in banned : b = Access!Box(x)) <=> t \in banned
      BY <2>1 DEF Access!Box
    <2>4. ~OwnBox(e, a, b) /\ s # t
      BY <1>1, <2>1 DEF OwnBox, Access!Box, Access!Player
    <2>5. NewChain(LastRules(e), <<a, b>>) = "return"
      BY <2>2, LastSay
    <2>6. NewChain(Access!BannedTargets(e, banned), <<a, b>>) = IF t \in banned THEN "drop" ELSE "return"
      BY <1>3, <2>3, TargetsSay
    <2>7. NewChain(PolicyRules(e, p), <<a, b>>) = IF p = "Attack" THEN "accept" ELSE "drop"
      BY <1>3, <2>2, <2>4, PolicySays DEF Access!Policies, Access!Quiet
    <2>8. Says(e, p, banned, a, b) # "drop" <=> t \notin banned /\ p = "Attack"
      BY <2>5, <2>6, <2>7 DEF Says, Then
    <2>9. Access!MayConnect(p, banned, a, b) <=> t \notin banned /\ p = "Attack"
      BY <1>3, <2>2, <2>4 DEF Access!MayConnect
    <2> QED BY <1>1, <2>8, <2>9
  <1>5. CASE b \in Access!Infrastructure(e)
    <2>1. b \in Access!AnyInfrastructure /\ ~OfBox(e, b) /\ b[1] \in {"flag", "judge"} /\ (b[1] = "flag" <=> b = Access!Flag(e))
      <3>1. b = Access!Flag(e) \/ b = Access!Judge(e)
        BY <1>5 DEF Access!Infrastructure
      <3>2. b \in Access!AnyInfrastructure /\ ~OfBox(e, b)
        BY <3>1, Servers DEF OfBox
      <3> QED BY <3>1, <3>2 DEF Access!Flag, Access!Judge
    <2>2. ~(\E x \in banned : b = Access!Box(x)) /\ ~OwnBox(e, a, b)
      BY <2>1 DEF Access!Box, OwnBox
    <2>3. NewChain(LastRules(e), <<a, b>>) = "drop"
      BY <1>3, <2>1, LastSay
    <2>4. NewChain(Access!BannedTargets(e, banned), <<a, b>>) = "return"
      BY <2>2, TargetsSay
    <2>5. NewChain(PolicyRules(e, p), <<a, b>>) = IF p = "Attack" /\ b = Access!Flag(e) THEN "accept" ELSE "drop"
      BY <1>3, <2>1, <2>2, PolicySays DEF Access!Policies, Access!Quiet
    <2>6. Says(e, p, banned, a, b) # "drop" <=> p = "Attack" /\ b = Access!Flag(e)
      BY <2>3, <2>4, <2>5 DEF Says, Then
    <2>7. Access!MayConnect(p, banned, a, b) <=> p = "Attack" /\ b = Access!Flag(e)
      BY <1>3, <2>1 DEF Access!MayConnect
    <2> QED BY <1>1, <2>6, <2>7
  <1> QED BY <1>4, <1>5

(* From the judge.                                                         *)
LEMMA JudgeSays ==
    ASSUME NEW e \in PlayingEvents, NEW p \in Access!Policies, NEW banned \in SUBSET PlayingTeams,
           NEW b \in Access!Boxes(e)
    PROVE  Says(e, p, banned, Access!Judge(e), b) # "drop" <=> Access!MayConnect(p, banned, Access!Judge(e), b)
  <1>1. PICK a : a = Access!Judge(e)
    OBVIOUS
  <1>2. ~OfPlayer(e, a) /\ ~OfBox(e, a) /\ b \in Access!Anywhere /\ a[1] = "judge" /\ OfBox(e, b)
    <2>1. ~OfPlayer(e, a) /\ ~OfBox(e, a)
      BY <1>1, Servers DEF OfPlayer, OfBox
    <2> QED BY <1>1, <2>1, Everywhere DEF Access!Judge, OfBox
  <1>3. ~OwnBox(e, a, b)
    BY <1>2 DEF OwnBox, Access!Player, Access!Box
  <1>4. NewChain(LastRules(e), <<a, b>>) = "return" /\ NewChain(Access!BannedTargets(e, banned), <<a, b>>) = "return"
    BY <1>2, LastSay, TargetsSay
  <1>5. NewChain(PolicyRules(e, p), <<a, b>>) \in {"accept", "return"} <=> p # "finished"
    BY <1>1, <1>2, <1>3, PolicySays DEF Access!Policies, Access!Quiet
  <1>6. NewChain(PolicyRules(e, p), <<a, b>>) \in {"accept", "return", "drop"}
    BY <1>1, <1>2, <1>3, PolicySays DEF Access!Policies, Access!Quiet
  <1>7. Says(e, p, banned, a, b) # "drop" <=> p # "finished"
    BY <1>4, <1>5, <1>6 DEF Says, Then
  <1>8. Access!MayConnect(p, banned, a, b) <=> p # "finished"
    BY <1>2 DEF Access!MayConnect
  <1> QED BY <1>1, <1>7, <1>8

(* Orders of a finite set have every element.                              *)
LEMMA OrderHasAll ==
    ASSUME NEW S \in SUBSET PlayingEvents, NEW o \in Access!Orders(S), NEW e \in S
    PROVE  Len(o) \in Nat /\ o \in [1..Len(o) -> S] /\ \E k \in 1..Len(o) : o[k] = e
  <1>1. IsFiniteSet(S)
    BY OpsConstants, FS_Subset
  <1>2. PICK n : n = Cardinality(S)
    OBVIOUS
  <1>3. n \in Nat
    BY <1>1, <1>2, FS_CardinalityType
  <1>4. Access!Cardinality(S) = Cardinality(S)
    BY DEF Access!Cardinality, Cardinality, Access!IsFiniteSet, IsFiniteSet
  <1>5. o \in [1..n -> S] /\ \A i, j \in 1..n : i # j => o[i] # o[j]
    BY <1>2, <1>4 DEF Access!Orders, Access!SetToSeqs
  <1>6. Len(o) = n /\ o \in Seq(S)
    BY <1>3, <1>5
  <1>7. o \in Injection(1..n, S)
    BY <1>5 DEF Injection, IsInjective
  <1>8. IsFiniteSet(1..n) /\ Cardinality(1..n) = n
    BY <1>3, FS_Interval
  <1>9. o \in Surjection(1..n, S)
    BY <1>1, <1>2, <1>7, <1>8, FS_Injection
  <1>10. \E k \in 1..n : o[k] = e
    BY <1>9 DEF Surjection
  <1> QED BY <1>3, <1>5, <1>6, <1>10

(* The table is the banned sources, then a chain per event in order.       *)
LEMMA TableIs ==
    ASSUME NEW pol, NEW banned, NEW o, Len(o) \in Nat
    PROVE  /\ Len(Access!Table(o, pol, banned)) = Len(o) + 1
           /\ Access!Table(o, pol, banned)[1] = Access!BannedSources(banned)
           /\ \A i \in 1..Len(o) : Access!Table(o, pol, banned)[i + 1] = Access!EventChain(o[i], pol[o[i]], banned)
  <1>0. PICK n \in Nat : n = Len(o)
    OBVIOUS
  <1>1. PICK c : c = Access!Chains(o, pol, banned)
    OBVIOUS
  <1>2. c = [i \in 1..n |-> Access!EventChain(o[i], pol[o[i]], banned)]
    BY <1>0, <1>1 DEF Access!Chains
  <1>3. PICK s : s = Access!BannedSources(banned)
    OBVIOUS
  <1>4. PICK S : S = {s} \cup {c[i] : i \in 1..n}
    OBVIOUS
  <1>5. c \in Seq(S) /\ Len(c) = n
    <2>1. c \in [1..n -> S]
      BY <1>2, <1>4
    <2> QED BY <2>1
  <1>6. PICK h : h = <<s>>
    OBVIOUS
  <1>7. h \in Seq(S) /\ Len(h) = 1 /\ h[1] = s
    BY <1>4, <1>6
  <1>8. PICK g : g = h \o c
    OBVIOUS
  <1>9. Len(g) = 1 + n /\ g[1] = s /\ \A i \in 1..n : g[1 + i] = c[i]
    <2>1. /\ Len(g) = Len(h) + Len(c)
          /\ \A i \in 1..Len(h) : g[i] = h[i]
          /\ \A i \in 1..Len(c) : g[Len(h) + i] = c[i]
      <3>1. PICK u \in Seq(S), v \in Seq(S) : u = h /\ v = c
        BY <1>5, <1>7
      <3>2. g = u \o v
        BY <1>8, <3>1
      <3>3. /\ Len(g) = Len(u) + Len(v)
            /\ \A i \in 1..Len(u) : g[i] = u[i]
            /\ \A i \in 1..Len(v) : g[Len(u) + i] = v[i]
        BY <3>2
      <3> QED BY <3>1, <3>3
    <2>2. 1 \in 1..Len(h)
      BY <1>7
    <2>3. g[1] = s
      BY <1>7, <2>1, <2>2
    <2>4. \A i \in 1..n : g[1 + i] = c[i]
      BY <1>5, <1>7, <2>1
    <2> QED BY <1>5, <1>7, <2>1, <2>3, <2>4
  <1>10. g = Access!Table(o, pol, banned)
    BY <1>1, <1>3, <1>6, <1>8 DEF Access!Table
  <1>11. \A i \in 1..n : g[i + 1] = Access!EventChain(o[i], pol[o[i]], banned)
    <2>1. \A i \in 1..n : i + 1 = 1 + i
      OBVIOUS
    <2> QED BY <1>2, <1>9, <2>1
  <1> QED BY <1>0, <1>3, <1>9, <1>10, <1>11

LEMMA SourcesSay ==
    ASSUME NEW banned, NEW a, NEW b \in Access!Anywhere
    PROVE  NewChain(Access!BannedSources(banned), <<a, b>>) =
             IF \E t \in banned : a = Access!Player(t) \/ a = Access!Box(t) THEN "drop" ELSE "return"
  <1>1. PICK S : S = {Access!Player(t) : t \in banned} \cup {Access!Box(t) : t \in banned}
    OBVIOUS
  <1>2. a \in S <=> \E t \in banned : a = Access!Player(t) \/ a = Access!Box(t)
    BY <1>1
  <1>3. PICK r : r = Access!Drop(S, Access!Anywhere)
    OBVIOUS
  <1>4. NewRule(r, <<a, b>>) = IF a \in S THEN "drop" ELSE "return"
    BY <1>3, DropSays
  <1>5. Access!BannedSources(banned) = <<r>>
    BY <1>1, <1>3 DEF Access!BannedSources
  <1> QED BY <1>2, <1>4, <1>5, OneRule

(* A source and a destination of an event.                                 *)
Within(e, a, b) ==
    /\ a \in Access!Players(e) \cup Access!Boxes(e) \cup {Access!Judge(e)}
    /\ b \in Access!Boxes(e) \cup Access!Infrastructure(e)
    /\ a # b /\ ~(a = Access!Judge(e) /\ b = Access!Flag(e))

LEMMA Elsewhere ==
    ASSUME NEW e \in PlayingEvents, NEW d \in PlayingEvents, e # d, NEW a, NEW b, Within(e, a, b)
    PROVE  a \notin Access!Players(d) /\ a \notin Access!Boxes(d) /\ a # Access!Judge(d)
  <1>1. CASE a = Access!Judge(e)
    BY <1>1, Servers
  <1>2. CASE a \in Access!Players(e)
    <2>1. PICK t \in Access!TeamsOf(e) : a = Access!Player(t)
      BY <1>2 DEF Access!Players
    <2>2. t \in PlayingTeams /\ PlaysIn[t] = e
      BY DEF Access!TeamsOf
    <2>3. a # Access!Judge(d)
      BY <2>1 DEF Access!Player, Access!Judge
    <2> QED BY <2>1, <2>2, <2>3, Places
  <1>3. CASE a \in Access!Boxes(e)
    <2>1. PICK t \in Access!TeamsOf(e) : a = Access!Box(t)
      BY <1>3 DEF Access!Boxes
    <2>2. t \in PlayingTeams /\ PlaysIn[t] = e
      BY DEF Access!TeamsOf
    <2>3. a # Access!Judge(d)
      BY <2>1 DEF Access!Box, Access!Judge
    <2> QED BY <2>1, <2>2, <2>3, Places
  <1> QED BY <1>1, <1>2, <1>3 DEF Within

(* A banned source is dropped, of any other the event's chain decides.     *)
LEMMA OwnEventSays ==
    ASSUME NEW e \in PlayingEvents, NEW p \in Access!Policies, NEW banned \in SUBSET PlayingTeams,
           NEW a, NEW b, Within(e, a, b)
    PROVE  \/ /\ NewChain(Access!BannedSources(banned), <<a, b>>) = "drop" /\ ~Access!MayConnect(p, banned, a, b)
           \/ /\ NewChain(Access!BannedSources(banned), <<a, b>>) = "return"
              /\ NewChain(Access!EventChain(e, p, banned), <<a, b>>) # "drop" <=> Access!MayConnect(p, banned, a, b)
  <1>1. b \in Access!Anywhere
    BY Everywhere DEF Within
  <1>2. NewChain(Access!EventChain(e, p, banned), <<a, b>>) = Says(e, p, banned, a, b)
    BY SaysIs
  <1>3. CASE a = Access!Judge(e)
    <2>1. b \in Access!Boxes(e)
      BY <1>3 DEF Within, Access!Infrastructure
    <2>2. NewChain(Access!BannedSources(banned), <<a, b>>) = "return"
      <3>1. ~\E t \in banned : a = Access!Player(t) \/ a = Access!Box(t)
        BY <1>3 DEF Access!Judge, Access!Player, Access!Box
      <3> QED BY <1>1, <3>1, SourcesSay
    <2> QED BY <1>2, <1>3, <2>1, <2>2, JudgeSays
  <1>4. CASE a \in Access!Players(e)
    <2>1. PICK s \in Access!TeamsOf(e) : a = Access!Player(s)
      BY <1>4 DEF Access!Players
    <2>2. (\E t \in banned : a = Access!Player(t) \/ a = Access!Box(t)) <=> s \in banned
      BY <2>1 DEF Access!Player, Access!Box
    <2>3. CASE s \in banned
      <3>1. a[1] = "player" /\ a[2] = s
        BY <2>1 DEF Access!Player
      <3>2. ~Access!MayConnect(p, banned, a, b)
        BY <2>3, <3>1 DEF Access!MayConnect
      <3> QED BY <1>1, <2>2, <2>3, <3>2, SourcesSay
    <2>4. CASE s \notin banned
      <3>1. Says(e, p, banned, a, b) # "drop" <=> Access!MayConnect(p, banned, a, b)
        BY <2>1, <2>4, PlayerSays DEF Within
      <3> QED BY <1>1, <1>2, <2>2, <2>4, <3>1, SourcesSay
    <2> QED BY <2>3, <2>4
  <1>5. CASE a \in Access!Boxes(e)
    <2>1. PICK s \in Access!TeamsOf(e) : a = Access!Box(s)
      BY <1>5 DEF Access!Boxes
    <2>2. (\E t \in banned : a = Access!Player(t) \/ a = Access!Box(t)) <=> s \in banned
      BY <2>1 DEF Access!Player, Access!Box
    <2>3. CASE s \in banned
      <3>1. a[1] = "box" /\ a[2] = s
        BY <2>1 DEF Access!Box
      <3>2. ~Access!MayConnect(p, banned, a, b)
        BY <2>3, <3>1 DEF Access!MayConnect
      <3> QED BY <1>1, <2>2, <2>3, <3>2, SourcesSay
    <2>4. CASE s \notin banned
      <3>1. Says(e, p, banned, a, b) # "drop" <=> Access!MayConnect(p, banned, a, b)
        BY <2>1, <2>4, BoxSays DEF Within
      <3> QED BY <1>1, <1>2, <2>2, <2>4, <3>1, SourcesSay
    <2> QED BY <2>3, <2>4
  <1> QED BY <1>3, <1>4, <1>5 DEF Within

(* The table decides within an event as its policy says.                   *)
Configured(pol, banned) == pol \in [PlayingEvents -> Access!Policies \cup {"off"}] /\ banned \in SUBSET PlayingTeams

LEMMA TableDecides ==
    ASSUME NEW pol, NEW banned, Configured(pol, banned), NEW e \in Access!InDesiredSet(pol),
           NEW o \in Access!Orders(Access!InDesiredSet(pol)), NEW a, NEW b, Within(e, a, b)
    PROVE  Access!Passes(Access!Table(o, pol, banned), a, b, FALSE) <=> Access!MayConnect(pol[e], banned, a, b)
  <1>1. PICK S \in SUBSET PlayingEvents : S = Access!InDesiredSet(pol)
    BY DEF Access!InDesiredSet
  <1>2. e \in S /\ o \in Access!Orders(S) /\ \A d \in S : pol[d] \in Access!Policies
    BY <1>1 DEF Access!InDesiredSet, Configured
  <1>3. Len(o) \in Nat /\ o \in [1..Len(o) -> S] /\ \E k \in 1..Len(o) : o[k] = e
    BY <1>2, OrderHasAll
  <1>4. PICK n \in Nat : n = Len(o)
    BY <1>3
  <1>5. o \in [1..n -> S] /\ \A i, j \in 1..n : i # j => o[i] # o[j]
    <2>1. o \in [1..n -> S]
      BY <1>3, <1>4
    <2>2. PICK m : m = Access!Cardinality(S) /\ o \in [1..m -> S] /\ \A i, j \in 1..m : i # j => o[i] # o[j]
      BY <1>2 DEF Access!Orders, Access!SetToSeqs
    <2>3. 1..m = DOMAIN o /\ DOMAIN o = 1..n
      BY <2>1, <2>2
    <2> QED BY <2>1, <2>2, <2>3
  <1>6. PICK k \in 1..n : o[k] = e
    BY <1>3, <1>4
  <1>7. PICK T : T = Access!Table(o, pol, banned)
    OBVIOUS
  <1>8. Len(T) = n + 1 /\ T[1] = Access!BannedSources(banned) /\ \A i \in 1..n : T[i + 1] = Access!EventChain(o[i], pol[o[i]], banned)
    <2>1. Len(o) \in Nat
      BY <1>4
    <2>2. /\ Len(Access!Table(o, pol, banned)) = Len(o) + 1
          /\ Access!Table(o, pol, banned)[1] = Access!BannedSources(banned)
          /\ \A i \in 1..Len(o) : Access!Table(o, pol, banned)[i + 1] = Access!EventChain(o[i], pol[o[i]], banned)
      BY <2>1, TableIs, Zenon
    <2> QED BY <1>4, <1>7, <2>2, Zenon
  <1>9. PICK says : says = [i \in 1..(n + 1) |-> NewChain(T[i], <<a, b>>)]
    OBVIOUS
  <1>10. Access!Passes(T, a, b, FALSE) <=> Access!FirstVerdict(says) # "drop"
    BY <1>8, <1>9 DEF Access!Passes, Access!TableSays, NewChain
  <1>11. DOMAIN says = 1..(n + 1) /\ says[1] = NewChain(Access!BannedSources(banned), <<a, b>>)
    BY <1>8, <1>9
  <1>12. \A i \in 1..n : says[i + 1] = NewChain(Access!EventChain(o[i], pol[o[i]], banned), <<a, b>>)
    BY <1>8, <1>9
  <1>13. \A i \in 1..n : i # k => says[i + 1] = "return"
    <2> SUFFICES ASSUME NEW i \in 1..n, i # k PROVE says[i + 1] = "return"
      OBVIOUS
    <2>1. PICK d \in S : d = o[i]
      BY <1>5
    <2>2. d # e /\ d \in PlayingEvents /\ e \in PlayingEvents /\ pol[d] \in Access!Policies
      BY <1>2, <1>5, <1>6, <2>1
    <2>3. a \notin Access!Players(d) /\ a \notin Access!Boxes(d) /\ a # Access!Judge(d)
      BY <2>2, Elsewhere
    <2>4. NewChain(Access!EventChain(d, pol[d], banned), <<a, b>>) = "return"
      BY <2>2, <2>3, OtherEventReturns
    <2> QED BY <1>12, <2>1, <2>4
  <1>14. says[k + 1] = NewChain(Access!EventChain(e, pol[e], banned), <<a, b>>)
    BY <1>6, <1>12
  <1>15. banned \in SUBSET PlayingTeams /\ e \in PlayingEvents /\ pol[e] \in Access!Policies
    BY <1>1, <1>2 DEF Configured
  <1>16. CASE says[1] = "drop" /\ ~Access!MayConnect(pol[e], banned, a, b)
    <2>1. \A i \in 1..(1 - 1) : says[i] = "return"
      OBVIOUS
    <2>2. Access!FirstVerdict(says) = says[1]
      <3>1. n + 1 \in Nat /\ 1 \in 1..(n + 1) /\ says[1] # "return"
        BY <1>16
      <3> QED BY <1>11, <2>1, <3>1, FirstDecides
    <2> QED BY <1>7, <1>10, <1>16, <2>2
  <1>17. CASE says[1] = "return" /\ (says[k + 1] # "drop" <=> Access!MayConnect(pol[e], banned, a, b))
    <2>1. \A i \in 1..(n + 1) : i # k + 1 => says[i] = "return"
      <3> SUFFICES ASSUME NEW i \in 1..(n + 1), i # k + 1, i # 1 PROVE says[i] = "return"
        BY <1>17
      <3>1. PICK j \in 1..n : i = j + 1
        <4>1. i - 1 \in 1..n /\ i = (i - 1) + 1
          OBVIOUS
        <4> QED BY <4>1
      <3> QED BY <1>13, <3>1
    <2>2. k + 1 \in 1..(n + 1) /\ n + 1 \in Nat
      OBVIOUS
    <2>3. CASE says[k + 1] = "return"
      <3>1. \A i \in DOMAIN says : says[i] = "return"
        BY <1>11, <2>1, <2>3
      <3>2. Access!FirstVerdict(says) = "return"
        BY <3>1, NoneDecides
      <3> QED BY <1>7, <1>10, <1>17, <2>3, <3>2
    <2>4. CASE says[k + 1] # "return"
      <3>1. \A i \in 1..((k + 1) - 1) : says[i] = "return"
        BY <2>1, <2>2
      <3>2. Access!FirstVerdict(says) = says[k + 1]
        BY <1>11, <2>2, <2>4, <3>1, FirstDecides
      <3> QED BY <1>7, <1>10, <1>17, <3>2
    <2> QED BY <2>3, <2>4
  <1>18. \/ /\ NewChain(Access!BannedSources(banned), <<a, b>>) = "drop" /\ ~Access!MayConnect(pol[e], banned, a, b)
         \/ /\ NewChain(Access!BannedSources(banned), <<a, b>>) = "return"
            /\ NewChain(Access!EventChain(e, pol[e], banned), <<a, b>>) # "drop" <=> Access!MayConnect(pol[e], banned, a, b)
    <2>1. PICK p \in Access!Policies : p = pol[e]
      BY <1>15
    <2> QED BY <1>15, <2>1, OwnEventSays, Zenon
  <1> QED BY <1>11, <1>14, <1>16, <1>17, <1>18

----------------------------------------------------------------------------
(* AwdAccess: the requests.                                                *)

AccSpent == [{"moves", "fails", "crashes"} -> Nat]

LEMMA AccSettings ==
    ASSUME NEW s \in AccessSettings
    PROVE  s.threads \subseteq Threads /\ s.phase \in {"Attack", "Hardening"} /\ s.peers \subseteq Members
  <1>1. s.threads \in {{"t1"}, Threads} /\ s.phase \in {"Attack", "Hardening"} /\ s.peers \in {{"u"}, {}}
    BY DEF AccessSettings, AccessSetting
  <1> QED BY <1>1, OpsConstants

LEMMA AccTyped ==
    ASSUME Access!Inductive
    PROVE  /\ x1 \in AccessSettings /\ x2 \in [PlayingEvents -> Access!Policies \cup {"off"}] /\ x3 \in [PlayingTeams -> Nat]
           /\ x4 \in [Members -> Nat] /\ x5 \in [PlayingTeams -> Nat] /\ x6 \subseteq Members /\ x7 \in Nat
           /\ x8 \in Access!Rendered /\ x9 \subseteq PlayingTeams \X PlayingTeams /\ x11 \in [Threads -> Access!Locals]
           /\ x12 \in AccSpent
  BY DEF Access!Inductive, Access!Types, Access!TypeOK, AccSpent

LEMMA AccRoles ==
    ASSUME Access!Inductive, NEW t \in Threads
    PROVE  /\ x11[t].pc \in {"suspend", "restore"} => x11[t].who \in PlayingTeams
           /\ x11[t].pc \in {"insert", "bump", "add"} => x11[t].who \in Members
  BY DEF Access!Inductive, Access!Types

LEMMA AccIdle == Access!Idle \in Access!Locals /\ Access!Idle.pc = "idle" /\ Access!Empty \in Access!Rendered
  <1>1. Access!Empty \in Access!Rendered
    BY DEF Access!Empty, Access!Rendered
  <1> QED BY <1>1 DEF Access!Idle, Access!Locals, Access!Pcs

(* The request of thread t is in r after the step.                         *)
Puts(t, r) ==
    /\ t \in Threads /\ r \in Access!Locals /\ x11' \in [Threads -> Access!Locals]
    /\ x11'[t] = r /\ \A s \in Threads : s # t => x11'[s] = x11[s]
    /\ r.pc \in {"suspend", "restore"} => r.who \in PlayingTeams
    /\ r.pc \in {"insert", "bump", "add"} => r.who \in Members

LEMMA PutsIs ==
    ASSUME x11 \in [Threads -> Access!Locals], NEW t \in Threads, NEW r \in Access!Locals, x11' = [x11 EXCEPT ![t] = r],
           r.pc \in {"suspend", "restore"} => r.who \in PlayingTeams,
           r.pc \in {"insert", "bump", "add"} => r.who \in Members
    PROVE  Puts(t, r)
  BY DEF Puts

Same(r, q) == r.op = q.op /\ r.who = q.who /\ r.rev = q.rev /\ r.want = q.want /\ r.host = q.host

LEMMA AccSteps ==
    ASSUME Access!Inductive, NEW t \in Threads, NEW pc \in Access!Pcs, Access!Step(t, pc),
           pc \in {"suspend", "restore"} => x11[t].who \in PlayingTeams,
           pc \in {"insert", "bump", "add"} => x11[t].who \in Members
    PROVE  \E r : Puts(t, r) /\ r.pc = pc /\ Same(r, x11[t])
  <1>1. x11 \in [Threads -> Access!Locals]
    BY AccTyped
  <1>2. x11[t] \in Access!Locals
    BY <1>1
  <1>3. PICK r : r = [x11[t] EXCEPT !.pc = pc]
    OBVIOUS
  <1>4. r \in Access!Locals /\ r.pc = pc /\ Same(r, x11[t])
    BY <1>2, <1>3 DEF Access!Locals, Same
  <1>5. x11' = [x11 EXCEPT ![t] = r]
    BY <1>1, <1>3 DEF Access!Step
  <1>6. Puts(t, r)
    BY <1>1, <1>4, <1>5, PutsIs DEF Same
  <1> QED BY <1>4, <1>6

LEMMA AccDone ==
    ASSUME Access!Inductive, NEW t \in Threads, Access!Done(t)
    PROVE  \E r : Puts(t, r) /\ r.pc = "idle" /\ r.op = "none"
  <1>1. x11 \in [Threads -> Access!Locals]
    BY AccTyped
  <1>2. PICK r \in Access!Locals : r = Access!Idle
    BY AccIdle
  <1>3. r.pc = "idle" /\ r.op = "none"
    BY <1>2 DEF Access!Idle
  <1>4. x11' = [x11 EXCEPT ![t] = r]
    BY <1>2 DEF Access!Done
  <1> QED BY <1>1, <1>3, <1>4, PutsIs

LEMMA AccBegins ==
    ASSUME Access!Inductive, NEW t \in Threads, NEW pc \in {"suspend", "restore", "readRev"}, NEW op \in {"ban", "unban", "phase"},
           NEW who \in PlayingTeams \cup PlayingEvents, Access!Begin(t, pc, op, who), pc # "readRev" => who \in PlayingTeams
    PROVE  x11[t].pc = "idle" /\ \E r : Puts(t, r) /\ r.pc = pc /\ r.op = op /\ r.who = who
  <1>1. x11 \in [Threads -> Access!Locals]
    BY AccTyped
  <1>2. PICK r : r = [Access!Idle EXCEPT !.pc = pc, !.op = op, !.who = who]
    OBVIOUS
  <1>3. r \in Access!Locals /\ r.pc = pc /\ r.op = op /\ r.who = who
    BY <1>2, AccIdle DEF Access!Locals, Access!Pcs
  <1>4. x11' = [x11 EXCEPT ![t] = r] /\ x11[t].pc = "idle"
    BY <1>2 DEF Access!Begin, Access!At
  <1>5. Puts(t, r)
    BY <1>1, <1>3, <1>4, PutsIs
  <1> QED BY <1>3, <1>4, <1>5

LEMMA AccCounts ==
    ASSUME Access!Inductive, NEW k \in {"moves", "fails", "crashes"}, Access!Count(k) PROVE x12' \in AccSpent
  BY AccTyped DEF Access!Count, AccSpent

LEMMA AccLate ==
    ASSUME NEW k, NEW b, Access!Late(k, b) PROVE x10 \subseteq x10' /\ (b => k \in x10')
  BY DEF Access!Late

(* What has to be shown of a step for the types.                           *)
LEMMA AccTypesKept ==
    ASSUME Access!Inductive, NEW t, NEW r, Puts(t, r), x1' = x1, x2' \in [PlayingEvents -> Access!Policies \cup {"off"}],
           x3' \in [PlayingTeams -> Nat], x4' \in [Members -> Nat], x5' \in [PlayingTeams -> Nat], x6' \subseteq Members,
           x7' \in Nat, x8' \in Access!Rendered, x9' \subseteq PlayingTeams \X PlayingTeams, x12' \in AccSpent
    PROVE  Access!Types'
  <1>1. x1' \in AccessSettings /\ x8'.banned \subseteq PlayingTeams /\ x12' \in [{"moves", "fails", "crashes"} -> Nat]
    BY AccTyped DEF Access!Rendered, AccSpent
  <1>2. \A s \in Threads : /\ x11'[s].pc \in {"suspend", "restore"} => x11'[s].who \in PlayingTeams
                           /\ x11'[s].pc \in {"insert", "bump", "add"} => x11'[s].who \in Members
    BY AccRoles DEF Puts
  <1> QED BY <1>1, <1>2 DEF Access!Types, Access!TypeOK, Puts

(* Steps that leave a part of the invariant alone.                         *)
LEMMA AddressesAside ==
    ASSUME Access!Inductive, NEW t, NEW r, Puts(t, r), x4' = x4, x5' = x5, x10 \subseteq x10',
           x11[t].pc # "bump", r.pc \notin {"insert", "bump"}
    PROVE  Access!Addresses'
  <1> SUFFICES ASSUME "crash" \notin x10' PROVE Access!Addresses'
    BY DEF Access!Addresses
  <1>1. "crash" \notin x10 /\ Access!Addresses
    BY DEF Access!Inductive
  <1>2. \A s \in Threads : x11'[s].pc = "insert" => x11[s].pc = "insert" /\ x11'[s] = x11[s]
    BY DEF Puts
  <1>3. \A s \in Threads : x11'[s].pc = "bump" => x11[s].pc = "bump" /\ x11'[s] = x11[s]
    BY DEF Puts
  <1>4. \A s \in Threads : x11[s].pc = "bump" => x11'[s] = x11[s]
    BY DEF Puts
  <1> QED BY <1>1, <1>2, <1>3, <1>4 DEF Access!Addresses, Access!At

LEMMA ReachedAside ==
    ASSUME Access!Inductive, NEW t, NEW r, Puts(t, r), UNCHANGED <<x3, x4, x6>>, x10 \subseteq x10',
           x11[t].pc \notin {"bump", "add", "restore"}
    PROVE  Access!Reached'
  <1> SUFFICES ASSUME x10' \cap {"host", "crash", "suspend"} = {} PROVE Access!Reached'
    BY DEF Access!Reached
  <1>1. x10 \cap {"host", "crash", "suspend"} = {} /\ Access!Reached
    BY DEF Access!Inductive
  <1>2. \A s \in Threads, u \in Members : Access!Bringing(s, u) => Access!Bringing(s, u)'
    BY DEF Access!Bringing, Access!At, Puts
  <1> QED BY <1>1, <1>2 DEF Access!Reached

LEMMA RevisionsAside ==
    ASSUME Access!Inductive, NEW t, NEW r, Puts(t, r), UNCHANGED <<x2, x3, x7, x8>>, x10 \subseteq x10',
           \/ x11[t].pc \notin {"suspend", "restore", "readRev", "writeRev"}
           \/ r.pc \in {"suspend", "restore", "readRev", "writeRev"},
           r.pc \notin {"writeRev", "build", "apply"}
    PROVE  Access!Revisions'
  <1> SUFFICES ASSUME x10' \cap {"clash", "host", "apply", "crash"} = {} PROVE Access!Revisions'
    BY DEF Access!Revisions
  <1>1. x10 \cap {"clash", "host", "apply", "crash"} = {} /\ Access!Revisions
    BY DEF Access!Inductive
  <1>2. Access!Announced => Access!Announced'
    BY DEF Access!Announced, Puts
  <1>3. \A s \in Threads : x11'[s].pc \in {"writeRev", "build", "apply"} => x11'[s] = x11[s]
    BY DEF Puts
  <1>4. \A w : Access!Renders(w) => Access!Renders(w)'
    BY DEF Access!Renders
  <1> QED BY <1>1, <1>2, <1>3, <1>4 DEF Access!Revisions, Access!At, Access!Renders

(* The request stays where the event needs it.                             *)
Stays(t, r) ==
    \/ x11[t].op # "phase" \/ x11[t].pc \notin Access!Unapplied \cup {"verify", "flush"}
    \/ /\ r.op = x11[t].op /\ r.who = x11[t].who
       /\ \/ x11[t].pc \in Access!Unapplied /\ r.pc \in Access!Unapplied
          \/ x11[t].pc \in {"verify", "flush"} /\ r.pc \in {"verify", "flush"}

LEMMA StaysPhasing ==
    ASSUME NEW t, NEW r, Puts(t, r), Stays(t, r), NEW s \in Threads, NEW e
    PROVE  /\ Access!Phasing(s, e, Access!Unapplied) => Access!Phasing(s, e, Access!Unapplied)'
           /\ Access!Phasing(s, e, Access!Unapplied \cup {"verify", "flush"})
                => Access!Phasing(s, e, Access!Unapplied \cup {"verify", "flush"})'
  BY DEF Puts, Stays, Access!Phasing, Access!Unapplied

LEMMA CutAside ==
    ASSUME Access!Inductive, NEW t, NEW r, Puts(t, r), UNCHANGED <<x2, x8, x9>>, x10 \subseteq x10', Stays(t, r)
    PROVE  Access!Cut'
  <1> SUFFICES ASSUME x10' \cap {"flush", "stale", "clash", "apply", "crash"} = {} PROVE Access!Cut'
    BY DEF Access!Cut
  <1>1. x10 \cap {"flush", "stale", "clash", "apply", "crash"} = {} /\ Access!Cut
    BY DEF Access!Inductive
  <1>2. \A e \in PlayingEvents : /\ x8'.policy[e] = x8.policy[e] /\ x2'[e] = x2[e]
                                 /\ (\E f \in x9' : PlaysIn[f[2]] = e) <=> (\E f \in x9 : PlaysIn[f[2]] = e)
    OBVIOUS
  <1>3. \A s \in Threads, e \in PlayingEvents :
          /\ Access!Phasing(s, e, Access!Unapplied) => Access!Phasing(s, e, Access!Unapplied)'
          /\ Access!Phasing(s, e, Access!Unapplied \cup {"verify", "flush"})
                => Access!Phasing(s, e, Access!Unapplied \cup {"verify", "flush"})'
    BY StaysPhasing
  <1> QED BY <1>1, <1>2, <1>3 DEF Access!Cut

(* A request whose change no table has yet is on its way.                  *)
LEMMA RevisionsAnnounced ==
    ASSUME Access!Inductive, NEW t, NEW r, Puts(t, r), UNCHANGED <<x7, x8>>, x10 \subseteq x10',
           r.pc \in {"suspend", "restore", "readRev"}
    PROVE  Access!Revisions'
  <1> SUFFICES ASSUME x10' \cap {"clash", "host", "apply", "crash"} = {} PROVE Access!Revisions'
    BY DEF Access!Revisions
  <1>1. x10 \cap {"clash", "host", "apply", "crash"} = {} /\ Access!Revisions
    BY DEF Access!Inductive
  <1>2. Access!Announced'
    BY DEF Access!Announced, Puts
  <1>3. \A s \in Threads : x11'[s].pc \in {"writeRev", "build", "apply"} => x11'[s] = x11[s]
    BY DEF Puts
  <1> QED BY <1>1, <1>2, <1>3 DEF Access!Revisions, Access!At

LEMMA AccBan ==
    ASSUME Access!Inductive, NEW t \in Threads, NEW x \in PlayingTeams, Access!BanTeam(t, x)
    PROVE  Access!Inductive'
  <1>1. /\ x3' = [x3 EXCEPT ![x] = @ + 1] /\ Access!Count("moves") /\ Access!Begin(t, "suspend", "ban", x)
        /\ UNCHANGED <<x1, x2, x4, x5, x6, x7, x8, x9, x10>>
    BY DEF Access!BanTeam, Access!host
  <1>2. x11[t].pc = "idle" /\ \E r : Puts(t, r) /\ r.pc = "suspend" /\ r.op = "ban" /\ r.who = x
    BY <1>1, AccBegins
  <1>3. PICK r : Puts(t, r) /\ r.pc = "suspend" /\ r.op = "ban" /\ r.who = x
    BY <1>2
  <1>4. x3 \in [PlayingTeams -> Nat] /\ x3' \in [PlayingTeams -> Nat] /\ x12' \in AccSpent
        /\ \A y \in PlayingTeams : x3'[y] = 0 => x3[y] = 0
    BY <1>1, AccTyped, AccCounts
  <1>5. Access!Types'
    BY <1>1, <1>3, <1>4, AccTyped, AccTypesKept
  <1>6. Access!Addresses'
    BY <1>1, <1>2, <1>3, AddressesAside
  <1>7. Access!Reached'
    <2> SUFFICES ASSUME x10' \cap {"host", "crash", "suspend"} = {} PROVE Access!Reached'
      BY DEF Access!Reached
    <2>1. x10 \cap {"host", "crash", "suspend"} = {} /\ Access!Reached
      BY <1>1 DEF Access!Inductive
    <2>2. \A s \in Threads, u \in Members : Access!Bringing(s, u) => Access!Bringing(s, u)'
      BY <1>2, <1>3 DEF Access!Bringing, Access!At, Puts
    <2>3. \A u \in Members : x3'[PlaysFor[u]] = 0 => x3[PlaysFor[u]] = 0
      BY <1>4, OpsConstants
    <2> QED BY <1>1, <2>1, <2>2, <2>3 DEF Access!Reached
  <1>8. Access!Revisions'
    BY <1>1, <1>3, RevisionsAnnounced
  <1>9. Stays(t, r)
    BY <1>2 DEF Stays, Access!Unapplied
  <1>10. Access!Cut'
    BY <1>1, <1>3, <1>9, CutAside
  <1> QED BY <1>5, <1>6, <1>7, <1>8, <1>10 DEF Access!Inductive

LEMMA AccUnban ==
    ASSUME Access!Inductive, NEW t \in Threads, NEW x \in PlayingTeams, Access!UnbanTeam(t, x)
    PROVE  Access!Inductive'
  <1>1. /\ x3[x] > 0 /\ x3' = [x3 EXCEPT ![x] = @ - 1] /\ Access!Count("moves") /\ Access!Begin(t, "restore", "unban", x)
        /\ UNCHANGED <<x1, x2, x4, x5, x6, x7, x8, x9, x10>>
    BY DEF Access!UnbanTeam, Access!host
  <1>2. x11[t].pc = "idle" /\ \E r : Puts(t, r) /\ r.pc = "restore" /\ r.op = "unban" /\ r.who = x
    BY <1>1, AccBegins
  <1>3. PICK r : Puts(t, r) /\ r.pc = "restore" /\ r.op = "unban" /\ r.who = x
    BY <1>2
  <1>4. x3 \in [PlayingTeams -> Nat] /\ x3' \in [PlayingTeams -> Nat] /\ x12' \in AccSpent
        /\ \A y \in PlayingTeams : y # x => x3'[y] = x3[y]
    BY <1>1, AccTyped, AccCounts
  <1>5. Access!Types'
    BY <1>1, <1>3, <1>4, AccTyped, AccTypesKept
  <1>6. Access!Addresses'
    BY <1>1, <1>2, <1>3, AddressesAside
  <1>7. Access!Reached'
    <2> SUFFICES ASSUME x10' \cap {"host", "crash", "suspend"} = {} PROVE Access!Reached'
      BY DEF Access!Reached
    <2>1. x10 \cap {"host", "crash", "suspend"} = {} /\ Access!Reached
      BY <1>1 DEF Access!Inductive
    <2>2. \A s \in Threads, u \in Members : Access!Bringing(s, u) => Access!Bringing(s, u)'
      BY <1>2, <1>3 DEF Access!Bringing, Access!At, Puts
    <2>3. \A u \in Members : PlaysFor[u] = x => Access!Bringing(t, u)'
      BY <1>3 DEF Access!Bringing, Access!At, Puts
    <2>4. \A u \in Members : PlaysFor[u] # x => x3'[PlaysFor[u]] = x3[PlaysFor[u]]
      BY <1>4, OpsConstants
    <2> QED BY <1>1, <2>1, <2>2, <2>3, <2>4 DEF Access!Reached
  <1>8. Access!Revisions'
    BY <1>1, <1>3, RevisionsAnnounced
  <1>9. Stays(t, r)
    BY <1>2 DEF Stays, Access!Unapplied
  <1>10. Access!Cut'
    BY <1>1, <1>3, <1>9, CutAside
  <1> QED BY <1>5, <1>6, <1>7, <1>8, <1>10 DEF Access!Inductive

LEMMA AccMoves ==
    ASSUME Access!Inductive, NEW t \in Threads, NEW e \in PlayingEvents, NEW p \in Access!Policies \cup {"off"},
           Access!PhaseMoves(t, e, p)
    PROVE  Access!Inductive'
  <1>1. /\ x2' = [x2 EXCEPT ![e] = p] /\ Access!Count("moves") /\ Access!Begin(t, "readRev", "phase", e)
        /\ UNCHANGED <<x1, x3, x4, x5, x6, x7, x8, x9, x10>>
    BY DEF Access!PhaseMoves, Access!host
  <1>2. x11[t].pc = "idle" /\ \E r : Puts(t, r) /\ r.pc = "readRev" /\ r.op = "phase" /\ r.who = e
    BY <1>1, AccBegins
  <1>3. PICK r : Puts(t, r) /\ r.pc = "readRev" /\ r.op = "phase" /\ r.who = e
    BY <1>2
  <1>4. x2 \in [PlayingEvents -> Access!Policies \cup {"off"}] /\ x2' \in [PlayingEvents -> Access!Policies \cup {"off"}] /\ x12' \in AccSpent
        /\ \A d \in PlayingEvents : d # e => x2'[d] = x2[d]
    BY <1>1, AccTyped, AccCounts
  <1>5. Access!Types'
    BY <1>1, <1>3, <1>4, AccTyped, AccTypesKept
  <1>6. Access!Addresses'
    BY <1>1, <1>2, <1>3, AddressesAside
  <1>7. Access!Reached'
    BY <1>1, <1>2, <1>3, ReachedAside
  <1>8. Access!Revisions'
    BY <1>1, <1>3, RevisionsAnnounced
  <1>9. Stays(t, r)
    BY <1>2 DEF Stays, Access!Unapplied
  <1>10. Access!Cut'
    <2> SUFFICES ASSUME x10' \cap {"flush", "stale", "clash", "apply", "crash"} = {} PROVE Access!Cut'
      BY DEF Access!Cut
    <2>1. x10 \cap {"flush", "stale", "clash", "apply", "crash"} = {} /\ Access!Cut
      BY <1>1 DEF Access!Inductive
    <2>2. Access!Phasing(t, e, Access!Unapplied)' /\ Access!Phasing(t, e, Access!Unapplied \cup {"verify", "flush"})'
      BY <1>3 DEF Access!Phasing, Access!Unapplied, Puts
    <2>3. \A s \in Threads, d \in PlayingEvents :
          /\ Access!Phasing(s, d, Access!Unapplied) => Access!Phasing(s, d, Access!Unapplied)'
          /\ Access!Phasing(s, d, Access!Unapplied \cup {"verify", "flush"})
                => Access!Phasing(s, d, Access!Unapplied \cup {"verify", "flush"})'
      BY <1>3, <1>9, StaysPhasing
    <2> QED BY <1>1, <1>4, <2>1, <2>2, <2>3 DEF Access!Cut
  <1> QED BY <1>5, <1>6, <1>7, <1>8, <1>10 DEF Access!Inductive

LEMMA AccSuspends ==
    ASSUME Access!Inductive, NEW t \in Threads, Access!SuspendTeamPeers(t)
    PROVE  Access!Inductive'
  <1>1. x11[t].pc = "suspend" /\ x11[t].who \in PlayingTeams
    BY AccRoles DEF Access!SuspendTeamPeers, Access!At
  <1>2. UNCHANGED <<x1, x2, x3, x4, x5, x7, x8, x9>>
    BY DEF Access!SuspendTeamPeers, Access!db
  <1>3. CASE /\ x6' = {u \in x6 : PlaysFor[u] # x11[t].who} /\ Access!Step(t, "readRev")
             /\ Access!Late("suspend", x3[x11[t].who] = 0) /\ x12' = x12
    <2>1. PICK r : Puts(t, r) /\ r.pc = "readRev" /\ Same(r, x11[t])
      BY <1>3, AccSteps DEF Access!Pcs
    <2>2. x10 \subseteq x10' /\ (x3[x11[t].who] = 0 => "suspend" \in x10')
      BY <1>3, AccLate
    <2>3. Access!Types'
      BY <1>2, <1>3, <2>1, AccTyped, AccTypesKept
    <2>4. Access!Addresses'
      BY <1>1, <1>2, <2>1, <2>2, AddressesAside
    <2>5. Access!Reached'
      <3> SUFFICES ASSUME x10' \cap {"host", "crash", "suspend"} = {} PROVE Access!Reached'
        BY DEF Access!Reached
      <3>1. x10 \cap {"host", "crash", "suspend"} = {} /\ Access!Reached /\ x3[x11[t].who] # 0
        BY <2>2 DEF Access!Inductive
      <3>2. \A s \in Threads, u \in Members : Access!Bringing(s, u) => Access!Bringing(s, u)'
        BY <1>1, <2>1 DEF Access!Bringing, Access!At, Puts
      <3> QED BY <1>2, <1>3, <3>1, <3>2 DEF Access!Reached
    <2>6. Access!Revisions'
      BY <1>2, <2>1, <2>2, RevisionsAnnounced
    <2>7. Stays(t, r)
      BY <1>1 DEF Stays, Access!Unapplied
    <2>8. Access!Cut'
      BY <1>2, <2>1, <2>2, <2>7, CutAside
    <2> QED BY <2>3, <2>4, <2>5, <2>6, <2>8 DEF Access!Inductive
  <1>4. CASE Access!Count("fails") /\ Access!Done(t) /\ x6' = x6 /\ Access!Late("host", TRUE)
    <2>1. PICK r : Puts(t, r) /\ r.pc = "idle" /\ r.op = "none"
      BY <1>4, AccDone
    <2>2. x10 \subseteq x10' /\ "host" \in x10'
      BY <1>4, AccLate
    <2>3. Access!Types'
      BY <1>2, <1>4, <2>1, AccTyped, AccTypesKept, AccCounts
    <2>4. Access!Addresses'
      BY <1>1, <1>2, <2>1, <2>2, AddressesAside
    <2>5. Access!Reached' /\ Access!Revisions'
      BY <2>2 DEF Access!Reached, Access!Revisions
    <2>7. Stays(t, r)
      BY <1>1 DEF Stays, Access!Unapplied
    <2>8. Access!Cut'
      BY <1>2, <2>1, <2>2, <2>7, CutAside
    <2> QED BY <2>3, <2>4, <2>5, <2>8 DEF Access!Inductive
  <1> QED BY <1>3, <1>4 DEF Access!SuspendTeamPeers

LEMMA AccRestores ==
    ASSUME Access!Inductive, NEW t \in Threads, Access!RestoreActivePeers(t)
    PROVE  Access!Inductive'
  <1>1. x11[t].pc = "restore" /\ x11[t].who \in PlayingTeams
    BY AccRoles DEF Access!RestoreActivePeers, Access!At
  <1>2. UNCHANGED <<x1, x2, x3, x4, x5, x7, x8, x9>>
    BY DEF Access!RestoreActivePeers, Access!db
  <1>3. CASE /\ x6' = x6 \cup {u \in Members : x4[u] # 0 /\ PlaysIn[PlaysFor[u]] = PlaysIn[x11[t].who]}
             /\ Access!Step(t, "readRev") /\ UNCHANGED <<x10, x12>>
    <2>1. PICK r : Puts(t, r) /\ r.pc = "readRev" /\ Same(r, x11[t])
      BY <1>3, AccSteps DEF Access!Pcs
    <2>2. x10 \subseteq x10'
      BY <1>3
    <2>3. Access!Types'
      <3>1. x6' \subseteq Members
        BY <1>3, AccTyped
      <3> QED BY <1>2, <1>3, <2>1, <3>1, AccTyped, AccTypesKept
    <2>4. Access!Addresses'
      BY <1>1, <1>2, <2>1, <2>2, AddressesAside
    <2>5. Access!Reached'
      <3> SUFFICES ASSUME x10' \cap {"host", "crash", "suspend"} = {} PROVE Access!Reached'
        BY DEF Access!Reached
      <3>1. x10 \cap {"host", "crash", "suspend"} = {} /\ Access!Reached
        BY <2>2 DEF Access!Inductive
      <3>2. \A s \in Threads, u \in Members : s # t => (Access!Bringing(s, u) => Access!Bringing(s, u)')
        BY <1>1, <2>1 DEF Access!Bringing, Access!At, Puts
      <3>3. \A u \in Members : Access!Bringing(t, u) => PlaysIn[PlaysFor[u]] = PlaysIn[x11[t].who]
        BY <1>1 DEF Access!Bringing, Access!At
      <3> QED BY <1>2, <1>3, <3>1, <3>2, <3>3 DEF Access!Reached
    <2>6. Access!Revisions'
      BY <1>2, <2>1, <2>2, RevisionsAnnounced
    <2>7. Stays(t, r)
      BY <1>1 DEF Stays, Access!Unapplied
    <2>8. Access!Cut'
      BY <1>2, <2>1, <2>2, <2>7, CutAside
    <2> QED BY <2>3, <2>4, <2>5, <2>6, <2>8 DEF Access!Inductive
  <1>4. CASE Access!Count("fails") /\ Access!Done(t) /\ x6' = x6 /\ Access!Late("host", TRUE)
    <2>1. PICK r : Puts(t, r) /\ r.pc = "idle" /\ r.op = "none"
      BY <1>4, AccDone
    <2>2. x10 \subseteq x10' /\ "host" \in x10'
      BY <1>4, AccLate
    <2>3. Access!Types'
      BY <1>2, <1>4, <2>1, AccTyped, AccTypesKept, AccCounts
    <2>4. Access!Addresses'
      BY <1>1, <1>2, <2>1, <2>2, AddressesAside
    <2>5. Access!Reached' /\ Access!Revisions'
      BY <2>2 DEF Access!Reached, Access!Revisions
    <2>7. Stays(t, r)
      BY <1>1 DEF Stays, Access!Unapplied
    <2>8. Access!Cut'
      BY <1>2, <2>1, <2>2, <2>7, CutAside
    <2> QED BY <2>3, <2>4, <2>5, <2>8 DEF Access!Inductive
  <1> QED BY <1>3, <1>4 DEF Access!RestoreActivePeers

LEMMA AccReads ==
    ASSUME Access!Inductive, NEW t \in Threads, Access!ReadRevision(t)
    PROVE  Access!Inductive'
  <1>1. x11[t].pc = "readRev" /\ x11' = [x11 EXCEPT ![t] = [@ EXCEPT !.pc = "writeRev", !.rev = x7 + 1]]
        /\ UNCHANGED <<x1, x2, x3, x4, x5, x6, x7, x8, x9, x10, x12>>
    BY DEF Access!ReadRevision, Access!At, Access!db, Access!host
  <1>2. x11 \in [Threads -> Access!Locals] /\ x11[t] \in Access!Locals /\ x7 \in Nat
    BY AccTyped
  <1>0. PICK n \in Nat : n = x7 + 1
    BY <1>2
  <1>3. PICK r : r = [x11[t] EXCEPT !.pc = "writeRev", !.rev = n]
    OBVIOUS
  <1>4. r \in Access!Locals /\ r.pc = "writeRev" /\ r.rev = x7 + 1 /\ r.op = x11[t].op /\ r.who = x11[t].who
    <2>1. r \in Access!Locals /\ r.pc = "writeRev" /\ r.rev = n /\ r.op = x11[t].op /\ r.who = x11[t].who
      BY <1>2, <1>3 DEF Access!Locals, Access!Pcs
    <2> QED BY <1>0, <2>1
  <1>5. x11' = [x11 EXCEPT ![t] = r]
    BY <1>0, <1>1, <1>2, <1>3
  <1>6. Puts(t, r)
    BY <1>2, <1>4, <1>5, PutsIs
  <1>7. Access!Types'
    BY <1>1, <1>6, AccTyped, AccTypesKept
  <1>8. Access!Addresses'
    BY <1>1, <1>4, <1>6, AddressesAside
  <1>9. Access!Reached'
    BY <1>1, <1>6, ReachedAside
  <1>10. Access!Revisions'
    <2> SUFFICES ASSUME x10' \cap {"clash", "host", "apply", "crash"} = {} PROVE Access!Revisions'
      BY DEF Access!Revisions
    <2>1. x10 \cap {"clash", "host", "apply", "crash"} = {} /\ Access!Revisions
      BY <1>1 DEF Access!Inductive
    <2>2. Access!Announced'
      BY <1>4, <1>6 DEF Access!Announced, Puts
    <2>3. \A s \in Threads : s # t => x11'[s] = x11[s]
      BY <1>6 DEF Puts
    <2>4. x11'[t] = r
      BY <1>6 DEF Puts
    <2> QED BY <1>1, <1>2, <1>4, <2>1, <2>2, <2>3, <2>4 DEF Access!Revisions, Access!At
  <1>11. Stays(t, r)
    BY <1>1, <1>4 DEF Stays, Access!Unapplied
  <1>12. Access!Cut'
    BY <1>1, <1>6, <1>11, CutAside
  <1> QED BY <1>7, <1>8, <1>9, <1>10, <1>12 DEF Access!Inductive

LEMMA AccWrites ==
    ASSUME Access!Inductive, NEW t \in Threads, Access!WriteRevision(t)
    PROVE  Access!Inductive'
  <1>1. x11[t].pc = "writeRev" /\ x7' = x11[t].rev /\ Access!Step(t, "build") /\ Access!Late("clash", x7 >= x11[t].rev)
        /\ UNCHANGED <<x1, x2, x3, x4, x5, x6, x8, x9, x12>>
    BY DEF Access!WriteRevision, Access!At, Access!db, Access!host
  <1>2. PICK r : Puts(t, r) /\ r.pc = "build" /\ Same(r, x11[t])
    BY <1>1, AccSteps DEF Access!Pcs
  <1>3. x10 \subseteq x10' /\ (x7 >= x11[t].rev => "clash" \in x10')
    BY <1>1, AccLate
  <1>4. x11[t].rev \in Nat /\ x7 \in Nat /\ x8.rev \in Nat /\ \A s \in Threads : x11[s].rev \in Nat /\ x11[s].want.rev \in Nat
    BY AccTyped DEF Access!Locals, Access!Rendered
  <1>5. Access!Types'
    BY <1>1, <1>2, <1>4, AccTyped, AccTypesKept
  <1>6. Access!Addresses'
    BY <1>1, <1>2, <1>3, AddressesAside
  <1>7. Access!Reached'
    BY <1>1, <1>2, <1>3, ReachedAside
  <1>8. Access!Revisions'
    <2> SUFFICES ASSUME x10' \cap {"clash", "host", "apply", "crash"} = {} PROVE Access!Revisions'
      BY DEF Access!Revisions
    <2>1. x10 \cap {"clash", "host", "apply", "crash"} = {} /\ Access!Revisions /\ ~(x7 >= x11[t].rev)
      BY <1>3 DEF Access!Inductive
    <2>2. x11[t].rev <= x7 + 1
      BY <1>1, <2>1 DEF Access!Revisions, Access!At
    <2>3. x7' = x7 + 1
      BY <1>1, <1>4, <2>1, <2>2
    <2>4. x8'.rev < x7'
      BY <1>1, <1>4, <2>1, <2>3 DEF Access!Revisions
    <2>5. \A s \in Threads : s # t => x11'[s] = x11[s]
      BY <1>2 DEF Puts
    <2>6. x11'[t].pc = "build" /\ x11'[t].rev = x7'
      BY <1>1, <1>2 DEF Puts, Same
    <2>7. \A s \in Threads : s # t => /\ x11'[s].pc = "writeRev" => x11'[s].rev <= x7' + 1
                                      /\ x11'[s].pc = "build" => x11'[s].rev <= x7'
                                      /\ x11'[s].pc = "apply" => x11'[s].want.rev < x7'
      BY <1>4, <2>1, <2>3, <2>5 DEF Access!Revisions, Access!At
    <2>8. x7' \in Nat /\ x8'.rev \in Nat /\ \A s \in Threads : s # t => x11'[s].want.rev \in Nat
      BY <1>1, <1>4, <2>5
    <2> QED BY <2>4, <2>6, <2>7, <2>8 DEF Access!Revisions, Access!At
  <1>9. Stays(t, r)
    BY <1>1, <1>2 DEF Stays, Access!Unapplied, Same
  <1>10. Access!Cut'
    BY <1>1, <1>2, <1>3, <1>9, CutAside
  <1> QED BY <1>5, <1>6, <1>7, <1>8, <1>10 DEF Access!Inductive

LEMMA AccBuilds ==
    ASSUME Access!Inductive, NEW t \in Threads, Access!BuildDesiredState(t)
    PROVE  Access!Inductive'
  <1>1. x11[t].pc = "build" /\ UNCHANGED <<x1, x2, x3, x4, x5, x6, x7, x8, x9, x10, x12>>
    BY DEF Access!BuildDesiredState, Access!At, Access!db, Access!host
  <1>2. x11 \in [Threads -> Access!Locals] /\ x11[t] \in Access!Locals /\ x11[t].rev \in Nat
    BY AccTyped DEF Access!Locals
  <1>3. PICK w : w = [rev |-> x11[t].rev, policy |-> x2, banned |-> {x \in PlayingTeams : x3[x] > 0 /\ x2[PlaysIn[x]] # "off"}]
    OBVIOUS
  <1>4. w \in Access!Rendered /\ w.rev = x11[t].rev /\ Access!Renders(w)
    BY <1>2, <1>3, AccTyped DEF Access!Rendered, Access!Renders
  <1>5. PICK r : r = [x11[t] EXCEPT !.pc = "apply", !.want = w]
    OBVIOUS
  <1>6. r \in Access!Locals /\ r.pc = "apply" /\ r.want = w /\ r.op = x11[t].op /\ r.who = x11[t].who
    BY <1>2, <1>4, <1>5 DEF Access!Locals, Access!Pcs
  <1>7. x11' = [x11 EXCEPT ![t] = r]
    BY <1>2, <1>3, <1>5 DEF Access!BuildDesiredState
  <1>8. Puts(t, r)
    BY <1>2, <1>6, <1>7, PutsIs
  <1>9. Access!Types'
    BY <1>1, <1>8, AccTyped, AccTypesKept
  <1>10. Access!Addresses'
    BY <1>1, <1>6, <1>8, AddressesAside
  <1>11. Access!Reached'
    BY <1>1, <1>8, ReachedAside
  <1>12. Access!Revisions'
    <2> SUFFICES ASSUME x10' \cap {"clash", "host", "apply", "crash"} = {} PROVE Access!Revisions'
      BY DEF Access!Revisions
    <2>1. x10 \cap {"clash", "host", "apply", "crash"} = {} /\ Access!Revisions
      BY <1>1 DEF Access!Inductive
    <2>2. Access!Announced => Access!Announced'
      BY <1>1, <1>8 DEF Access!Announced, Puts
    <2>3. \A s \in Threads : s # t => x11'[s] = x11[s]
      BY <1>8 DEF Puts
    <2>4. x11'[t].pc = "apply" /\ x11'[t].want = w
      BY <1>6, <1>8 DEF Puts
    <2>5. w.rev <= x7
      BY <1>1, <1>4, <2>1 DEF Access!Revisions, Access!At
    <2>6. x2' = x2 /\ x3' = x3 /\ x7' = x7 /\ x8' = x8
      BY <1>1
    <2> QED BY <1>4, <2>1, <2>2, <2>3, <2>4, <2>5, <2>6 DEF Access!Revisions, Access!At, Access!Renders
  <1>13. Stays(t, r)
    BY <1>1, <1>6 DEF Stays, Access!Unapplied
  <1>14. Access!Cut'
    BY <1>1, <1>8, <1>13, CutAside
  <1> QED BY <1>9, <1>10, <1>11, <1>12, <1>14 DEF Access!Inductive

LEMMA AccApplies ==
    ASSUME Access!Inductive, NEW t \in Threads, Access!ApplyTable(t)
    PROVE  Access!Inductive'
  <1>1. x11[t].pc = "apply" /\ x11[t].want \in Access!Rendered
    BY AccTyped DEF Access!ApplyTable, Access!At, Access!Locals
  <1>2. UNCHANGED <<x1, x2, x3, x4, x5, x6, x7, x9>>
    BY DEF Access!ApplyTable, Access!db
  <1>3. CASE /\ x8' = x11[t].want /\ Access!Late("stale", x11[t].want.policy # x2)
             /\ Access!Step(t, IF Access!InDesiredSet(x11[t].want.policy) = {} THEN "flush" ELSE "verify") /\ x12' = x12
    <2>1. PICK r : Puts(t, r) /\ r.pc \in {"flush", "verify"} /\ Same(r, x11[t])
      <3>1. PICK pc \in {"flush", "verify"} : pc = IF Access!InDesiredSet(x11[t].want.policy) = {} THEN "flush" ELSE "verify"
        OBVIOUS
      <3>2. Access!Step(t, pc)
        BY <1>3, <3>1
      <3> QED BY <3>2, AccSteps DEF Access!Pcs
    <2>2. x10 \subseteq x10' /\ (x11[t].want.policy # x2 => "stale" \in x10')
      BY <1>3, AccLate
    <2>3. Access!Types'
      BY <1>1, <1>2, <1>3, <2>1, AccTyped, AccTypesKept
    <2>4. Access!Addresses'
      BY <1>1, <1>2, <2>1, <2>2, AddressesAside
    <2>5. Access!Reached'
      BY <1>1, <1>2, <2>1, <2>2, ReachedAside
    <2>6. Access!Revisions'
      <3> SUFFICES ASSUME x10' \cap {"clash", "host", "apply", "crash"} = {} PROVE Access!Revisions'
        BY DEF Access!Revisions
      <3>1. x10 \cap {"clash", "host", "apply", "crash"} = {} /\ Access!Revisions
        BY <2>2 DEF Access!Inductive
      <3>2. Access!Announced => Access!Announced'
        BY <1>1, <2>1 DEF Access!Announced, Puts
      <3>3. \A s \in Threads : x11'[s].pc \in {"writeRev", "build", "apply"} => x11'[s] = x11[s]
        BY <2>1 DEF Puts
      <3>4. \A w : Access!Renders(w) => Access!Renders(w)'
        BY <1>2 DEF Access!Renders
      <3>5. x8'.rev <= x7 /\ (x8'.rev = x7 => Access!Renders(x11[t].want) \/ Access!Announced)
        BY <1>1, <1>3, <3>1 DEF Access!Revisions, Access!At
      <3>6. x8'.rev = x7' => Access!Renders(x8)' \/ Access!Announced'
        BY <1>2, <1>3, <3>2, <3>5 DEF Access!Renders
      <3> QED BY <1>2, <3>1, <3>2, <3>3, <3>4, <3>5, <3>6 DEF Access!Revisions, Access!At, Access!Renders
    <2>7. Access!Cut'
      <3> SUFFICES ASSUME x10' \cap {"flush", "stale", "clash", "apply", "crash"} = {} PROVE Access!Cut'
        BY DEF Access!Cut
      <3>1. x10 \cap {"flush", "stale", "clash", "apply", "crash"} = {} /\ Access!Cut /\ x8'.policy = x2'
        BY <1>2, <1>3, <2>2 DEF Access!Inductive
      <3>2. \A s \in Threads, e \in PlayingEvents :
              Access!Phasing(s, e, Access!Unapplied \cup {"verify", "flush"}) => Access!Phasing(s, e, Access!Unapplied \cup {"verify", "flush"})'
        BY <2>1 DEF Access!Phasing, Puts, Same, Access!Unapplied
      <3> QED BY <1>2, <3>1, <3>2 DEF Access!Cut
    <2> QED BY <2>3, <2>4, <2>5, <2>6, <2>7 DEF Access!Inductive
  <1>4. CASE Access!Count("fails") /\ Access!Done(t) /\ x8' = x8 /\ Access!Late("apply", TRUE)
    <2>1. PICK r : Puts(t, r) /\ r.pc = "idle" /\ r.op = "none"
      BY <1>4, AccDone
    <2>2. x10 \subseteq x10' /\ "apply" \in x10'
      BY <1>4, AccLate
    <2>3. Access!Types'
      BY <1>2, <1>4, <2>1, AccTyped, AccTypesKept, AccCounts
    <2>4. Access!Addresses'
      BY <1>1, <1>2, <2>1, <2>2, AddressesAside
    <2>5. Access!Reached'
      BY <1>1, <1>2, <2>1, <2>2, ReachedAside
    <2>6. Access!Revisions' /\ Access!Cut'
      BY <2>2 DEF Access!Cut, Access!Revisions
    <2> QED BY <2>3, <2>4, <2>5, <2>6 DEF Access!Inductive
  <1> QED BY <1>3, <1>4 DEF Access!ApplyTable

LEMMA AccVerifies ==
    ASSUME Access!Inductive, NEW t \in Threads, Access!VerifyTable(t)
    PROVE  Access!Inductive'
  <1>1. x11[t].pc = "verify" /\ UNCHANGED <<x1, x2, x3, x4, x5, x6, x7, x8, x9, x12>> /\ Access!Late("flush", x8.rev # x11[t].rev)
    BY DEF Access!VerifyTable, Access!At, Access!db, Access!host
  <1>2. x10 \subseteq x10' /\ (x8.rev # x11[t].rev => "flush" \in x10')
    BY <1>1, AccLate
  <1>3. PICK r : Puts(t, r) /\ r.pc \in {"idle", "flush"} /\ (x8.rev = x11[t].rev => r.pc = "flush" /\ Same(r, x11[t]))
    <2>1. CASE x8.rev = x11[t].rev
      <3>1. Access!Step(t, "flush")
        BY <2>1 DEF Access!VerifyTable
      <3> QED BY <3>1, AccSteps DEF Access!Pcs
    <2>2. CASE x8.rev # x11[t].rev
      <3>1. Access!Done(t)
        BY <2>2 DEF Access!VerifyTable
      <3> QED BY <2>2, <3>1, AccDone
    <2> QED BY <2>1, <2>2
  <1>4. Access!Types'
    BY <1>1, <1>3, AccTyped, AccTypesKept
  <1>5. Access!Addresses'
    BY <1>1, <1>2, <1>3, AddressesAside
  <1>6. Access!Reached'
    BY <1>1, <1>2, <1>3, ReachedAside
  <1>7. Access!Revisions'
    BY <1>1, <1>2, <1>3, RevisionsAside
  <1>8. Access!Cut'
    <2>1. CASE x8.rev = x11[t].rev
      <3>1. Stays(t, r)
        BY <1>1, <1>3, <2>1 DEF Stays, Access!Unapplied, Same
      <3> QED BY <1>1, <1>2, <1>3, <3>1, CutAside
    <2>2. CASE x8.rev # x11[t].rev
      BY <1>2, <2>2 DEF Access!Cut
    <2> QED BY <2>1, <2>2
  <1> QED BY <1>4, <1>5, <1>6, <1>7, <1>8 DEF Access!Inductive

LEMMA AccFlushes ==
    ASSUME Access!Inductive, NEW t \in Threads, Access!FlushConnections(t)
    PROVE  Access!Inductive'
  <1>1. x11[t].pc = "flush" /\ Access!Done(t) /\ UNCHANGED <<x1, x2, x3, x4, x5, x6, x7, x8>>
    BY DEF Access!FlushConnections, Access!At, Access!db
  <1>2. PICK r : Puts(t, r) /\ r.pc = "idle" /\ r.op = "none"
    BY <1>1, AccDone
  <1>3. /\ x9' \subseteq x9 /\ x12' \in AccSpent /\ x10 \subseteq x10'
        /\ \/ "flush" \in x10'
           \/ x11[t].op = "phase" => \A f \in x9' : PlaysIn[f[2]] # x11[t].who
    <2>1. CASE /\ x9' = CASE x11[t].op = "phase" -> {f \in x9 : PlaysIn[f[2]] # x11[t].who}
                          [] x11[t].op = "ban" -> {f \in x9 : f[2] # x11[t].who}
                          [] OTHER -> x9
               /\ UNCHANGED <<x10, x12>>
      BY <2>1, AccTyped
    <2>2. CASE Access!Count("fails") /\ x9' = x9 /\ Access!Late("flush", TRUE)
      BY <2>2, AccCounts, AccLate
    <2> QED BY <2>1, <2>2 DEF Access!FlushConnections
  <1>4. Access!Types'
    <2>1. x9' \subseteq PlayingTeams \X PlayingTeams
      BY <1>3, AccTyped
    <2> QED BY <1>1, <1>2, <1>3, <2>1, AccTyped, AccTypesKept
  <1>5. Access!Addresses'
    BY <1>1, <1>2, <1>3, AddressesAside
  <1>6. Access!Reached'
    BY <1>1, <1>2, <1>3, ReachedAside
  <1>7. Access!Revisions'
    BY <1>1, <1>2, <1>3, RevisionsAside
  <1>8. Access!Cut'
    <2> SUFFICES ASSUME x10' \cap {"flush", "stale", "clash", "apply", "crash"} = {} PROVE Access!Cut'
      BY DEF Access!Cut
    <2>1. x10 \cap {"flush", "stale", "clash", "apply", "crash"} = {} /\ Access!Cut
      BY <1>3 DEF Access!Inductive
    <2>2. x11[t].op = "phase" => \A f \in x9' : PlaysIn[f[2]] # x11[t].who
      BY <1>3
    <2>3. \A s \in Threads, e \in PlayingEvents : Access!Phasing(s, e, Access!Unapplied) => Access!Phasing(s, e, Access!Unapplied)'
      BY <1>1, <1>2 DEF Access!Phasing, Puts, Access!Unapplied
    <2>4. \A s \in Threads, e \in PlayingEvents :
            s # t /\ Access!Phasing(s, e, Access!Unapplied \cup {"verify", "flush"})
              => Access!Phasing(s, e, Access!Unapplied \cup {"verify", "flush"})'
      BY <1>2 DEF Access!Phasing, Puts
    <2>5. \A e \in PlayingEvents : Access!Phasing(t, e, Access!Unapplied \cup {"verify", "flush"}) => ~\E f \in x9' : PlaysIn[f[2]] = e
      BY <2>2 DEF Access!Phasing
    <2> QED BY <1>1, <1>3, <2>1, <2>3, <2>4, <2>5 DEF Access!Cut
  <1> QED BY <1>4, <1>5, <1>6, <1>7, <1>8 DEF Access!Inductive

LEMMA AccEnsures ==
    ASSUME Access!Inductive, NEW t \in Threads, NEW u \in Members, Access!EnsurePeer(t, u)
    PROVE  Access!Inductive'
  <1>1. /\ x11[t].pc = "idle" /\ x11' = [x11 EXCEPT ![t] = [Access!Idle EXCEPT !.pc = "insert", !.who = u, !.host = x5[PlaysFor[u]]]]
        /\ UNCHANGED <<x1, x2, x3, x4, x5, x6, x7, x8, x9, x10>> /\ x12' \in AccSpent
    BY AccCounts DEF Access!EnsurePeer, Access!At, Access!db, Access!host
  <1>2. x11 \in [Threads -> Access!Locals] /\ PlaysFor[u] \in PlayingTeams /\ x5[PlaysFor[u]] \in Nat
    BY AccTyped, OpsConstants
  <1>3. PICK r : r = [Access!Idle EXCEPT !.pc = "insert", !.who = u, !.host = x5[PlaysFor[u]]]
    OBVIOUS
  <1>4. r \in Access!Locals /\ r.pc = "insert" /\ r.who = u /\ r.host = x5[PlaysFor[u]]
    BY <1>2, <1>3, AccIdle DEF Access!Locals, Access!Pcs, Access!Idle
  <1>5. Puts(t, r)
    BY <1>1, <1>2, <1>3, <1>4, PutsIs
  <1>6. Access!Types'
    BY <1>1, <1>5, AccTyped, AccTypesKept
  <1>7. Access!Addresses'
    <2> SUFFICES ASSUME "crash" \notin x10' PROVE Access!Addresses'
      BY DEF Access!Addresses
    <2>1. "crash" \notin x10 /\ Access!Addresses
      BY <1>1 DEF Access!Inductive
    <2>2. x5[PlaysFor[u]] >= 1
      BY <1>2, <2>1 DEF Access!Addresses
    <2>3. r.host \in 1..x5[PlaysFor[r.who]]
      BY <1>2, <1>4, <2>2
    <2>4. x11'[t] = r /\ \A s \in Threads : s # t => x11'[s] = x11[s]
      BY <1>5 DEF Puts
    <2>5. \A s \in Threads : x11'[s].pc = "bump" <=> x11[s].pc = "bump"
      BY <1>1, <1>4, <2>4
    <2>6. \A s \in Threads : x11[s].pc = "bump" => x11'[s] = x11[s]
      BY <1>1, <2>4
    <2>7. \A s \in Threads : x11'[s].pc = "insert" => x11'[s].host \in 1..x5[PlaysFor[x11'[s].who]]
      BY <2>1, <2>3, <2>4 DEF Access!Addresses, Access!At
    <2> QED BY <1>1, <2>1, <2>5, <2>6, <2>7 DEF Access!Addresses, Access!At
  <1>8. Access!Reached'
    BY <1>1, <1>5, ReachedAside
  <1>9. Access!Revisions'
    BY <1>1, <1>4, <1>5, RevisionsAside
  <1>10. Stays(t, r)
    BY <1>1 DEF Stays, Access!Unapplied
  <1>11. Access!Cut'
    BY <1>1, <1>5, <1>10, CutAside
  <1> QED BY <1>6, <1>7, <1>8, <1>9, <1>11 DEF Access!Inductive

(* The address is free, hence the next one, and no one else is about to    *)
(* count it.                                                               *)
LEMMA FreeIsNext ==
    ASSUME Access!Inductive, "crash" \notin x10, NEW t \in Threads, x11[t].pc = "insert",
           ~\E v \in Members : PlaysFor[v] = PlaysFor[x11[t].who] /\ x4[v] = x11[t].host
    PROVE  /\ x11[t].host = x5[PlaysFor[x11[t].who]] /\ x11[t].host >= 1
           /\ \A s \in Threads : x11[s].pc = "bump" => PlaysFor[x11[s].who] # PlaysFor[x11[t].who]
  <1>1. PICK x \in PlayingTeams : x = PlaysFor[x11[t].who]
    BY AccRoles, OpsConstants
  <1>2. x11[t].host \in 1..x5[x] /\ x5[x] \in Nat
    BY <1>1, AccTyped DEF Access!Inductive, Access!Addresses, Access!At
  <1>3. \A h \in 1..(x5[x] - 1) : \E u \in Members : PlaysFor[u] = x /\ x4[u] = h
    BY DEF Access!Inductive, Access!Addresses
  <1>4. x11[t].host = x5[x]
    <2> SUFFICES ASSUME x11[t].host # x5[x] PROVE FALSE
      OBVIOUS
    <2>1. x11[t].host \in 1..(x5[x] - 1)
      BY <1>2
    <2> QED BY <1>1, <1>3, <2>1
  <1>5. \A s \in Threads : x11[s].pc = "bump" => PlaysFor[x11[s].who] # x
    <2> SUFFICES ASSUME NEW s \in Threads, x11[s].pc = "bump", PlaysFor[x11[s].who] = x PROVE FALSE
      OBVIOUS
    <2>1. x11[s].who \in Members /\ x4[x11[s].who] = x11[s].host /\ x11[s].host = x5[x]
      BY AccRoles DEF Access!Inductive, Access!Addresses, Access!At
    <2> QED BY <1>1, <1>4, <2>1
  <1> QED BY <1>1, <1>2, <1>4, <1>5

LEMMA AccInserts ==
    ASSUME Access!Inductive, NEW t \in Threads, Access!InsertPeer(t)
    PROVE  Access!Inductive'
  <1>1. x11[t].pc = "insert" /\ UNCHANGED <<x1, x2, x3, x5, x6, x7, x8, x9, x10, x12>>
    BY DEF Access!InsertPeer, Access!At, Access!host
  <1>2. PICK u \in Members : u = x11[t].who
    BY <1>1, AccRoles
  <1>3. x11[t].host \in Nat /\ x4 \in [Members -> Nat]
    BY AccTyped DEF Access!Locals
  <1>4. CASE x4[u] # 0 \/ \E v \in Members : PlaysFor[v] = PlaysFor[u] /\ x4[v] = x11[t].host
    <2>1. Access!Done(t) /\ x4' = x4
      BY <1>2, <1>4 DEF Access!InsertPeer
    <2>2. PICK r : Puts(t, r) /\ r.pc = "idle" /\ r.op = "none"
      BY <2>1, AccDone
    <2>3. Access!Types'
      BY <1>1, <2>1, <2>2, AccTyped, AccTypesKept
    <2>4. Access!Addresses'
      BY <1>1, <2>1, <2>2, AddressesAside
    <2>5. Access!Reached'
      BY <1>1, <2>1, <2>2, ReachedAside
    <2>6. Access!Revisions'
      BY <1>1, <2>2, RevisionsAside
    <2>7. Stays(t, r)
      BY <1>1 DEF Stays, Access!Unapplied
    <2>8. Access!Cut'
      BY <1>1, <2>2, <2>7, CutAside
    <2> QED BY <2>3, <2>4, <2>5, <2>6, <2>8 DEF Access!Inductive
  <1>5. CASE ~(x4[u] # 0 \/ \E v \in Members : PlaysFor[v] = PlaysFor[u] /\ x4[v] = x11[t].host)
    <2>1. Access!Step(t, "bump") /\ x4' = [x4 EXCEPT ![u] = x11[t].host]
      BY <1>2, <1>5 DEF Access!InsertPeer
    <2>2. PICK r : Puts(t, r) /\ r.pc = "bump" /\ Same(r, x11[t])
      BY <1>2, <2>1, AccSteps DEF Access!Pcs
    <2>3. x4[u] = 0 /\ x4' \in [Members -> Nat] /\ x4'[u] = x11[t].host /\ \A v \in Members : v # u => x4'[v] = x4[v]
      BY <1>3, <1>5, <2>1
    <2>4. Access!Types'
      BY <1>1, <2>2, <2>3, AccTyped, AccTypesKept
    <2>5. Access!Addresses'
      <3> SUFFICES ASSUME "crash" \notin x10' PROVE Access!Addresses'
        BY DEF Access!Addresses
      <3>1. "crash" \notin x10 /\ Access!Addresses
        BY <1>1 DEF Access!Inductive
      <3>2. /\ x11[t].host = x5[PlaysFor[u]] /\ x11[t].host >= 1
            /\ \A s \in Threads : x11[s].pc = "bump" => PlaysFor[x11[s].who] # PlaysFor[u]
        BY <1>1, <1>2, <1>5, <3>1, FreeIsNext
      <3>3. x11'[t] = r /\ r.who = u /\ r.host = x11[t].host /\ \A s \in Threads : s # t => x11'[s] = x11[s]
        BY <1>2, <2>2 DEF Puts, Same
      <3>4. \A x \in PlayingTeams : \A h \in 1..(x5[x] - 1) : \E v \in Members : PlaysFor[v] = x /\ x4'[v] = h
        <4> SUFFICES ASSUME NEW x \in PlayingTeams, NEW h \in 1..(x5[x] - 1) PROVE \E v \in Members : PlaysFor[v] = x /\ x4'[v] = h
          OBVIOUS
        <4>1. PICK v \in Members : PlaysFor[v] = x /\ x4[v] = h
          BY <3>1 DEF Access!Addresses
        <4>2. v # u
          BY <2>3, <4>1, AccTyped
        <4> QED BY <2>3, <4>1, <4>2
      <3>5. \A s \in Threads : x11'[s].pc = "insert" => x11'[s].host \in 1..x5[PlaysFor[x11'[s].who]]
        BY <2>2, <3>1, <3>3 DEF Access!Addresses, Access!At
      <3>6. \A s \in Threads : x11'[s].pc = "bump" => x4'[x11'[s].who] = x11'[s].host /\ x11'[s].host = x5[PlaysFor[x11'[s].who]]
        <4> SUFFICES ASSUME NEW s \in Threads, x11'[s].pc = "bump", s # t
                     PROVE  x4'[x11'[s].who] = x11'[s].host /\ x11'[s].host = x5[PlaysFor[x11'[s].who]]
          BY <2>3, <3>2, <3>3
        <4>1. x11[s].who \in Members /\ x11[s].who # u /\ x11'[s] = x11[s] /\ x11[s].pc = "bump"
          BY <3>2, <3>3, AccRoles
        <4>2. x4[x11[s].who] = x11[s].host /\ x11[s].host = x5[PlaysFor[x11[s].who]]
          BY <3>1, <4>1 DEF Access!Addresses, Access!At
        <4> QED BY <2>3, <4>1, <4>2
      <3>7. \A s, q \in Threads : x11'[s].pc = "bump" /\ x11'[q].pc = "bump" /\ PlaysFor[x11'[s].who] = PlaysFor[x11'[q].who] => s = q
        BY <3>1, <3>2, <3>3 DEF Access!Addresses, Access!At
      <3>8. \A v \in Members : x4'[v] < x5[PlaysFor[v]] \/ \E s \in Threads : x11'[s].pc = "bump" /\ x11'[s].who = v
        <4> SUFFICES ASSUME NEW v \in Members, v # u PROVE x4'[v] < x5[PlaysFor[v]] \/ \E s \in Threads : x11'[s].pc = "bump" /\ x11'[s].who = v
          BY <2>2, <3>3
        <4>1. x4[v] < x5[PlaysFor[v]] \/ \E s \in Threads : x11[s].pc = "bump" /\ x11[s].who = v
          BY <3>1 DEF Access!Addresses, Access!At
        <4> QED BY <1>1, <2>3, <3>3, <4>1
      <3>9. \A x \in PlayingTeams : x5[x] >= 1
        BY <3>1 DEF Access!Addresses
      <3> QED BY <1>1, <3>4, <3>5, <3>6, <3>7, <3>8, <3>9 DEF Access!Addresses, Access!At
    <2>6. Access!Reached'
      <3> SUFFICES ASSUME x10' \cap {"host", "crash", "suspend"} = {} PROVE Access!Reached'
        BY DEF Access!Reached
      <3>1. x10 \cap {"host", "crash", "suspend"} = {} /\ Access!Reached
        BY <1>1 DEF Access!Inductive
      <3>2. \A s \in Threads, v \in Members : Access!Bringing(s, v) => Access!Bringing(s, v)'
        BY <1>1, <2>2 DEF Access!Bringing, Access!At, Puts
      <3>3. Access!Bringing(t, u)'
        BY <1>2, <2>2 DEF Access!Bringing, Access!At, Puts, Same
      <3> QED BY <1>1, <2>3, <3>1, <3>2, <3>3 DEF Access!Reached
    <2>7. Access!Revisions'
      BY <1>1, <2>2, RevisionsAside
    <2>8. Stays(t, r)
      BY <1>1 DEF Stays, Access!Unapplied
    <2>9. Access!Cut'
      BY <1>1, <2>2, <2>8, CutAside
    <2> QED BY <2>4, <2>5, <2>6, <2>7, <2>9 DEF Access!Inductive
  <1> QED BY <1>4, <1>5

LEMMA AccBumps ==
    ASSUME Access!Inductive, NEW t \in Threads, Access!BumpNextHost(t)
    PROVE  Access!Inductive'
  <1>1. x11[t].pc = "bump" /\ Access!Step(t, "add") /\ x5' = [x5 EXCEPT ![PlaysFor[x11[t].who]] = x11[t].host + 1]
        /\ UNCHANGED <<x1, x2, x3, x4, x6, x7, x8, x9, x10, x12>>
    BY DEF Access!BumpNextHost, Access!At, Access!host
  <1>2. PICK u \in Members : u = x11[t].who
    BY <1>1, AccRoles
  <1>3. PICK x \in PlayingTeams : x = PlaysFor[u]
    BY OpsConstants
  <1>4. PICK r : Puts(t, r) /\ r.pc = "add" /\ Same(r, x11[t])
    BY <1>1, <1>2, AccSteps DEF Access!Pcs
  <1>5. x11[t].host \in Nat /\ x5 \in [PlayingTeams -> Nat] /\ x4 \in [Members -> Nat]
    BY AccTyped DEF Access!Locals
  <1>6. x5' \in [PlayingTeams -> Nat] /\ x5'[x] = x11[t].host + 1 /\ \A y \in PlayingTeams : y # x => x5'[y] = x5[y]
    BY <1>1, <1>2, <1>3, <1>5
  <1>7. Access!Types'
    BY <1>1, <1>4, <1>6, AccTyped, AccTypesKept
  <1>8. Access!Addresses'
    <2> SUFFICES ASSUME "crash" \notin x10' PROVE Access!Addresses'
      BY DEF Access!Addresses
    <2>1. "crash" \notin x10 /\ Access!Addresses
      BY <1>1 DEF Access!Inductive
    <2>2. x4[u] = x11[t].host /\ x11[t].host = x5[x]
      BY <1>1, <1>2, <1>3, <2>1 DEF Access!Addresses, Access!At
    <2>3. x5'[x] = x5[x] + 1 /\ x5[x] \in Nat
      BY <1>5, <1>6, <2>2
    <2>4. x11'[t].pc = "add" /\ \A s \in Threads : s # t => x11'[s] = x11[s]
      BY <1>4 DEF Puts
    <2>5. \A s \in Threads : x11'[s].pc = "bump" => s # t /\ x11'[s] = x11[s] /\ PlaysFor[x11[s].who] \in PlayingTeams /\ PlaysFor[x11[s].who] # x
      <3> SUFFICES ASSUME NEW s \in Threads, x11'[s].pc = "bump"
                   PROVE  s # t /\ x11'[s] = x11[s] /\ PlaysFor[x11[s].who] \in PlayingTeams /\ PlaysFor[x11[s].who] # x
        OBVIOUS
      <3>1. s # t /\ x11'[s] = x11[s] /\ x11[s].pc = "bump"
        BY <2>4
      <3>2. PlaysFor[x11[s].who] \in PlayingTeams
        BY <3>1, AccRoles, OpsConstants
      <3>3. PlaysFor[x11[s].who] # PlaysFor[x11[t].who]
        BY <1>1, <2>1, <3>1 DEF Access!Addresses, Access!At
      <3> QED BY <1>2, <1>3, <3>1, <3>2, <3>3
    <2>6. \A y \in PlayingTeams : x5'[y] >= 1 /\ x5'[y] >= x5[y] /\ x5[y] \in Nat /\ x5'[y] \in Nat
      <3>1. \A y \in PlayingTeams : x5[y] >= 1
        BY <2>1 DEF Access!Addresses
      <3> QED BY <1>5, <1>6, <2>3, <3>1
    <2>7. \A y \in PlayingTeams : \A h \in 1..(x5'[y] - 1) : \E v \in Members : PlaysFor[v] = y /\ x4[v] = h
      <3> SUFFICES ASSUME NEW y \in PlayingTeams, NEW h \in 1..(x5'[y] - 1) PROVE \E v \in Members : PlaysFor[v] = y /\ x4[v] = h
        OBVIOUS
      <3>1. CASE y = x /\ h = x5[x]
        BY <1>3, <2>2, <3>1
      <3>2. CASE ~(y = x /\ h = x5[x])
        <4>1. h \in 1..(x5[y] - 1)
          BY <1>6, <2>3, <2>6, <3>2
        <4> QED BY <2>1, <4>1 DEF Access!Addresses
      <3> QED BY <3>1, <3>2
    <2>8. \A s \in Threads : x11'[s].pc = "insert" => x11'[s].host \in 1..x5'[PlaysFor[x11'[s].who]]
      <3> SUFFICES ASSUME NEW s \in Threads, x11'[s].pc = "insert" PROVE x11'[s].host \in 1..x5'[PlaysFor[x11'[s].who]]
        OBVIOUS
      <3>1. x11'[s] = x11[s] /\ x11[s].pc = "insert"
        BY <2>4
      <3>2. PICK y \in PlayingTeams : y = PlaysFor[x11[s].who]
        BY <3>1, AccRoles, OpsConstants
      <3>3. x11[s].host \in 1..x5[y]
        BY <2>1, <3>1, <3>2 DEF Access!Addresses, Access!At
      <3>4. x11[s].host \in 1..x5'[y]
        BY <2>6, <3>3
      <3> QED BY <3>1, <3>2, <3>4
    <2>9. \A s \in Threads : x11'[s].pc = "bump" => x4[x11'[s].who] = x11'[s].host /\ x11'[s].host = x5'[PlaysFor[x11'[s].who]]
      <3> SUFFICES ASSUME NEW s \in Threads, x11'[s].pc = "bump" PROVE x4[x11'[s].who] = x11'[s].host /\ x11'[s].host = x5'[PlaysFor[x11'[s].who]]
        OBVIOUS
      <3>1. x4[x11[s].who] = x11[s].host /\ x11[s].host = x5[PlaysFor[x11[s].who]]
        BY <2>1, <2>5 DEF Access!Addresses, Access!At
      <3> QED BY <1>6, <2>5, <3>1
    <2>10. \A s, q \in Threads : x11'[s].pc = "bump" /\ x11'[q].pc = "bump" /\ PlaysFor[x11'[s].who] = PlaysFor[x11'[q].who] => s = q
      BY <2>1, <2>5 DEF Access!Addresses, Access!At
    <2>11. \A v \in Members : x4[v] < x5'[PlaysFor[v]] \/ \E s \in Threads : x11'[s].pc = "bump" /\ x11'[s].who = v
      <3> SUFFICES ASSUME NEW v \in Members PROVE x4[v] < x5'[PlaysFor[v]] \/ \E s \in Threads : x11'[s].pc = "bump" /\ x11'[s].who = v
        OBVIOUS
      <3>1. CASE v = u
        <4>1. x4[u] < x5'[x]
          BY <2>2, <2>3
        <4> QED BY <1>3, <3>1, <4>1
      <3>2. CASE v # u
        <4>1. CASE x4[v] < x5[PlaysFor[v]]
          <5>1. PICK y \in PlayingTeams : y = PlaysFor[v]
            BY OpsConstants
          <5>2. x4[v] < x5'[y]
            BY <1>5, <2>6, <4>1, <5>1
          <5> QED BY <5>1, <5>2
        <4>2. CASE \E s \in Threads : x11[s].pc = "bump" /\ x11[s].who = v
          BY <1>2, <2>4, <3>2, <4>2
        <4> QED BY <2>1, <4>1, <4>2 DEF Access!Addresses, Access!At
      <3> QED BY <3>1, <3>2
    <2> QED BY <1>1, <2>6, <2>7, <2>8, <2>9, <2>10, <2>11 DEF Access!Addresses, Access!At
  <1>9. Access!Reached'
    <2> SUFFICES ASSUME x10' \cap {"host", "crash", "suspend"} = {} PROVE Access!Reached'
      BY DEF Access!Reached
    <2>1. x10 \cap {"host", "crash", "suspend"} = {} /\ Access!Reached
      BY <1>1 DEF Access!Inductive
    <2>2. \A s \in Threads, v \in Members : Access!Bringing(s, v) => Access!Bringing(s, v)'
      BY <1>1, <1>4 DEF Access!Bringing, Access!At, Puts, Same
    <2> QED BY <1>1, <2>1, <2>2 DEF Access!Reached
  <1>10. Access!Revisions'
    BY <1>1, <1>4, RevisionsAside
  <1>11. Stays(t, r)
    BY <1>1 DEF Stays, Access!Unapplied
  <1>12. Access!Cut'
    BY <1>1, <1>4, <1>11, CutAside
  <1> QED BY <1>7, <1>8, <1>9, <1>10, <1>12 DEF Access!Inductive

LEMMA AccAdds ==
    ASSUME Access!Inductive, NEW t \in Threads, Access!AddPeer(t)
    PROVE  Access!Inductive'
  <1>1. x11[t].pc = "add" /\ Access!Done(t) /\ UNCHANGED <<x1, x2, x3, x4, x5, x7, x8, x9>>
    BY DEF Access!AddPeer, Access!At, Access!db
  <1>2. PICK u \in Members : u = x11[t].who
    BY <1>1, AccRoles
  <1>3. PICK r : Puts(t, r) /\ r.pc = "idle" /\ r.op = "none"
    BY <1>1, AccDone
  <1>4. x6' \subseteq Members /\ x6 \subseteq x6' /\ x12' \in AccSpent /\ x10 \subseteq x10' /\ ("host" \in x10' \/ u \in x6')
    <2>1. CASE x6' = x6 \cup {x11[t].who} /\ UNCHANGED <<x10, x12>>
      BY <1>2, <2>1, AccTyped
    <2>2. CASE Access!Count("fails") /\ x6' = x6 /\ Access!Late("host", TRUE)
      BY <2>2, AccTyped, AccCounts, AccLate
    <2> QED BY <2>1, <2>2 DEF Access!AddPeer
  <1>5. Access!Types'
    BY <1>1, <1>3, <1>4, AccTyped, AccTypesKept
  <1>6. Access!Addresses'
    BY <1>1, <1>3, <1>4, AddressesAside
  <1>7. Access!Reached'
    <2> SUFFICES ASSUME x10' \cap {"host", "crash", "suspend"} = {} PROVE Access!Reached'
      BY DEF Access!Reached
    <2>1. x10 \cap {"host", "crash", "suspend"} = {} /\ Access!Reached /\ u \in x6'
      BY <1>4 DEF Access!Inductive
    <2>2. \A s \in Threads, v \in Members : s # t => (Access!Bringing(s, v) => Access!Bringing(s, v)')
      BY <1>3 DEF Access!Bringing, Access!At, Puts
    <2>3. \A v \in Members : Access!Bringing(t, v) => v = u
      BY <1>1, <1>2 DEF Access!Bringing, Access!At
    <2> QED BY <1>1, <1>4, <2>1, <2>2, <2>3 DEF Access!Reached
  <1>8. Access!Revisions'
    BY <1>1, <1>3, <1>4, RevisionsAside
  <1>9. Stays(t, r)
    BY <1>1 DEF Stays, Access!Unapplied
  <1>10. Access!Cut'
    BY <1>1, <1>3, <1>4, <1>9, CutAside
  <1> QED BY <1>5, <1>6, <1>7, <1>8, <1>10 DEF Access!Inductive

(* The table on the host lets no player of a silent event in.              *)
LEMMA SilentRefuses ==
    ASSUME Access!Inductive, NEW t \in PlayingTeams, NEW x \in PlayingTeams, PlaysIn[t] = PlaysIn[x],
           x8.policy[PlaysIn[x]] \in Access!Quiet, NEW o \in Access!OrdersOnHost
    PROVE  ~Access!Passes(Access!TableOnHost(o), Access!Player(t), Access!Box(x), FALSE)
  <1>1. PICK pol, banned : pol = x8.policy /\ banned = x8.banned
    OBVIOUS
  <1>2. Configured(pol, banned)
    BY <1>1, AccTyped DEF Configured, Access!Rendered
  <1>3. PICK e \in PlayingEvents : e = PlaysIn[x]
    BY OpsConstants
  <1>4. pol[e] \in Access!Quiet /\ e \in Access!InDesiredSet(pol)
    BY <1>1, <1>3 DEF Access!Quiet, Access!InDesiredSet
  <1>5. PICK a, b : a = Access!Player(t) /\ b = Access!Box(x)
    OBVIOUS
  <1>6. Within(e, a, b)
    <2>1. a \in Access!Players(e) /\ b \in Access!Boxes(e)
      BY <1>3, <1>5, Places
    <2>2. a # b /\ a # Access!Judge(e)
      BY <1>5 DEF Access!Player, Access!Box, Access!Judge
    <2> QED BY <2>1, <2>2 DEF Within
  <1>7. o \in Access!Orders(Access!InDesiredSet(pol)) /\ Access!TableOnHost(o) = Access!Table(o, pol, banned)
    BY <1>1 DEF Access!OrdersOnHost, Access!TableOnHost
  <1>8. Access!Passes(Access!Table(o, pol, banned), a, b, FALSE) <=> Access!MayConnect(pol[e], banned, a, b)
    BY <1>2, <1>4, <1>6, <1>7, TableDecides
  <1>9. ~Access!MayConnect(pol[e], banned, a, b)
    <2>1. a[1] = "player" /\ b[1] = "box" /\ pol[e] \notin {"Attack", "Hardening"}
      BY <1>4, <1>5 DEF Access!Player, Access!Box, Access!Quiet
    <2> QED BY <2>1 DEF Access!MayConnect
  <1> QED BY <1>5, <1>7, <1>8, <1>9

LEMMA AccConnects ==
    ASSUME Access!Inductive, NEW t \in PlayingTeams, NEW x \in PlayingTeams, Access!Connect(t, x)
    PROVE  Access!Inductive'
  <1>1. /\ PlaysIn[t] = PlaysIn[x] /\ x9' = x9 \cup {<<t, x>>}
        /\ UNCHANGED <<x1, x2, x3, x4, x5, x6, x7, x8, x10, x11, x12>>
    BY DEF Access!Connect, Access!db
  <1>2. PICK o \in Access!OrdersOnHost : Access!Passes(Access!TableOnHost(o), Access!Player(t), Access!Box(x), FALSE)
    BY DEF Access!Connect
  <1>3. x8.policy[PlaysIn[x]] \notin Access!Quiet
    BY <1>1, <1>2, SilentRefuses
  <1>4. Access!Types'
    <2>1. x9' \subseteq PlayingTeams \X PlayingTeams
      BY <1>1, AccTyped
    <2> QED BY <1>1, <2>1 DEF Access!Inductive, Access!Types, Access!TypeOK
  <1>5. Access!Addresses'
    BY <1>1 DEF Access!Inductive, Access!Addresses, Access!At
  <1>6. Access!Reached'
    BY <1>1 DEF Access!Inductive, Access!Reached, Access!Bringing, Access!At
  <1>7. Access!Revisions'
    BY <1>1 DEF Access!Inductive, Access!Revisions, Access!Announced, Access!Renders, Access!At
  <1>8. Access!Cut'
    <2> SUFFICES ASSUME x10' \cap {"flush", "stale", "clash", "apply", "crash"} = {} PROVE Access!Cut'
      BY DEF Access!Cut
    <2>1. x10 \cap {"flush", "stale", "clash", "apply", "crash"} = {} /\ Access!Cut
      BY <1>1 DEF Access!Inductive
    <2>2. \A s \in Threads, e \in PlayingEvents :
            /\ Access!Phasing(s, e, Access!Unapplied)' <=> Access!Phasing(s, e, Access!Unapplied)
            /\ Access!Phasing(s, e, Access!Unapplied \cup {"verify", "flush"})' <=> Access!Phasing(s, e, Access!Unapplied \cup {"verify", "flush"})
      BY <1>1 DEF Access!Phasing
    <2>3. \A s \in Threads, e \in PlayingEvents :
            Access!Phasing(s, e, Access!Unapplied) => Access!Phasing(s, e, Access!Unapplied \cup {"verify", "flush"})
      BY DEF Access!Phasing
    <2>4. \A e \in PlayingEvents : (\E f \in x9' : PlaysIn[f[2]] = e) => (\E f \in x9 : PlaysIn[f[2]] = e) \/ e = PlaysIn[x]
      BY <1>1
    <2> QED BY <1>1, <1>3, <2>1, <2>2, <2>3, <2>4 DEF Access!Cut
  <1> QED BY <1>4, <1>5, <1>6, <1>7, <1>8 DEF Access!Inductive

LEMMA AccCrashes ==
    ASSUME Access!Inductive, Access!Crash
    PROVE  Access!Inductive'
  <1>1. /\ x11' = [t \in Threads |-> Access!Idle] /\ Access!Late("crash", \E t \in Threads : x11[t].pc # "idle")
        /\ UNCHANGED <<x1, x2, x3, x4, x5, x6, x7, x8, x9>> /\ x12' \in AccSpent
    BY AccCounts DEF Access!Crash, Access!At, Access!db, Access!host
  <1>2. x10 \subseteq x10' /\ ((\E t \in Threads : x11[t].pc # "idle") => "crash" \in x10')
    BY <1>1, AccLate
  <1>3. x11' \in [Threads -> Access!Locals] /\ \A t \in Threads : x11'[t].pc = "idle"
    BY <1>1, AccIdle
  <1>4. Access!Types'
    <2>1. x12' \in [{"moves", "fails", "crashes"} -> Nat]
      BY <1>1 DEF AccSpent
    <2> QED BY <1>1, <1>3, <2>1 DEF Access!Inductive, Access!Types, Access!TypeOK
  <1>5. CASE "crash" \in x10'
    BY <1>4, <1>5 DEF Access!Inductive, Access!Addresses, Access!Reached, Access!Revisions, Access!Cut
  <1>6. CASE "crash" \notin x10'
    <2>1. \A t \in Threads : x11[t].pc = "idle"
      BY <1>2, <1>6
    <2>2. Access!Addresses'
      BY <1>1, <1>2, <1>3, <1>6, <2>1 DEF Access!Inductive, Access!Addresses, Access!At
    <2>3. Access!Reached'
      <3>1. \A s \in Threads, u \in Members : ~Access!Bringing(s, u)
        BY <2>1 DEF Access!Bringing, Access!At
      <3> QED BY <1>1, <1>2, <3>1 DEF Access!Inductive, Access!Reached
    <2>4. Access!Revisions'
      <3>1. ~Access!Announced
        BY <2>1 DEF Access!Announced
      <3>2. x10' \cap {"clash", "host", "apply", "crash"} = {} => x10 \cap {"clash", "host", "apply", "crash"} = {}
        BY <1>2
      <3>3. Access!Renders(x8) => Access!Renders(x8)'
        BY <1>1 DEF Access!Renders
      <3> QED BY <1>1, <1>3, <3>1, <3>2, <3>3 DEF Access!Inductive, Access!Revisions, Access!At
    <2>5. Access!Cut'
      <3>1. \A s \in Threads, e \in PlayingEvents : ~Access!Phasing(s, e, Access!Unapplied) /\ ~Access!Phasing(s, e, Access!Unapplied \cup {"verify", "flush"})
        BY <2>1 DEF Access!Phasing, Access!Unapplied
      <3>2. x10' \cap {"flush", "stale", "clash", "apply", "crash"} = {} => x10 \cap {"flush", "stale", "clash", "apply", "crash"} = {}
        BY <1>2
      <3> QED BY <1>1, <3>1, <3>2 DEF Access!Inductive, Access!Cut
    <2> QED BY <1>4, <2>2, <2>3, <2>4, <2>5 DEF Access!Inductive
  <1> QED BY <1>5, <1>6

LEMMA AccStutters ==
    ASSUME Access!Inductive, UNCHANGED Access!vars
    PROVE  Access!Inductive'
  <1>1. UNCHANGED <<x1, x2, x3, x4, x5, x6, x7, x8, x9, x10, x11, x12>>
    BY DEF Access!vars
  <1> QED BY <1>1 DEF Access!Inductive, Access!Types, Access!TypeOK, Access!Addresses, Access!Reached, Access!Bringing, Access!Revisions,
              Access!Announced, Access!Renders, Access!Cut, Access!Phasing, Access!At

LEMMA AccInit == ASSUME Access!Init PROVE Access!Inductive
  <1>1. /\ x1 \in AccessSettings /\ x2 = [e \in PlayingEvents |-> x1.phase] /\ x3 = [t \in PlayingTeams |-> 0] /\ x6 = x1.peers
        /\ x4 = [u \in Members |-> IF u \in x6 THEN 1 ELSE 0]
        /\ x5 = [t \in PlayingTeams |-> IF \E u \in x6 : PlaysFor[u] = t THEN 2 ELSE 1]
        /\ x7 = 1 /\ x8 = [rev |-> 1, policy |-> x2, banned |-> {}] /\ x9 = {} /\ x10 = {}
        /\ x11 = [t \in Threads |-> Access!Idle] /\ x12 = [moves |-> 0, fails |-> 0, crashes |-> 0]
    BY DEF Access!Init
  <1>2. x1.phase \in {"Attack", "Hardening"} /\ x6 \subseteq Members
    BY <1>1, AccSettings
  <1>3. x2 \in [PlayingEvents -> Access!Policies \cup {"off"}] /\ x8 \in Access!Rendered /\ x8.rev = 1 /\ x8.policy = x2 /\ x8.banned = {}
    BY <1>1, <1>2 DEF Access!Rendered, Access!Policies
  <1>4. x11 \in [Threads -> Access!Locals] /\ \A t \in Threads : x11[t].pc = "idle"
    BY <1>1, AccIdle
  <1>5. Access!Types
    <2>1. x12 \in [{"moves", "fails", "crashes"} -> Nat]
      BY <1>1
    <2> QED BY <1>1, <1>2, <1>3, <1>4, <2>1 DEF Access!Types, Access!TypeOK
  <1>6. Access!Addresses
    <2>1. \A x \in PlayingTeams : x5[x] \in {1, 2} /\ (x5[x] = 2 => \E u \in Members : PlaysFor[u] = x /\ x4[u] = 1)
      BY <1>1, <1>2
    <2>2. \A x \in PlayingTeams : \A h \in 1..(x5[x] - 1) : \E u \in Members : PlaysFor[u] = x /\ x4[u] = h
      <3> SUFFICES ASSUME NEW x \in PlayingTeams, NEW h \in 1..(x5[x] - 1) PROVE \E u \in Members : PlaysFor[u] = x /\ x4[u] = h
        OBVIOUS
      <3>1. x5[x] = 2 /\ h = 1
        BY <2>1
      <3> QED BY <2>1, <3>1
    <2>3. \A u \in Members : x4[u] < x5[PlaysFor[u]]
      <3> SUFFICES ASSUME NEW u \in Members PROVE x4[u] < x5[PlaysFor[u]]
        OBVIOUS
      <3>1. PlaysFor[u] \in PlayingTeams
        BY OpsConstants
      <3>2. CASE u \in x6
        BY <1>1, <3>1, <3>2
      <3>3. CASE u \notin x6
        BY <1>1, <2>1, <3>1, <3>3
      <3> QED BY <3>2, <3>3
    <2>4. \A x \in PlayingTeams : x5[x] >= 1
      BY <2>1
    <2> QED BY <1>4, <2>2, <2>3, <2>4 DEF Access!Addresses, Access!At
  <1>7. Access!Reached
    BY <1>1 DEF Access!Reached
  <1>8. Access!Revisions
    <2>1. Access!Renders(x8)
      BY <1>1, <1>3 DEF Access!Renders
    <2> QED BY <1>1, <1>3, <1>4, <2>1 DEF Access!Revisions, Access!At
  <1>9. Access!Cut
    BY <1>1, <1>3 DEF Access!Cut
  <1> QED BY <1>5, <1>6, <1>7, <1>8, <1>9 DEF Access!Inductive

LEMMA AccNext ==
    ASSUME Access!Inductive, [Access!Next]_(Access!vars)
    PROVE  Access!Inductive'
  <1>1. CASE \E t \in Threads : \E x \in PlayingTeams : Access!BanTeam(t, x) \/ Access!UnbanTeam(t, x)
    BY <1>1, AccBan, AccUnban
  <1>2. CASE \E t \in Threads : \E e \in PlayingEvents, p \in Access!Policies \cup {"off"} : Access!PhaseMoves(t, e, p)
    BY <1>2, AccMoves
  <1>3. CASE \E t \in Threads : \E u \in Members : Access!EnsurePeer(t, u)
    BY <1>3, AccEnsures
  <1>4. CASE \E t \in Threads : Access!SuspendTeamPeers(t) \/ Access!RestoreActivePeers(t) \/ Access!ReadRevision(t) \/ Access!WriteRevision(t)
    BY <1>4, AccSuspends, AccRestores, AccReads, AccWrites
  <1>5. CASE \E t \in Threads : Access!BuildDesiredState(t) \/ Access!ApplyTable(t) \/ Access!VerifyTable(t) \/ Access!FlushConnections(t)
    BY <1>5, AccBuilds, AccApplies, AccVerifies, AccFlushes
  <1>6. CASE \E t \in Threads : Access!InsertPeer(t) \/ Access!BumpNextHost(t) \/ Access!AddPeer(t)
    BY <1>6, AccInserts, AccBumps, AccAdds
  <1>7. CASE \E t, x \in PlayingTeams : Access!Connect(t, x)
    BY <1>7, AccConnects
  <1>8. CASE Access!Crash
    BY <1>8, AccCrashes
  <1>9. CASE UNCHANGED Access!vars
    BY <1>9, AccStutters
  <1> QED BY <1>1, <1>2, <1>3, <1>4, <1>5, <1>6, <1>7, <1>8, <1>9 DEF Access!Next

LEMMA AccIsolates == ASSUME Access!Inductive PROVE Access!Isolation
  <1>1. PICK pol, banned : pol = x8.policy /\ banned = x8.banned
    OBVIOUS
  <1>2. Configured(pol, banned)
    BY <1>1, AccTyped DEF Configured, Access!Rendered
  <1> SUFFICES ASSUME NEW o \in Access!OrdersOnHost, NEW e \in Access!InDesiredSet(x8.policy),
                      NEW a \in Access!Players(e) \cup Access!Boxes(e) \cup {Access!Judge(e)},
                      NEW b \in Access!Boxes(e) \cup Access!Infrastructure(e), a # b, ~(a = Access!Judge(e) /\ b = Access!Flag(e))
               PROVE  Access!Passes(Access!TableOnHost(o), a, b, FALSE) = Access!MayConnect(x8.policy[e], x8.banned, a, b)
    BY DEF Access!Isolation
  <1>3. Within(e, a, b)
    BY DEF Within
  <1>4. o \in Access!Orders(Access!InDesiredSet(pol)) /\ Access!TableOnHost(o) = Access!Table(o, pol, banned) /\ e \in Access!InDesiredSet(pol)
    BY <1>1 DEF Access!OrdersOnHost, Access!TableOnHost
  <1>5. Access!Passes(Access!Table(o, pol, banned), a, b, FALSE) <=> Access!MayConnect(pol[e], banned, a, b)
    BY <1>2, <1>3, <1>4, TableDecides
  <1>6. Access!Passes(Access!Table(o, pol, banned), a, b, FALSE) \in BOOLEAN
    BY DEF Access!Passes
  <1>7. Access!MayConnect(pol[e], banned, a, b) \in BOOLEAN
    BY DEF Access!MayConnect
  <1> QED BY <1>1, <1>4, <1>5, <1>6, <1>7

LEMMA AccResults ==
    ASSUME Access!Inductive
    PROVE  /\ Access!Isolation /\ Access!RevisionTellsStale /\ Access!ConnectionsCut /\ Access!NextHostFree
           /\ Access!ActiveReachable /\ Access!TypeOK
  <1>1. Access!RevisionTellsStale
    <2> SUFFICES ASSUME Access!AllIdle, x8.rev = x7, x10 \cap {"clash", "host", "apply", "crash"} = {} PROVE Access!Renders(x8)
      BY DEF Access!RevisionTellsStale, Access!Renders
    <2>1. ~Access!Announced
      BY DEF Access!AllIdle, Access!Announced, Access!At
    <2> QED BY <2>1 DEF Access!Inductive, Access!Revisions
  <1>2. Access!ConnectionsCut
    <2> SUFFICES ASSUME Access!AllIdle, x10 \cap {"flush", "stale", "clash", "apply", "crash"} = {},
                        NEW f \in x9, x2[PlaysIn[f[2]]] \in Access!Quiet
                 PROVE  FALSE
      BY DEF Access!ConnectionsCut, Access!QuietFlows
    <2>1. PlaysIn[f[2]] \in PlayingEvents
      <3>1. f \in PlayingTeams \X PlayingTeams
        BY AccTyped
      <3> QED BY <3>1, OpsConstants
    <2>2. PICK t \in Threads : Access!Phasing(t, PlaysIn[f[2]], Access!Unapplied \cup {"verify", "flush"})
      BY <2>1 DEF Access!Inductive, Access!Cut
    <2> QED BY <2>2 DEF Access!AllIdle, Access!At, Access!Phasing, Access!Unapplied
  <1>3. Access!NextHostFree
    BY DEF Access!Inductive, Access!Addresses, Access!NextHostFree
  <1>4. Access!ActiveReachable
    <2> SUFFICES ASSUME Access!AllIdle, x10 \cap {"host", "crash", "suspend"} = {}, NEW u \in Members, x4[u] # 0, x3[PlaysFor[u]] = 0
                 PROVE  u \in x6
      BY DEF Access!ActiveReachable
    <2>1. \A t \in Threads : ~Access!Bringing(t, u)
      BY DEF Access!AllIdle, Access!At, Access!Bringing
    <2> QED BY <2>1 DEF Access!Inductive, Access!Reached
  <1>5. Access!TypeOK
    BY DEF Access!Inductive, Access!Types
  <1> QED BY <1>1, <1>2, <1>3, <1>4, <1>5, AccIsolates

----------------------------------------------------------------------------
(* In the scene of the access control the inductive invariant of AwdAccess *)
(* holds.                                                                  *)
AccessInv == scene = "access" => Access!Inductive

LEMMA AccessSteps ==
  ASSUME [Next]_vars PROVE scene' = scene /\ (scene = "access" => [Access!Next]_(Access!vars))
  <1>1. CASE InAccess(Access!Next) BY <1>1 DEF InAccess
  <1>2. CASE UNCHANGED vars BY <1>2 DEF vars, Access!vars
  <1> QED BY <1>1, <1>2 DEF Next, InReset, InPrep, InTokens, InAddr

(* For any events, teams, members and requests in flight: the table        *)
(* decides a new connection within an event as that event's policy says, a *)
(* table that is stale does not carry the current revision, a silent event *)
(* keeps no connection, the address a team hands out next is free, and the *)
(* active peers of a team that is not banned are on the host; and the      *)
(* tokens stay current.                                                    *)
THEOREM AccessAlwaysHolds == Spec => []AccessHolds
  <1>1. Init => AccessInv BY AccInit DEF Init, AccessInv
  <1>2. AccessInv /\ [Next]_vars => AccessInv' BY AccessSteps, AccNext DEF AccessInv
  <1>3. Init => TokensInv BY TokInit DEF Init, TokensInv
  <1>4. TokensInv /\ [Next]_vars => TokensInv' BY TokenSteps, TokNext DEF TokensInv
  <1>5. AccessInv /\ TokensInv => AccessHolds
    BY AccResults, TokResults DEF AccessInv, TokensInv, AccessHolds, TokensCurrent
  <1> QED BY <1>1, <1>2, <1>3, <1>4, <1>5, PTL DEF Spec
=============================================================================

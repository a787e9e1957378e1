----------------------------- MODULE MCServices -----------------------------
(***************************************************************************)
(* What surrounds the matches, for TLC, as far as it is about safety.      *)
(* Schedules: behaviours of EventSchedule (when an AWD event starts) and   *)
(* of AwdpSchedule (how long the phases of AWDP are). Jeopardy: behaviours *)
(* of JeopardyScoring (with EventRoster). Identity: of OidcGrants          *)
(* (authorization transactions, codes, tokens and consents), of            *)
(* OidcClients (registered applications), of OidcAccounts (the accounts of *)
(* a browser) and of AccessControl (accounts, credentials and roles). The  *)
(* platform: of ChallengeCatalogue and of GameboxLibrary (content          *)
(* packages), of Realtime (the event bus), of Settings (the table, its     *)
(* copy and its templates), of RateLimiter, of StorageStartup, of          *)
(* Community (discussions, write-ups, sets, announcements, files) and of   *)
(* the privileged helper (HelperNetwork, HelperDocker). A behaviour is of  *)
(* one of them, its scene: the variables x1, x2, ... stand for that        *)
(* component's.                                                            *)
(***************************************************************************)
EXTENDS Integers, Sequences, FiniteSets

CONSTANTS Threads,
          Players, Teams,                                          \* JeopardyScoring
          Users, Scopes, Txns,                                     \* OidcGrants, Community
          MaxOps,                                                  \* OidcClients
          Tabs, Containers, Sessions,                              \* OidcAccounts
          Staff, Roles, Permissions, Super,                        \* AccessControl
          OtherBoxes, LastOffset,                                  \* GameboxLibrary
          Nodes, Events, Streams, Capacity,                        \* Realtime
          Readers, Writers, TTL, Slow, MaxFaults, MaxWrites,       \* Settings
          Window, DefaultLimit, MaxTime, MaxCalls, MaxDelay, Skews, \* RateLimiter
          MaxAttempts, TotalDeadline, InitialBackoff, MaxBackoff,  \* StorageStartup
          Jitter, Durations, MaxBoots,
          Rulesets, Names                                          \* the helper

VARIABLES scene,  \* the component this behaviour is about, chosen once
          \* its variables, in the order of its INSTANCE
          x1, x2, x3, x4, x5, x6, x7, x8, x9, x10, x11, x12, x13, x14

vars == <<scene, x1, x2, x3, x4, x5, x6, x7, x8, x9, x10, x11, x12, x13, x14>>

\* Points of a challenge after n solves, for two base values.
Worth == [b \in {8, 4} |-> [n \in 0..3 |-> IF b = 8 THEN 8 - 2 * n ELSE 4 - n]]

NoTeams == [u \in Players |-> [team |-> "none", role |-> "none"]]
Pair == [u \in Players |-> CASE u = "u" -> [team |-> "a", role |-> "captain"]
                           [] u = "v" -> [team |-> "b", role |-> "captain"]
                           [] OTHER -> [team |-> "none", role |-> "none"]]
Event(mode, threads, admins, limit, clockAt, enrolled, roster) ==
    [mode |-> mode, threads |-> threads, admins |-> admins, requests |-> limit,
     clock |-> clockAt, enrolled |-> enrolled, roster |-> roster]
\* One request at a time with administrators, players that overlap, an
\* administrator and a player that overlap, in team and individual events.
RosterSettings ==
    {Event("team", {"t1"}, {"t1"}, 5, "before", {}, NoTeams),
     Event("team", Threads, {}, 4, "before", {"u", "v"}, Pair),
     Event("team", Threads, {"t2"}, 4, "ongoing", {"u", "v"}, Pair),
     Event("individual", {"t1"}, {"t1"}, 4, "before", {}, NoTeams),
     Event("individual", Threads, {"t2"}, 4, "ongoing", {"u", "v"}, NoTeams),
     Event("individual", Threads, {}, 3, "ongoing", {"u", "v"}, NoTeams)}

Request(select, fresh, consent, none, hint, login, scopes) ==
    [select |-> select, fresh |-> fresh, consent |-> consent, none |-> none, hint |-> hint,
     login |-> login, scopes |-> scopes, challenge |-> "email" \in scopes, nonce |-> TRUE]
Plain(scopes) == Request(FALSE, FALSE, FALSE, FALSE, "none", "none", scopes)
Choose(scopes) == Request(TRUE, FALSE, FALSE, FALSE, "none", "none", scopes)
Web(requested, txns, chooser, accounts, consented, logs, tabs, apps, asked, pages, exchanges,
    revokes, changes) ==
    [req |-> requested, chooser |-> chooser, accounts |-> accounts, consented |-> consented,
     tabs |-> tabs, apps |-> apps, requests |-> asked, pages |-> pages, exchanges |-> exchanges,
     revokes |-> revokes, changes |-> changes, logins |-> logs, txns |-> txns,
     pkce |-> FALSE]
\* Two tabs at the chooser; two transactions of one application and a
\* revocation; a code that is presented three times by two servers of the
\* application; a fresh login for the account id_token_hint names; prompt=none
\* and the single-account mode.
GrantSettings ==
    {Web({Choose({"openid"})}, {"x"}, TRUE, {"u", "v"}, {"u"}, 1, Threads, {}, 4, 2, 0, 0, 0),
     Web({Plain({"openid", "email"})}, Txns, TRUE, {"u"}, {}, 1, {"t1"}, {"t2"}, 6, 1, 1, 1, 0),
     Web({Plain({"openid", "email"})}, {"x"}, TRUE, {"u"}, {"u"}, 1, {"t1"}, Threads, 1, 0, 3, 0, 1),
     Web({Request(FALSE, TRUE, TRUE, FALSE, "v", "none", {"openid"})}, {"x"}, TRUE, {"u", "v"}, {"v"},
         2, Threads, {}, 4, 2, 0, 0, 1),
     Web({Choose({"openid"}), Request(FALSE, FALSE, FALSE, TRUE, "none", "u", {"openid"})}, {"x"},
         FALSE, {"u", "v"}, {"u"}, 1, Threads, {}, 3, 2, 0, 0, 1)}

Browser(legacy, tabs, kinds, asked, limit) ==
    [legacy |-> legacy, first |-> "u", tabs |-> tabs, ops |-> kinds, requests |-> asked,
     max |-> limit]
\* One tab with every request, one that starts from the cookie of the
\* single-account mode, two tabs that overlap.
Setups ==
    {Browser(FALSE, {"t1"}, {"login", "migrate", "bridge", "restore", "select", "logout", "logout_all"},
             4, 2),
     Browser(TRUE, {"t1"}, {"login", "restore", "select", "logout", "bridge"}, 3, 1),
     Browser(TRUE, {"t1", "t2"}, {"login", "select", "logout", "logout_all", "restore"}, 3, 2)}

Body(target, s) == [target |-> target, set |-> s]
Grants3(a, b, d) == [a |-> a, b |-> b, d |-> d]
Office(grants, defined, who, missing, bodies, others, n) ==
    [held |-> grants, roles |-> defined, actors |-> who, absent |-> missing, bodies |-> bodies,
     ops |-> others \cup DOMAIN bodies, requests |-> n, overlap |-> FALSE]
Defined == [mgr |-> {"roles.manage", "p"}, aud |-> {"q"}]
\* A manager of roles who is no super administrator; two super administrators
\* who demote each other; credentials of an account; a manager of accounts.
Offices ==
    {Office(Grants3({"super"}, {"aud"}, {"mgr"}), Defined, {"d"}, {},
       [create_role |-> {Body("new", {"unknown"}), Body("new", {"p"}), Body("new", {"q"})},
        patch_role |-> {Body("mgr", {"roles.manage", "p", "q"}), Body("aud", {"p"}), Body("mgr", {"p"})},
        delete_role |-> {Body("aud", {}), Body("mgr", {})},
        set_user_roles |-> {Body("d", {"mgr", "aud"}), Body("b", {}), Body("a", {"mgr"}), Body("a", {}),
                            Body("d", {"new"}), Body("d", {"super"})}], {"boot"}, 3),
     Office(Grants3({"super"}, {"super"}, {"mgr"}), Defined, {"a", "b"}, {},
       [set_user_roles |-> {Body("a", {}), Body("b", {}), Body("d", {"super", "mgr"})},
        delete_role |-> {Body("super", {}), Body("mgr", {})}], {"boot"}, 4),
     Office(Grants3({"super"}, {}, {}), Defined, {"b"}, {"d"}, [patch_me |-> {Body("b", {})}],
       {"login", "mail", "reset", "disable", "register"}, 6),
     Office(Grants3({"super"}, {"adm"}, {}), [adm |-> {"users.manage"}, aud |-> {"q"}], {"b"}, {"d"},
       [create_user |-> {Body("d", {}), Body("a", {})}, delete_user |-> {Body("a", {}), Body("b", {})},
        patch_user |-> {Body("a", {})}], {"login", "register"}, 3)}

P == INSTANCE Packages
Shelf(ps, kinds, n, f, c, ov, reg, d, tg) ==
    [packages |-> ps, ops |-> kinds, requests |-> n, faults |-> f, crashes |-> c, overlap |-> ov,
     push |-> reg, dir |-> d, tagged |-> tg]
With(pid, v, paths) == [P!Package(pid, v) EXCEPT !.files = paths]
\* Container content with an attachment, static content at the top of its
\* archive, and archives that are refused for one reason each.
C1 == [With("A", 1, {"src/Dockerfile", "attachment/a"}) EXCEPT !.attachment = "attachment/a",
                                                               !.metas = {"Web!"}]
C2 == [With("B", 2, {"attachment/a"}) EXCEPT !.attachment = "attachment/a", !.flag = "static",
                                             !.value = TRUE, !.metas = {"top"}, !.name = "web"]
C3 == [C1 EXCEPT !.pid = "C", !.v = 3, !.metas = {"web"}]
Refused ==
    {[C1 EXCEPT !.pid = "D", !.v = 4, !.metas = {"web", "other"}],
     [C2 EXCEPT !.pid = "E", !.v = 5, !.flag = "dynamic", !.value = FALSE],
     [C2 EXCEPT !.pid = "F", !.v = 6, !.name = "none"],
     [C3 EXCEPT !.pid = "G", !.v = 7, !.attachment = "attachment/b"],
     [C3 EXCEPT !.pid = "H", !.v = 8, !.metas = {"___"}]}
\* Imports that fail, without a trace or with one, or are cut off; images that are pushed and lost; a
\* directory found on disk, with and without its image; overlapping requests.
Shelves ==
    {Shelf({C1, C2, C3} \cup Refused, {"import", "check", "delete", "patch", "create"}, 5, 1, 1, FALSE,
           FALSE, "none", {}),
     Shelf({C1, C3}, {"import", "check"}, 3, 2, 0, FALSE, FALSE, "none", {}),
     Shelf({C1, C3}, {"import", "check", "build", "prune"}, 6, 1, 1, FALSE, TRUE, "none", {}),
     Shelf({C1, C2, C3}, {"import", "scan", "check", "delete", "patch"}, 4, 0, 0, FALSE, FALSE, "A", {1}),
     Shelf({C1, C2, C3}, {"import", "scan", "check", "delete", "prune"}, 4, 0, 0, FALSE, FALSE, "A", {}),
     Shelf({C1, C3}, {"import", "check", "scan", "delete"}, 4, 1, 0, TRUE, FALSE, "C", {3}),
     Shelf({C1, C3}, {"import", "prune"}, 3, 0, 0, TRUE, FALSE, "none", {})}

Rack(ps, kinds, n, f, c, ov, reg, d, tg, dep) ==
    [packages |-> ps, ops |-> kinds, requests |-> n, faults |-> f, crashes |-> c, overlap |-> ov,
     push |-> reg, dir |-> d, tagged |-> tg, deployed |-> dep]
\* An AWD-P box, a box with a judge script only, another AWD-P box, and boxes
\* whose source directory or script is missing.
B1 == [With("A", 1, {"src/Dockerfile", "awdp/exploit.py"}) EXCEPT !.exploit = "awdp/exploit.py"]
B2 == [With("B", 2, {"src/Dockerfile", "judge/check.py"}) EXCEPT !.judge = "judge/check.py"]
B3 == [B1 EXCEPT !.pid = "C", !.v = 3]
Broken ==
    {[B1 EXCEPT !.pid = "D", !.v = 4, !.source = FALSE],
     [B2 EXCEPT !.pid = "E", !.v = 5, !.files = {"src/Dockerfile"}],
     [B1 EXCEPT !.pid = "F", !.v = 6, !.files = {"src/Dockerfile"}]}
Racks ==
    {Rack({B1, B2, B3} \cup Broken, {"import", "delete"}, 4, 1, 1, FALSE, FALSE, "none", {}, {}),
     Rack({B1, B2}, {"import", "build", "prune", "update", "hide"}, 4, 1, 0, FALSE, TRUE, "none", {}, {}),
     Rack({B1, B2}, {"import", "scan", "delete", "prune", "select", "deselect", "run", "configure"}, 5, 0, 0,
          FALSE, FALSE, "A", {1}, {"o1"}),
     Rack({B1, B3}, {"import", "delete", "select", "scan"}, 4, 1, 0, TRUE, FALSE, "C", {3}, {}),
     Rack({B1, B3}, {"import", "prune"}, 3, 0, 0, TRUE, FALSE, "none", {}, {})}

Wire(o, l, e, b, t, joined, from, about, where) ==
    [clock |-> 3, ahead |-> [n |-> 0, m |-> 1], outages |-> o, losses |-> l, errors |-> e, breaks |-> b, ticks |-> t, linked |-> joined,
     node |-> from, topic |-> about, at |-> where, wants |-> [x \in DOMAIN where |-> "A"]]
\* Numbers when Redis loses its counter; an outage with a browser listening; a
\* broken subscription and events of two competitions.
Buses ==
    {Wire(0, 1, 1, 0, 2, {}, [e1 |-> "n", e2 |-> "m", e3 |-> "n"], [e1 |-> "A", e2 |-> "A", e3 |-> "A"],
          [x \in {} |-> "n"]),
     Wire(1, 0, 1, 0, 0, {"n", "m"}, [e1 |-> "n", e2 |-> "m"], [e1 |-> "A", e2 |-> "A"], [s |-> "n"]),
     Wire(0, 0, 0, 1, 0, {"n"}, [e1 |-> "n", e2 |-> "n", e3 |-> "m"], [e1 |-> "A", e2 |-> "A", e3 |-> "B"],
          [s |-> "n"])}

\* Three settings whose values are up to two tokens: text or a reference, "x"
\* being no setting.  The empty template stands for the behaviours of the copy.
Text == [ref |-> FALSE, name |-> "text"]
Ref(k) == [ref |-> TRUE, name |-> k]
Values == UNION {[1 .. n -> {Text, Ref("a"), Ref("b"), Ref("x")}] : n \in 0 .. 2}
Templates ==
    {[x \in {} |-> <<>>]}
        \cup {m \in [{"a", "b", "c"} -> Values] : m["c"] \in {<<Ref("a"), Ref("b")>>, <<Ref("a"), Ref("a")>>}}

\* Two players, a competition of teams or of individuals, a second one, and
\* the event of the training site; challenges, one of them hidden; a run each.
Town(teams, events) ==
    [users |-> Users, events |-> events \cup {"practice"}, teams |-> teams, barred |-> {},
     roster |-> [u \in Users |-> [joined |-> TRUE, banned |-> FALSE,
                                 team |-> IF teams = {} THEN "none" ELSE "a"]],
     nickname |-> [u \in Users |-> 0], challenges |-> {"c1", "c2"}, hidden |-> {"c2"},
     runs |-> [n \in {101, 102} |-> [owner |-> IF n = 101 THEN "u" ELSE "v", gamebox |-> "g"]]]
Board(kinds, n, ov, answers) ==
    [ops |-> kinds, requests |-> n, overlap |-> ov, replies |-> answers, mode |-> "individual",
     challenges |-> {"c1"}, lists |-> {}, site |-> Town({}, {"e"})]
Crew(kinds, n, ov) == [Board(kinds, n, ov, FALSE) EXCEPT !.mode = "team", !.site = Town({"a", "b"}, {"e"})]
Lists(kinds, n, ov, ls) == [Board(kinds, n, ov, FALSE) EXCEPT !.lists = ls]
\* Discussions; write-ups of teams and of individuals, in one and in two
\* competitions; write-ups of challenges and runs; sets with a list that names
\* a challenge that is not there; announcements; weapons and avatars.
Forums ==
    {Board({"post", "like", "unlike", "comment", "uncomment", "delete"}, 6, FALSE, FALSE),
     Board({"post", "view", "like", "unlike", "comment", "uncomment", "moderate", "delete"}, 4, TRUE, TRUE),
     Board({"post", "like", "comment", "delete_user"}, 4, TRUE, TRUE),
     Crew({"submit", "export", "change_team", "remove_team", "delete_event", "ban", "fail"}, 4, FALSE),
     Crew({"submit", "change_team", "remove_team", "delete_event"}, 4, TRUE),
     Board({"submit", "export", "rename", "delete_user", "fail"}, 4, FALSE, FALSE),
     [Board({"submit", "export", "delete_user", "delete_event"}, 4, TRUE, FALSE)
        EXCEPT !.site = Town({}, {"e", "f"})],
     Board({"write", "delete_user", "delete_challenge", "fail"}, 5, FALSE, FALSE),
     Board({"write", "delete_user", "delete_challenge"}, 4, TRUE, FALSE),
     Lists({"set", "add", "delete_challenge", "fail"}, 4, FALSE, {<<"c1", "gone", "c2">>}),
     Lists({"set", "add", "delete_challenge"}, 3, TRUE, {<<"c1", "c2">>}),
     Lists({"set", "add", "unset"}, 3, TRUE, {<<"c1", "c2">>, <<"c2">>}),
     Board({"announce", "retract", "delete_user", "delete_event"}, 4, TRUE, FALSE),
     Board({"weapon", "upload", "delete_user", "fail"}, 4, TRUE, FALSE),
     Board({"weapon", "upload", "patch"}, 3, FALSE, FALSE)}

Work(who, kinds, table, n, f, c) ==
    [threads |-> who, ops |-> kinds, table |-> table, requests |-> n, fails |-> f, crashes |-> c]
\* One request at a time, with failing commands and a crash; requests that
\* overlap.  Overlapping applies find a table.
HostWork ==
    {Work({"t1"}, kinds, {}, 6, 2, 1) :
        kinds \in {{"ensure", "remove"}, {"apply", "delete"}, {"wgEnsure", "wgRemove"}}}
    \cup {Work(Threads, {"ensure", "remove"}, {}, 6, 1, 0), Work(Threads, {"apply"}, {1}, 6, 1, 0),
          Work(Threads, {"apply", "delete"}, {1}, 2, 0, 0),
          Work(Threads, {"wgEnsure", "wgRemove"}, {}, 6, 1, 0)}
Calls(who, kinds, on, n, moves, f) ==
    [threads |-> who, ops |-> kinds, names |-> on, requests |-> n, host |-> moves, fails |-> f]
\* Containers, one request at a time and two at a time; a container and a
\* network it joins, and a network of the host; images.
ProxyWork ==
    {Calls({"t1"}, {"create", "stop", "remove", "newExec", "exec"}, Names, 5, 3, 0),
     Calls(Threads, {"create", "stop", "remove", "newExec", "exec"}, {"a"}, 4, 2, 1),
     Calls({"t1"}, {"create", "connect", "remove", "prune"}, {"a", "fctf-net", "private"}, 4, 2, 0),
     Calls({"t1"}, {"build", "pull", "tag", "remove"}, {"image"}, 5, 2, 0)}

\* Times (start, end) and planned starts that administrators ask for, with
\* failures and a restart, or with an operator who switches a row off.
AwdTimes == {<<1, 3>>, <<2, 5>>, <<4, 5>>}
Wishes == [windows |-> AwdTimes, starts |-> {2, 4}, edits |-> 2, fails |-> 0, restarts |-> 0, switches |-> 0,
           checks |-> 0]
AwdPlans == {[Wishes EXCEPT !.fails = 1, !.restarts = 1], [Wishes EXCEPT !.switches = 1],
             [Wishes EXCEPT !.checks = 1]}
\* An event that is long, one that is short, and one too short to be shared.
AwdpPlans == {[windows |-> {<<1, 8>>, <<2, 6>>, <<2, 3>>}, fixes |-> {3, 5}, intervals |-> {2, 3}, edits |-> 2]}

Plan == INSTANCE EventSchedule WITH
    Horizon <- 5, Lead <- 2, Grace <- 3, Ahead <- 1, Backoff <- 1, MaxAttempts <- 2, Plans <- AwdPlans,
    plan <- x1, now <- x2, event <- x3, status <- x4, task <- x5, job <- x6, hand <- x7,
    switched <- x8, spent <- x9
Length == INSTANCE AwdpSchedule WITH
    Horizon <- 2, DefaultBreak <- 6, DefaultFix <- 6, DefaultInterval <- 3, BreakMin <- 1,
    Plans <- AwdpPlans, plan <- x1, now <- x2, event <- x3, row <- x4, run <- x5,
    req <- x6, torn <- x7, edits <- x8
Score == INSTANCE JeopardyScoring WITH
    Challenges <- {"c"}, Worth <- Worth, Settings <- RosterSettings, Users <- Players,
    conf <- x1, clock <- x2, open <- x3, users <- x4, teams <- x5, member <- x6,
    founded <- x7, removed <- x8, locked <- x9, thr <- x10, requests <- x11, chal <- x12,
    holder <- x13, solves <- x14
Grants == INSTANCE OidcGrants WITH
    Settings <- GrantSettings, setting <- x1, client <- x2, live <- x3, logins <- x4,
    txn <- x5, consents <- x6, codes <- x7, tokens <- x8, thr <- x9, used <- x10,
    given <- x11, said <- x12
Registry == INSTANCE OidcClients WITH
    Threads <- {"t1"}, Approval <- TRUE, Overlap <- FALSE, row <- x1, thr <- x2, ops <- x3,
    retired <- x4, held <- x5
Jar == INSTANCE OidcAccounts WITH
    Setups <- Setups, setup <- x1, box <- x2, sess <- x3, jar <- x4, req <- x5, count <- x6,
    out <- x7, expect <- x8
Access == INSTANCE AccessControl WITH
    Users <- Staff, Worlds <- Offices, world <- x1, role <- x2, held <- x3, acct <- x4,
    tokens <- x5, lock <- x6, req <- x7, count <- x8, origin <- x9, dead <- x10
Catalogue == INSTANCE ChallengeCatalogue WITH
    Worlds <- Shelves, world <- x1, row <- x2, nextId <- x3, tag <- x4, images <- x5,
    pushed <- x6, dir <- x7, req <- x8, left <- x9
Library == INSTANCE GameboxLibrary WITH
    Others <- OtherBoxes, Worlds <- Racks, world <- x1, box <- x2, nextId <- x3, tag <- x4,
    images <- x5, pushed <- x6, temp <- x7, objects <- x8, dir <- x9, chosen <- x10,
    runs <- x11, touched <- x12, req <- x13, left <- x14
Bus == INSTANCE Realtime WITH
    Worlds <- Buses, world <- x1, up <- x2, counter <- x3, clock <- x4, local <- x5,
    hub <- x6, link <- x7, queue <- x8, ev <- x9, str <- x10, left <- x11
Table == INSTANCE Settings WITH
    db <- x1, cache <- x2, reader <- x3, writer <- x4, age <- x5, excused <- x6, faults <- x7,
    writes <- x8, template <- x9
Gate == INSTANCE RateLimiter WITH
    Configs <- {-1, 0, 1}, skew <- x1, config <- x2, now <- x3, up <- x4, zset <- x5,
    dies <- x6, accepted <- x7, calls <- x8
Store == INSTANCE StorageStartup WITH
    service <- x1, public <- x2, policy <- x3, private <- x4, dirs <- x5, boot <- x6
Forum == INSTANCE Community WITH
    Worlds <- Forums, world <- x1, row <- x2, likes <- x3, comments <- x4, req <- x5,
    left <- x6, nextId <- x7, site <- x8, objects <- x9, wps <- x10, posts <- x11, sets <- x12,
    news <- x13, files <- x14
Host == INSTANCE HelperNetwork WITH
    Settings <- HostWork, conf <- x1, rules <- x2, tab <- x3, wg <- x4, thr <- x5, last <- x6,
    spent <- x7
Proxy == INSTANCE HelperDocker WITH
    Settings <- ProxyWork, conf <- x1, con <- x2, exec <- x3, ids <- x4, thr <- x5, hit <- x6,
    refused <- x7, spent <- x8

\* A step of the schedule of an AWD event.
InPlan(A) == /\ scene = "schedule" /\ A
             /\ UNCHANGED <<scene, x10, x11, x12, x13, x14>>
\* A step of the schedule of an AWDP event.
InLength(A) == /\ scene = "lengths" /\ A
               /\ UNCHANGED <<scene, x9, x10, x11, x12, x13, x14>>
\* A step of the roster or of a submission.
InScore(A) == /\ scene = "score" /\ A
              /\ UNCHANGED <<scene>>
\* A step of the provider's pages or of the token endpoint.
InGrants(A) == /\ scene = "grants" /\ A
               /\ UNCHANGED <<scene, x13, x14>>
\* A step of an application's owner or of an administrator.
InRegistry(A) == /\ scene = "clients" /\ A
                 /\ UNCHANGED <<scene, x6, x7, x8, x9, x10, x11, x12, x13, x14>>
\* A step of a request of the browser.
InJar(A) == /\ scene = "accounts" /\ A
            /\ UNCHANGED <<scene, x9, x10, x11, x12, x13, x14>>
\* A step of an account, of a role change or of a password reset.
InAccess(A) == /\ scene = "access" /\ A
               /\ UNCHANGED <<scene, x11, x12, x13, x14>>
\* A step of a request about the challenge.
InCatalogue(A) == /\ scene = "challenges" /\ A
                  /\ UNCHANGED <<scene, x10, x11, x12, x13, x14>>
\* A step of a request about the game box.
InLibrary(A) == /\ scene = "gameboxes" /\ A
                /\ UNCHANGED <<scene>>
\* A step of the event bus.
InBus(A) == /\ scene = "realtime" /\ A
            /\ UNCHANGED <<scene, x12, x13, x14>>
\* A step of a reader or of a writer of the settings.
InTable(A) == /\ scene = "settings" /\ A
              /\ UNCHANGED <<scene, x10, x11, x12, x13, x14>>
\* A limited call.
InGate(A) == /\ scene = "rate" /\ A
             /\ UNCHANGED <<scene, x9, x10, x11, x12, x13, x14>>
\* A step of the start of the API.
InStore(A) == /\ scene = "storage" /\ A
              /\ UNCHANGED <<scene, x7, x8, x9, x10, x11, x12, x13, x14>>
\* A step of a request about what people publish.
InForum(A) == /\ scene = "community" /\ A
              /\ UNCHANGED <<scene>>
\* A step of a request to the control socket.
InHost(A) == /\ scene = "helper" /\ A
             /\ UNCHANGED <<scene, x8, x9, x10, x11, x12, x13, x14>>
\* A step of a request to the docker socket.
InProxy(A) == /\ scene = "proxy" /\ A
              /\ UNCHANGED <<scene, x9, x10, x11, x12, x13, x14>>

Unused == "unused"
Init ==
    \/ /\ scene = "schedule" /\ Plan!Init
       /\ x10 = Unused /\ x11 = Unused /\ x12 = Unused /\ x13 = Unused /\ x14 = Unused
    \/ /\ scene = "lengths" /\ Length!Init
       /\ x9 = Unused /\ x10 = Unused /\ x11 = Unused /\ x12 = Unused /\ x13 = Unused
       /\ x14 = Unused
    \/ /\ scene = "score" /\ Score!Init
    \/ /\ scene = "grants" /\ Grants!Init
       /\ x13 = Unused /\ x14 = Unused
    \/ /\ scene = "clients" /\ Registry!Init
       /\ x6 = Unused /\ x7 = Unused /\ x8 = Unused /\ x9 = Unused /\ x10 = Unused
       /\ x11 = Unused /\ x12 = Unused /\ x13 = Unused /\ x14 = Unused
    \/ /\ scene = "accounts" /\ Jar!Init
       /\ x9 = Unused /\ x10 = Unused /\ x11 = Unused /\ x12 = Unused /\ x13 = Unused
       /\ x14 = Unused
    \/ /\ scene = "access" /\ Access!Init
       /\ x11 = Unused /\ x12 = Unused /\ x13 = Unused /\ x14 = Unused
    \/ /\ scene = "challenges" /\ Catalogue!Init
       /\ x10 = Unused /\ x11 = Unused /\ x12 = Unused /\ x13 = Unused /\ x14 = Unused
    \/ /\ scene = "gameboxes" /\ Library!Init
    \/ /\ scene = "realtime" /\ Bus!Init
       /\ x12 = Unused /\ x13 = Unused /\ x14 = Unused
    \/ /\ scene = "settings" /\ Table!Init
       /\ x10 = Unused /\ x11 = Unused /\ x12 = Unused /\ x13 = Unused /\ x14 = Unused
    \/ /\ scene = "rate" /\ Gate!Init
       /\ x9 = Unused /\ x10 = Unused /\ x11 = Unused /\ x12 = Unused /\ x13 = Unused
       /\ x14 = Unused
    \/ /\ scene = "storage" /\ Store!Init
       /\ x7 = Unused /\ x8 = Unused /\ x9 = Unused /\ x10 = Unused /\ x11 = Unused
       /\ x12 = Unused /\ x13 = Unused /\ x14 = Unused
    \/ /\ scene = "community" /\ Forum!Init
    \/ /\ scene = "helper" /\ Host!Init
       /\ x8 = Unused /\ x9 = Unused /\ x10 = Unused /\ x11 = Unused /\ x12 = Unused
       /\ x13 = Unused /\ x14 = Unused
    \/ /\ scene = "proxy" /\ Proxy!Init
       /\ x9 = Unused /\ x10 = Unused /\ x11 = Unused /\ x12 = Unused /\ x13 = Unused
       /\ x14 = Unused

Next ==
    \/ InPlan(Plan!Next)
    \/ InLength(Length!Next)
    \/ InScore(Score!Next)
    \/ InGrants(Grants!Next)
    \/ InRegistry(Registry!Next)
    \/ InJar(Jar!Next)
    \/ InAccess(Access!Next)
    \/ InCatalogue(Catalogue!Next)
    \/ InLibrary(Library!Next)
    \/ InBus(Bus!Next)
    \/ InTable(Table!Next)
    \/ InGate(Gate!Next)
    \/ InStore(Store!Next)
    \/ InForum(Forum!Next)
    \/ InHost(Host!Next)
    \/ InProxy(Proxy!Next)

Spec == Init /\ [][Next]_vars

----------------------------------------------------------------------------
\* Each property includes the type invariants of the components it is about.

(* When competitions take place and who wins them.  EventSchedule: an      *)
(* automatic precheck goes before every planned start, a planned start     *)
(* lies before the end of the event.  AwdpSchedule: Break and Fix fill the *)
(* event, an event of any length can be configured, a run has the lengths  *)
(* that were configured and, while pending, waits for the start of its     *)
(* event.  EventRoster: in a team event everybody who is enrolled is in a  *)
(* team as long as no administrator's request overlaps another, a team     *)
(* players founded keeps exactly one captain.  JeopardyScoring: points on  *)
(* the scoreboard are the sum of the solves through races, bans, removed   *)
(* teams and rollbacks, of two solves with one base the earlier is worth   *)
(* more.                                                                   *)
CompetitionsHold ==
    /\ scene = "schedule" => Plan!TypeOK /\ Plan!PrecheckPrecedesStart /\ Plan!StartBeforeEnd
    /\ scene = "lengths" => /\ Length!TypeOK /\ Length!EndIsDerived /\ Length!FirstLookSucceeds
                            /\ Length!RunAsConfigured /\ Length!PendingFollowsStart
    /\ scene = "score" => /\ Score!TypeOK /\ Score!RosterWhole /\ Score!FoundedHasCaptain
                          /\ Score!ScoreIsSum /\ Score!EarlierIsWorthMore

(* Who one is and what one may do.  OidcGrants: a usable token carries     *)
(* scopes its user allowed since the last revocation, a code honours the   *)
(* prompt of its transaction, a transaction brings at most one code, a     *)
(* code presented twice leaves no valid token.  OidcClients: a retired     *)
(* secret never authenticates again, only an administrator brings a        *)
(* suspended application back.  OidcAccounts: a session that was signed    *)
(* out never acts again, the accounts of a browser are bounded, what an    *)
(* answer said holds with its cookie.  AccessControl: permissions none of  *)
(* the acting accounts holds are neither given nor taken, a super          *)
(* administrator remains, a reset ends every token that existed.           *)
IdentityHolds ==
    /\ scene = "grants" => /\ Grants!TypeOK /\ Grants!UsableWasGranted /\ Grants!CodeHonoursPrompt
                           /\ Grants!OneCodePerTransaction /\ Grants!ReplayKillsToken
    /\ scene = "clients" => Registry!TypeOK /\ Registry!RetiredRefused /\ Registry!HeldStaysHeld
    /\ scene = "accounts" => /\ Jar!TypeOK /\ Jar!SignedOutIsOut /\ Jar!AccountsBounded
                             /\ Jar!AnsweredIsTrue
    /\ scene = "access" => /\ Access!TypeOK /\ Access!OutsideCeilingFrozen
                           /\ Access!SuperAdminRemains /\ Access!DeadStaysDead

(* What players are given is of one package.  ChallengeCatalogue: a ready  *)
(* challenge runs the image of its package, no import leaves "building"    *)
(* behind, players are served the attachment of the package.               *)
(* GameboxLibrary: image and AWD-P material of a ready box are of one      *)
(* package, the archive it points to is stored, a referenced box keeps its *)
(* package directory.                                                      *)
ContentHolds ==
    /\ scene = "challenges" => /\ Catalogue!TypeOK /\ Catalogue!ReadyRunsItsPackage
                               /\ Catalogue!NothingStaysBuilding /\ Catalogue!ServesItsAttachment
    /\ scene = "gameboxes" => /\ Library!ReadyIsOfOnePackage /\ Library!ArchiveIsStored
                              /\ Library!ReferencedKeepsPackage

(* What every module of the platform relies on.  Realtime: Redis never     *)
(* gives a number twice, no stream sends an event twice, nothing a node    *)
(* published is missed without notice.  Settings: a wrong copy has one of  *)
(* the known causes and does not outlive the expiry, references are        *)
(* resolved unless undefined or on a cycle.  RateLimiter: the window holds *)
(* across nodes.  StorageStartup: no attempt begins after the deadline,    *)
(* giving up takes every attempt, an API that starts has a usable store.   *)
(* Community: the counters are right when requests do not overlap, what a  *)
(* row names is stored, users read what is theirs or public, reports are   *)
(* whole, sets and announcements follow what is deleted.                   *)
PlatformHolds ==
    /\ scene = "realtime" => /\ Bus!TypeOK /\ Bus!SequencesDiffer /\ Bus!SentOnce
                             /\ Bus!NothingMissedSilently
    /\ scene = "settings" => /\ Table!TypeOK /\ Table!StaleIsBounded /\ Table!StaleHasACause
                             /\ Table!ResolvedInFull
    /\ scene = "rate" => Gate!TypeOK /\ Gate!WindowHolds
    /\ scene = "storage" => /\ Store!TypeOK /\ Store!StartsInTime /\ Store!EveryAttemptHappens
                            /\ Store!ReadyMeansUsable
    /\ scene = "community" => Forum!CountersAgree /\ Forum!PublishedHolds

(* What the privileged helper does to the host.  HelperNetwork: copies of  *)
(* a rule are bounded by the requests that overlap and the checks that     *)
(* failed, which read as "not there"; a request that succeeded had its     *)
(* effect, but for a removal of the interface whose check failed.          *)
(* HelperDocker: containers of the host are left alone, the platform keeps *)
(* control of what it created.                                             *)
HelperHolds ==
    /\ scene = "helper" => Host!TypeOK /\ Host!CopiesBounded /\ Host!AnswerHolds
    /\ scene = "proxy" => Proxy!TypeOK /\ Proxy!ForeignUntouched /\ Proxy!OwnManaged

(* What no step may do.  HelperNetwork: replacing a ruleset never leaves   *)
(* the event without one.  EventRoster: once allow_join is off no player   *)
(* changes a membership.  EventSchedule: a plan is changed before its      *)
(* start or not at all.                                                    *)
StepsHold ==
    [][/\ scene = "helper" => Host!TableStays
       /\ scene = "score" => Score!RosterCloses
       /\ scene = "schedule" => Plan!StartsAsShown /\ Plan!StartedStays]_vars

(* HelperDocker: what fcmc says of the removal of a missing container.     *)
MissingIsSuccess == scene = "proxy" => Proxy!MissingIsSuccess
=============================================================================

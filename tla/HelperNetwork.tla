--------------------------- MODULE HelperNetwork ---------------------------
(***************************************************************************)
(* The control socket of the privileged helper, for one event: the two     *)
(* iptables rules that let the WireGuard interface reach the event's       *)
(* bridge, the nftables table and the WireGuard interface.  Every request  *)
(* is a series of host commands; each connection is served by a task of    *)
(* its own and nothing orders the commands of two requests.  A command may *)
(* fail and the helper may be killed between two of them.                  *)
(***************************************************************************)
EXTENDS Naturals, FiniteSets

CONSTANTS Threads, Rulesets, Settings   \* bounds: threads, operations, requests, failures, crashes

Rules == {"raw", "user"}   \* PREROUTING of the raw table, DOCKER-USER

VARIABLES conf,    \* the setting in force, chosen once
          rules,   \* copies of each iptables rule
          tab,     \* rulesets in the nftables table, {}: there is no table
          wg,      \* what is set of the interface: subset of link, key, addr, up
          thr,     \* local state of each connection
          last,    \* the last request on each object, once it was answered with success
          spent    \* requests, failures, checks that misread and crashes so far

vars == <<conf, rules, tab, wg, thr, last, spent>>

Objects == {"forward", "table", "wg"}
Idle == [pc |-> "idle", op |-> "none", set |-> 0, exists |-> FALSE, alone |-> TRUE, misread |-> FALSE]
ObjectOf(op) ==
    IF op \in {"ensure", "remove"} THEN "forward" ELSE IF op \in {"apply", "delete"} THEN "table" ELSE "wg"
FirstStep == [ensure |-> "checkRaw", remove |-> "dropRaw", apply |-> "list", delete |-> "look",
              wgEnsure |-> "show", wgRemove |-> "find"]

Init ==
    /\ conf \in Settings
    /\ rules = [r \in Rules |-> 0] /\ tab = conf.table /\ wg = {}
    /\ thr = [t \in Threads |-> Idle]
    /\ last = [o \in Objects |-> Idle]
    /\ spent = [asked |-> 0, fails |-> 0, misread |-> 0, crashes |-> 0]

At(t, pc) == thr[t].pc = pc
Step(t, pc) == thr' = [thr EXCEPT ![t].pc = pc] /\ UNCHANGED last
Busy(o) == {t \in Threads : thr[t].pc # "idle" /\ ObjectOf(thr[t].op) = o}
Failed(t) == thr' = [thr EXCEPT ![t] = Idle] /\ UNCHANGED last
Success(t) ==
    /\ thr' = [thr EXCEPT ![t] = Idle]
    /\ last' = [last EXCEPT ![ObjectOf(thr[t].op)] = thr[t]]

\* A request of the API: its names, keys and networks pass the validation.
\* A table is applied with any of the rulesets.
Dispatch(t, op) ==
    /\ At(t, "idle") /\ spent.asked < conf.requests
    /\ \E s \in IF op = "apply" THEN Rulesets ELSE {0} :
         thr' = [u \in Threads |->
                   IF u = t THEN [Idle EXCEPT !.pc = FirstStep[op], !.op = op, !.set = s,
                                              !.alone = Busy(ObjectOf(op)) = {}]
                   ELSE IF u \in Busy(ObjectOf(op)) THEN [thr[u] EXCEPT !.alone = FALSE] ELSE thr[u]]
    /\ spent' = [spent EXCEPT !.asked = @ + 1]
    /\ last' = [last EXCEPT ![ObjectOf(op)] = Idle]
    /\ UNCHANGED <<conf, rules, tab, wg>>

\* A command that fails ends its request with an error and changes nothing:
\* it cannot be started, or command_ok and the checks of the exit code bail.
CommandFails(t) ==
    /\ ~At(t, "idle") /\ spent.fails < conf.fails
    /\ spent' = [spent EXCEPT !.fails = @ + 1]
    /\ Failed(t)
    /\ UNCHANGED <<conf, rules, tab, wg>>

\* command::run answers Ok with any exit code: a check of what is there
\* (iptables -C, ip link show) that fails reads as "not there".
CheckMisreads(t) ==
    /\ spent.fails < conf.fails
    /\ spent' = [spent EXCEPT !.fails = @ + 1, !.misread = @ + 1]
    /\ \/ At(t, "checkRaw") /\ rules["raw"] > 0 /\ Step(t, "insertRaw")
       \/ At(t, "checkUser") /\ rules["user"] > 0 /\ Step(t, "insertUser")
       \/ At(t, "show") /\ "link" \in wg /\ Step(t, "add")
       \/ /\ At(t, "find") /\ wg # {}
          /\ thr' = [thr EXCEPT ![t] = Idle]
          /\ last' = [last EXCEPT !["wg"] = [thr[t] EXCEPT !.misread = TRUE]]
    /\ UNCHANGED <<conf, rules, tab, wg>>

----------------------------------------------------------------------------
(* docker_forward                                                          *)

\* iptables -C
CheckRule(t) ==
    /\ \/ At(t, "checkRaw") /\ Step(t, IF rules["raw"] = 0 THEN "insertRaw" ELSE "checkUser")
       \/ At(t, "checkUser") /\ IF rules["user"] = 0 THEN Step(t, "insertUser") ELSE Success(t)
    /\ UNCHANGED <<conf, rules, tab, wg, spent>>

\* iptables -I
InsertRule(t) ==
    /\ \/ At(t, "insertRaw") /\ rules' = [rules EXCEPT !["raw"] = @ + 1] /\ Step(t, "checkUser")
       \/ At(t, "insertUser") /\ rules' = [rules EXCEPT !["user"] = @ + 1] /\ Success(t)
    /\ UNCHANGED <<conf, tab, wg, spent>>

\* Mutant: a rule that is not there ends the removal.
RemoveStops(t) ==
    /\ \/ /\ At(t, "dropRaw")
          /\ rules' = [rules EXCEPT !["raw"] = IF @ = 0 THEN 0 ELSE @ - 1]
          /\ IF rules["raw"] = 0 THEN Success(t) ELSE Step(t, "dropUser")
       \/ /\ At(t, "dropUser")
          /\ rules' = [rules EXCEPT !["user"] = IF @ = 0 THEN 0 ELSE @ - 1] /\ Success(t)
    /\ UNCHANGED <<conf, tab, wg, spent>>

\* iptables -D removes one copy; that there is none is no error.
RemoveRule(t) ==
    /\ \/ /\ At(t, "dropRaw")
          /\ rules' = [rules EXCEPT !["raw"] = IF @ = 0 THEN 0 ELSE @ - 1] /\ Step(t, "dropUser")
       \/ /\ At(t, "dropUser")
          /\ rules' = [rules EXCEPT !["user"] = IF @ = 0 THEN 0 ELSE @ - 1] /\ Success(t)
    /\ UNCHANGED <<conf, tab, wg, spent>>

----------------------------------------------------------------------------
(* nftables: list, check (-c) and load.  The load is one transaction, with *)
(* a delete of the table in front if the list has shown one.               *)

ListTable(t) ==
    /\ At(t, "list")
    /\ thr' = [thr EXCEPT ![t] = [@ EXCEPT !.exists = tab # {}, !.pc = "check"]]
    /\ UNCHANGED <<conf, rules, tab, wg, last, spent>>

Loads(t) == ~thr[t].exists \/ tab # {}   \* a delete needs the table

CheckRuleset(t) ==
    /\ At(t, "check") /\ IF Loads(t) THEN Step(t, "load") ELSE Failed(t)
    /\ UNCHANGED <<conf, rules, tab, wg, spent>>

\* Mutant: delete and load are two commands.
LoadInTwo(t) ==
    /\ At(t, "load")
    /\ IF thr[t].exists
       THEN /\ tab' = {} /\ thr' = [thr EXCEPT ![t].exists = FALSE] /\ UNCHANGED last
       ELSE tab' = {thr[t].set} /\ Success(t)
    /\ UNCHANGED <<conf, rules, wg, spent>>

Load(t) ==
    /\ At(t, "load")
    /\ IF Loads(t)
       THEN tab' = {thr[t].set} \cup (IF thr[t].exists THEN {} ELSE tab) /\ Success(t)
       ELSE Failed(t) /\ UNCHANGED tab
    /\ UNCHANGED <<conf, rules, wg, spent>>

DeleteTable(t) ==
    /\ \/ At(t, "look") /\ UNCHANGED tab /\ IF tab = {} THEN Success(t) ELSE Step(t, "drop")
       \/ At(t, "drop") /\ tab' = {} /\ IF tab = {} THEN Failed(t) ELSE Success(t)
    /\ UNCHANGED <<conf, rules, wg, spent>>

----------------------------------------------------------------------------
(* wireguard                                                               *)

\* ip link show; ip link add if there is none, which fails if there is one by then.
ShowLink(t) ==
    /\ At(t, "show") /\ Step(t, IF "link" \in wg THEN "key" ELSE "add")
    /\ UNCHANGED <<conf, rules, tab, wg, spent>>
AddLink(t) ==
    /\ At(t, "add")
    /\ IF "link" \in wg THEN Failed(t) /\ UNCHANGED wg ELSE Step(t, "key") /\ wg' = {"link"}
    /\ UNCHANGED <<conf, rules, tab, spent>>

\* wg set, ip address replace, ip link set up: each needs the link.
Configure(t) ==
    /\ \E s \in {<<"key", "key", "address">>, <<"address", "addr", "up">>, <<"up", "up", "done">>} :
         /\ At(t, s[1])
         /\ IF "link" \notin wg THEN Failed(t) /\ UNCHANGED wg
            ELSE /\ wg' = wg \cup {s[2]}
                 /\ IF s[3] = "done" THEN Success(t) ELSE Step(t, s[3])
    /\ UNCHANGED <<conf, rules, tab, spent>>

RemoveLink(t) ==
    /\ \/ At(t, "find") /\ UNCHANGED wg /\ IF wg = {} THEN Success(t) ELSE Step(t, "unlink")
       \/ At(t, "unlink") /\ wg' = {} /\ IF wg = {} THEN Failed(t) ELSE Success(t)
    /\ UNCHANGED <<conf, rules, tab, spent>>

----------------------------------------------------------------------------
\* The helper is killed; systemd starts it again.
Crash ==
    /\ spent.crashes < conf.crashes
    /\ spent' = [spent EXCEPT !.crashes = @ + 1]
    /\ thr' = [t \in Threads |-> Idle]
    /\ UNCHANGED <<conf, rules, tab, wg, last>>

Next ==
    \/ \E t \in conf.threads :
         \/ \E op \in conf.ops : Dispatch(t, op)
         \/ CommandFails(t) \/ CheckMisreads(t) \/ CheckRule(t) \/ InsertRule(t) \/ RemoveRule(t)
         \/ ListTable(t) \/ CheckRuleset(t) \/ Load(t) \/ DeleteTable(t)
         \/ ShowLink(t) \/ AddLink(t) \/ Configure(t) \/ RemoveLink(t)
    \/ Crash

Spec == Init /\ [][Next]_vars

----------------------------------------------------------------------------
TypeOK ==
    /\ rules \in [Rules -> 0..conf.requests] /\ tab \subseteq Rulesets
    /\ wg \in {{}} \cup {w \in SUBSET {"link", "key", "addr", "up"} : "link" \in w}
    /\ \A t \in Threads : thr[t].alone \in BOOLEAN /\ thr[t].op \in {"none"} \cup conf.ops

(* However many requests overlap, fail or are cut short, a rule stands at  *)
(* most once for each that overlaps and once more for each check that      *)
(* failed and was read as "not there": what a later removal leaves is      *)
(* bounded.                                                                *)
CopiesBounded == \A r \in Rules : rules[r] <= Cardinality(conf.threads) + spent.misread

(* A request that was alone with its object and was answered with success  *)
(* has had its effect, whatever was left half done before it: the rules    *)
(* are there, or gone but for the extra copies of requests that overlapped *)
(* and of checks that failed; the table is gone; the interface is          *)
(* complete, or gone unless the check for it failed, which is answered     *)
(* with success as well.  The last apply need not have been alone: its     *)
(* ruleset is the whole table, provided that applies that overlap find a   *)
(* table.                                                                  *)
AnswerHolds ==
    LET Done(o, op) == last[o].op = op /\ last[o].alone IN
    /\ Done("forward", "ensure") => \A r \in Rules : rules[r] >= 1
    /\ Done("forward", "remove") => \A r \in Rules : rules[r] < Cardinality(conf.threads) + spent.misread
    /\ last["table"].op = "apply" => tab = {last["table"].set}
    /\ Done("table", "delete") => tab = {}
    /\ Done("wg", "wgEnsure") => wg = {"link", "key", "addr", "up"}
    /\ Done("wg", "wgRemove") /\ ~last["wg"].misread => wg = {}

(* A new ruleset takes the place of the old one in one step: whatever fails *)
(* or overlaps, the table is missing only after a request to delete it.    *)
TableStays == tab # {} /\ tab' = {} => \E t \in Threads : thr[t].op = "delete"
============================================================================

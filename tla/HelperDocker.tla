---------------------------- MODULE HelperDocker ----------------------------
(***************************************************************************)
(* The docker socket of the privileged helper: a request of the platform   *)
(* is first judged, by its body or by what the daemon says of the object   *)
(* it names, and then forwarded as it is, in a second call.  Objects are   *)
(* containers, networks and images; an exec instance is known by the id of *)
(* its container.  The client on top is fcmc, which maps the daemon's      *)
(* status to success or error.  The host's administrator creates and       *)
(* removes objects of his own, at any time.                                *)
(***************************************************************************)
EXTENDS Naturals, FiniteSets

CONSTANTS Threads, Names, Settings   \* bounds: requests, host moves, failures; threads, operations

Networks == {"fctf-net", "private"}   \* one in the platform's name space, one outside of it
Images == {"image"}
Objects == Names \cup Networks \cup Images

VARIABLES conf,    \* the setting in force, chosen once
          con,     \* the object that holds a name: id, labelled, whose
          exec,    \* ids of the containers with an exec instance
          ids,     \* ids given so far
          thr,     \* local state of each connection
          hit,     \* what forwarded requests have changed: whose, of which name, judged when
          refused, \* a removal failed although nothing of that name was there
          spent    \* requests, host moves and failures so far

vars == <<conf, con, exec, ids, thr, hit, refused, spent>>

Nobody == [id |-> 0, label |-> FALSE, own |-> "none"]
Object(id, label, own) == [id |-> id, label |-> label, own |-> own]
\* raced: the name changed hands since the request was judged.
Idle == [pc |-> "idle", op |-> "none", name |-> "none", body |-> "none", id |-> 0, raced |-> FALSE]
Forbidden == 403
Unavailable == 502

Init ==
    /\ conf \in Settings
    /\ con = [n \in Objects |-> Nobody] /\ exec = {} /\ ids = 0
    /\ thr = [t \in Threads |-> Idle]
    /\ hit = {} /\ refused = FALSE
    /\ spent = [asked |-> 0, host |-> 0, fails |-> 0]

At(t, pc) == thr[t].pc = pc
\* The container an id belongs to, if it still exists.
WithId(i) == {n \in Names : con[n].id = i /\ i # 0}

----------------------------------------------------------------------------
(* The policy.                                                             *)

\* Creation bodies: one that keeps to the policy, one that asks for the host
\* (privileges, mounts, devices, namespaces, a foreign network or driver).
Bodies == {"plain", "host"}
IsFloatctfNetworkName(n) == n = "fctf-net"

\* What is forwarded of a body: nothing, or the body with the helper's label.
ValidateContainerCreate(body) == IF body = "plain" THEN {[label |-> TRUE]} ELSE {}
ValidateNetworkCreate(n, body) ==
    IF IsFloatctfNetworkName(n) /\ body = "plain" THEN {[label |-> TRUE]} ELSE {}
\* Builds and pulls are not judged: a build carries the labels its caller gave.
Labels(op, n, body) ==
    CASE op = "create" -> IF n \in Names THEN ValidateContainerCreate(body) ELSE ValidateNetworkCreate(n, body)
      [] op = "build" -> {[label |-> body = "plain"]}
      [] op = "pull" -> {[label |-> FALSE]}

\* The daemon is asked; an object that is not there is refused like one that
\* is not managed.  A network is managed by its name as well.
EnsureManagedContainer(ns) == \E n \in ns : con[n].id # 0 /\ con[n].label
EnsureManagedImage(n) == con[n].id # 0 /\ con[n].label
EnsureManagedNetwork(n) == con[n].id # 0 /\ (con[n].label \/ IsFloatctfNetworkName(n))
EnsureManaged(n) ==
    CASE n \in Names -> EnsureManagedContainer({n})
      [] n \in Networks -> EnsureManagedNetwork(n)
      [] n \in Images -> EnsureManagedImage(n)

\* Operations by the kind of object they name.  Everything else is refused.
Allowed(n) ==
    CASE n \in Names -> {"create", "stop", "remove", "newExec", "exec"}
      [] n \in Networks -> {"create", "remove", "connect"}
      [] n \in Images -> {"build", "pull", "tag", "remove"}

\* Creation by its body; an exec instance by the id of its container; the rest
\* by name, a connection by the names of both ends.
Authorize(r) ==
    /\ r.op \in Allowed(r.name)
    /\ CASE r.op \in {"create", "build", "pull"} -> Labels(r.op, r.name, r.body) # {}
         [] r.op = "exec" -> EnsureManagedContainer(WithId(r.id))
         [] r.op = "connect" -> EnsureManagedNetwork(r.name) /\ EnsureManagedContainer({r.body})
         [] OTHER -> EnsureManaged(r.name)

----------------------------------------------------------------------------
(* The proxy and the daemon behind it.                                     *)

Request(op, n, body, id) ==
    [pc |-> "judge", op |-> op, name |-> n, body |-> body, id |-> id, raced |-> FALSE]
Ask(t) ==
    /\ At(t, "idle") /\ spent.asked < conf.requests
    /\ \E op \in conf.ops, n \in conf.names,
          b \in Bodies \cup Names, i \in {0} \cup exec :
         /\ IF op = "connect" THEN b \in Names ELSE b = "plain" \/ (b = "host" /\ op \in {"create", "build"})
         /\ op = "exec" \/ i = 0
         /\ thr' = [thr EXCEPT ![t] = Request(op, n, b, i)]
    /\ spent' = [spent EXCEPT !.asked = @ + 1]
    /\ UNCHANGED <<conf, con, exec, ids, hit, refused>>

\* fcmc: 404 and 409 of a removal, 404 and 304 of a stop are success.
Accepts(op, status) ==
    \/ status = 200
    \/ op = "remove" /\ status \in {404, 409}
    \/ op = "stop" /\ status \in {404, 304}

Answer(t, status) ==
    /\ thr' = [thr EXCEPT ![t] = Idle]
    /\ refused' = (refused \/ /\ thr[t].op = "remove" /\ status = Forbidden /\ ~Accepts("remove", status)
                              /\ con[thr[t].name] = Nobody)

AuthorizeAndPrepare(t) ==
    /\ At(t, "judge")
    /\ IF Authorize(thr[t])
       THEN thr' = [thr EXCEPT ![t].pc = "forward"] /\ UNCHANGED refused
       ELSE Answer(t, Forbidden)
    /\ UNCHANGED <<conf, con, exec, ids, hit, spent>>

\* No answer of the daemon, to the proxy's question or to the request.
BackendUnavailable(t) ==
    /\ ~At(t, "idle") /\ spent.fails < conf.fails
    /\ spent' = [spent EXCEPT !.fails = @ + 1] /\ Answer(t, Unavailable)
    /\ UNCHANGED <<conf, con, exec, ids, hit>>

Touch(t, n) == hit' = hit \cup {[own |-> con[n].own, name |-> n, raced |-> thr[t].raced]}

\* What the daemon does with a request that creates an object: a build or a pull
\* takes over the tag, whosever image had it.
Forward(t) == At(t, "forward") /\ UNCHANGED <<conf, spent>>
ForwardCreate(t) ==
    LET r == thr[t] IN
    /\ Forward(t) /\ r.op \in {"create", "build", "pull"}
    /\ \/ /\ r.op = "create" /\ con[r.name] # Nobody
          /\ Answer(t, 409) /\ UNCHANGED <<con, exec, ids, hit>>
       \/ /\ con[r.name] = Nobody \/ r.op # "create"
          /\ ids' = ids + 1
          /\ \E b \in Labels(r.op, r.name, r.body) :
               con' = [con EXCEPT ![r.name] = Object(ids + 1, b.label, "platform")]
          /\ Answer(t, 200) /\ UNCHANGED <<exec, hit>>
\* What it does with one on an object.
ProxyRequest(t) ==
    LET r == thr[t]
        n == r.name
    IN
    /\ Forward(t) /\ r.op \notin {"create", "build", "pull"}
    /\ \/ /\ r.op # "exec" /\ con[n] = Nobody
          /\ Answer(t, 404) /\ UNCHANGED <<con, exec, ids, hit>>
       \/ /\ r.op \in {"stop", "connect", "tag"} /\ con[n] # Nobody
          /\ Answer(t, 200) /\ Touch(t, n) /\ UNCHANGED <<con, exec, ids>>
       \/ /\ r.op = "remove" /\ con[n] # Nobody
          /\ con' = [con EXCEPT ![n] = Nobody]
          /\ Answer(t, 200) /\ Touch(t, n) /\ UNCHANGED <<exec, ids>>
       \/ /\ r.op = "newExec" /\ con[n] # Nobody
          /\ exec' = exec \cup {con[n].id}
          /\ Answer(t, 200) /\ UNCHANGED <<con, ids, hit>>
       \/ /\ r.op = "exec" /\ WithId(r.id) # {}
          /\ \E m \in WithId(r.id) : Touch(t, m)
          /\ Answer(t, 200) /\ UNCHANGED <<con, exec, ids>>
       \/ /\ r.op = "exec" /\ WithId(r.id) = {}
          /\ Answer(t, 404) /\ UNCHANGED <<con, exec, ids, hit>>

\* The host's own objects come, with exec instances of their own, and go; the
\* platform's are removed by its administrator too.
HostMoves(n) ==
    /\ spent.host < conf.host
    /\ spent' = [spent EXCEPT !.host = @ + 1]
    /\ IF con[n] = Nobody
       THEN /\ ids' = ids + 1
            /\ con' = [con EXCEPT ![n] = Object(ids + 1, FALSE, "host")]
            /\ exec' \in {exec, IF n \in Names THEN exec \cup {ids + 1} ELSE exec}
       ELSE con' = [con EXCEPT ![n] = Nobody] /\ UNCHANGED <<ids, exec>>
    /\ thr' = [t \in Threads |->
                 IF At(t, "forward") /\ thr[t].name = n THEN [thr[t] EXCEPT !.raced = TRUE] ELSE thr[t]]
    /\ UNCHANGED <<conf, hit, refused>>

Next ==
    \/ \E t \in conf.threads : \/ Ask(t) \/ AuthorizeAndPrepare(t) \/ ForwardCreate(t) \/ ProxyRequest(t)
                               \/ BackendUnavailable(t)
    \/ \E n \in conf.names : HostMoves(n)

Spec == Init /\ [][Next]_vars

----------------------------------------------------------------------------
TypeOK ==
    /\ \A n \in Objects : con[n].id \in 0..ids /\ con[n].own \in {"none", "platform", "host"}
    /\ exec \subseteq 0..ids /\ refused \in BOOLEAN
    /\ \A t \in Threads : thr[t].pc \in {"idle", "judge", "forward"}

(* The platform changes no object of the host's administrator: not one     *)
(* that took over a name the platform used before, and never through an    *)
(* exec instance.  Only a name that changed hands between the judgement of *)
(* a request and its forwarding is beyond the proxy, and a network with a  *)
(* name of the platform's name space counts as the platform's.             *)
ForeignUntouched ==
    \A h \in hit : h.own = "host" => h.raced \/ IsFloatctfNetworkName(h.name)

(* What the platform created it can remove again, for as long as it        *)
(* exists: every container and every network is created with the label.    *)
OwnManaged ==
    \A n \in Names \cup Networks : con[n].own = "platform" => EnsureManaged(n)

(* fcmc says that the removal of a container that is not there succeeds.   *)
MissingIsSuccess == ~refused
=============================================================================

----------------------------- MODULE AwdTokens -----------------------------
(***************************************************************************)
(* The internal tokens of an AWD event: two tokens in the event row, one   *)
(* for the flag server and one for the judge server; the two containers    *)
(* that hold them in their environment; the rotation, which commits two    *)
(* new tokens and then replaces the containers one after the other; and a  *)
(* deployment, which creates a missing container with the token of the row *)
(* it read at its start.  Neither takes a lock.                            *)
(*                                                                         *)
(* Tokens are random and never repeat: <<k, n>> is the token of kind k of  *)
(* the n-th rotation, and a container remembers n.  A container's id is    *)
(* the thread that created it: no thread creates a second one of a kind    *)
(* before it has done with the first.                                      *)
(***************************************************************************)
EXTENDS Naturals

\* A setting: its bounds (rotations, docker failures, deployments, crashes), its
\* threads, and whether the event has a network row (network) and the platform
\* runs in containers on a control network (control).
CONSTANTS Threads, Settings

Kinds == {"flagserver", "judgeserver"}

VARIABLES conf,      \* the setting in force, chosen once
          row,       \* the event row: n of its tokens, key_version
          con,       \* what holds the name of each container
          tracked,   \* kinds with an awd_runtime_resources row
          made,      \* rotations begun
          last,      \* the rotation that ended last: answer, and whether it ran alone
          thr,       \* local state of each thread
          spent      \* failures, deployments and crashes so far

vars == <<conf, row, con, tracked, made, last, thr, spent>>

----------------------------------------------------------------------------
(* The container calls of fcmc on one container name, as far as the        *)
(* callers tell outcomes apart.  A name is free (Gone) or held by a        *)
(* container that was created with some environment and is not started,    *)
(* running or stopped.  A call yields a set of outcomes: what it answers   *)
(* and what holds the name afterwards.  `sane` says that the daemon does   *)
(* what it is asked; otherwise it may also refuse.                         *)

Gone == [st |-> "gone", env |-> 0, id |-> "none"]
Held(st, env, id) == [st |-> st, env |-> env, id |-> id]
Out(ok, c) == [ok |-> ok, con |-> c]
Refused(c, sane) == IF sane THEN {} ELSE {Out(FALSE, c)}

\* The daemon refuses a name that is taken (409), whatever holds it.
CreateContainer(c, env, id, sane) ==
    Refused(c, sane)
    \cup (IF c = Gone THEN {Out(TRUE, Held("created", env, id))} ELSE {Out(FALSE, c)})

\* By id: a container that was replaced in the meantime is not found.
StartContainer(c, id, sane) ==
    Refused(c, sane) \cup (IF c.id = id THEN {Out(TRUE, [c EXCEPT !.st = "up"])} ELSE {Out(FALSE, c)})

\* A missing or stopped container is success (404, 304).
StopContainer(c, sane) ==
    Refused(c, sane) \cup {Out(TRUE, IF c.st = "up" THEN [c EXCEPT !.st = "down"] ELSE c)}

\* By force, running or not; a missing container is success (404), and so is
\* one whose removal is under way (409): the name is then still taken.
RemoveContainer(c, sane) ==
    Refused(c, sane) \cup {Out(TRUE, Gone)} \cup (IF sane THEN {} ELSE {Out(TRUE, c)})

\* inspect_container: `running` of its answer.  A call that fails is no answer.
InspectContainer(c, sane) == Refused(c, sane) \cup {Out(c.st = "up", c)}
Running(c) == c.st = "up"

\* A call by id on a name that another container has taken: it is not found.
ById(c, id, Op(_), sane) == IF c.id = id THEN Op(sane) ELSE {Out(TRUE, c)}

----------------------------------------------------------------------------
Idle == [pc |-> "idle", job |-> "none", n |-> 0, ver |-> 0, kind |-> "flagserver", alone |-> TRUE,
         known |-> FALSE]

\* The row was created with the first two tokens.  A deployed event, or one
\* whose containers are not there yet.
Init ==
    /\ conf \in Settings
    /\ row = [n |-> 1, ver |-> 1]
    /\ \/ conf.network /\ con = [k \in Kinds |-> Held("up", 1, "first")] /\ tracked = Kinds
       \/ con = [k \in Kinds |-> Gone] /\ tracked = {}
    /\ made = 1
    /\ last = [answer |-> "none", alone |-> TRUE]
    /\ thr = [t \in Threads |-> Idle]
    /\ spent = [fails |-> 0, deploys |-> 0, crashes |-> 0]

At(t, pc) == thr[t].pc = pc
Step(t, pc) == thr' = [thr EXCEPT ![t].pc = pc]
Rotating == {t \in Threads : thr[t].job = "rotate"}
Count(k) == spent' = [spent EXCEPT ![k] = @ + 1]

----------------------------------------------------------------------------
(* Authentication of the two services.                                     *)

\* The token re-encrypted with the stored nonce is the stored ciphertext:
\* the tokens are equal, key_version plays no part.
IsValidToken(token, k) == token = <<k, row.n>>

\* The flag server's token is tried first, then the judge server's.
FromRequest(token) ==
    IF IsValidToken(token, "flagserver") THEN "flagserver"
    ELSE IF IsValidToken(token, "judgeserver") THEN "judgeserver" ELSE "unauthorized"

----------------------------------------------------------------------------
(* The rotation.                                                           *)

RotateTokens(t) ==
    /\ At(t, "idle") /\ made < conf.rotations + 1
    /\ made' = made + 1
    /\ thr' = [u \in Threads |->
                 IF u = t THEN [Idle EXCEPT !.pc = "commit", !.job = "rotate", !.n = made + 1,
                                            !.ver = row.ver, !.alone = Rotating = {}]
                 ELSE IF u \in Rotating THEN [thr[u] EXCEPT !.alone = FALSE] ELSE thr[u]]
    /\ UNCHANGED <<conf, row, con, tracked, last, spent>>

Answer(t, a) ==
    /\ thr' = [thr EXCEPT ![t] = Idle]
    /\ last' = IF thr[t].job = "rotate" THEN [answer |-> a, alone |-> thr[t].alone] ELSE last

\* The row and the audit row in one transaction; then the network row is read:
\* an event without one has its new tokens, and the request fails.
CommitTokens(t) ==
    /\ At(t, "commit")
    /\ row' = [n |-> thr[t].n, ver |-> thr[t].ver + 1]
    /\ IF conf.network THEN Step(t, "stop") /\ UNCHANGED last ELSE Answer(t, "error")
    /\ UNCHANGED <<conf, con, tracked, made, spent>>

\* One call of the runtime on the container of the thread's kind: what a sane
\* daemon does, or one of its failures.
Call(t, Op(_), next(_)) ==
    LET Yields(o) == con' = [con EXCEPT ![thr[t].kind] = o.con] /\ next(o.ok)
    IN  \/ (\E o \in Op(TRUE) : Yields(o)) /\ UNCHANGED spent
        \/ /\ spent.fails < conf.fails /\ Count("fails")
           /\ \E o \in Op(FALSE) \ Op(TRUE) : Yields(o)

Here(t) == con[thr[t].kind]

\* Errors of the stop and of the removal are only logged.
StopOld(t) ==
    /\ At(t, "stop")
    /\ Call(t, LAMBDA sane : StopContainer(Here(t), sane), LAMBDA ok : Step(t, "remove"))
    /\ UNCHANGED <<conf, row, tracked, made, last>>
RemoveOld(t) ==
    /\ At(t, "remove")
    /\ Call(t, LAMBDA sane : RemoveContainer(Here(t), sane), LAMBDA ok : Step(t, "create"))
    /\ UNCHANGED <<conf, row, tracked, made, last>>

\* The token in the environment of the new container.
CreateInfrastructureContainer(t) ==
    /\ At(t, "create")
    /\ Call(t, LAMBDA sane : CreateContainer(Here(t), thr[t].n, t, sane),
               LAMBDA ok : IF ok THEN Step(t, "start") /\ UNCHANGED last ELSE Answer(t, "error"))
    /\ UNCHANGED <<conf, row, tracked, made>>

\* What follows a container that runs: the probe, or the resource row.
AfterStart(t) == IF thr[t].job = "rotate" THEN "probe" ELSE "track"
StartInfrastructureContainer(t) ==
    /\ At(t, "start")
    /\ Call(t, LAMBDA sane : StartContainer(Here(t), t, sane),
               LAMBDA ok : IF ok THEN Step(t, IF conf.control THEN "connect" ELSE AfterStart(t)) /\ UNCHANGED last
                           ELSE Answer(t, "error"))
    /\ UNCHANGED <<conf, row, tracked, made>>
\* A platform in containers: the new one joins the control network.  It is
\* stopped and removed again when it cannot, and errors of that are ignored.
ConnectControlNetwork(t) ==
    /\ At(t, "connect")
    /\ \/ Here(t).id = t /\ Step(t, AfterStart(t)) /\ UNCHANGED spent
       \/ Here(t).id # t /\ Step(t, "undo_stop") /\ UNCHANGED spent
       \/ spent.fails < conf.fails /\ Count("fails") /\ Step(t, "undo_stop")
    /\ UNCHANGED <<conf, row, con, tracked, made, last>>
UndoStop(t) ==
    /\ At(t, "undo_stop")
    /\ Call(t, LAMBDA sane : ById(Here(t), t, LAMBDA s : StopContainer(Here(t), s), sane),
               LAMBDA ok : Step(t, "undo_remove"))
    /\ UNCHANGED <<conf, row, tracked, made, last>>
UndoRemove(t) ==
    /\ At(t, "undo_remove")
    /\ Call(t, LAMBDA sane : ById(Here(t), t, LAMBDA s : RemoveContainer(Here(t), s), sane),
               LAMBDA ok : Answer(t, "error"))
    /\ UNCHANGED <<conf, row, tracked, made>>

\* Done with one container: on to the judge server, or the answer.
NextKind(t, pc) ==
    IF thr[t].kind = "flagserver"
    THEN thr' = [thr EXCEPT ![t] = [@ EXCEPT !.kind = "judgeserver", !.pc = pc]] /\ UNCHANGED last
    ELSE Answer(t, "ok")

\* A TCP connect to the fixed address, up to 24 times: it tells that some
\* container runs there; one that runs may still not listen in time.  The
\* resource row, if there is one, keeps its name.
WaitForTcpReady(t) ==
    /\ At(t, "probe")
    /\ \/ Running(Here(t)) /\ NextKind(t, "stop") /\ UNCHANGED spent
       \/ ~Running(Here(t)) /\ Answer(t, "error") /\ UNCHANGED spent
       \/ Running(Here(t)) /\ spent.fails < conf.fails /\ Count("fails") /\ Answer(t, "error")
    /\ UNCHANGED <<conf, row, con, tracked, made>>

----------------------------------------------------------------------------
(* A deployment: the row is read once, the containers are looked at later. *)

DeployEvent(t) ==
    /\ At(t, "idle") /\ conf.network /\ spent.deploys < conf.deploys /\ Count("deploys")
    /\ thr' = [thr EXCEPT ![t] = [Idle EXCEPT !.pc = "ensure", !.job = "deploy", !.n = row.n]]
    /\ UNCHANGED <<conf, row, con, tracked, made, last>>

ResourceExists(t) ==
    /\ At(t, "ensure")
    /\ thr' = [thr EXCEPT ![t] = [@ EXCEPT !.pc = "inspect", !.known = thr[t].kind \in tracked]]
    /\ UNCHANGED <<conf, row, con, tracked, made, last, spent>>
\* A container with a row that runs is left alone; whatever else is created anew.
EnsureInfraContainer(t) ==
    /\ At(t, "inspect")
    /\ Call(t, LAMBDA sane : InspectContainer(Here(t), sane),
               LAMBDA running : IF thr[t].known /\ running THEN NextKind(t, "ensure")
                                ELSE Step(t, "create") /\ UNCHANGED last)
    /\ UNCHANGED <<conf, row, tracked, made>>

\* A second row of one container is refused.
RecordResource(t) ==
    /\ At(t, "track")
    /\ IF thr[t].kind \in tracked THEN Answer(t, "error") ELSE NextKind(t, "ensure")
    /\ tracked' = tracked \cup {thr[t].kind}
    /\ UNCHANGED <<conf, row, con, made, spent>>

----------------------------------------------------------------------------
ContainerDies(k) ==
    /\ spent.fails < conf.fails /\ Running(con[k]) /\ Count("fails")
    /\ con' = [con EXCEPT ![k].st = "down"]
    /\ UNCHANGED <<conf, row, tracked, made, last, thr>>

\* The process dies: a rotation under way is never answered.
Crash ==
    /\ spent.crashes < conf.crashes /\ Count("crashes")
    /\ last' = IF Rotating = {} THEN last ELSE [answer |-> "lost", alone |-> FALSE]
    /\ thr' = [t \in Threads |-> Idle]
    /\ UNCHANGED <<conf, row, con, tracked, made>>

Continue(t) ==
    \/ CommitTokens(t) \/ StopOld(t) \/ RemoveOld(t) \/ CreateInfrastructureContainer(t)
    \/ StartInfrastructureContainer(t) \/ ConnectControlNetwork(t) \/ UndoStop(t) \/ UndoRemove(t)
    \/ WaitForTcpReady(t) \/ ResourceExists(t) \/ EnsureInfraContainer(t) \/ RecordResource(t)

Next ==
    \/ \E t \in conf.threads : RotateTokens(t) \/ DeployEvent(t) \/ Continue(t)
    \/ \E k \in Kinds : ContainerDies(k)
    \/ Crash

Spec == Init /\ [][Next]_vars

----------------------------------------------------------------------------
TypeOK ==
    /\ row \in [n : 1..(conf.rotations + 1), ver : 1..(conf.rotations + 1)]
    /\ con \in [Kinds -> {Gone} \cup
                  [st : {"created", "up", "down"}, env : 1..(conf.rotations + 1),
                   id : Threads \cup {"first"}]]
    /\ tracked \subseteq Kinds /\ made \in 1..(conf.rotations + 1)
    /\ last.answer \in {"none", "ok", "error", "lost"}
    /\ \A t \in Threads :
         thr[t].pc \in {"idle", "commit", "stop", "remove", "create", "start", "connect", "undo_stop",
                        "undo_remove", "probe", "ensure", "inspect", "track"}

(* A rotation that ran alone and was answered with success leaves no       *)
(* container that runs with a token the platform refuses: whoever runs is  *)
(* known as what it is, with a deployment under way or not.                *)
NoSilentMismatch ==
    Rotating = {} /\ last = [answer |-> "ok", alone |-> TRUE] =>
       \A k \in Kinds : Running(con[k]) => FromRequest(<<k, con[k].env>>) = k

----------------------------------------------------------------------------
(* What every step keeps *)

Pcs == {"idle", "commit", "stop", "remove", "create", "start", "connect", "undo_stop",
        "undo_remove", "probe", "ensure", "inspect", "track"}
Containers == {Gone} \cup [st : {"created", "up", "down"}, env : Nat, id : Threads \cup {"first"}]
Locals == [pc : Pcs, job : {"none", "rotate", "deploy"}, n : Nat, ver : Nat, kind : Kinds,
           alone : BOOLEAN, known : BOOLEAN]
Types ==
    /\ conf \in Settings /\ row \in [n : Nat, ver : Nat] /\ con \in [Kinds -> Containers]
    /\ tracked \subseteq Kinds /\ made \in Nat
    /\ last \in [answer : {"none", "ok", "error", "lost"}, alone : BOOLEAN]
    /\ thr \in [Threads -> Locals] /\ spent \in [fails : Nat, deploys : Nat, crashes : Nat]

\* A thread that is not idle has a job; only a rotation commits and removes,
\* and it does both for the flag server first; only a deployment looks at
\* resource rows.
Jobs(w) == /\ w.pc = "idle" <=> w.job = "none"
           /\ w.pc \in {"commit", "stop", "remove", "probe"} => w.job = "rotate"
           /\ w.pc = "commit" => w.kind = "flagserver"
           /\ w.pc \in {"ensure", "inspect", "track"} => w.job = "deploy"

\* Tokens are those of rotations that began, versions no more than these.
Counted ==
    /\ 1 <= made /\ made <= conf.rotations + 1
    /\ 1 <= row.n /\ row.n <= made /\ 1 <= row.ver /\ row.ver <= made
    /\ \A k \in Kinds : con[k] # Gone => 1 <= con[k].env /\ con[k].env <= made
    /\ \A t \in Threads : thr[t].pc # "idle" => 1 <= thr[t].n /\ thr[t].n <= made
    /\ \A t \in Threads : thr[t].pc = "commit" => 1 <= thr[t].ver /\ thr[t].ver < made

\* A rotation that runs alone: the row has its tokens, and the containers it
\* has created are its own still.
Replaced(w) == {k \in Kinds : \/ k = "flagserver" /\ w.kind = "judgeserver"
                              \/ k = w.kind /\ w.pc \in {"start", "connect", "probe"}}
Alone ==
    \A t \in Threads : thr[t].job = "rotate" /\ thr[t].alone =>
        /\ \A u \in Threads : thr[u].job = "rotate" => u = t
        /\ thr[t].pc # "commit" =>
              row.n = thr[t].n /\ \A k \in Replaced(thr[t]) : con[k].id = t /\ con[k].env = thr[t].n

\* After one that succeeded nobody is left who could take a container away.
Owns(w, k) == w.kind = k /\ w.pc \in {"start", "connect", "undo_stop", "undo_remove"}
Settled ==
    (\A t \in Threads : thr[t].job # "rotate") /\ last.answer = "ok" /\ last.alone =>
        \A k \in Kinds : /\ con[k] # Gone /\ con[k].env = row.n
                         /\ \A t \in Threads : Owns(thr[t], k) => con[k].id # t

Inductive == Types /\ (\A t \in Threads : Jobs(thr[t])) /\ Counted /\ Alone /\ Settled
============================================================================

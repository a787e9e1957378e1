----------------------------- MODULE OidcLogout -----------------------------
(***************************************************************************)
(* Signing out of every application: the confirmed logout of a browser     *)
(* revokes its sessions, writes one delivery per session and application   *)
(* that asked to be told (the outbox oidc_backchannel_deliveries), posts   *)
(* the logout tokens and answers what became of each; a worker repeats     *)
(* what failed.  The process may crash between any two of these.           *)
(***************************************************************************)
EXTENDS Naturals, FiniteSets

CONSTANTS Sessions, Clients, Batches,
          MaxAttempts,    \* MAX_ATTEMPTS
          Worlds          \* what applications support, and the bounds

VARIABLES world, sess,    \* sess[s]: live or revoked
          bound,          \* oidc_session_clients: applications with a token of s
          client,         \* client[c]: has an address, is active
          ask,            \* oidc_logout_requests: open, done, expired
          req,            \* logouts under way, by batch
          row,            \* row[b][s][c]: the deliveries
          worker,         \* rows the worker is delivering
          told,           \* told[c]: sessions c was told of (external)
          spent,          \* faults so far
          changed         \* applications changed since (history)

vars == <<world, sess, bound, client, ask, req, row, worker, told, spent, changed>>

NoRow == [st |-> "none", attempts |-> 0, at |-> "none"]
Idle == [pc |-> "idle", targets |-> {}, affected |-> {}, silent |-> {}, todo |-> {},
         missed |-> FALSE, synced |-> FALSE]
Keys == Batches \X Sessions \X Clients
At(k) == row[k[1]][k[2]][k[3]]
Write(k, r) == [row EXCEPT ![k[1]][k[2]][k[3]] = r]

Init ==
    /\ world \in Worlds
    /\ sess = [s \in Sessions |-> IF s \in world.signedIn THEN "live" ELSE "revoked"]
    /\ bound = [s \in Sessions |-> IF s \in world.signedIn THEN world.held ELSE {}]
    /\ client = [c \in Clients |-> [uri |-> c \in world.address, active |-> TRUE]]
    /\ ask = [b \in Batches |-> "none"] /\ req = [b \in Batches |-> Idle]
    /\ row = [b \in Batches |-> [s \in Sessions |-> [c \in Clients |-> NoRow]]]
    /\ worker = {} /\ told = [c \in Clients |-> {}]
    /\ spent = [faults |-> 0, crashes |-> 0, binds |-> 0] /\ changed = {}

Live == {s \in Sessions : sess[s] = "live"}
Supports(c) == client[c].uri /\ client[c].active

\* record_session_client: the token endpoint gave c a token of s; a session
\* that was revoked since is not asked about.
RecordSessionClient(s, c) ==
    /\ spent.binds < world.binds /\ s \in world.signedIn /\ c \notin bound[s]
    /\ spent' = [spent EXCEPT !.binds = @ + 1]
    /\ bound' = [bound EXCEPT ![s] = @ \cup {c}]
    /\ UNCHANGED <<world, sess, client, ask, req, row, worker, told, changed>>

\* The owner takes the address away, or an administrator suspends.
ClientChanges(c) ==
    /\ spent.faults < world.faults /\ spent' = [spent EXCEPT !.faults = @ + 1]
    /\ \/ client[c].uri /\ client' = [client EXCEPT ![c].uri = FALSE]
       \/ client[c].active /\ client' = [client EXCEPT ![c].active = FALSE]
    /\ changed' = changed \cup {c}
    /\ UNCHANGED <<world, sess, bound, ask, req, row, worker, told>>

\* end_session: the confirmation page of an application's request, where
\* there is something to sign out of.
EndSession(b) ==
    /\ b \in world.requests /\ ask[b] = "none" /\ Live # {}
    /\ ask' = [ask EXCEPT ![b] = "open"]
    /\ UNCHANGED <<world, sess, bound, client, req, row, worker, told, spent, changed>>

\* affected_clients: who holds a token of the sessions, and of these who
\* cannot be told.
AffectedClients(targets) == {p \in targets \X Clients : p[2] \in bound[p[1]]}
WithoutBackchannel(affected) == {p[2] : p \in {q \in affected : ~Supports(q[2])}}

\* end_session_confirm: complete_logout_request lets it through once; the
\* user may have cancelled, which completes it as well.
EndSessionConfirm(b, targets, cancel) ==
    /\ ask[b] = "open" /\ req[b].pc = "idle"
    /\ ask' = [ask EXCEPT ![b] = "done"]
    /\ req' = IF cancel THEN req
              ELSE LET affected == AffectedClients(targets) IN
                   [req EXCEPT ![b] = [Idle EXCEPT !.pc = "revoke", !.targets = targets,
                      !.affected = affected, !.silent = WithoutBackchannel(affected)]]
    /\ UNCHANGED <<world, sess, bound, client, row, worker, told, spent, changed>>

\* revoke_for_logout
RevokeForLogout(b) ==
    /\ req[b].pc = "revoke"
    /\ sess' = [s \in Sessions |-> IF s \in req[b].targets THEN "revoked" ELSE sess[s]]
    /\ req' = [req EXCEPT ![b].pc = "enqueue"]
    /\ UNCHANGED <<world, bound, client, ask, row, worker, told, spent, changed>>

\* enqueue: a row per session and application, leased to the caller.
Enqueue(b) ==
    LET pairs == {p \in AffectedClients(req[b].targets) : Supports(p[2])} IN
    /\ req[b].pc = "enqueue"
    /\ row' = [row EXCEPT ![b] = [s \in Sessions |-> [c \in Clients |->
                 IF <<s, c>> \in pairs
                 THEN [st |-> "pending", attempts |-> 0, at |-> "leased"] ELSE NoRow]]]
    /\ req' = [req EXCEPT ![b].pc = "deliver", ![b].todo = {<<b, p[1], p[2]>> : p \in pairs}]
    /\ UNCHANGED <<world, sess, bound, client, ask, worker, told, spent, changed>>

-----------------------------------------------------------------------------
(* One delivery.                                                           *)

Mark(k, st) == Write(k, [At(k) EXCEPT !.st = st, !.attempts = @ + 1])

\* retry_or_fail: a later time, until the attempts are used up.
RetryOrFail(k) ==
    IF At(k).attempts + 1 >= MaxAttempts THEN Mark(k, "failed")
    ELSE Write(k, [At(k) EXCEPT !.attempts = @ + 1, !.at = "wait"])

\* deliver_one: the application and its address as they are now; 2xx delivers,
\* 400 and a forbidden target fail for good, anything else is tried again.
DeliverOne(k) ==
    LET c == k[3] IN
    \/ ~client[c].uri /\ row' = Mark(k, "failed") /\ UNCHANGED <<told, spent>>
    \/ /\ client[c].uri /\ row' = Mark(k, "delivered")
       /\ told' = [told EXCEPT ![c] = @ \cup {k[2]}] /\ UNCHANGED spent
    \/ /\ client[c].uri /\ spent.faults < world.faults
       /\ spent' = [spent EXCEPT !.faults = @ + 1]
       /\ \/ row' = Mark(k, "failed") /\ UNCHANGED told
          \/ row' = RetryOrFail(k) /\ told' \in {told, [told EXCEPT ![c] = @ \cup {k[2]}]}
          \/ row' = row /\ told' \in {told, [told EXCEPT ![c] = @ \cup {k[2]}]}   \* deadline

Delivering(k) == k \in worker \/ k \in req[k[1]].todo

\* deliver_batch of the caller: each row once, within the deadline.
DeliverBatch(b, k) ==
    /\ req[b].pc = "deliver" /\ k \in req[b].todo
    /\ DeliverOne(k)
    /\ req' = [req EXCEPT ![b].todo = @ \ {k},
                          ![b].missed = @ \/ row'[k[1]][k[2]][k[3]].st # "delivered"]
    /\ UNCHANGED <<world, sess, bound, client, ask, worker, changed>>

\* fully_synced: each row was delivered and no application was without an
\* address.
FullySynced(b) == ~req[b].missed /\ req[b].silent = {}
Answer(b) ==
    /\ req[b].pc = "deliver" /\ req[b].todo = {}
    /\ req' = [req EXCEPT ![b].pc = "answered", ![b].synced = FullySynced(b)]
    /\ UNCHANGED <<world, sess, bound, client, ask, row, worker, told, spent, changed>>

\* claim_due: pending, at its time, not locked by another worker; the lease
\* keeps others away while it is delivered.
ClaimDue(k) ==
    /\ At(k).st = "pending" /\ At(k).at = "due" /\ k \notin worker
    /\ row' = Write(k, [At(k) EXCEPT !.at = "leased"])
    /\ worker' = worker \cup {k}
    /\ UNCHANGED <<world, sess, bound, client, ask, req, told, spent, changed>>
RetryDue(k) ==
    /\ k \in worker /\ DeliverOne(k)
    /\ worker' = worker \ {k}
    /\ UNCHANGED <<world, sess, bound, client, ask, req, changed>>

\* next_attempt_at passes: of a wait, or of a lease nobody is working under.
Due(k) ==
    /\ At(k).st = "pending" /\ At(k).at \in {"wait", "leased"} /\ ~Delivering(k)
    /\ row' = Write(k, [At(k) EXCEPT !.at = "due"])
    /\ UNCHANGED <<world, sess, bound, client, ask, req, worker, told, spent, changed>>

\* The process ends; sessions, bindings and the outbox stay.
Crash ==
    /\ spent.crashes < world.crashes /\ spent' = [spent EXCEPT !.crashes = @ + 1]
    /\ req' = [b \in Batches |-> IF req[b].pc = "answered" THEN req[b] ELSE Idle]
    /\ worker' = {}
    /\ UNCHANGED <<world, sess, bound, client, ask, row, told, changed>>

Steps(b) == \/ RevokeForLogout(b) \/ Enqueue(b) \/ Answer(b)
            \/ \E s \in Sessions, c \in Clients : DeliverBatch(b, <<b, s, c>>)
Worker(k) == ClaimDue(k) \/ RetryDue(k)

Next ==
    \/ \E s \in Sessions, c \in Clients : RecordSessionClient(s, c)
    \/ \E c \in Clients : ClientChanges(c)
    \/ \E b \in Batches : EndSession(b) \/ Steps(b)
    \/ \E b \in Batches, targets \in SUBSET Live \ {{}}, cancel \in BOOLEAN :
         EndSessionConfirm(b, targets, cancel)
    \/ \E k \in Keys : Worker(k) \/ Due(k)
    \/ Crash

\* Requests run on, the worker's loop goes on, time passes.
Fairness == /\ \A b \in Batches : WF_vars(Steps(b))
            /\ \A k \in Keys : WF_vars(Worker(k) \/ Due(k))
Spec == Init /\ [][Next]_vars /\ Fairness

-----------------------------------------------------------------------------
\* Types.
TypeOK ==
    /\ \A k \in Keys : /\ At(k).st \in {"none", "pending", "delivered", "failed"}
                       /\ At(k).attempts <= MaxAttempts
    /\ \A b \in Batches : req[b].pc \in {"idle", "revoke", "enqueue", "deliver", "answered"}
    /\ \A k \in worker : At(k).st = "pending"

(* A logout that revoked a session leaves a delivery for every application *)
(* that held a token of it and asked to be told, unless the process died   *)
(* between the two.                                                        *)
RevokedIsQueued ==
    \A b \in Batches : req[b].pc = "answered" =>
        \A p \in req[b].affected :
            Supports(p[2]) /\ p[2] \notin changed => row[b][p[1]][p[2]].st # "none"

(* The report claims that every application is signed out only if each one *)
(* that held a token when the logout began, and was not reconfigured while *)
(* it ran, has been told.                                                  *)
SyncedIsTold ==
    \A b \in Batches : req[b].synced =>
        \A p \in req[b].affected : p[2] \notin changed => p[1] \in told[p[2]]
-----------------------------------------------------------------------------
(* What every step keeps *)

Pcs == {"idle", "revoke", "enqueue", "deliver", "answered"}
Rows == [st : {"none", "pending", "delivered", "failed"}, attempts : Nat, at : {"none", "leased", "wait", "due"}]
Types ==
    /\ world \in Worlds /\ sess \in [Sessions -> {"live", "revoked"}]
    /\ bound \in [Sessions -> SUBSET Clients]
    /\ client \in [Clients -> [uri : BOOLEAN, active : BOOLEAN]]
    /\ ask \in [Batches -> {"none", "open", "done"}]
    /\ req \in [Batches -> [pc : Pcs, targets : SUBSET Sessions, affected : SUBSET (Sessions \X Clients),
                           silent : SUBSET Clients, todo : SUBSET Keys, missed : BOOLEAN, synced : BOOLEAN]]
    /\ row \in [Batches -> [Sessions -> [Clients -> Rows]]]
    /\ worker \subseteq Keys /\ told \in [Clients -> SUBSET Sessions]
    /\ spent \in [faults : Nat, crashes : Nat, binds : Nat] /\ changed \subseteq Clients

\* A request is confirmed once, and only then has deliveries.
ConfirmedOnce ==
    /\ \A b \in Batches : req[b].pc # "idle" => ask[b] = "done"
    /\ \A k \in Keys : (ask[k[1]] # "done" \/ req[k[1]].pc \in {"revoke", "enqueue"}) => At(k).st = "none"

\* A row that is being delivered is pending and in one hand; a delivered one
\* was received.
Deliveries ==
    /\ \A k \in Keys :
         /\ At(k).attempts <= MaxAttempts
         /\ At(k).st = "pending" => At(k).attempts < MaxAttempts
         /\ At(k).st = "delivered" => k[2] \in told[k[3]]
    /\ \A k \in worker : At(k).st = "pending" /\ At(k).at = "leased"
    /\ \A b \in Batches : req[b].pc # "deliver" => req[b].todo = {}
    /\ \A b \in Batches : \A k \in req[b].todo :
          k[1] = b /\ At(k).st = "pending" /\ At(k).at = "leased" /\ k \notin worker

\* How far the logout b is with those it has to tell.
Progress(b) ==
    LET q == req[b] IN
    /\ q.pc \in {"revoke", "enqueue"} =>
          \A p \in q.affected :
             /\ p[1] \in q.targets /\ p[2] \in bound[p[1]]
             /\ p[2] \in q.silent \/ p[2] \in changed \/ Supports(p[2])
    /\ q.pc \in {"deliver", "answered"} => \A p \in q.affected : Supports(p[2]) => row[b][p[1]][p[2]].st # "none"
    /\ q.pc = "deliver" =>
          \A p \in q.affected :
             \/ p[2] \in q.silent \/ p[2] \in changed \/ q.missed
             \/ <<b, p[1], p[2]>> \in q.todo \/ p[1] \in told[p[2]]
    /\ q.pc = "idle" => q = Idle
    /\ q.synced => q.pc = "answered"

Inductive == Types /\ ConfirmedOnce /\ Deliveries /\ (\A b \in Batches : Progress(b)) /\ SyncedIsTold
=============================================================================

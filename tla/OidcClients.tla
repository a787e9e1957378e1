---------------------------- MODULE OidcClients -----------------------------
(***************************************************************************)
(* Applications registered with the OpenID provider: their status, moved   *)
(* by the owner and by administrators, and their client secret with its    *)
(* rotation.  Every operation reads the row, decides, and writes only its  *)
(* own columns; two operations may overlap between the read and the write. *)
(***************************************************************************)
EXTENDS Naturals

CONSTANTS Threads,
          MaxOps,      \* bound on operations
          Approval,    \* [oidc].require_client_approval
          Overlap      \* whether operations overlap

VARIABLES row,      \* oidc_clients: the application, or none
          thr,      \* operations between their read and their write
          ops,      \* operations so far; secrets are numbered by it
          retired,  \* secrets the owner was told no longer work (history)
          held      \* whether an administrator holds the application back (history)

vars == <<row, thr, ops, retired, held>>

None == [status |-> "none", public |-> FALSE, method |-> "none", secret |-> 0, previous |-> 0,
         pkce |-> TRUE, back |-> "none"]
NoInput == [uris |-> {}, back |-> "keep"]
Idle == [op |-> "idle", row |-> None, input |-> NoInput]

Init == /\ row = None /\ ops = 0 /\ retired = {} /\ held = FALSE
        /\ thr = [t \in Threads |-> Idle]

\* What an owner sends: redirect addresses, and an address for logout tokens to
\* keep, clear or set.
Inputs == [uris : SUBSET {"https", "fragment"}, back : {"keep", "clear", "https", "plain"}]
ValidateRegistration(uri) == uri = "https"
ValidateBackchannelUri(uri) == uri = "https"
ValidateInput(i) == /\ i.uris # {} /\ \A u \in i.uris : ValidateRegistration(u)
                    /\ i.back \in {"keep", "clear"} \/ ValidateBackchannelUri(i.back)

\* Public applications hold no secret, confidential ones must.
ResolveAuthMethod(public, asked) ==
    IF public THEN IF asked \in {"default", "none"} THEN "none" ELSE "refused"
    ELSE CASE asked = "default" -> "basic" [] asked = "none" -> "refused" [] OTHER -> asked

\* clients::create: pending where applications need approval; a secret, shown
\* once, for confidential ones.
Create(public, method, back) ==
    /\ row' = [None EXCEPT !.status = IF Approval THEN "pending" ELSE "active", !.public = public,
                           !.method = method, !.secret = IF public THEN 0 ELSE ops + 1,
                           !.back = IF back \in {"keep", "clear"} THEN "none" ELSE back]
    /\ held' = FALSE
    /\ UNCHANGED <<thr, retired>>
CreateClient(public, asked, input) ==
    /\ row.status = "none" /\ ops < MaxOps /\ ValidateInput(input)
    /\ ResolveAuthMethod(public, asked) # "refused"
    /\ ops' = ops + 1
    /\ Create(public, ResolveAuthMethod(public, asked), input.back)

OwnerOps == {"disable", "enable", "update", "rotate", "rotate_now", "delete"}
AdminOps == {"approve", "reject", "suspend", "reinstate", "pkce_on", "pkce_off"}

\* clients::owner_transition
OwnerTransition(status, action) ==
    CASE status = "active" /\ action = "disable" -> "disabled"
      [] status = "disabled" /\ action = "enable" -> "active"
      [] OTHER -> "refused"

\* clients::admin_transition
AdminTransition(status, action) ==
    CASE status \in {"pending", "rejected"} /\ action = "approve" -> "active"
      [] status = "pending" /\ action = "reject" -> "rejected"
      [] status \in {"pending", "active", "disabled"} /\ action = "suspend" -> "suspended"
      [] status = "suspended" /\ action = "reinstate" -> "active"
      [] OTHER -> "refused"

\* An operation reads the row; what it refuses from that row ends it there.
Read(t, op, input, allowed) ==
    /\ thr[t] = Idle /\ ops < MaxOps /\ (Overlap \/ \A o \in Threads : thr[o] = Idle)
    /\ row.status # "none" /\ allowed
    /\ ops' = ops + 1
    /\ thr' = [thr EXCEPT ![t] = [op |-> op, row |-> row, input |-> input]]
    /\ UNCHANGED <<row, retired, held>>

OwnerReads(t, op) == Read(t, op, NoInput, OwnerTransition(row.status, op) # "refused")
DisableMyClient(t) == OwnerReads(t, "disable")
EnableMyClient(t) == OwnerReads(t, "enable")
UpdateMyClient(t, input) == Read(t, "update", input, ValidateInput(input))
RotateMySecret(t, now) == Read(t, IF now THEN "rotate_now" ELSE "rotate", NoInput, ~row.public)
DeleteMyClient(t) == Read(t, "delete", NoInput, TRUE)

AdminReads(t, op) == Read(t, op, NoInput, AdminTransition(row.status, op) # "refused")
AdminApprove(t) == AdminReads(t, "approve")
AdminReject(t) == AdminReads(t, "reject")
AdminSuspend(t) == AdminReads(t, "suspend")
AdminReinstate(t) == AdminReads(t, "reinstate")
AdminSetPkce(t, on) == Read(t, IF on THEN "pkce_on" ELSE "pkce_off", NoInput, on \/ ~row.public)

\* clients::rotate_secret: the secret it read stays valid for the grace period,
\* or not at all.
RotateSecret(r, grace) ==
    [row EXCEPT !.secret = ops + 1, !.previous = IF grace THEN r.secret ELSE 0]

\* clients::set_status; clients::update, which leaves a logout address alone
\* that the input does not mention; each writes its own columns.
SetStatus(status) == [row EXCEPT !.status = status]
Update(input) ==
    [row EXCEPT !.back = CASE input.back = "keep" -> @ [] input.back = "clear" -> "none"
                           [] OTHER -> input.back]
Written(op, r, input) ==
    CASE op \in {"disable", "enable"} -> SetStatus(OwnerTransition(r.status, op))
      [] op \in {"approve", "reject", "suspend", "reinstate"} ->
           SetStatus(AdminTransition(r.status, op))
      [] op = "update" -> Update(input)
      [] op = "rotate" -> RotateSecret(r, TRUE)
      [] op = "rotate_now" -> RotateSecret(r, FALSE)
      [] op \in {"pkce_on", "pkce_off"} -> [row EXCEPT !.pkce = op = "pkce_on"]
      [] op = "delete" -> None

Write(t) ==
    LET op == thr[t].op r == thr[t].row IN
    /\ thr[t] # Idle
    /\ row' = IF row.status = "none" THEN row ELSE Written(op, r, thr[t].input)
    /\ ops' = IF op \in {"rotate", "rotate_now"} THEN ops + 1 ELSE ops
    /\ retired' = CASE op = "rotate" /\ r.previous > 0 -> retired \cup {r.previous}
                    [] op = "rotate_now" -> retired \cup ({r.secret, r.previous} \ {0})
                    [] OTHER -> retired
    /\ held' = CASE op \in {"suspend", "reject"} -> TRUE
                 [] op \in {"reinstate", "approve"} -> FALSE
                 [] OTHER -> held
    /\ thr' = [thr EXCEPT ![t] = Idle]

\* previous_secret_expires_at passes.
GraceEnds ==
    /\ row.previous > 0
    /\ retired' = retired \cup {row.previous}
    /\ row' = [row EXCEPT !.previous = 0]
    /\ UNCHANGED <<thr, ops, held>>

Owner(t) == \/ DisableMyClient(t) \/ EnableMyClient(t) \/ DeleteMyClient(t)
            \/ \E now \in BOOLEAN : RotateMySecret(t, now)
            \/ \E input \in Inputs : UpdateMyClient(t, input)
Admin(t) == \/ AdminApprove(t) \/ AdminReject(t) \/ AdminSuspend(t) \/ AdminReinstate(t)
            \/ \E on \in BOOLEAN : AdminSetPkce(t, on)

Next ==
    \/ \E public \in BOOLEAN, asked \in {"default", "none", "basic", "post"}, input \in Inputs :
         CreateClient(public, asked, input)
    \/ \E t \in Threads : Owner(t) \/ Admin(t) \/ Write(t)
    \/ GraceEnds

Spec == Init /\ [][Next]_vars

\* verify_secret: the current secret, or the previous one in its grace period.
VerifySecret(s) == s > 0 /\ s \in {row.secret, row.previous}
\* identify: a header or a form field, never both; authenticate_client: the
\* method the application is registered with.
Identify(header, field) ==
    CASE header > 0 /\ field > 0 -> "refused" [] header > 0 -> "basic"
      [] field > 0 -> "post" [] OTHER -> "none"
AuthenticateClient(header, field) ==
    /\ row.status = "active" /\ Identify(header, field) = row.method
    /\ IF row.method = "none" THEN row.public ELSE VerifySecret(header + field)

-----------------------------------------------------------------------------
\* Types.
TypeOK ==
    /\ row.status \in {"none", "pending", "active", "disabled", "suspended", "rejected"}
    /\ row.previous <= row.secret \/ Overlap
    /\ \A t \in Threads : thr[t].op \in {"idle"} \cup OwnerOps \cup AdminOps

(* A secret its owner was told is no longer valid (replaced at once, past  *)
(* its grace period, or two rotations old) never authenticates again; a    *)
(* confidential application never authenticates without a secret.          *)
RetiredRefused ==
    /\ \A s \in retired : ~AuthenticateClient(s, 0) /\ ~AuthenticateClient(0, s)
    /\ ~row.public => ~AuthenticateClient(0, 0)

(* clients.rs: a suspended application can only be brought back by an      *)
(* administrator, whatever its owner does.                                 *)
HeldStaysHeld == held => row.status # "active"
=============================================================================

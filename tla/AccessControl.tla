---------------------------- MODULE AccessControl ---------------------------
(***************************************************************************)
(* Accounts, their credentials, and the platform roles that carry the      *)
(* permissions.  A request resolves its actor first (account, permissions) *)
(* and opens its transaction afterwards: role changes that may remove the  *)
(* last super administrator serialise on the row of the built-in role.     *)
(***************************************************************************)
EXTENDS Naturals, FiniteSets

CONSTANTS Users, Roles, Permissions, Threads,
          Super,    \* the built-in role with grants_all
          Worlds    \* who holds what, which requests are sent, by whom, how many

VARIABLES world, role,   \* role[r]: platform_roles and platform_role_permissions
          held,          \* held[u]: user_platform_roles
          acct,          \* acct[u]: users
          tokens,        \* tokens issued so far
          lock,          \* holder of the row lock of the built-in role
          req,           \* requests under way
          count,         \* requests so far
          origin,        \* permissions each account started with (history)
          dead           \* tokens a completed reset must have ended (history)

vars == <<world, role, held, acct, tokens, lock, req, count, origin, dead>>

NoRole == [is |-> FALSE, perms |-> {}, protected |-> FALSE, all |-> FALSE]
Account == [is |-> TRUE, gone |-> FALSE, version |-> 0, active |-> TRUE]
Idle == [pc |-> "idle", op |-> "none", actor |-> "none", perms |-> {}, all |-> FALSE,
         target |-> "none", set |-> {}, version |-> 0, before |-> {}]

\* gen_jwt_token: identity, credential version and purpose, nothing else.
Token(u, purpose) == [user |-> u, version |-> acct[u].version, purpose |-> purpose]
GenSessionToken(u) == Token(u, "session")
GenPasswordResetToken(u) == Token(u, "reset")

\* PermissionSet::from_strings: names the code does not know count for nothing.
FromStrings(names) == names \cap Permissions
\* permissions_of_roles: the union, everything with a grants_all role.
PermissionsOf(rs) ==
    IF \E r \in rs : role[r].is /\ role[r].all THEN Permissions
    ELSE FromStrings(UNION {role[r].perms : r \in rs})
EffectivePermissions(u) == PermissionsOf(held[u])
HasAllAccess(u) == \E r \in held[u] : role[r].all

Init ==
    /\ world \in Worlds
    /\ role = [r \in Roles |-> IF r = Super THEN [NoRole EXCEPT !.is = TRUE, !.protected = TRUE, !.all = TRUE]
                 ELSE IF r \in DOMAIN world.roles THEN [NoRole EXCEPT !.is = TRUE, !.perms = world.roles[r]]
                 ELSE NoRole]
    /\ held = world.held
    /\ acct = [u \in Users |-> [Account EXCEPT !.is = u \notin world.absent]]
    /\ tokens = {[user |-> u, version |-> 0, purpose |-> "session"] : u \in world.actors}
    /\ lock = "none" /\ req = [t \in Threads |-> Idle] /\ count = 0
    /\ origin = [u \in Users |->
         IF Super \in world.held[u] THEN Permissions ELSE UNION {world.roles[r] : r \in world.held[u]}]
    /\ dead = {}

Set(t, r) == req' = [req EXCEPT ![t] = r]
May(op) == op \in world.ops /\ count < world.requests
Spend == count' = count + 1

-----------------------------------------------------------------------------
(* Credentials.                                                            *)

\* resolve_session_account: the purpose, the account, its version, its status.
Accepts(k) ==
    /\ k.purpose = "session" /\ acct[k.user].is /\ k.version = acct[k.user].version
    /\ acct[k.user].active

\* user_login with the right password; a disabled account is refused.
UserLogin(u) ==
    /\ May("login") /\ Spend
    /\ acct[u].is /\ acct[u].active /\ tokens' = tokens \cup {GenSessionToken(u)}
    /\ UNCHANGED <<world, role, held, acct, lock, req, origin, dead>>

\* send_reset_email
SendResetEmail(u) ==
    /\ May("mail") /\ Spend
    /\ acct[u].is /\ tokens' = tokens \cup {GenPasswordResetToken(u)}
    /\ UNCHANGED <<world, role, held, acct, lock, req, origin, dead>>

\* reset_password: the token's purpose and version are checked and the next
\* version computed from the row ...
ResetRead(t, k) ==
    /\ req[t].pc = "idle" /\ May("reset") /\ Spend
    /\ world.overlap \/ \A x \in Threads : req[x].pc # "reset"
    /\ k.purpose = "reset" /\ acct[k.user].is /\ k.version = acct[k.user].version
    /\ Set(t, [Idle EXCEPT !.pc = "reset", !.target = k.user, !.version = acct[k.user].version + 1,
                           !.before = {x \in tokens : x.user = k.user}])
    /\ UNCHANGED <<world, role, held, acct, tokens, lock, origin, dead>>

\* ... the password is hashed, and both are written.
ResetWrite(t) ==
    LET r == req[t] IN
    /\ r.pc = "reset" /\ Set(t, Idle)
    /\ acct' = IF acct[r.target].is THEN [acct EXCEPT ![r.target].version = r.version] ELSE acct
    /\ dead' = IF acct[r.target].is THEN dead \cup r.before ELSE dead
    /\ UNCHANGED <<world, role, held, tokens, lock, count, origin>>

\* patch_me and admin_patch_user: a new password leaves the version alone.
PatchMe(t) ==
    /\ req[t].pc = "patch_me" /\ Set(t, Idle)
    /\ UNCHANGED <<world, role, held, acct, tokens, lock, count, origin, dead>>
AdminPatchUser(t) ==
    /\ req[t].pc = "patch_user" /\ Set(t, Idle)
    /\ UNCHANGED <<world, role, held, acct, tokens, lock, count, origin, dead>>

\* The status column is written by an operator in the database.
Disable(u) ==
    /\ May("disable") /\ Spend
    /\ acct[u].active /\ acct' = [acct EXCEPT ![u].active = FALSE]
    /\ UNCHANGED <<world, role, held, tokens, lock, req, origin, dead>>

-----------------------------------------------------------------------------
(* The actor of a request, and its permission.                             *)

Required(op) ==
    CASE op \in {"create_role", "patch_role", "delete_role", "set_user_roles"} -> {"roles.manage"}
      [] op \in {"create_user", "patch_user", "delete_user"} -> {"users.manage"}
      [] OTHER -> {}

\* resolve_auth_context: the set the request works with from here on.
ResolveAuthContext(u) == [perms |-> EffectivePermissions(u), all |-> HasAllAccess(u)]

\* RequirePermission: the session, then the permission of the endpoint.
RequirePermission(t, op, k, target, set) ==
    LET auth == ResolveAuthContext(k.user) IN
    /\ req[t].pc = "idle" /\ May(op) /\ Spend
    /\ Accepts(k) /\ Required(op) \subseteq auth.perms
    /\ Set(t, [Idle EXCEPT !.pc = op, !.op = op, !.actor = k.user, !.perms = auth.perms, !.all = auth.all,
                           !.target = target, !.set = set])
    /\ UNCHANGED <<world, role, held, acct, tokens, lock, origin, dead>>

-----------------------------------------------------------------------------
(* EscalationGuard                                                         *)

AssertSubset(r, perms) == r.all \/ perms \subseteq r.perms
CheckRolePermissions(r, before, after) == AssertSubset(r, before) /\ AssertSubset(r, after)
CheckTargetPermissions(r, before, after) == AssertSubset(r, before) /\ AssertSubset(r, after)
CheckTargetNotGrantsAll(r, all) == all => r.all
CheckSelfLockout(r, after) == r.all \/ "roles.manage" \in after

\* permissions_after_role_change and permissions_after_role_removal
AfterRoleChange(u, x, after) ==
    IF role[x].all THEN Permissions ELSE PermissionsOf(held[u] \ {x}) \cup after
AfterRoleRemoval(u, x) == PermissionsOf(held[u] \ {x})

\* count_all_powerful_accounts, over grants and roles as the transaction sees
\* them after its writes
Powerful(grants, rs) == {u \in Users : \E r \in grants[u] : rs[r].is /\ rs[r].all}
NotLastSuperAdmin(grants, rs) == Powerful(grants, rs) # {}

-----------------------------------------------------------------------------
(* Roles.                                                                  *)

\* lock_super_admin_role
LockSuperAdminRole(t) ==
    /\ req[t].pc \in {"patch_role", "delete_role", "set_user_roles"} /\ lock = "none"
    /\ lock' = t /\ Set(t, [req[t] EXCEPT !.pc = "check"])
    /\ UNCHANGED <<world, role, held, acct, tokens, count, origin, dead>>

\* parse_permissions: a body with an unknown name is refused.
ParsePermissions(names) == names = FromStrings(names)

\* create_role: its own transaction, without the lock; never protected and
\* never grants_all.
CreateRole(t) ==
    LET r == req[t] IN
    /\ r.pc = "create_role" /\ Set(t, Idle)
    /\ role' = IF ~role[r.target].is /\ ParsePermissions(r.set) /\ CheckRolePermissions(r, {}, r.set)
               THEN [role EXCEPT ![r.target] = [NoRole EXCEPT !.is = TRUE, !.perms = r.set]] ELSE role
    /\ UNCHANGED <<world, held, acct, tokens, lock, count, origin, dead>>

\* A refused transaction is rolled back and the lock released.
Refuse(t) ==
    /\ lock' = IF lock = t THEN "none" ELSE lock
    /\ Set(t, Idle)
Pass(t) == Set(t, [req[t] EXCEPT !.pc = "commit"]) /\ UNCHANGED lock

\* patch_role with a new set of permissions
PatchRoleAllowed(r) ==
    /\ role[r.target].is /\ ~role[r.target].protected /\ ParsePermissions(r.set)
    /\ CheckRolePermissions(r, role[r.target].perms, r.set)
    /\ r.target \in held[r.actor] => CheckSelfLockout(r, AfterRoleChange(r.actor, r.target, r.set))
    /\ NotLastSuperAdmin(held, role)
PatchRole(t) ==
    LET r == req[t] IN
    /\ r.pc = "check" /\ r.op = "patch_role"
    /\ IF PatchRoleAllowed(r) THEN Pass(t) ELSE Refuse(t)
    /\ UNCHANGED <<world, role, held, acct, tokens, count, origin, dead>>

\* delete_role
DeleteRoleAllowed(r) ==
    /\ role[r.target].is /\ ~role[r.target].protected
    /\ CheckRolePermissions(r, role[r.target].perms, {})
    /\ r.target \in held[r.actor] => CheckSelfLockout(r, AfterRoleRemoval(r.actor, r.target))
    /\ NotLastSuperAdmin(held, [role EXCEPT ![r.target] = NoRole])
DeleteRole(t) ==
    LET r == req[t] IN
    /\ r.pc = "check" /\ r.op = "delete_role"
    /\ IF DeleteRoleAllowed(r) THEN Pass(t) ELSE Refuse(t)
    /\ UNCHANGED <<world, role, held, acct, tokens, count, origin, dead>>

\* set_user_roles: the protection of a grants_all target looks at it only when
\* no role is requested; in the other cases its permissions, all of them, must
\* be within the actor's.
SetUserRolesAllowed(r) ==
    /\ acct[r.target].is /\ \A x \in r.set : role[x].is
    /\ CheckTargetNotGrantsAll(r, r.set = {} /\ HasAllAccess(r.target))
    /\ CheckTargetPermissions(r, EffectivePermissions(r.target), PermissionsOf(r.set))
    /\ r.target = r.actor => CheckSelfLockout(r, PermissionsOf(r.set))
    /\ NotLastSuperAdmin([held EXCEPT ![r.target] = r.set], role)
SetUserRoles(t) ==
    LET r == req[t] IN
    /\ r.pc = "check" /\ r.op = "set_user_roles"
    /\ IF SetUserRolesAllowed(r) THEN Pass(t) ELSE Refuse(t)
    /\ UNCHANGED <<world, role, held, acct, tokens, count, origin, dead>>

\* commit: the writes become visible, the lock is released.  The rows of a
\* deleted role or account go with it.
Commit(t) ==
    LET r == req[t] IN
    /\ r.pc = "commit" /\ Refuse(t)
    /\ role' = CASE r.op = "patch_role" -> [role EXCEPT ![r.target].perms = r.set]
                 [] r.op = "delete_role" -> [role EXCEPT ![r.target] = NoRole]
                 [] OTHER -> role
    /\ held' = CASE r.op = "delete_role" -> [u \in Users |-> held[u] \ {r.target}]
                 [] r.op = "set_user_roles" /\ acct[r.target].is -> [held EXCEPT ![r.target] = r.set]
                 [] OTHER -> held
    /\ UNCHANGED <<world, acct, tokens, count, origin, dead>>

\* ensure_builtin_roles at boot: the built-in row exists with its flags.
EnsureBuiltinRoles ==
    /\ May("boot") /\ Spend /\ \A t \in Threads : req[t].pc = "idle"
    /\ role' = [role EXCEPT ![Super] = [@ EXCEPT !.is = TRUE, !.protected = TRUE, !.all = TRUE]]
    /\ UNCHANGED <<world, held, acct, tokens, lock, req, origin, dead>>

-----------------------------------------------------------------------------
(* Accounts.                                                               *)

\* create_user (self-registration) and admin_create_user: an account without
\* roles; a name in use is refused by the index.
AdminCreateUser(t) ==
    LET u == req[t].target IN
    /\ req[t].pc = "create_user" /\ Set(t, Idle)
    /\ acct' = IF acct[u].is \/ acct[u].gone THEN acct ELSE [acct EXCEPT ![u] = Account]
    /\ UNCHANGED <<world, role, held, tokens, lock, count, origin, dead>>
CreateUser(u) ==
    /\ May("register") /\ Spend
    /\ ~acct[u].is /\ ~acct[u].gone /\ acct' = [acct EXCEPT ![u] = Account]
    /\ UNCHANGED <<world, role, held, tokens, lock, req, origin, dead>>

\* admin_delete_user: users.manage is all it asks for; the roles of the account
\* go by the foreign key.
AdminDeleteUser(t) ==
    LET r == req[t] IN
    /\ r.pc = "delete_user" /\ Set(t, Idle)
    /\ acct' = [acct EXCEPT ![r.target].is = FALSE, ![r.target].gone = TRUE]
    /\ held' = [held EXCEPT ![r.target] = {}]
    /\ origin' = [origin EXCEPT ![r.target] = {}]
    /\ UNCHANGED <<world, role, tokens, lock, count, dead>>

\* Bodies of the requests of a world.
Bodies(op) == IF op \in DOMAIN world.bodies THEN world.bodies[op] ELSE {}

Steps(t) ==
    \/ \E op \in DOMAIN world.bodies, k \in tokens : \E b \in Bodies(op) :
         RequirePermission(t, op, k, b.target, b.set)
    \/ \E k \in tokens : ResetRead(t, k)
    \/ ResetWrite(t) \/ PatchMe(t) \/ AdminPatchUser(t) \/ LockSuperAdminRole(t)
    \/ CreateRole(t) \/ PatchRole(t) \/ DeleteRole(t) \/ SetUserRoles(t) \/ Commit(t)
    \/ AdminCreateUser(t) \/ AdminDeleteUser(t)
Next ==
    \/ \E t \in Threads : Steps(t)
    \/ \E u \in Users : UserLogin(u) \/ SendResetEmail(u) \/ Disable(u) \/ CreateUser(u)
    \/ EnsureBuiltinRoles

Spec == Init /\ [][Next]_vars

-----------------------------------------------------------------------------
TypeOK ==
    /\ \A u \in Users : held[u] \subseteq {r \in Roles : role[r].is}
    /\ \A r \in Roles : role[r].perms \subseteq Permissions
    /\ lock \in Threads \cup {"none"} /\ count \in 0..world.requests
    /\ \A t \in Threads : req[t].pc = "commit" => lock = t

\* What the accounts that send requests may hold between them.
Ceiling == UNION {origin[u] : u \in world.actors}

(* The anti-escalation rule over any sequence of requests: a permission    *)
(* that none of the acting accounts holds is neither given to nor taken    *)
(* from anybody by role changes (roles/service.rs EscalationGuard, before  *)
(* and after).                                                             *)
OutsideCeilingFrozen ==
    \A u \in Users : EffectivePermissions(u) \ Ceiling = origin[u] \ Ceiling

(* Some account keeps the built-in role's powers, whoever demotes whom at  *)
(* the same time (lock_super_admin_role, assert_not_last_super_admin), as  *)
(* long as no account is deleted.                                          *)
SuperAdminRemains == "delete_user" \notin world.ops => Powerful(held, role) # {}

(* A token that existed when a completed password reset began never opens  *)
(* a session again, while resets of an account do not overlap.             *)
DeadStaysDead == \A k \in dead : ~Accepts(k)
=============================================================================

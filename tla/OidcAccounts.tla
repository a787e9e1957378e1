---------------------------- MODULE OidcAccounts ----------------------------
(***************************************************************************)
(* The accounts of one browser: a container row found by the secret in the *)
(* browser's cookie, the sessions in it, and the session the main site     *)
(* uses.  A request of a tab carries the cookie of the moment it is sent,  *)
(* loads the container and its accounts, then writes; requests of several  *)
(* tabs overlap.  The answer's cookie replaces the browser's.              *)
(***************************************************************************)
EXTENDS Naturals, FiniteSets

CONSTANTS Users, Tabs, Containers, Sessions,
          Setups    \* cookie the browser starts with, requests, who overlaps, limit

VARIABLES setup, box,    \* box[c]: oidc_browser_containers
          sess,          \* sess[s]: oidc_browser_sessions
          jar,           \* cookies of the browser: container secret, legacy session
          req,           \* requests under way
          count,         \* requests and secrets so far
          out,           \* sessions a sign-out was answered for (history)
          expect         \* the account the last answer said is signed in (history)

vars == <<setup, box, sess, jar, req, count, out, expect>>

NoBox == [is |-> FALSE, revoked |-> FALSE, secret |-> 0, web |-> "none", before |-> {}]
NoSession == [user |-> "none", box |-> "none", state |-> "none"]
Idle == [pc |-> "idle", op |-> "none", box |-> "none", acc |-> {}, web |-> "none",
         before |-> {}, user |-> "none", s |-> "none", gone |-> {}, secret |-> 0]

\* Either no cookie, or the cookie of the single-session mode with a session
\* of the first user.
Init ==
    /\ setup \in Setups
    /\ box = [c \in Containers |-> NoBox]
    /\ \E s \in {CHOOSE s \in Sessions : TRUE} :
         /\ sess = [x \in Sessions |-> IF x = s /\ setup.legacy
                      THEN [user |-> setup.first, box |-> "none", state |-> "live"] ELSE NoSession]
         /\ jar = [secret |-> 0, legacy |-> IF setup.legacy THEN s ELSE "none"]
    /\ req = [t \in Tabs |-> Idle] /\ count = [requests |-> 0, secrets |-> 0]
    /\ out = {} /\ expect = "unknown"

Live(c) == {s \in Sessions : sess[s].box = c /\ sess[s].state = "live"}
\* find_container: by secret, not revoked.
FindContainer(secret) == {c \in Containers : box[c].is /\ ~box[c].revoked /\ box[c].secret = secret}
FreeBox == CHOOSE c \in Containers : ~box[c].is
HasFreeBox == \E c \in Containers : ~box[c].is
Set(t, r) == req' = [req EXCEPT ![t] = r]
Loaded(op, c, acc) == [Idle EXCEPT !.pc = op, !.op = op, !.box = c, !.acc = acc,
                       !.web = IF c = "none" THEN "none" ELSE box[c].web,
                       !.before = IF c = "none" THEN {} ELSE box[c].before,
                       !.secret = IF c = "none" THEN 0 ELSE box[c].secret]

\* load: the container of the cookie and its live sessions; else the session
\* of a legacy cookie, moved into a new container; else nothing.
Load(t, op) ==
    /\ req[t].pc = "idle" /\ t \in setup.tabs /\ op \in setup.ops /\ count.requests < setup.requests
    /\ expect' = "unknown"
    /\ \/ \E c \in FindContainer(jar.secret) :
            /\ Set(t, Loaded(op, c, Live(c)))
            /\ count' = [count EXCEPT !.requests = @ + 1]
            /\ UNCHANGED <<box, sess>>
       \/ /\ FindContainer(jar.secret) = {} /\ jar.legacy # "none" /\ HasFreeBox
          /\ sess[jar.legacy].state = "live"
          /\ box' = [box EXCEPT ![FreeBox] = [NoBox EXCEPT !.is = TRUE, !.secret = count.secrets + 1]]
          /\ sess' = [sess EXCEPT ![jar.legacy].box = FreeBox]
          /\ count' = [requests |-> count.requests + 1, secrets |-> count.secrets + 1]
          /\ Set(t, [Loaded(op, FreeBox, {jar.legacy}) EXCEPT !.secret = count.secrets + 1])
       \/ /\ FindContainer(jar.secret) = {}
          /\ jar.legacy # "none" => sess[jar.legacy].state # "live"
          /\ Set(t, Loaded(op, "none", {}))
          /\ count' = [count EXCEPT !.requests = @ + 1]
          /\ UNCHANGED <<box, sess>>
    /\ UNCHANGED <<setup, jar, out>>

Reply(t, secret, says) ==
    /\ jar' = [secret |-> secret, legacy |-> IF secret = 0 THEN jar.legacy ELSE "none"]
    /\ Set(t, Idle) /\ expect' = says

-----------------------------------------------------------------------------
(* add_account: of login, of migrate and bridge (a platform token), and of *)
(* the password login of the platform.                                     *)

\* The session a sign-in of u starts with, or the one of u it finds.
SignIn(t, u) ==
    LET r == req[t] mine == {s \in r.acc : sess[s].user = u} IN
    /\ r.pc \in {"login", "migrate", "bridge"}
    /\ \/ r.pc = "migrate" /\ r.web \in r.acc /\ Reply(t, r.secret, "unknown")
       \/ r.pc = "bridge" /\ mine # {} /\ Reply(t, r.secret, "unknown")
       \/ /\ r.pc = "migrate" /\ r.web \notin r.acc /\ mine # {}
          /\ \E s \in mine : Set(t, [r EXCEPT !.pc = "point", !.s = s, !.user = u])
          /\ UNCHANGED <<jar, expect>>
       \/ /\ r.pc = "login" \/ (mine = {} /\ (r.pc = "bridge" \/ r.web \notin r.acc))
          /\ Set(t, [r EXCEPT !.pc = "rotate", !.user = u])
          /\ UNCHANGED <<jar, expect>>
    /\ UNCHANGED <<setup, box, sess, count, out>>

\* ensure_container and rotate_secret: the cookie changes with every sign-in.
RotateSecret(t) ==
    LET r == req[t] c == IF r.box = "none" THEN FreeBox ELSE r.box IN
    /\ r.pc = "rotate" /\ (r.box = "none" => HasFreeBox)
    /\ box' = [box EXCEPT ![c] = IF r.box = "none"
                 THEN [NoBox EXCEPT !.is = TRUE, !.secret = count.secrets + 1]
                 ELSE [@ EXCEPT !.secret = count.secrets + 1]]
    /\ count' = [count EXCEPT !.secrets = @ + 1]
    /\ Set(t, [r EXCEPT !.pc = "replace", !.box = c, !.secret = count.secrets + 1])
    /\ UNCHANGED <<setup, sess, jar, out, expect>>

RevokeSessions(ids) == [s \in Sessions |-> IF s \in ids /\ sess[s].state = "live"
                                           THEN [sess[s] EXCEPT !.state = "revoked"] ELSE sess[s]]

\* The older session of the user is replaced ...
ReplaceOwn(t) ==
    LET r == req[t] mine == {s \in r.acc : sess[s].user = r.user} IN
    /\ r.pc = "replace"
    /\ sess' = RevokeSessions(mine)
    /\ Set(t, [r EXCEPT !.pc = "evict", !.acc = @ \ mine, !.gone = mine])
    /\ UNCHANGED <<setup, box, jar, count, out, expect>>

\* ... and above the limit the least recently used ones are evicted.
Evict(t) ==
    LET r == req[t] IN
    /\ r.pc = "evict"
    /\ \E kept \in SUBSET r.acc :
         /\ Cardinality(kept) = IF Cardinality(r.acc) >= setup.max THEN setup.max - 1 ELSE Cardinality(r.acc)
         /\ sess' = RevokeSessions(r.acc \ kept)
         /\ Set(t, [r EXCEPT !.pc = "create", !.acc = kept])
    /\ UNCHANGED <<setup, box, jar, count, out, expect>>

\* create_session_in, and the pointer of the main site when its session went.
CreateSession(t) ==
    LET r == req[t] IN
    /\ r.pc = "create"
    /\ \E x \in Sessions : sess[x].state = "none"
    /\ LET s == CHOOSE x \in Sessions : sess[x].state = "none" IN
         /\ sess' = [sess EXCEPT ![s] = [user |-> r.user, box |-> r.box, state |-> "live"]]
         /\ Set(t, [r EXCEPT !.pc = IF r.op = "bridge" THEN "answer" ELSE "point", !.s = s,
                             !.acc = @ \cup {s}])
    /\ box' = IF r.web # "none" /\ (r.web \in r.gone \/ r.web \notin r.acc)
              THEN [box EXCEPT ![r.box].web = "none"] ELSE box
    /\ UNCHANGED <<setup, jar, count, out, expect>>

-----------------------------------------------------------------------------
(* The main site.                                                          *)

\* set_web_session
PointTo(t) ==
    LET r == req[t] IN
    /\ r.pc = "point"
    /\ box' = [box EXCEPT ![r.box].web = r.s]
    /\ Set(t, [r EXCEPT !.pc = "answer"])
    /\ UNCHANGED <<setup, sess, jar, count, out, expect>>

Answer(t) ==
    LET r == req[t] IN
    /\ r.pc = "answer"
    /\ Reply(t, r.secret, IF r.op = "bridge" THEN "unknown" ELSE sess[r.s].user)
    /\ UNCHANGED <<setup, box, sess, count, out>>

\* restore: the only account newer than the last sign-out.
Restorable(r) == r.acc \ r.before
Restore(t) ==
    LET r == req[t] IN
    /\ r.pc = "restore"
    /\ IF Cardinality(Restorable(r)) = 1 /\ r.web \notin r.acc
       THEN Set(t, [r EXCEPT !.pc = "point", !.s = CHOOSE s \in Restorable(r) : TRUE]) /\ UNCHANGED <<jar, expect>>
       ELSE Reply(t, r.secret, "unknown")
    /\ UNCHANGED <<setup, box, sess, count, out>>

\* select: an account of the list, or the answer that it is gone.
Select(t, s) ==
    LET r == req[t] IN
    /\ r.pc = "select"
    /\ IF s \in r.acc THEN Set(t, [r EXCEPT !.pc = "point", !.s = s]) /\ UNCHANGED <<jar, expect>>
       ELSE Reply(t, r.secret, "unknown")
    /\ UNCHANGED <<setup, box, sess, count, out>>

\* logout of one account: revoked, then the pointer with the time.
SignOutAccount(t, s) ==
    LET r == req[t] IN
    /\ r.pc = "logout" /\ s \in r.acc
    /\ sess' = RevokeSessions({s})
    /\ Set(t, [r EXCEPT !.pc = IF r.web = s THEN "unpoint" ELSE "out", !.s = s])
    /\ UNCHANGED <<setup, box, jar, count, out, expect>>
NothingToSignOut(t) ==
    /\ req[t].pc = "logout" /\ req[t].acc = {}
    /\ Reply(t, req[t].secret, "unknown")
    /\ UNCHANGED <<setup, box, sess, count, out>>
Unpoint(t) ==
    LET r == req[t] IN
    /\ r.pc = "unpoint"
    /\ box' = [box EXCEPT ![r.box].web = "none",
                          ![r.box].before = {s \in Sessions : sess[s].state # "none"}]
    /\ Set(t, [r EXCEPT !.pc = "out"])
    /\ UNCHANGED <<setup, sess, jar, count, out, expect>>
SignedOut(t) ==
    LET r == req[t] IN
    /\ r.pc = "out"
    /\ out' = out \cup {r.s}
    /\ Reply(t, r.secret, "unknown")
    /\ UNCHANGED <<setup, box, sess, count>>

\* sign_out_browser: the accounts loaded, every session of the container, the
\* container, and the cookies.
SignOutBrowser(t) ==
    LET r == req[t] IN
    /\ r.pc = "logout_all"
    /\ sess' = RevokeSessions(r.acc \cup (IF r.box = "none" THEN {} ELSE Live(r.box)))
    /\ Set(t, [r EXCEPT !.pc = "close", !.gone = r.acc \cup (IF r.box = "none" THEN {} ELSE Live(r.box))])
    /\ UNCHANGED <<setup, box, jar, count, out, expect>>
CloseContainer(t) ==
    LET r == req[t] IN
    /\ r.pc = "close"
    /\ box' = IF r.box = "none" THEN box
              ELSE [box EXCEPT ![r.box].revoked = TRUE, ![r.box].web = "none"]
    /\ out' = out \cup r.gone
    /\ jar' = [secret |-> 0, legacy |-> "none"]
    /\ Set(t, Idle) /\ expect' = "nobody"
    /\ UNCHANGED <<setup, sess, count>>

Ops == {"login", "migrate", "bridge", "restore", "select", "logout", "logout_all"}
Next ==
    \E t \in Tabs :
        \/ \E op \in Ops : Load(t, op)
        \/ \E u \in Users : SignIn(t, u)
        \/ \E s \in Sessions : Select(t, s) \/ SignOutAccount(t, s)
        \/ RotateSecret(t) \/ ReplaceOwn(t) \/ Evict(t) \/ CreateSession(t) \/ PointTo(t)
        \/ Answer(t) \/ Restore(t) \/ NothingToSignOut(t) \/ Unpoint(t) \/ SignedOut(t)
        \/ SignOutBrowser(t) \/ CloseContainer(t)

Spec == Init /\ [][Next]_vars

\* resolve_web_user: the session the main site acts for, for a cookie.
ResolveWebUser(secret) ==
    {box[c].web : c \in {d \in FindContainer(secret) : box[d].web \in Live(d)}}

-----------------------------------------------------------------------------
\* Types.
TypeOK ==
    /\ \A s \in Sessions : sess[s].state \in {"none", "live", "revoked"} /\ sess[s].box \in Containers \cup {"none"}
    /\ \A c \in Containers : box[c].web \in Sessions \cup {"none"} /\ box[c].secret <= count.secrets

(* A session a sign-out was answered for never acts on the main site       *)
(* again, with any cookie, whatever selects, restores and logins of other  *)
(* tabs were under way.                                                    *)
SignedOutIsOut == \A n \in 0..count.secrets : ResolveWebUser(n) \cap out = {}

(* The limit of accounts per browser: the requests that sign in at once    *)
(* each may exceed it by one, nothing else.                                *)
AccountsBounded == \A c \in Containers : Cardinality(Live(c)) < setup.max + Cardinality(setup.tabs)

(* One tab: what an answer said holds with the cookie it left: the account *)
(* it signed in acts, or nobody after signing out of the browser.          *)
AnsweredIsTrue ==
    Cardinality(setup.tabs) = 1 /\ expect # "unknown" =>
        {sess[s].user : s \in ResolveWebUser(jar.secret)} = IF expect = "nobody" THEN {} ELSE {expect}
=============================================================================

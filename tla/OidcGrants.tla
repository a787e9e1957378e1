----------------------------- MODULE OidcGrants -----------------------------
(***************************************************************************)
(* The OpenID provider of the platform: authorization transactions (login, *)
(* account choice, consent), authorization codes, access tokens and        *)
(* consents.  A handler reads the transaction and the browser's accounts,  *)
(* then writes; every write is one SQL statement or one SQL transaction,   *)
(* and handlers of several tabs, and the token endpoint, overlap between   *)
(* them.  A session of user u is <<u, n>>: the n-th login of u in this     *)
(* browser.  A CSRF token is a number; 0 stands for one no page holds.     *)
(***************************************************************************)
EXTENDS Naturals, Sequences, FiniteSets

CONSTANTS Users, Scopes, Threads, Txns,
          Settings    \* requests, accounts, who overlaps, and the bounds

VARIABLES setting,   \* the scenario, chosen once
          client,    \* oidc_clients.status of the application
          live,      \* live[u]: the valid session of u in this browser, 0 for none
          logins,    \* logins[u]: sessions of u created so far
          txn,       \* oidc_auth_transactions
          consents,  \* oidc_consents, one row per user
          codes,     \* oidc_authorization_codes
          tokens,    \* oidc_access_tokens
          thr,       \* handlers in progress
          used,      \* requests and revocations so far
          given,     \* given[u]: scopes u allowed since the last revocation (history)
          said       \* said[x]: what the user did in transaction x (history)

vars == <<setting, client, live, logins, txn, consents, codes, tokens, thr, used, given, said>>

NoOne == <<"none", 0>>
NoRequest == [select |-> FALSE, fresh |-> FALSE, consent |-> FALSE, none |-> FALSE, hint |-> "none",
              login |-> "none", scopes |-> {}, challenge |-> FALSE, nonce |-> TRUE]
NoTxn == [state |-> "none", req |-> NoRequest, user |-> "none", session |-> NoOne,
          authenticated |-> FALSE, choice |-> NoOne, selected |-> NoOne,
          switch |-> FALSE, csrf |-> 0, pages |-> 0]
NoConsent == [scopes |-> {}, state |-> "none"]
Idle == [pc |-> "idle", x |-> "none", row |-> NoTxn, acc |-> {}, s |-> NoOne,
         grant |-> {}, step |-> "none", old |-> NoConsent, code |-> 0]
Silent == [confirmed |-> {}, password |-> {}, allowed |-> {}]

SessionsOf(l) == {<<u, l[u]>> : u \in {v \in Users : l[v] > 0}}
Accounts == SessionsOf(live)

Init ==
    /\ setting \in Settings
    /\ client = "active"
    /\ live = [u \in Users |-> IF u \in setting.accounts THEN 1 ELSE 0]
    /\ logins = live
    /\ txn = [x \in Txns |-> NoTxn]
    /\ consents = [u \in Users |->
         IF u \in setting.consented THEN [scopes |-> Scopes, state |-> "active"] ELSE NoConsent]
    /\ codes = <<>> /\ tokens = <<>>
    /\ thr = [t \in Threads |-> Idle]
    /\ used = [requests |-> 0, exchanges |-> 0, revokes |-> 0, changes |-> 0]
    /\ given = [u \in Users |-> IF u \in setting.consented THEN Scopes ELSE {}]
    /\ said = [x \in Txns |-> Silent]

Begin(t, x) == /\ thr[t].pc = "idle" /\ t \in setting.tabs /\ x \in setting.txns
               /\ used.requests < setting.requests
               /\ used' = [used EXCEPT !.requests = @ + 1]
Go(t, r) == thr' = [thr EXCEPT ![t] = r]
Done(t) == thr' = [thr EXCEPT ![t] = Idle]
At(t, pc) == thr[t].pc = pc

-----------------------------------------------------------------------------
(* The decision of an authorization transaction.                           *)

Confirmed(row, s) == row.selected = s
IsUsable(row, s) == /\ row.req.hint \in {"none", s[1]}
                    /\ row.switch => Confirmed(row, s)
Candidates(row, acc) == {s \in acc : IsUsable(row, s)}
FreshIn(row, s) == row.authenticated /\ row.session = s

\* The session a transaction continues with: the one confirmed or logged in
\* within it, else the only candidate, else the one login_hint names; NoOne
\* when there is none or the choice is the user's.
ResolveSession(row, cand) ==
    LET bound == {s \in cand : Confirmed(row, s) \/ FreshIn(row, s)}
        hinted == {s \in cand : row.req.login = s[1]}
    IN  IF bound # {} THEN bound
        ELSE IF Cardinality(cand) = 1 THEN cand
        ELSE IF Cardinality(hinted) = 1 THEN hinted ELSE {NoOne}

\* prompt=login or max_age=0.  A larger max_age, which looks at the age of the
\* session, is not modelled.
RequiresFreshLogin(row) == row.req.fresh

Covers(consent, scopes) == consent.state = "active" /\ scopes \subseteq consent.scopes

Decide(row, s, cand) ==
    IF s = NoOne THEN IF Cardinality(cand) > 1 THEN "select" ELSE "login"
    ELSE IF setting.chooser /\ row.req.select /\ ~Confirmed(row, s) THEN "select"
    ELSE IF RequiresFreshLogin(row) /\ ~FreshIn(row, s) THEN "login"
    ELSE IF \/ row.req.consent
            \/ ~setting.chooser /\ row.req.select
            \/ ~Covers(consents[s[1]], row.req.scopes) THEN "consent"
    ELSE "issue"

\* evaluate: the step and the session, from the row and accounts read before
\* and the consent read now.
Evaluation(row, acc) ==
    LET cand == Candidates(row, acc)
    IN  {[step |-> Decide(row, s, cand), session |-> s] : s \in ResolveSession(row, cand)}

\* advance: an answer, or on to finish_with_error, the binding or the code.
Advance(t) ==
    LET r == thr[t] IN
    /\ At(t, "advance")
    /\ \E e \in Evaluation(r.row, r.acc) :
         LET bound == r.row.user = e.session[1] /\ r.row.session = e.session
         IN  IF r.row.req.none /\ e.step # "issue" THEN Go(t, [r EXCEPT !.pc = "finish"])
             ELSE IF e.step \in {"login", "select"} \/ (e.step = "consent" /\ bound) THEN Done(t)
             ELSE Go(t, [r EXCEPT !.pc = IF bound THEN "issue" ELSE "bind", !.s = e.session,
                                  !.step = e.step, !.grant = r.row.req.scopes])
    /\ UNCHANGED <<setting, client, live, logins, txn, consents, codes, tokens, used, given, said>>

BindTransactionUser(t) ==
    LET r == thr[t] IN
    /\ At(t, "bind")
    /\ txn' = [txn EXCEPT ![r.x].user = r.s[1], ![r.x].session = r.s]
    /\ IF r.step = "consent" THEN Done(t) ELSE Go(t, [r EXCEPT !.pc = "issue"])
    /\ UNCHANGED <<setting, client, live, logins, consents, codes, tokens, used, given, said>>

\* complete_transaction: true for one caller.
Completable(x) == txn[x].state \in {"live", "expired"}
CompleteTransaction(x) == /\ Completable(x)
                          /\ txn' = [txn EXCEPT ![x].state = "done"]

FinishWithError(t) ==
    /\ At(t, "finish")
    /\ IF Completable(thr[t].x) THEN CompleteTransaction(thr[t].x) ELSE UNCHANGED txn
    /\ Done(t)
    /\ UNCHANGED <<setting, client, live, logins, consents, codes, tokens, used, given, said>>

IssueCode(t) ==
    LET r == thr[t] IN
    /\ At(t, "issue")
    /\ \/ CompleteTransaction(r.x) /\ Go(t, [r EXCEPT !.pc = "code"])
       \/ ~Completable(r.x) /\ Done(t) /\ UNCHANGED txn
    /\ UNCHANGED <<setting, client, live, logins, consents, codes, tokens, used, given, said>>

InsertCode(t) ==
    LET r == thr[t] IN
    /\ At(t, "code")
    /\ codes' = Append(codes, [x |-> r.x, user |-> r.s[1], session |-> r.s, scopes |-> r.grant,
                               consumed |-> FALSE, expired |-> FALSE, shown |-> 0])
    /\ Done(t)
    /\ UNCHANGED <<setting, client, live, logins, txn, consents, tokens, used, given, said>>

-----------------------------------------------------------------------------
(* The pages.                                                              *)

\* prompt=none stands alone.
PromptParses(req) == req.none => ~(req.fresh \/ req.consent \/ req.select)
\* authorize::validate: openid is asked for; without PKCE, where the
\* application may do without it, there is a nonce.
Validate(req) == /\ "openid" \in req.scopes /\ PromptParses(req)
                 /\ ~req.challenge => ~setting.pkce /\ req.nonce

\* authorize, flow::start: a request of the application opens a transaction.
CreateTransaction(req) == [NoTxn EXCEPT !.state = "live", !.req = req]
Authorize(t, x, req) ==
    LET row == CreateTransaction(req) IN
    /\ Begin(t, x) /\ txn[x].state = "none" /\ client = "active" /\ Validate(req)
    /\ txn' = [txn EXCEPT ![x] = row]
    /\ Go(t, [Idle EXCEPT !.pc = "advance", !.x = x, !.row = row, !.acc = Accounts])
    /\ UNCHANGED <<setting, client, live, logins, consents, codes, tokens, given, said>>

\* find_live_transaction: not completed, not expired, the application active.
FindLive(x) == txn[x].state = "live" /\ client = "active"

\* A page with a new token, the tokens shown before become invalid.
IssueCsrf(row) == [row EXCEPT !.csrf = row.pages + 1, !.pages = @ + 1]
CanRender(x) == txn[x].pages < setting.pages

RenderLogin(x) == CanRender(x) /\ txn' = [txn EXCEPT ![x] = IssueCsrf(@)]
LoginPage(x) ==
    /\ FindLive(x) /\ RenderLogin(x)
    /\ UNCHANGED <<setting, client, live, logins, consents, codes, tokens, thr, used, given, said>>

\* render_select_account remembers the first account of the page.
RenderSelectAccount(row, cand) ==
    \E s \in cand : txn' = [txn EXCEPT ![row] = [IssueCsrf(@) EXCEPT !.choice = s]]

SelectAccountPage(x) ==
    /\ FindLive(x) /\ CanRender(x)
    /\ \E e \in Evaluation(txn[x], Accounts) : e.step \in {"select", "issue"}
    /\ RenderSelectAccount(x, Candidates(txn[x], Accounts))
    /\ UNCHANGED <<setting, client, live, logins, consents, codes, tokens, thr, used, given, said>>

\* consent_ready: consent is the next step, for the account bound to the
\* transaction.
ConsentReady(row, acc) ==
    {e \in Evaluation(row, acc) :
        /\ e.step = "consent" /\ row.user = e.session[1] /\ row.session = e.session}

ConsentPage(t, x) ==
    /\ Begin(t, x) /\ FindLive(x)
    /\ \/ /\ ConsentReady(txn[x], Accounts) # {} /\ CanRender(x)
          /\ txn' = [txn EXCEPT ![x] = IssueCsrf(@)]
          /\ UNCHANGED thr
       \/ /\ ConsentReady(txn[x], Accounts) = {}
          /\ Go(t, [Idle EXCEPT !.pc = "advance", !.x = x, !.row = txn[x], !.acc = Accounts])
          /\ UNCHANGED txn
    /\ UNCHANGED <<setting, client, live, logins, consents, codes, tokens, given, said>>

\* A form with the token of the last page: the row it was checked against.
Post(t, x) == Begin(t, x) /\ FindLive(x) /\ txn[x].csrf > 0
Posted(x, pc) == [Idle EXCEPT !.pc = pc, !.x = x, !.row = txn[x], !.acc = Accounts]

\* login_submit with the right password: a new session of u, the older one of
\* u in this browser replaced; then the transaction is bound to it.
LoginSubmit(t, x, u) ==
    /\ Post(t, x) /\ txn[x].req.hint \in {"none", u} /\ logins[u] < setting.logins
    /\ logins' = [logins EXCEPT ![u] = @ + 1]
    /\ live' = [live EXCEPT ![u] = logins[u] + 1]
    /\ Go(t, [Posted(x, "password") EXCEPT !.acc = SessionsOf(live'), !.s = <<u, logins[u] + 1>>])
    /\ UNCHANGED <<setting, client, txn, consents, codes, tokens, given, said>>

\* A wrong password, too many attempts, or an account the hint excludes: the
\* page again, and the browser's sessions as they are.
LoginRefused(t, x) ==
    /\ Post(t, x) /\ RenderLogin(x)
    /\ UNCHANGED <<setting, client, live, logins, consents, codes, tokens, thr, given, said>>

BindPasswordLogin(t) ==
    LET r == thr[t]
        row == [txn[r.x] EXCEPT !.user = r.s[1], !.session = r.s, !.authenticated = TRUE,
                                !.selected = r.s]
    IN
    /\ At(t, "password")
    /\ \/ /\ txn[r.x].state = "live"
          /\ txn' = [txn EXCEPT ![r.x] = row]
          /\ said' = [said EXCEPT ![r.x].confirmed = @ \cup {r.s}, ![r.x].password = @ \cup {r.s}]
          /\ Go(t, [r EXCEPT !.pc = "advance", !.row = row])
       \/ txn[r.x].state # "live" /\ Done(t) /\ UNCHANGED <<txn, said>>
    /\ UNCHANGED <<setting, client, live, logins, consents, codes, tokens, used, given>>

Cancel(t, x) ==
    /\ Post(t, x)
    /\ Go(t, Posted(x, "finish"))
    /\ UNCHANGED <<setting, client, live, logins, txn, consents, codes, tokens, given, said>>

\* select_account_submit, continue with s (of the form, or of the page an older
\* form came from): gone accounts are never replaced by another.
SelectAccountSubmit(t, x, s) ==
    LET cand == Candidates(txn[x], Accounts) IN
    /\ Post(t, x)
    /\ \/ s \in cand /\ Go(t, [Posted(x, "confirm") EXCEPT !.s = s]) /\ UNCHANGED txn
       \/ s \notin cand /\ cand = {} /\ Go(t, [Posted(x, "advance") EXCEPT !.acc = {}]) /\ UNCHANGED txn
       \/ s \notin cand /\ CanRender(x) /\ RenderSelectAccount(x, cand) /\ UNCHANGED thr
    /\ UNCHANGED <<setting, client, live, logins, consents, codes, tokens, given, said>>

\* Only once, only while nobody asked for another account, only with the token
\* of the page.
ConfirmAccountSelection(t) ==
    LET r == thr[t]
        row == [txn[r.x] EXCEPT !.user = r.s[1], !.session = r.s, !.selected = r.s,
                                !.choice = r.s, !.csrf = 0]
        wins == /\ txn[r.x].state = "live" /\ ~txn[r.x].switch
                /\ txn[r.x].selected = NoOne /\ txn[r.x].csrf = r.row.csrf
    IN
    /\ At(t, "confirm")
    /\ \/ /\ wins
          /\ txn' = [txn EXCEPT ![r.x] = row]
          /\ said' = [said EXCEPT ![r.x].confirmed = @ \cup {r.s}]
          /\ Go(t, [r EXCEPT !.pc = "advance", !.row = row])
       \/ ~wins /\ Done(t) /\ UNCHANGED <<txn, said>>
    /\ UNCHANGED <<setting, client, live, logins, consents, codes, tokens, used, given>>

AskForAnother(t, x) ==
    /\ Post(t, x)
    /\ Go(t, Posted(x, "switch"))
    /\ UNCHANGED <<setting, client, live, logins, txn, consents, codes, tokens, given, said>>

RequestAccountSwitch(t) ==
    LET r == thr[t] IN
    /\ At(t, "switch")
    /\ IF txn[r.x].state = "live" /\ txn[r.x].csrf = r.row.csrf
       THEN txn' = [txn EXCEPT ![r.x].switch = TRUE, ![r.x].selected = NoOne, ![r.x].csrf = 0]
       ELSE UNCHANGED txn
    /\ Done(t)
    /\ UNCHANGED <<setting, client, live, logins, consents, codes, tokens, used, given, said>>

\* Sign out of one account, or of all, on the chooser.
ChooserSignOut(t, x, gone) ==
    LET left == Candidates(txn[x], Accounts \ gone) IN
    /\ Post(t, x) /\ gone \subseteq Accounts /\ gone # {}
    /\ live' = [u \in Users |-> IF <<u, live[u]>> \in gone THEN 0 ELSE live[u]]
    /\ IF left = {} THEN txn' = [txn EXCEPT ![x].csrf = 0]
       ELSE CanRender(x) /\ RenderSelectAccount(x, left)
    /\ UNCHANGED <<setting, client, logins, consents, codes, tokens, thr, given, said>>

\* consent_submit: allow some of the scopes (openid always), or deny.
ConsentSubmit(t, x, answer, scopes) ==
    LET ready == ConsentReady(txn[x], Accounts) IN
    /\ Post(t, x)
    /\ \/ ready = {} /\ Go(t, Posted(x, "advance"))
       \/ ready # {} /\ answer = "deny" /\ Go(t, Posted(x, "finish"))
       \/ /\ ready # {} /\ answer = "allow"
          /\ \E e \in ready :
               Go(t, [Posted(x, "grant") EXCEPT !.s = e.session,
                        !.grant = {"openid"} \cup (txn[x].req.scopes \cap scopes)])
    /\ UNCHANGED <<setting, client, live, logins, txn, consents, codes, tokens, given, said>>

\* grant_consent reads the row of the user ...
GrantReads(t) ==
    /\ At(t, "grant")
    /\ Go(t, [thr[t] EXCEPT !.pc = "granting", !.old = consents[thr[t].s[1]]])
    /\ UNCHANGED <<setting, client, live, logins, txn, consents, codes, tokens, used, given, said>>

\* ... and writes the union with what it read, starting over after a
\* revocation; an insert that meets a row replaces its scopes.
Granted(old, now, scopes) ==
    [scopes |-> IF old.state = "active" THEN old.scopes \cup scopes ELSE scopes,
     state |-> IF old.state = "revoked" \/ now.state = "none" THEN "active" ELSE now.state]
GrantConsent(t) ==
    LET r == thr[t] u == r.s[1] IN
    /\ At(t, "granting")
    /\ consents' = [consents EXCEPT ![u] = Granted(r.old, @, r.grant)]
    /\ given' = [given EXCEPT ![u] = @ \cup r.grant]
    /\ said' = [said EXCEPT ![r.x].allowed = @ \cup {u}]
    /\ Go(t, [r EXCEPT !.pc = "issue"])
    /\ UNCHANGED <<setting, client, live, logins, txn, codes, tokens, used>>

-----------------------------------------------------------------------------
(* The token endpoint and the life of grants.                              *)

Revoke(set) == [i \in DOMAIN tokens |-> IF i \in set THEN [tokens[i] EXCEPT !.revoked = TRUE]
                                                     ELSE tokens[i]]
OfCode(c) == {i \in DOMAIN tokens : tokens[i].code = c}

\* The verifier fits the challenge, and there is one only if there was one.
VerifyPkce(c, verifier) == verifier = IF txn[codes[c].x].req.challenge THEN "right" ELSE "none"
Exchangeable(c, verifier) ==
    ~codes[c].consumed /\ ~codes[c].expired /\ VerifyPkce(c, verifier)
    /\ Covers(consents[codes[c].user], codes[c].scopes)
Exchange(t, c, verifier, replayed) ==
    /\ At(t, "idle") /\ t \in setting.apps /\ used.exchanges < setting.exchanges /\ client = "active"
    /\ used' = [used EXCEPT !.exchanges = @ + 1]
    /\ tokens' = IF replayed THEN Revoke(OfCode(c)) ELSE tokens
    /\ codes' = IF codes[c].consumed \/ Exchangeable(c, verifier)
                THEN [codes EXCEPT ![c].shown = @ + 1] ELSE codes
    /\ IF Exchangeable(c, verifier) THEN Go(t, [Idle EXCEPT !.pc = "consume", !.code = c])
       ELSE UNCHANGED thr
    /\ UNCHANGED <<setting, client, live, logins, txn, consents, given, said>>

\* Mutant: an expired code is refused before the replay is noticed.
ExchangeExpiryFirst(t, c, verifier) ==
    Exchange(t, c, verifier, codes[c].consumed /\ ~codes[c].expired)
\* exchange_code up to the consumption: a code seen again revokes what it
\* brought; a wrong redirect_uri, verifier or client changes nothing.
ExchangeCode(t, c, verifier) == Exchange(t, c, verifier, codes[c].consumed)

ConsumeCodeAndIssueToken(t) ==
    LET c == thr[t].code IN
    /\ At(t, "consume")
    /\ IF ~codes[c].consumed /\ ~codes[c].expired
       THEN /\ codes' = [codes EXCEPT ![c].consumed = TRUE]
            /\ tokens' = Append(tokens, [code |-> c, user |-> codes[c].user,
                                         scopes |-> codes[c].scopes, revoked |-> FALSE])
       ELSE tokens' = Revoke(OfCode(c)) /\ UNCHANGED codes
    /\ Done(t)
    /\ UNCHANGED <<setting, client, live, logins, txn, consents, used, given, said>>

\* revoke_consent: the consent, the tokens and the codes of u, in one
\* transaction.
RevokeUserClientGrants(u) ==
    /\ tokens' = Revoke({i \in DOMAIN tokens : tokens[i].user = u})
    /\ codes' = [c \in DOMAIN codes |-> IF codes[c].user = u THEN [codes[c] EXCEPT !.consumed = TRUE]
                                                             ELSE codes[c]]
RevokeConsent(u) ==
    /\ consents[u].state = "active" /\ used.revokes < setting.revokes
    /\ consents' = [consents EXCEPT ![u].state = "revoked"]
    /\ RevokeUserClientGrants(u)
    /\ given' = [given EXCEPT ![u] = {}]
    /\ used' = [used EXCEPT !.revokes = @ + 1]
    /\ UNCHANGED <<setting, client, live, logins, txn, thr, said>>

\* find_usable_token: what userinfo answers for.
FindUsableToken(i) ==
    /\ ~tokens[i].revoked /\ client = "active" /\ consents[tokens[i].user].state = "active"

-----------------------------------------------------------------------------
(* Time, sign-outs elsewhere, and the application's status.                *)

Change == used.changes < setting.changes /\ used' = [used EXCEPT !.changes = @ + 1]
SessionEnds(u) ==
    /\ live[u] > 0 /\ Change
    /\ live' = [live EXCEPT ![u] = 0]
    /\ UNCHANGED <<setting, client, logins, txn, consents, codes, tokens, thr, given, said>>
TransactionExpires(x) ==
    /\ txn[x].state = "live" /\ Change
    /\ txn' = [txn EXCEPT ![x].state = "expired"]
    /\ UNCHANGED <<setting, client, live, logins, consents, codes, tokens, thr, given, said>>
CodeExpires(c) ==
    /\ ~codes[c].expired /\ Change
    /\ codes' = [codes EXCEPT ![c].expired = TRUE]
    /\ UNCHANGED <<setting, client, live, logins, txn, consents, tokens, thr, given, said>>
StatusChanges ==
    /\ Change
    /\ client' = IF client = "active" THEN "suspended" ELSE "active"
    /\ UNCHANGED <<setting, live, logins, txn, consents, codes, tokens, thr, given, said>>

Continue(t) == \/ Advance(t) \/ BindTransactionUser(t) \/ FinishWithError(t) \/ IssueCode(t)
               \/ InsertCode(t) \/ BindPasswordLogin(t) \/ ConfirmAccountSelection(t)
               \/ RequestAccountSwitch(t) \/ GrantReads(t) \/ GrantConsent(t)
               \/ ConsumeCodeAndIssueToken(t)

Next ==
    \/ \E t \in Threads : Continue(t)
    \/ \E t \in Threads, x \in Txns :
         \/ \E req \in setting.req : Authorize(t, x, req)
         \/ \E u \in Users : LoginSubmit(t, x, u)
         \/ \E s \in Accounts \cup {txn[x].choice} : SelectAccountSubmit(t, x, s)
         \/ \E gone \in SUBSET Accounts : ChooserSignOut(t, x, gone)
         \/ \E answer \in {"allow", "deny"}, scopes \in SUBSET Scopes :
              ConsentSubmit(t, x, answer, scopes)
         \/ LoginRefused(t, x) \/ Cancel(t, x) \/ AskForAnother(t, x) \/ ConsentPage(t, x)
    \/ \E t \in Threads, c \in DOMAIN codes, v \in {"right", "wrong", "none"} : ExchangeCode(t, c, v)
    \/ \E x \in Txns : LoginPage(x) \/ SelectAccountPage(x) \/ TransactionExpires(x)
    \/ \E u \in Users : RevokeConsent(u) \/ SessionEnds(u)
    \/ \E c \in DOMAIN codes : CodeExpires(c)
    \/ StatusChanges

Spec == Init /\ [][Next]_vars

-----------------------------------------------------------------------------
\* Types.
TypeOK ==
    /\ client \in {"active", "suspended"}
    /\ \A u \in Users : live[u] \in {0, logins[u]} /\ consents[u].scopes \subseteq Scopes
    /\ \A x \in Txns : txn[x].state \in {"none", "live", "expired", "done"} /\ txn[x].csrf <= txn[x].pages
    /\ \A c \in DOMAIN codes : codes[c].scopes \subseteq Scopes
    /\ \A i \in DOMAIN tokens : tokens[i].code \in DOMAIN codes

\* A token that userinfo answers for carries only scopes its user allowed to
\* the application after the last time the user revoked it, although codes,
\* exchanges and decisions of before the revocation are still under way.  (One
\* tab: with two, a grant that read the consent before the revocation and writes
\* it after another grant brings the revoked scopes back.)
UsableWasGranted ==
    \A i \in DOMAIN tokens : FindUsableToken(i) => tokens[i].scopes \subseteq given[tokens[i].user]

\* A code honours the prompt of its transaction, whatever the tabs did: the
\* account was chosen or logged in within it (select_account), the password was
\* given within it (login, max_age=0), the user agreed within it (consent), and
\* the account is the one id_token_hint names.
CodeHonoursPrompt ==
    \A c \in DOMAIN codes :
        LET req == txn[codes[c].x].req IN
        /\ req.select /\ setting.chooser => codes[c].session \in said[codes[c].x].confirmed
        /\ req.fresh => codes[c].session \in said[codes[c].x].password
        /\ req.consent \/ (req.select /\ ~setting.chooser) =>
             codes[c].user \in said[codes[c].x].allowed
        /\ req.hint \in {"none", codes[c].user}

\* A transaction brings at most one code, however many tabs complete it.
OneCodePerTransaction ==
    \A c, d \in DOMAIN codes : codes[c].x = codes[d].x => c = d

\* A code that was presented twice is worth nothing: the token of the first
\* exchange is revoked, also when both were at work at once or the code has
\* expired since.
ReplayKillsToken ==
    \A c \in DOMAIN codes :
        codes[c].shown > 1 /\ (\A t \in Threads : thr[t].pc = "idle") =>
            \A i \in OfCode(c) : tokens[i].revoked
=============================================================================

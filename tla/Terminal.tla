------------------------------ MODULE Terminal ------------------------------
(***************************************************************************)
(* The web terminal: an administrator with terminal.open gets a ticket     *)
(* that lives 60 s in Redis and is spent by the WebSocket handshake, which *)
(* starts a shell on the host.  Permissions may be withdrawn at any time.  *)
(***************************************************************************)
EXTENDS Naturals, FiniteSets

CONSTANTS Sockets, Tickets, Features   \* Features: values of enable_web_terminal

VARIABLES enabled, up,   \* Redis answers
          allowed,       \* the administrator holds terminal.open
          ticket,        \* ticket[t]: "none", "live" or "gone"
          sock           \* WebSocket requests

vars == <<enabled, up, allowed, ticket, sock>>

\* presented: the ticket of the cookie; late: the permission was gone when the
\* handshake began; client: the browser's end; shell: the child process.
NoSocket == [pc |-> "idle", presented |-> "none", late |-> FALSE, client |-> "open", shell |-> "none"]

Init ==
    /\ enabled \in Features /\ up = TRUE /\ allowed = TRUE
    /\ ticket = [t \in Tickets |-> "none"]
    /\ sock = [s \in Sockets |-> NoSocket]

Put(s, r) == sock' = [sock EXCEPT ![s] = r]

\* create_terminal_session and TerminalTicketStore::issue
Issue(t) ==
    /\ enabled /\ up /\ allowed /\ ticket[t] = "none"
    /\ ticket' = [ticket EXCEPT ![t] = "live"]
    /\ UNCHANGED <<enabled, up, allowed, sock>>
Expire(t) ==
    /\ ticket[t] = "live" /\ ticket' = [ticket EXCEPT ![t] = "gone"]
    /\ UNCHANGED <<enabled, up, allowed, sock>>

\* TerminalTicketStore::consume, GETDEL; refused when Redis is down.
Consume(t) == ticket' = IF up /\ ticket[t] = "live" THEN [ticket EXCEPT ![t] = "gone"] ELSE ticket

\* terminal_ws: a handshake spends its ticket first.
Handshake(s, t) ==
    /\ enabled /\ sock[s].pc = "idle" /\ ticket[t] # "none" /\ Consume(t)
    /\ Put(s, [NoSocket EXCEPT !.pc = IF ticket' # ticket THEN "check" ELSE "refused",
                               !.presented = t, !.late = ~allowed])
    /\ UNCHANGED <<enabled, up, allowed>>

\* terminal_ws: the account and its permissions are read again, then the shell
\* is started.
Upgrade(s) ==
    /\ sock[s].pc = "check"
    /\ \/ allowed /\ Put(s, [sock[s] EXCEPT !.pc = "open", !.shell = "running"])
       \/ ~allowed /\ Put(s, [sock[s] EXCEPT !.pc = "refused"])
    /\ UNCHANGED <<enabled, up, allowed, ticket>>
SpawnFails(s) ==
    /\ sock[s].pc = "check" /\ allowed
    /\ Put(s, [sock[s] EXCEPT !.pc = "refused", !.client = "closed"])
    /\ UNCHANGED <<enabled, up, allowed, ticket>>

\* The shell ends: both readers see the end of their pipe and the session is
\* closed; the browser answers with its own Close.
ShellExits(s) ==
    /\ sock[s].pc = "open" /\ sock[s].shell = "running"
    /\ Put(s, [sock[s] EXCEPT !.shell = "ended"])
    /\ UNCHANGED <<enabled, up, allowed, ticket>>
CloseSession(s) ==
    /\ sock[s].pc = "open" /\ sock[s].shell = "ended" /\ sock[s].client = "open"
    /\ Put(s, [sock[s] EXCEPT !.client = "closed"])
    /\ UNCHANGED <<enabled, up, allowed, ticket>>
\* The browser closes the socket.
ClientCloses(s) ==
    /\ sock[s].pc = "open" /\ sock[s].client = "open"
    /\ Put(s, [sock[s] EXCEPT !.client = "closed"])
    /\ UNCHANGED <<enabled, up, allowed, ticket>>
\* The message loop ends at Close and kills the child.
MessagesEnd(s) ==
    /\ sock[s].pc = "open" /\ sock[s].client = "closed"
    /\ Put(s, [sock[s] EXCEPT !.pc = "over", !.shell = "ended"])
    /\ UNCHANGED <<enabled, up, allowed, ticket>>

\* Roles change; Redis comes and goes.
Withdraw == allowed /\ allowed' = FALSE /\ UNCHANGED <<enabled, up, ticket, sock>>
RedisUpDown == up' = ~up /\ UNCHANGED <<enabled, allowed, ticket, sock>>

Next ==
    \/ \E t \in Tickets : Issue(t) \/ Expire(t)
    \/ \E s \in Sockets, t \in Tickets : Handshake(s, t)
    \/ \E s \in Sockets : \/ Upgrade(s) \/ SpawnFails(s) \/ ShellExits(s) \/ CloseSession(s)
                          \/ ClientCloses(s) \/ MessagesEnd(s)
    \/ Withdraw \/ RedisUpDown

\* The runtime polls the tasks of a socket.
Fairness == \A s \in Sockets : WF_vars(MessagesEnd(s) \/ CloseSession(s))
Spec == Init /\ [][Next]_vars /\ Fairness

-----------------------------------------------------------------------------
TypeOK ==
    /\ \A t \in Tickets : ticket[t] \in {"none", "live", "gone"}
    /\ \A s \in Sockets : sock[s].pc \in {"idle", "check", "refused", "open", "over"}

\* A ticket opens at most one shell, however many handshakes present it at once.
OneShellPerTicket ==
    \A r, s \in Sockets : (r # s /\ sock[r].shell # "none" /\ sock[s].shell # "none")
        => sock[r].presented # sock[s].presented

\* A handshake that begins after the permission was withdrawn starts no shell,
\* although its ticket was issued while the permission was held.
WithdrawnOpensNothing == \A s \in Sockets : sock[s].late => sock[s].shell = "none"

\* When the browser closes the socket the shell does not go on.
Orphan(s) == sock[s].client = "closed" /\ sock[s].shell = "running"
-----------------------------------------------------------------------------
(* What every step keeps *)

Pcs == {"idle", "check", "refused", "open", "over"}
Types ==
    /\ enabled \in Features /\ up \in BOOLEAN /\ allowed \in BOOLEAN
    /\ ticket \in [Tickets -> {"none", "live", "gone"}]
    /\ sock \in [Sockets -> [pc : Pcs, presented : Tickets \cup {"none"}, late : BOOLEAN,
                             client : {"open", "closed"}, shell : {"none", "running", "ended"}]]

\* A handshake that was let through has spent its ticket, which no other has.
Admitted(s) == sock[s].pc \in {"check", "open", "over"}
TicketsSpent ==
    /\ \A s \in Sockets : Admitted(s) => sock[s].presented \in Tickets /\ ticket[sock[s].presented] = "gone"
    /\ \A r, s \in Sockets : r # s /\ Admitted(r) /\ Admitted(s) => sock[r].presented # sock[s].presented

\* A shell belongs to a session that was opened, and not to one that came late.
ShellsOpened ==
    /\ \A s \in Sockets : sock[s].shell # "none" => sock[s].pc \in {"open", "over"}
    /\ \A s \in Sockets : sock[s].late => ~allowed /\ sock[s].pc \notin {"open", "over"}

Inductive == Types /\ TicketsSpent /\ ShellsOpened
=============================================================================

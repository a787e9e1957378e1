----------------------------- MODULE Community ------------------------------
(***************************************************************************)
(* What people publish on the platform.                                    *)
(*                                                                         *)
(* One discussion: who likes it, its comments, and the counters kept in    *)
(* its row.  A handler reads the row, changes the likes or the comments,   *)
(* and writes the counter it computed from the row it had read.            *)
(*                                                                         *)
(* Write-ups (of a challenge, of a training run, of a competition), sets   *)
(* of challenges, announcements, weapons and avatars: rows that name users,*)
(* events and challenges, which may be deleted meanwhile, and objects of   *)
(* the storage.  An object is written before the row that names it, and no *)
(* object is ever deleted.                                                 *)
(*                                                                         *)
(* A step is a statement or a call of the storage; a request that is       *)
(* refused before it writes leaves no trace and is no step.                *)
(***************************************************************************)
EXTENDS Naturals, FiniteSets, Sequences

CONSTANTS Users, Threads, Worlds

VARIABLES world,
          row,        \* discussions
          likes,      \* discussion_likes, unique by user
          comments,   \* discussion_comments: [id, author, parent]
          req, left, nextId,
          site,       \* accounts, events, rosters, challenges, training runs
          objects,    \* the object storage: content by key
          wps,        \* event_writeup, unique by event and user
          posts,      \* challenge_writeup and awdp_run_writeups
          sets,       \* challenge_sets and their challenge_set_items
          news,       \* announcements and event_announcements
          files       \* weapons and users.avatar: the object they name

forum == <<row, likes, comments>>
published == <<site, objects, wps, posts, sets, news, files>>
vars == <<world, row, likes, comments, req, left, nextId, site, objects, wps, posts, sets, news, files>>

NoKey == [kind |-> "none", event |-> "none", owner |-> "none", name |-> 0]
Idle == [pc |-> "idle", user |-> "none", parent |-> 0, count |-> 0, key |-> NoKey, team |-> "none",
         on |-> "none", list |-> <<>>, packed |-> {}]
Quiet == \A t \in Threads : req[t].pc = "idle"
NoRow == [is |-> FALSE, author |-> "none", like_count |-> 0, comment_count |-> 0, view_count |-> 0]

Init ==
    /\ world \in Worlds
    /\ row = NoRow /\ likes = {} /\ comments = {}
    /\ req = [t \in Threads |-> Idle] /\ left = world.requests /\ nextId = 1
    /\ site = world.site /\ objects = [k \in {} |-> NoKey] /\ wps = {} /\ posts = {}
    /\ sets = [n \in {} |-> {}] /\ news = {} /\ files = [n \in {} |-> NoKey]

May(op) == op \in world.ops /\ left > 0 /\ left' = left - 1 /\ (world.overlap \/ Quiet)
Put(t, r) == req' = [req EXCEPT ![t] = r]
Then(t, pc, n) == Put(t, [req[t] EXCEPT !.pc = pc, !.count = n])
Less(n) == IF n > 0 THEN n - 1 ELSE 0

CreateDiscussion(u) ==
    /\ May("post") /\ u \in site.users /\ ~row.is /\ row' = [NoRow EXCEPT !.is = TRUE, !.author = u]
    /\ UNCHANGED <<world, likes, comments, req, nextId, published>>

\* The other handlers first find the discussion and remember its counter.
Find(t, op, u, parent, count) ==
    /\ req[t].pc = "idle" /\ May(op) /\ row.is /\ u \in site.users
    /\ Put(t, [Idle EXCEPT !.pc = op, !.user = u, !.parent = parent, !.count = count])
    /\ UNCHANGED <<world, row, likes, comments, nextId, published>>

\* get_discussion: a view by somebody else counts.
GetDiscussion(t, u) == u # row.author /\ Find(t, "view", u, 0, row.view_count)
CountView(t) ==
    /\ req[t].pc = "view" /\ Then(t, "view_count", req[t].count + 1)
    /\ UNCHANGED <<world, row, likes, comments, left, nextId, published>>

\* like_discussion: the unique key refuses a second like.
FindToLike(t, u) == Find(t, "like", u, 0, row.like_count)
LikeDiscussion(t) ==
    /\ req[t].pc = "like"
    /\ IF row.is /\ req[t].user \in site.users \ likes
       THEN likes' = likes \cup {req[t].user} /\ Then(t, "like_count", req[t].count + 1)
       ELSE UNCHANGED likes /\ Put(t, Idle)
    /\ UNCHANGED <<world, row, comments, left, nextId, published>>
\* unlike_discussion
FindToUnlike(t, u) == Find(t, "unlike", u, 0, row.like_count)
UnlikeDiscussion(t) ==
    /\ req[t].pc = "unlike"
    /\ IF req[t].user \in likes
       THEN likes' = likes \ {req[t].user} /\ Then(t, "like_count", Less(req[t].count))
       ELSE UNCHANGED likes /\ Put(t, Idle)
    /\ UNCHANGED <<world, row, comments, left, nextId, published>>

\* create_comment: the parent exists and is of this discussion.
FindToComment(t, u, parent) ==
    /\ parent = 0 \/ (world.replies /\ \E c \in comments : c.id = parent)
    /\ Find(t, "comment", u, parent, row.comment_count)
CreateComment(t) ==
    /\ req[t].pc = "comment"
    /\ IF row.is /\ req[t].user \in site.users /\ (req[t].parent = 0 \/ \E c \in comments : c.id = req[t].parent)
       THEN /\ comments' = comments \cup {[id |-> nextId, author |-> req[t].user, parent |-> req[t].parent]}
            /\ nextId' = nextId + 1 /\ Then(t, "comment_count", req[t].count + 1)
       ELSE UNCHANGED <<comments, nextId>> /\ Put(t, Idle)
    /\ UNCHANGED <<world, row, likes, left, published>>
\* The foreign key takes the replies along.
Cascade(ids) ==
    LET gone[n \in 0 .. nextId] == n \in ids \/ \E c \in comments : c.id = n /\ c.parent # 0 /\ gone[c.parent] IN
    {c \in comments : ~gone[c.id]}
\* delete_comment by its author; the discussion is read after the delete.
DeleteComment(t, u) ==
    /\ req[t].pc = "idle" /\ May("uncomment")
    /\ \E c \in comments : c.author = u /\ comments' = Cascade({c.id})
    /\ Put(t, [Idle EXCEPT !.pc = "recount"])
    /\ UNCHANGED <<world, row, likes, nextId, published>>
Recount(t) ==
    /\ req[t].pc = "recount"
    /\ IF row.is THEN Then(t, "comment_count", Less(row.comment_count)) ELSE Put(t, Idle)
    /\ UNCHANGED <<world, row, likes, comments, left, nextId, published>>
\* A moderator's delete_comment leaves the counter alone.
ModeratorDeletesComment ==
    /\ May("moderate") /\ \E c \in comments : comments' = Cascade({c.id})
    /\ UNCHANGED <<world, row, likes, req, nextId, published>>

\* The counter is written into the row, if it still exists.
WriteCount(t) ==
    LET n == req[t].count IN
    /\ req[t].pc \in {"like_count", "comment_count", "view_count"} /\ Put(t, Idle)
    /\ row' = IF ~row.is THEN row
              ELSE IF req[t].pc = "like_count" THEN [row EXCEPT !.like_count = n]
              ELSE IF req[t].pc = "view_count" THEN [row EXCEPT !.view_count = n]
              ELSE [row EXCEPT !.comment_count = n]
    /\ UNCHANGED <<world, likes, comments, left, nextId, published>>

\* delete_discussion by its author, delete_discussions by a moderator.
DeleteDiscussion(u) ==
    /\ May("delete") /\ row.is /\ u = row.author
    /\ row' = NoRow /\ likes' = {} /\ comments' = {}
    /\ UNCHANGED <<world, req, nextId, published>>

ModeratorDeletesDiscussion ==
    /\ May("delete") /\ row.is /\ row' = NoRow /\ likes' = {} /\ comments' = {}
    /\ UNCHANGED <<world, req, nextId, published>>

\* get_discussions, get_discussion_comments
GetDiscussions == IF row.is THEN {row.author} ELSE {}
GetDiscussionComments == {c.author : c \in comments}

-----------------------------------------------------------------------------
(* Keys of the storage.  Objects of the private bucket carry their event.  *)
Key(kind, event, owner, name) == [kind |-> kind, event |-> event, owner |-> owner, name |-> name]
Private(k) == k.kind \in {"writeup", "report"}
PutObject(k, content) == objects' = [x \in DOMAIN objects \cup {k} |-> IF x = k THEN content ELSE objects[x]]
Begin(t, op, r) == req[t].pc = "idle" /\ May(op) /\ Put(t, r)
Team == world.mode = "team"
Member(u) == site.roster[u]

\* submit_writeup: the team is the one the server finds, whatever was asked for.
FindToSubmit(t, u, e, asked) ==
    /\ u \in site.users /\ e \in site.events /\ e # "practice"
    /\ Member(u).joined /\ ~Member(u).banned
    /\ IF Team THEN /\ Member(u).team \in site.teams \ site.barred
                    /\ asked \in {"none", Member(u).team}
       ELSE asked = "none"
    /\ LET owner == IF Team THEN Member(u).team ELSE u
           name  == IF Team THEN 0 ELSE site.nickname[u] IN
       Begin(t, "submit", [Idle EXCEPT !.pc = "put", !.user = u, !.team = IF Team THEN owner ELSE "none",
                                       !.key = Key("writeup", e, owner, name)])
    /\ UNCHANGED <<world, forum, published, nextId>>
PutWriteup(t) ==
    /\ req[t].pc = "put" /\ PutObject(req[t].key, [by |-> req[t].user, packed |-> {}, links |-> {}])
    /\ Put(t, [req[t] EXCEPT !.pc = "upsert"])
    /\ UNCHANGED <<world, forum, left, nextId, site, wps, posts, sets, news, files>>
\* Its insert: the key (event_id, user_id) makes it an update, the foreign keys may refuse it.
UpsertWriteup(t) ==
    LET r == req[t] IN
    /\ r.pc = "upsert" /\ Put(t, Idle)
    /\ wps' = IF r.key.event \in site.events /\ r.user \in site.users /\ r.team \in site.teams \cup {"none"}
              THEN {w \in wps : <<w.event, w.user>> # <<r.key.event, r.user>>}
                   \cup {[event |-> r.key.event, user |-> r.user, team |-> r.team, file_url |-> r.key]}
              ELSE wps
    /\ UNCHANGED <<world, forum, left, nextId, site, objects, posts, sets, news, files>>

\* get_all_event_writeups: what administrators see.
GetAllEventWriteups(e) == {w \in wps : w.event = e}
\* own_writeup_file_url: of several rows of the team, any.
OwnWriteupFileUrl(e, u) ==
    {w.file_url : w \in {x \in wps : x.event = e /\ IF Team THEN x.team = Member(u).team ELSE x.user = u}}
\* resolve_private_artifact: a row anchors the key; else a report of an event that exists.
ReportKeyEventId(k) == IF k.kind = "report" THEN {k.event} ELSE {}
ResolvePrivateArtifact(k) ==
    LET anchored == {w.event : w \in {x \in wps : x.file_url = k}} IN
    IF anchored # {} THEN anchored ELSE ReportKeyEventId(k) \cap site.events
\* download: a key that is resolved is signed.
Download(k) == ResolvePrivateArtifact(k) # {}

\* export_writeup_report packs the file of every row; the archive takes a name once.
PackWriteups(t, e) ==
    LET rows == GetAllEventWriteups(e) IN
    /\ e \in site.events
    /\ \A w \in rows : w.file_url \in DOMAIN objects
    /\ \A w, x \in rows : w.file_url = x.file_url => w = x
    /\ Begin(t, "export", [Idle EXCEPT !.pc = "report", !.on = e, !.packed = {w.file_url : w \in rows}])
    /\ UNCHANGED <<world, forum, published, nextId>>
\* Then it reads who takes part: a user's write-up is looked up by the user alone.
ReportLinks(e) ==
    LET of(x)  == {w \in wps : IF Team THEN w.team = x ELSE w.user = x}
        listed == IF Team THEN {w.team : w \in {x \in wps : x.event = e}}
                  ELSE {u \in site.users : Member(u).joined /\ of(u) # {}} IN
    {f \in [listed -> {w.file_url : w \in wps}] : \A x \in listed : \E w \in of(x) : w.file_url = f[x]}
WriteReport(t) ==
    LET e == req[t].on IN
    /\ req[t].pc = "report" /\ Put(t, Idle)
    /\ \E f \in ReportLinks(e) :
         PutObject(Key("report", e, "none", 0),
                   [by |-> "none", packed |-> req[t].packed, links |-> {f[x] : x \in DOMAIN f}])
    /\ UNCHANGED <<world, forum, left, nextId, site, wps, posts, sets, news, files>>

\* get_challenge_writeup: one's own of a challenge, get_challenge_writeups: everybody's.
GetChallengeWriteup(u, c) == {p \in posts : p.user = u /\ p.on = c /\ p.kind = "challenge"}
GetChallengeWriteups(c) == {p \in posts : p.on = c /\ p.kind = "challenge"}
\* create_challenge_writeup: the row that was found is updated, else one is inserted.
FindOwnWriteup(t, u, c) ==
    /\ u \in site.users
    /\ LET own == {p.id : p \in GetChallengeWriteup(u, c)} IN
       \E id \in IF own = {} THEN {0} ELSE own :
          Begin(t, "write", [Idle EXCEPT !.pc = "write", !.user = u, !.on = c, !.parent = id])
    /\ UNCHANGED <<world, forum, published, nextId>>
CreateChallengeWriteup(t) ==
    LET r == req[t] IN
    /\ r.pc = "write" /\ Put(t, Idle)
    /\ IF r.parent = 0 /\ r.user \in site.users /\ r.on \in site.challenges
       THEN /\ posts' = posts \cup {[kind |-> "challenge", id |-> nextId, user |-> r.user, on |-> r.on]}
            /\ nextId' = nextId + 1
       ELSE UNCHANGED <<posts, nextId>>
    /\ UNCHANGED <<world, forum, left, site, objects, wps, sets, news, files>>
\* save_run_writeup: the run is its owner's, and has one write-up.
SaveRunWriteup(u, run) ==
    /\ May("write") /\ run \in DOMAIN site.runs /\ site.runs[run].owner = u
    /\ posts' = posts \cup {[kind |-> "run", id |-> run, user |-> u, on |-> site.runs[run].gamebox]}
    /\ UNCHANGED <<world, forum, req, nextId, site, objects, wps, sets, news, files>>

\* get_writeups: everybody's on challenges, one's own on the game box of a run.
GetWriteups(u) ==
    {p.id : p \in {x \in posts : x.kind = "challenge" \/ (x.user = u /\ x.on # "none")}}
\* get_writeup: found, and of a run one's own; 404 where its run has no game box.
GetWriteup(u, id) ==
    \E p \in posts : /\ p.id = id
                     /\ p.kind = "run" => p.user = u /\ p.on # "none"
                     /\ p.kind = "challenge" => p.user \in site.users /\ p.on \in site.challenges

-----------------------------------------------------------------------------
\* create_challenge_set: the row, then its items one by one, without a transaction.
CreateChallengeSet(t, list) ==
    /\ Begin(t, "set", [Idle EXCEPT !.pc = "items", !.count = nextId, !.list = list])
    /\ sets' = [n \in DOMAIN sets \cup {nextId} |-> IF n = nextId THEN {} ELSE sets[n]]
    /\ nextId' = nextId + 1
    /\ UNCHANGED <<world, forum, site, objects, wps, posts, news, files>>
AddChallengeToSet(t, s, list) ==
    /\ Begin(t, "add", [Idle EXCEPT !.pc = "items", !.count = s, !.list = list])
    /\ UNCHANGED <<world, forum, published, nextId>>
\* An item that is there already, or of a set or challenge that is not, ends the request.
InsertItem(t) ==
    LET s == req[t].count
        c == Head(req[t].list)
        ok == s \in DOMAIN sets /\ c \in site.challenges /\ c \notin sets[s] IN
    /\ req[t].pc = "items"
    /\ IF req[t].list # <<>> /\ ok
       THEN sets' = [sets EXCEPT ![s] = @ \cup {c}] /\ Put(t, [req[t] EXCEPT !.list = Tail(@)])
       ELSE UNCHANGED sets /\ Put(t, Idle)
    /\ UNCHANGED <<world, forum, left, nextId, site, objects, wps, posts, news, files>>
DeleteChallengeFromSet(s, cs) ==
    /\ May("unset") /\ s \in DOMAIN sets /\ sets' = [sets EXCEPT ![s] = @ \ cs]
    /\ UNCHANGED <<world, forum, req, nextId, site, objects, wps, posts, news, files>>
DeleteChallengeSet(s) ==
    /\ May("unset") /\ s \in DOMAIN sets /\ sets' = [n \in DOMAIN sets \ {s} |-> sets[n]]
    /\ UNCHANGED <<world, forum, req, nextId, site, objects, wps, posts, news, files>>
\* get_challenge_set for players and for administrators.
PlayersChallengeSet(s) == (sets[s] \cap site.challenges) \ site.hidden
AdminsChallengeSet(s) == sets[s] \cap site.challenges

\* create_announcement keeps its publisher's name; add_event_announcement has none.
CreateAnnouncement(u) ==
    /\ May("announce") /\ u \in site.users /\ nextId' = nextId + 1
    /\ news' = news \cup {[id |-> nextId, event |-> "none", publisher |-> u, name |-> u]}
    /\ UNCHANGED <<world, forum, req, site, objects, wps, posts, sets, files>>
AddEventAnnouncement(e) ==
    /\ May("announce") /\ e \in site.events /\ nextId' = nextId + 1
    /\ news' = news \cup {[id |-> nextId, event |-> e, publisher |-> "none", name |-> "none"]}
    /\ UNCHANGED <<world, forum, req, site, objects, wps, posts, sets, files>>
\* delete_announcement deletes one row after the other; remove_event_announcement
\* takes rows of its own event only.
DeleteAnnouncement(t, ids) ==
    /\ Begin(t, "retract", [Idle EXCEPT !.pc = "retract", !.packed = ids])
    /\ UNCHANGED <<world, forum, published, nextId>>
DeleteNextAnnouncement(t) ==
    /\ req[t].pc = "retract"
    /\ IF req[t].packed = {} THEN UNCHANGED news /\ Put(t, Idle)
       ELSE LET id == CHOOSE n \in req[t].packed : \A m \in req[t].packed : n <= m IN
            /\ news' = {a \in news : ~(a.id = id /\ a.event = "none")}
            /\ Put(t, [req[t] EXCEPT !.packed = @ \ {id}])
    /\ UNCHANGED <<world, forum, left, nextId, site, objects, wps, posts, sets, files>>
RemoveEventAnnouncement(e, ids) ==
    /\ May("retract") /\ news' = {a \in news : ~(a.event = e /\ a.id \in ids)}
    /\ UNCHANGED <<world, forum, req, nextId, site, objects, wps, posts, sets, files>>
\* list_event_announcements and the platform's list.
ListAnnouncements(e) == {a \in news : a.event = e}

\* create_weapon and patch_weapon: what the body says of its file is taken over.
CreateWeapon(w) ==
    /\ May("weapon") /\ w \notin DOMAIN files
    /\ files' = [n \in DOMAIN files \cup {w} |-> IF n = w THEN NoKey ELSE files[n]]
    /\ UNCHANGED <<world, forum, req, nextId, site, objects, wps, posts, sets, news>>
PatchWeapon(w, k) ==
    /\ May("patch") /\ w \in DOMAIN files /\ files' = [files EXCEPT ![w] = k]
    /\ UNCHANGED <<world, forum, req, nextId, site, objects, wps, posts, sets, news>>
DeleteWeapon(w) ==
    /\ May("weapon") /\ w \in DOMAIN files /\ files' = [n \in DOMAIN files \ {w} |-> files[n]]
    /\ UNCHANGED <<world, forum, req, nextId, site, objects, wps, posts, sets, news>>
\* upload_file and upload_avatar: the object first, then the row, if it is there.  A
\* weapon's key is the name of the file, an avatar's is fresh.
UploadFile(t, w, name) ==
    /\ Begin(t, "upload", [Idle EXCEPT !.pc = "row", !.on = w, !.key = Key("weapon", "none", "none", name)])
    /\ PutObject(Key("weapon", "none", "none", name), [by |-> w, packed |-> {}, links |-> {}])
    /\ UNCHANGED <<world, forum, nextId, site, wps, posts, sets, news, files>>
UploadAvatar(t, u) ==
    /\ u \in site.users
    /\ Begin(t, "upload", [Idle EXCEPT !.pc = "row", !.on = u, !.key = Key("image", "none", "none", nextId)])
    /\ PutObject(Key("image", "none", "none", nextId), [by |-> u, packed |-> {}, links |-> {}])
    /\ nextId' = nextId + 1
    /\ UNCHANGED <<world, forum, site, wps, posts, sets, news, files>>
NameUploaded(t) ==
    LET w == req[t].on IN
    /\ req[t].pc = "row" /\ Put(t, Idle)
    /\ files' = IF w \in DOMAIN files \cup site.users
                THEN [n \in DOMAIN files \cup {w} |-> IF n = w THEN req[t].key ELSE files[n]]
                ELSE files
    /\ UNCHANGED <<world, forum, left, nextId, site, objects, wps, posts, sets, news>>

\* The storage refuses, or the process stops: the request ends where it is.
Abandon(t) ==
    /\ "fail" \in world.ops /\ req[t].pc \in {"put", "upsert", "report", "write", "items", "retract", "row"}
    /\ Put(t, Idle) /\ UNCHANGED <<world, forum, left, nextId, published>>

-----------------------------------------------------------------------------
(* What happens to the rows that others name, with the foreign keys.       *)
DeleteUser(u) ==
    LET site1 == [site EXCEPT !.users = @ \ {u}, !.roster[u].joined = FALSE, !.roster[u].team = "none",
                              !.runs = [r \in {x \in DOMAIN @ : @[x].owner # u} |-> @[r]]]
        mine == row.is /\ row.author = u IN
    /\ May("delete_user") /\ u \in site.users /\ site' = site1
    /\ wps' = {w \in wps : w.user # u} /\ posts' = {p \in posts : p.user # u}
    /\ news' = {[a EXCEPT !.publisher = IF @ = u THEN "none" ELSE @] : a \in news}
    /\ files' = [n \in DOMAIN files \ {u} |-> files[n]]
    /\ row' = IF mine THEN NoRow ELSE row
    /\ likes' = IF mine THEN {} ELSE likes \ {u}
    /\ comments' = IF mine THEN {} ELSE Cascade({c.id : c \in {x \in comments : x.author = u}})
    /\ UNCHANGED <<world, req, nextId, objects, sets>>
DeleteEvents(e) ==
    /\ May("delete_event") /\ e \in site.events \ {"practice"} /\ site' = [site EXCEPT !.events = @ \ {e}]
    /\ wps' = {w \in wps : w.event # e} /\ news' = {a \in news : a.event # e}
    /\ UNCHANGED <<world, forum, req, nextId, objects, posts, sets, files>>
DeleteChallenge(c) ==
    /\ May("delete_challenge") /\ c \in site.challenges
    /\ site' = [site EXCEPT !.challenges = @ \ {c}]
    /\ posts' = {p \in posts : ~(p.kind = "challenge" /\ p.on = c)}
    /\ sets' = [n \in DOMAIN sets |-> sets[n] \ {c}]
    /\ UNCHANGED <<world, forum, req, nextId, objects, wps, news, files>>
\* remove_team: its members are not enrolled any more, its write-ups are gone.
RemoveTeam(g) ==
    /\ May("remove_team") /\ g \in site.teams
    /\ site' = [site EXCEPT !.teams = @ \ {g},
                            !.roster = [u \in DOMAIN @ |-> IF @[u].team = g
                                        THEN [@[u] EXCEPT !.joined = FALSE, !.team = "none"] ELSE @[u]]]
    /\ wps' = {w \in wps : w.team # g}
    /\ UNCHANGED <<world, forum, req, nextId, objects, posts, sets, news, files>>
\* A player leaves a team and joins another one; the write-up keeps its team.
ChangeTeam(u, g) ==
    /\ May("change_team") /\ u \in site.users /\ g \in site.teams \cup {"none"} /\ g # Member(u).team
    /\ site' = [site EXCEPT !.roster[u].joined = g # "none", !.roster[u].team = g]
    /\ UNCHANGED <<world, forum, req, nextId, objects, wps, posts, sets, news, files>>
\* Another nickname makes another key; bans of users and teams.
Rename(u) ==
    /\ May("rename") /\ u \in site.users /\ site' = [site EXCEPT !.nickname[u] = @ + 1]
    /\ UNCHANGED <<world, forum, req, nextId, objects, wps, posts, sets, news, files>>
Ban(u) ==
    /\ May("ban") /\ u \in site.users /\ Member(u).joined
    /\ site' \in {[site EXCEPT !.roster[u].banned = TRUE], [site EXCEPT !.barred = @ \cup {Member(u).team}]}
    /\ UNCHANGED <<world, forum, req, nextId, objects, wps, posts, sets, news, files>>


Next ==
    \/ \E u \in Users : CreateDiscussion(u)
    \/ \E u \in Users : DeleteDiscussion(u)
    \/ ModeratorDeletesDiscussion
    \/ \E t \in Threads, u \in Users : \/ GetDiscussion(t, u) \/ FindToLike(t, u) \/ FindToUnlike(t, u)
                                       \/ DeleteComment(t, u) \/ \E p \in 0 .. nextId : FindToComment(t, u, p)
    \/ \E t \in Threads : \/ CountView(t) \/ LikeDiscussion(t) \/ UnlikeDiscussion(t) \/ CreateComment(t)
                          \/ Recount(t) \/ WriteCount(t)
    \/ ModeratorDeletesComment
    \/ \E t \in Threads : \/ PutWriteup(t) \/ UpsertWriteup(t) \/ WriteReport(t) \/ CreateChallengeWriteup(t)
                          \/ InsertItem(t) \/ DeleteNextAnnouncement(t) \/ NameUploaded(t) \/ Abandon(t)
    \/ \E t \in Threads, u \in Users : \/ UploadAvatar(t, u)
                                       \/ \E c \in world.challenges : FindOwnWriteup(t, u, c)
                                       \/ \E e \in site.events, g \in site.teams \cup {"none"} :
                                            FindToSubmit(t, u, e, g)
    \/ \E t \in Threads : \/ \E e \in site.events : PackWriteups(t, e)
                          \/ \E l \in world.lists : \/ CreateChallengeSet(t, l)
                                                    \/ \E s \in DOMAIN sets : AddChallengeToSet(t, s, l)
                          \/ DeleteAnnouncement(t, {a.id : a \in news})
                          \/ \E w \in {"w1", "w2"}, n \in {1, 2} : UploadFile(t, w, n)
    \/ \E u \in Users : \/ CreateAnnouncement(u) \/ DeleteUser(u) \/ Rename(u) \/ Ban(u)
                        \/ \E run \in DOMAIN site.runs : SaveRunWriteup(u, run)
                        \/ \E g \in site.teams \cup {"none"} : ChangeTeam(u, g)
    \/ \E e \in site.events : \/ AddEventAnnouncement(e) \/ DeleteEvents(e)
                              \/ RemoveEventAnnouncement(e, {a.id : a \in news})
    \/ \E c \in site.challenges : \/ DeleteChallenge(c)
                                  \/ \E s \in DOMAIN sets : DeleteChallengeFromSet(s, {c})
    \/ \E s \in DOMAIN sets : DeleteChallengeSet(s)
    \/ \E g \in site.teams : RemoveTeam(g)
    \/ \E w \in {"w1", "w2"} : \/ CreateWeapon(w) \/ DeleteWeapon(w)
                               \/ PatchWeapon(w, NoKey) \/ PatchWeapon(w, Key("weapon", "none", "none", 2))

Spec == Init /\ [][Next]_vars

-----------------------------------------------------------------------------
\* Requests one at a time: the counter of likes is their number, and the counter
\* of comments too unless a moderator or a deleted thread of replies interfered.
CountersAgree ==
    (Quiet /\ ~world.overlap /\ row.is) =>
        /\ row.like_count = Cardinality(likes)
        /\ (~world.replies /\ "moderate" \notin world.ops) => row.comment_count = Cardinality(comments)

\* What a row names is there (its team, its object in the storage), though requests
\* fail between the object and the row; for weapons, as long as no administrator
\* wrote the file's name himself.
RowsNameObjects ==
    /\ \A w \in wps : w.file_url \in DOMAIN objects /\ w.team \in site.teams \cup {"none"}
    /\ "patch" \notin world.ops => \A n \in DOMAIN files : files[n] \in DOMAIN objects \cup {NoKey}

\* A player gets the file of the team he is in now, or his own, of that event.
OwnFileIsOwn ==
    \A e \in site.events, u \in site.users : Member(u).joined =>
        \A k \in OwnWriteupFileUrl(e, u) : k.event = e /\ k.owner = IF Team THEN Member(u).team ELSE u

\* A private object is resolved to the event in its key, while that exists, and to none
\* else; what administrators are shown and every report can be downloaded.
ResolvedToItsEvent ==
    \A k \in DOMAIN objects : Private(k) =>
        /\ ResolvePrivateArtifact(k) \subseteq {k.event} \cap site.events
        /\ k.event \in site.events /\ k.kind = "report" => Download(k)
        /\ \A w \in GetAllEventWriteups(k.event) : Download(w.file_url)

\* One request at a time: the report of a competition links to files that are packed
\* with it (in an individual one, if it is the only competition).
ReportIsWhole ==
    (~world.overlap /\ (Team \/ Cardinality(world.site.events \ {"practice"}) = 1)) =>
        \A k \in DOMAIN objects : (k.kind = "report" /\ k.event # "practice") => objects[k].links \subseteq objects[k].packed

\* What a user is shown in the list he can open, and nothing else; nobody else's
\* write-up of a run.
ListedReadable ==
    \A u \in site.users :
        /\ GetWriteups(u) = {p.id : p \in {x \in posts : GetWriteup(u, x.id)}}
        /\ \A p \in posts : p.kind = "run" /\ p.user # u => p.id \notin GetWriteups(u)
        /\ \A c \in world.challenges, p \in posts :
              p \in GetChallengeWriteups(c) => c \in site.challenges /\ p.id \in GetWriteups(u)

\* One request at a time, a user has one write-up of a challenge.
OneWriteupEach ==
    ~world.overlap => \A u \in Users, c \in world.challenges : Cardinality(GetChallengeWriteup(u, c)) <= 1

\* Items of a set exist and players see no hidden one.  What a request adds is a
\* beginning of its list, wherever it ends (one list, nothing taken out by hand).
SetsHoldBeginnings ==
    \A s \in DOMAIN sets :
        /\ AdminsChallengeSet(s) = sets[s] /\ PlayersChallengeSet(s) \cap site.hidden = {}
        /\ \A l \in world.lists : (world.lists = {l} /\ "unset" \notin world.ops) =>
             \E n \in 0 .. Len(l) :
                sets[s] = {l[i] : i \in 1 .. n} \ (world.site.challenges \ site.challenges)

\* Announcements go with their competition, and outlive their publisher's account
\* under his name.  Discussions and comments are by accounts that exist.
AuthorsStand ==
    /\ \A e \in world.site.events \ site.events : ListAnnouncements(e) = {}
    /\ \A a \in ListAnnouncements("none") : a.publisher \in site.users \cup {"none"} /\ a.name # "none"
    /\ GetDiscussions \cup GetDiscussionComments \subseteq site.users

\* What is published stays readable by those it is for, by nobody else, and whole,
\* through failed and overlapping requests and the deletion of what it belongs to.
PublishedHolds ==
    /\ RowsNameObjects /\ OwnFileIsOwn /\ ResolvedToItsEvent /\ ReportIsWhole /\ ListedReadable
    /\ OneWriteupEach /\ SetsHoldBeginnings /\ AuthorsStand
=============================================================================

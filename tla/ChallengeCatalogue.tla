------------------------- MODULE ChallengeCatalogue -------------------------
(***************************************************************************)
(* One entry of the challenge catalogue: the row of its safe_name, the     *)
(* images Docker holds for it and its directory under CHALLENGES_DIR.      *)
(* Importing a package commits the new package fields first, builds the    *)
(* image outside the transaction, and writes the pin at the end.           *)
(***************************************************************************)
EXTENDS Packages

CONSTANTS Threads, Worlds

VARIABLES world, row,  \* challenges
          nextId,      \* ids given out so far
          tag,         \* tag[v]: content of the image with the canonical tag
          images,      \* contents whose image is held locally
          pushed,      \* contents whose image is in the registry
          dir,         \* content of CHALLENGES_DIR/<safe_name>
          req,         \* requests under way
          left         \* requests, faults and crashes still to come

vars == <<world, row, nextId, tag, images, pushed, dir, req, left>>

NoRow == [is |-> FALSE, id |-> 0, v |-> 0, pid |-> "none", port |-> FALSE, attachment |-> "none",
          status |-> "none", ref |-> FALSE, image |-> "none", digest |-> "none"]
Idle == [pc |-> "idle", pkg |-> Package("none", 0), id |-> 0, image |-> "none", digest |-> "none"]
Versions == {p.v : p \in world.packages} \cup {0}
Content(pid) == CHOOSE p \in world.packages : p.pid = pid
Quiet == \A t \in Threads : req[t].pc = "idle"

Init ==
    /\ world \in Worlds
    /\ row = NoRow /\ nextId = 1
    /\ tag = [v \in Versions |-> IF v \in world.tagged THEN (CHOOSE p \in world.packages : p.v = v).pid ELSE "none"]
    /\ images = {p.pid : p \in {x \in world.packages : x.v \in world.tagged}}
    /\ pushed = {} /\ dir = world.dir
    /\ req = [t \in Threads |-> Idle]
    /\ left = [requests |-> world.requests, faults |-> world.faults, crashes |-> world.crashes,
               lost |-> FALSE]

\* A request; one at a time unless the world lets them overlap.
May(op) ==
    /\ op \in world.ops /\ left.requests > 0 /\ (world.overlap \/ Quiet)
    /\ left' = [left EXCEPT !.requests = @ - 1]
Turn(t) == req[t].pc = "idle"
Set(t, r) == req' = [req EXCEPT ![t] = r]
Fault == left.faults > 0 /\ left' = [left EXCEPT !.faults = @ - 1]

-----------------------------------------------------------------------------
(* import_challenge_package                                                *)

\* A dynamic flag needs a container to carry it.
FlagDeliverable(p) == p.flag = "dynamic" => ContainerPort(p)
AttachmentReadable(p) == p.attachment # "none" => ReadPackageFile(p, p.attachment)

\* The archive is unpacked and validated, the row is read and the version gate
\* consulted; nothing has been written yet.
ImportBegin(t, p) ==
    /\ Turn(t) /\ May("import")
    /\ ExtractPackageZip(p) /\ DiscoverPackage(p) /\ ChallengeMeta(p)
    /\ VersionGateOpen(p.v, row.v)
    /\ FlagDeliverable(p) /\ AttachmentReadable(p)
    /\ Set(t, [Idle EXCEPT !.pc = "upsert", !.pkg = p, !.id = row.id])
    /\ UNCHANGED <<world, row, nextId, tag, images, pushed, dir>>

\* The fields a package overwrites.  Without a Dockerfile there is nothing to build.
PackageFields(p, r) ==
    [r EXCEPT !.v = p.v, !.pid = ComputePackageDigest(p), !.port = ContainerPort(p),
              !.attachment = p.attachment, !.ref = HasDockerfile(p), !.image = "none", !.digest = "none",
              !.status = IF HasDockerfile(p) THEN "building" ELSE "ready"]

\* The transaction: insert when no row was seen (the unique safe_name refuses a
\* second one), update by the id that was seen otherwise.
ImportUpsert(t) ==
    LET p == req[t].pkg
        written == IF req[t].id = 0 THEN ~row.is ELSE row.is /\ row.id = req[t].id
        id == IF req[t].id = 0 THEN nextId ELSE req[t].id IN
    /\ req[t].pc = "upsert"
    /\ IF written
       THEN /\ row' = PackageFields(p, [row EXCEPT !.is = TRUE, !.id = id])
            /\ nextId' = IF req[t].id = 0 THEN nextId + 1 ELSE nextId
            /\ Set(t, [req[t] EXCEPT !.pc = IF HasDockerfile(p) THEN "build" ELSE "mirror", !.id = id])
       ELSE UNCHANGED <<row, nextId>> /\ Set(t, Idle)
    /\ UNCHANGED <<world, tag, images, pushed, dir, left>>

\* run_build_and_pin: build, tag with the canonical name ...
BuildImage(t) ==
    LET p == req[t].pkg IN
    /\ req[t].pc = "build" /\ Set(t, [req[t] EXCEPT !.pc = "pin"])
    /\ images' = images \cup {p.pid} /\ tag' = TagImage(tag, p.v, p.pid)
    /\ UNCHANGED <<world, row, nextId, pushed, dir, left>>
\* ... inspect that name, push it, and take the id and the digest.
InspectAndPush(t) ==
    LET image == InspectImage(tag, req[t].pkg.v) IN
    /\ req[t].pc = "pin" /\ image # "none"
    /\ pushed' = PushImage(world.push, pushed, image)
    /\ Set(t, [req[t] EXCEPT !.pc = "ready", !.image = image, !.digest = PickRepoDigest(world.push, image)])
    /\ UNCHANGED <<world, row, nextId, tag, images, dir, left>>
\* Either step fails: build error or timeout, push refused, the image is gone.
BuildFails(t) ==
    /\ req[t].pc \in {"build", "pin"} /\ Set(t, [req[t] EXCEPT !.pc = "failed"])
    /\ \/ Fault
       \/ req[t].pc = "pin" /\ InspectImage(tag, req[t].pkg.v) = "none" /\ UNCHANGED left
    /\ UNCHANGED <<world, row, nextId, tag, images, pushed, dir>>

Mine(t) == row.is /\ row.id = req[t].id
ImportReady(t) ==
    /\ req[t].pc = "ready"
    /\ row' = IF Mine(t) THEN [row EXCEPT !.image = req[t].image, !.digest = req[t].digest, !.ref = TRUE,
                                          !.status = "ready"] ELSE row
    /\ Set(t, IF Mine(t) THEN [req[t] EXCEPT !.pc = "mirror"] ELSE Idle)
    /\ UNCHANGED <<world, nextId, tag, images, pushed, dir, left>>
\* The status of a failed build; when this write fails too, nobody is told
\* (left.lost remembers it).
ImportFailed(t) ==
    /\ req[t].pc = "failed" /\ Set(t, Idle)
    /\ \/ row' = (IF Mine(t) THEN [row EXCEPT !.status = "failed"] ELSE row) /\ UNCHANGED left
       \/ /\ left.faults > 0 /\ left' = [left EXCEPT !.faults = @ - 1, !.lost = TRUE]
          /\ UNCHANGED row
    /\ UNCHANGED <<world, nextId, tag, images, pushed, dir>>

\* mirror_to_challenges_dir: the old directory goes, the package is copied; an
\* error is logged.
Mirror(t) ==
    /\ req[t].pc = "mirror" /\ Set(t, Idle)
    /\ \/ dir' = req[t].pkg.pid /\ UNCHANGED left
       \/ dir' = "none" /\ Fault
    /\ UNCHANGED <<world, row, nextId, tag, images, pushed>>

-----------------------------------------------------------------------------
(* The other requests of an administrator.                                 *)

\* scan_challenges_dir: the directory is named after the entry; one that cannot
\* be read is reported and passed over ...
ScanAccepts(p) == ChallengeMeta([p EXCEPT !.metas = {"web"}]) /\ AttachmentReadable(p)
\* ... one without a row is registered; ready when there is nothing to build or
\* its tag is held locally.
Scan ==
    LET p == Content(dir)
        image == IF HasDockerfile(p) THEN InspectImage(tag, p.v) ELSE "none" IN
    /\ May("scan") /\ dir # "none" /\ ~row.is /\ ScanAccepts(p)
    /\ row' = [PackageFields(p, NoRow) EXCEPT !.is = TRUE, !.id = nextId, !.image = image,
                 !.status = IF HasDockerfile(p) /\ image = "none" THEN "failed" ELSE "ready"]
    /\ nextId' = nextId + 1
    /\ UNCHANGED <<world, tag, images, pushed, dir, req>>

\* check_challenges reads the rows, looks for the image under the canonical tag
\* and then under the pin ...
CheckRead(t) ==
    LET pin == EffectiveImageRef(row)
        named == InspectImage(tag, row.v)
        found == IF named # "none" THEN named ELSE IF pin \in images THEN pin ELSE "none" IN
    /\ Turn(t) /\ May("check")
    /\ row.is /\ row.port /\ row.status # "ready" /\ found # "none"
    /\ Set(t, [Idle EXCEPT !.pc = "check", !.id = row.id, !.image = found])
    /\ UNCHANGED <<world, row, nextId, tag, images, pushed, dir>>
\* ... and repairs the status of a row that was not ready.
CheckRepair(t) ==
    /\ req[t].pc = "check" /\ Set(t, Idle)
    /\ row' = IF Mine(t) THEN [row EXCEPT !.status = "ready", !.ref = TRUE, !.image = req[t].image] ELSE row
    /\ UNCHANGED <<world, nextId, tag, images, pushed, dir, left>>

\* build_challenge: makes sure the pinned image is held; what is pulled is tagged.
Retag(held) == [v \in DOMAIN tag |->
    IF \E p \in world.packages : p.v = v /\ p.pid \in held
    THEN (CHOOSE p \in world.packages : p.v = v /\ p.pid \in held).pid ELSE tag[v]]
BuildChallenge ==
    /\ May("build") /\ row.is /\ row.status = "ready" /\ row.port /\ CanEnsure(row, images, pushed)
    /\ images' = EnsureImage(row, images, pushed) /\ tag' = Retag(images' \ images)
    /\ UNCHANGED <<world, row, nextId, pushed, dir, req>>

\* create_challenge: an identity without a package.
CreateChallenge ==
    /\ May("create") /\ ~row.is
    /\ row' = [NoRow EXCEPT !.is = TRUE, !.id = nextId] /\ nextId' = nextId + 1
    /\ UNCHANGED <<world, tag, images, pushed, dir, req>>

\* patch_challenge: the port may be set or cleared by hand.
PatchChallenge(port) ==
    /\ May("patch") /\ row.is /\ row' = [row EXCEPT !.port = port]
    /\ UNCHANGED <<world, nextId, tag, images, pushed, dir, req>>

\* delete_challenge: the directory first, then the row; images stay.
DeleteDirectory(t) ==
    /\ Turn(t) /\ May("delete") /\ row.is
    /\ dir' = "none" /\ Set(t, [Idle EXCEPT !.pc = "delete", !.id = row.id])
    /\ UNCHANGED <<world, row, nextId, tag, images, pushed>>
DeleteRow(t) ==
    /\ req[t].pc = "delete" /\ Set(t, Idle)
    /\ row' = IF Mine(t) THEN NoRow ELSE row
    /\ UNCHANGED <<world, nextId, tag, images, pushed, dir, left>>

\* Images removed on the host.
Prune ==
    /\ May("prune") /\ images # {}
    /\ images' = {} /\ tag' = [v \in DOMAIN tag |-> "none"]
    /\ UNCHANGED <<world, row, nextId, pushed, dir, req>>

\* The process stops: requests are lost, everything they wrote stays.
Crash ==
    /\ left.crashes > 0 /\ ~Quiet /\ left' = [left EXCEPT !.crashes = @ - 1]
    /\ req' = [t \in Threads |-> Idle]
    /\ UNCHANGED <<world, row, nextId, tag, images, pushed, dir>>

Next ==
    \/ \E t \in Threads, p \in world.packages : ImportBegin(t, p)
    \/ \E t \in Threads : \/ ImportUpsert(t) \/ BuildImage(t) \/ InspectAndPush(t) \/ BuildFails(t)
                          \/ ImportReady(t) \/ ImportFailed(t) \/ Mirror(t)
                          \/ CheckRead(t) \/ CheckRepair(t) \/ DeleteDirectory(t) \/ DeleteRow(t)
    \/ Scan \/ BuildChallenge \/ CreateChallenge \/ Prune \/ Crash
    \/ \E port \in BOOLEAN : PatchChallenge(port)

Spec == Init /\ [][Next]_vars

-----------------------------------------------------------------------------
TypeOK ==
    /\ row.status \in {"none", "building", "ready", "failed"}
    /\ row.is = (row.id # 0) /\ row.id < nextId
    /\ images \subseteq {p.pid : p \in world.packages} /\ pushed \subseteq {p.pid : p \in world.packages}

\* A ready entry runs the image of its own package, whatever crashes, failed
\* builds, checks, scans and deletions came before (requests one at a time, one
\* content per version).
ReadyRunsItsPackage ==
    (~world.overlap /\ row.status = "ready" /\ row.pid # "none" /\ HasDockerfile(Content(row.pid)))
        => row.image = row.pid

\* Without a crash no entry stays in "building" once no request is under way,
\* overlapping imports included, unless the status of a failed build could not
\* be written.
NothingStaysBuilding == (world.crashes = 0 /\ ~left.lost /\ Quiet) => row.status # "building"

\* Without a fault or a crash, the directory served to players holds the package
\* of the ready entry once no request is under way.
ServesItsAttachment ==
    (Quiet /\ ~world.overlap /\ world.faults = 0 /\ world.crashes = 0 /\ row.is
        /\ row.status = "ready" /\ row.attachment # "none") => dir = row.pid
=============================================================================

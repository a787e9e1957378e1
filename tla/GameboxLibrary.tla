--------------------------- MODULE GameboxLibrary ---------------------------
(***************************************************************************)
(* One game box of the library: its row, its image, the AWD-P material     *)
(* taken out of the image, its directory under GAMEBOXES_DIR, and the      *)
(* events and practice runs that refer to it.  Unlike a challenge, a game  *)
(* box keeps the AWD-P columns of the previous package while the next one  *)
(* is being built, and Check never repairs it.                             *)
(***************************************************************************)
EXTENDS Packages

CONSTANTS Threads, Others,   \* other ready boxes an event may select
          LastOffset,        \* the last host number (254)
          Worlds

VARIABLES world, box,     \* gameboxes
          nextId, tag, images, pushed,
          temp,           \* boxes whose extraction container exists
          objects,        \* source archives stored: <<box id, content, source of>>
          dir,            \* content of GAMEBOXES_DIR/<safe_name>
          chosen,         \* chosen[b]: host number in the event, 0 when not selected
          runs,           \* box ids practice runs refer to
          touched,        \* touch_event_configuration was called
          req, left

vars == <<world, box, nextId, tag, images, pushed, temp, objects, dir, chosen, runs, touched, req, left>>

Boxes == Others \cup {"box"}
NoBox == [is |-> FALSE, id |-> 0, v |-> 0, pid |-> "none", judge |-> "none", awdp |-> "none",
          source |-> "none", status |-> "none", image |-> "none", digest |-> "none", hidden |-> FALSE]
Idle == [pc |-> "idle", pkg |-> Package("none", 0), id |-> 0, image |-> "none", digest |-> "none",
         source |-> "none", which |-> "none", offset |-> 0]
Versions == {p.v : p \in world.packages} \cup {0}
Content(pid) == CHOOSE p \in world.packages : p.pid = pid
Quiet == \A t \in Threads : req[t].pc = "idle"

Init ==
    /\ world \in Worlds
    /\ box = NoBox /\ nextId = 1
    /\ tag = [v \in Versions |-> IF v \in world.tagged THEN (CHOOSE p \in world.packages : p.v = v).pid ELSE "none"]
    /\ images = {p.pid : p \in {x \in world.packages : x.v \in world.tagged}}
    /\ pushed = {} /\ temp = {} /\ objects = {} /\ dir = world.dir
    /\ chosen = [b \in Boxes |-> 0] /\ runs = {} /\ touched = FALSE
    /\ req = [t \in Threads |-> Idle]
    /\ left = [requests |-> world.requests, faults |-> world.faults, crashes |-> world.crashes]

\* A request; one at a time unless the world lets them overlap.
May(op) ==
    /\ op \in world.ops /\ left.requests > 0 /\ (world.overlap \/ Quiet)
    /\ left' = [left EXCEPT !.requests = @ - 1]
Turn(t) == req[t].pc = "idle"
Set(t, r) == req' = [req EXCEPT ![t] = r]
Fault == left.faults > 0 /\ left' = [left EXCEPT !.faults = @ - 1]
Mine(t) == box.is /\ box.id = req[t].id
Docker == <<tag, images, pushed, temp>>
EventSide == <<chosen, runs, touched>>

-----------------------------------------------------------------------------
(* import_gamebox_package                                                  *)

ReadJudgeScript(p) == p.judge # "none" => ReadPackageFile(p, p.judge)
ReadAwdpScript(p) == ReadPackageFile(p, p.exploit)

ImportBegin(t, p) ==
    /\ Turn(t) /\ May("import")
    /\ ExtractPackageZip(p) /\ DiscoverPackage(p) /\ RequirePackageLayout(p) /\ GameBoxMeta(p)
    /\ VersionGateOpen(p.v, box.v) /\ ReadJudgeScript(p)
    /\ Set(t, [Idle EXCEPT !.pc = "upsert", !.pkg = p, !.id = box.id])
    /\ UNCHANGED <<world, box, nextId, Docker, objects, dir, EventSide>>

\* The package fields; the AWD-P columns are left for the end.
PackageFields(p, b) ==
    [b EXCEPT !.v = p.v, !.pid = ComputePackageDigest(p), !.judge = p.judge, !.image = "none",
              !.digest = "none", !.status = "building"]
\* create_gamebox_identity when no row was seen, then the update; one transaction.
ImportUpsert(t) ==
    LET fresh == req[t].id = 0
        written == IF fresh THEN ~box.is ELSE Mine(t)
        id == IF fresh THEN nextId ELSE req[t].id IN
    /\ req[t].pc = "upsert"
    /\ IF written
       THEN /\ box' = PackageFields(req[t].pkg, [box EXCEPT !.is = TRUE, !.id = id])
            /\ nextId' = IF fresh THEN nextId + 1 ELSE nextId
            /\ Set(t, [req[t] EXCEPT !.pc = "build", !.id = id])
       ELSE UNCHANGED <<box, nextId>> /\ Set(t, Idle)
    /\ UNCHANGED <<world, Docker, objects, dir, EventSide, left>>

\* run_build_and_pin
BuildImage(t) ==
    LET p == req[t].pkg IN
    /\ req[t].pc = "build" /\ Set(t, [req[t] EXCEPT !.pc = "pin"])
    /\ images' = images \cup {p.pid} /\ tag' = TagImage(tag, p.v, p.pid)
    /\ UNCHANGED <<world, box, nextId, pushed, temp, objects, dir, EventSide, left>>
InspectAndPush(t) ==
    LET image == InspectImage(tag, req[t].pkg.v) IN
    /\ req[t].pc = "pin" /\ image # "none"
    /\ pushed' = PushImage(world.push, pushed, image)
    /\ Set(t, [req[t] EXCEPT !.pc = IF req[t].pkg.exploit = "none" THEN "ready" ELSE "extract",
                             !.image = image, !.digest = PickRepoDigest(world.push, image)])
    /\ UNCHANGED <<world, box, nextId, tag, images, temp, objects, dir, EventSide, left>>
BuildFails(t) ==
    /\ req[t].pc \in {"build", "pin"} /\ Set(t, [req[t] EXCEPT !.pc = "failed"])
    /\ \/ Fault
       \/ req[t].pc = "pin" /\ InspectImage(tag, req[t].pkg.v) = "none" /\ UNCHANGED left
    /\ UNCHANGED <<world, box, nextId, Docker, objects, dir, EventSide>>

\* extract_awdp_source_targz: a container named after the box is created from
\* the tag ...
CreateTempContainer(t) ==
    /\ req[t].pc = "extract"
    /\ IF ReadAwdpScript(req[t].pkg) /\ req[t].id \notin temp
       THEN temp' = temp \cup {req[t].id} /\ Set(t, [req[t] EXCEPT !.pc = "copy"])
       ELSE UNCHANGED temp /\ Set(t, [req[t] EXCEPT !.pc = "failed"])
    /\ UNCHANGED <<world, box, nextId, tag, images, pushed, objects, dir, EventSide, left>>
\* ... its source directory is copied and packed, and the container removed
\* whatever came of it.
CopySource(t) ==
    LET p == req[t].pkg IN
    /\ req[t].pc = "copy" /\ temp' = temp \ {req[t].id}
    /\ IF p.source
       THEN Set(t, [req[t] EXCEPT !.pc = "publish", !.source = InspectImage(tag, p.v)])
       ELSE Set(t, [req[t] EXCEPT !.pc = "failed"])
    /\ UNCHANGED <<world, box, nextId, tag, images, pushed, objects, dir, EventSide, left>>
\* publish_awdp_source_artifact: one object per box and package digest.
PublishSource(t) ==
    /\ req[t].pc = "publish"
    /\ \/ objects' = {o \in objects : <<o[1], o[2]>> # <<req[t].id, req[t].pkg.pid>>}
                       \cup {<<req[t].id, req[t].pkg.pid, req[t].source>>}
          /\ Set(t, [req[t] EXCEPT !.pc = "ready"]) /\ UNCHANGED left
       \/ Fault /\ Set(t, [req[t] EXCEPT !.pc = "failed"]) /\ UNCHANGED objects
    /\ UNCHANGED <<world, box, nextId, Docker, dir, EventSide>>

\* The AWD-P columns are written all together or cleared all together.
Capability(p, source) ==
    IF p.exploit = "none" THEN [awdp |-> "none", source |-> "none"]
    ELSE [awdp |-> p.pid, source |-> source]
WithCapability(b, c) == [b EXCEPT !.awdp = c.awdp, !.source = c.source]

ImportReadyKeepsOldCapability(t) ==
    /\ req[t].pc = "ready"
    /\ box' = IF ~Mine(t) THEN box
              ELSE LET b == [box EXCEPT !.image = req[t].image, !.digest = req[t].digest, !.status = "ready"] IN
                   IF req[t].pkg.exploit = "none" THEN b
                   ELSE WithCapability(b, Capability(req[t].pkg, req[t].source))
    /\ Set(t, IF Mine(t) THEN [req[t] EXCEPT !.pc = "mirror"] ELSE Idle)
    /\ UNCHANGED <<world, nextId, Docker, objects, dir, EventSide, left>>
ImportReady(t) ==
    /\ req[t].pc = "ready"
    /\ box' = IF Mine(t)
              THEN WithCapability([box EXCEPT !.image = req[t].image, !.digest = req[t].digest, !.status = "ready"],
                                  Capability(req[t].pkg, req[t].source))
              ELSE box
    /\ Set(t, IF Mine(t) THEN [req[t] EXCEPT !.pc = "mirror"] ELSE Idle)
    /\ UNCHANGED <<world, nextId, Docker, objects, dir, EventSide, left>>
\* A failed build or extraction; nobody is told when this write fails too.
ImportFailed(t) ==
    /\ req[t].pc = "failed" /\ Set(t, Idle)
    /\ \/ /\ box' = IF Mine(t) THEN [box EXCEPT !.status = "failed", !.awdp = "none", !.source = "none"] ELSE box
          /\ UNCHANGED left
       \/ Fault /\ UNCHANGED box
    /\ UNCHANGED <<world, nextId, Docker, objects, dir, EventSide>>
\* mirror_to_gameboxes_dir
Mirror(t) ==
    /\ req[t].pc = "mirror" /\ Set(t, Idle)
    /\ \/ dir' = req[t].pkg.pid /\ UNCHANGED left
       \/ dir' = "none" /\ Fault
    /\ UNCHANGED <<world, box, nextId, Docker, objects, EventSide>>

-----------------------------------------------------------------------------
(* The other requests about the library.                                   *)

\* scan_gameboxes_dir: a directory that cannot be read is passed over ...
ScanAccepts(p) == GameBoxMeta([p EXCEPT !.metas = {"web"}]) /\ ReadJudgeScript(p)
\* ... and so is one whose AWD-P material cannot be taken out of the image at
\* hand again (its container has a name of its own); without the image there is
\* none.
ScanExtracts(p) == p.exploit # "none" => ReadAwdpScript(p) /\ p.source
Scan ==
    LET p == Content(dir)
        image == InspectImage(tag, p.v)
        held == image # "none"
        c == IF held THEN Capability(p, image) ELSE [awdp |-> "none", source |-> "none"] IN
    /\ May("scan") /\ dir # "none" /\ ~box.is /\ ScanAccepts(p) /\ (held => ScanExtracts(p))
    /\ box' = WithCapability([PackageFields(p, NoBox) EXCEPT !.is = TRUE, !.id = nextId,
                                !.image = image, !.status = IF held THEN "ready" ELSE "failed"], c)
    /\ objects' = IF c.awdp = "none" THEN objects ELSE objects \cup {<<nextId, p.pid, c.source>>}
    /\ nextId' = nextId + 1
    /\ UNCHANGED <<world, Docker, dir, EventSide, req>>

\* build_gamebox: makes sure the pinned image is held; what is pulled is tagged.
Retag(held) == [v \in DOMAIN tag |->
    IF \E p \in world.packages : p.v = v /\ p.pid \in held
    THEN (CHOOSE p \in world.packages : p.v = v /\ p.pid \in held).pid ELSE tag[v]]
BuildGamebox ==
    /\ May("build") /\ box.is /\ box.status = "ready" /\ CanEnsure(box, images, pushed)
    /\ images' = EnsureImage(box, images, pushed) /\ tag' = Retag(images' \ images)
    /\ UNCHANGED <<world, box, nextId, pushed, temp, objects, dir, EventSide, req>>
\* update_gamebox: the judge script and other parameters may be edited by hand;
\* hide_gamebox archives the box.
UpdateGamebox ==
    /\ May("update") /\ box.is /\ box' = [box EXCEPT !.judge = "edited"]
    /\ UNCHANGED <<world, nextId, Docker, objects, dir, EventSide, req>>
HideGamebox ==
    /\ May("hide") /\ box.is /\ box' = [box EXCEPT !.hidden = TRUE]
    /\ UNCHANGED <<world, nextId, Docker, objects, dir, EventSide, req>>
Prune ==
    /\ May("prune") /\ images # {} /\ images' = {} /\ tag' = [v \in DOMAIN tag |-> "none"]
    /\ UNCHANGED <<world, box, nextId, pushed, temp, objects, dir, EventSide, req>>

\* delete_gamebox_with_references_checked: the references are counted, the
\* directory is removed, and the row deleted unless the database finds a
\* reference after all.
Referenced == chosen["box"] # 0 \/ box.id \in runs
DeleteCheck(t) ==
    /\ Turn(t) /\ May("delete") /\ box.is /\ ~Referenced
    /\ Set(t, [Idle EXCEPT !.pc = "delete", !.id = box.id])
    /\ UNCHANGED <<world, box, nextId, Docker, objects, dir, EventSide>>
DeleteDirectory(t) ==
    /\ req[t].pc = "delete" /\ dir' = "none" /\ Set(t, [req[t] EXCEPT !.pc = "drop"])
    /\ UNCHANGED <<world, box, nextId, Docker, objects, EventSide, left>>
DeleteRow(t) ==
    /\ req[t].pc = "drop" /\ Set(t, Idle)
    /\ box' = IF Mine(t) /\ ~Referenced THEN NoBox ELSE box
    /\ UNCHANGED <<world, nextId, Docker, objects, dir, EventSide, left>>

-----------------------------------------------------------------------------
(* The boxes of an event.                                                  *)

IsReady(b) == b \in Others \/ (box.is /\ box.status = "ready")
FreeOffsets == {o \in 2 .. LastOffset : \A b \in Boxes : chosen[b] # o}
\* add_event_gamebox: ready, not selected yet, the first free host number ...
AddEventGameboxRead(t, b) ==
    /\ Turn(t) /\ May("select") /\ IsReady(b) /\ chosen[b] = 0 /\ FreeOffsets # {}
    /\ Set(t, [Idle EXCEPT !.pc = "select", !.which = b,
                           !.id = IF b = "box" THEN box.id ELSE 0,
                           !.offset = CHOOSE o \in FreeOffsets : \A x \in FreeOffsets : o <= x])
    /\ UNCHANGED <<world, box, nextId, Docker, objects, dir, EventSide>>
\* ... and the insert, which the unique keys and the foreign key may refuse.
AddEventGamebox(t) ==
    LET b == req[t].which
        ok == /\ b = "box" => Mine(t)
              /\ chosen[b] = 0 /\ req[t].offset \in FreeOffsets IN
    /\ req[t].pc = "select" /\ Set(t, Idle)
    /\ IF ok THEN chosen' = [chosen EXCEPT ![b] = req[t].offset] /\ touched' = TRUE
       ELSE UNCHANGED <<chosen, touched>>
    /\ UNCHANGED <<world, box, nextId, Docker, objects, dir, runs, left>>
\* update_event_gamebox: parameters only.
UpdateEventGamebox ==
    /\ May("configure") /\ (\E b \in Boxes : chosen[b] # 0) /\ touched' = TRUE
    /\ UNCHANGED <<world, box, nextId, Docker, objects, dir, chosen, runs, req>>
\* delete_event_gamebox: refused once there are instances of it.
DeleteEventGamebox(b) ==
    /\ May("deselect") /\ chosen[b] # 0 /\ b \notin world.deployed
    /\ chosen' = [chosen EXCEPT ![b] = 0] /\ touched' = TRUE
    /\ UNCHANGED <<world, box, nextId, Docker, objects, dir, runs, req>>
\* A practice run of the box.
StartRun ==
    /\ May("run") /\ box.is /\ box.status = "ready" /\ box.awdp # "none"
    /\ runs' = runs \cup {box.id}
    /\ UNCHANGED <<world, box, nextId, Docker, objects, dir, chosen, touched, req>>

Crash ==
    /\ left.crashes > 0 /\ ~Quiet /\ left' = [left EXCEPT !.crashes = @ - 1]
    /\ req' = [t \in Threads |-> Idle]
    /\ UNCHANGED <<world, box, nextId, Docker, objects, dir, EventSide>>

Next ==
    \/ \E t \in Threads, p \in world.packages : ImportBegin(t, p)
    \/ \E t \in Threads, b \in Boxes : AddEventGameboxRead(t, b)
    \/ \E b \in Boxes : DeleteEventGamebox(b)
    \/ \E t \in Threads : \/ ImportUpsert(t) \/ BuildImage(t) \/ InspectAndPush(t) \/ BuildFails(t)
                          \/ CreateTempContainer(t) \/ CopySource(t) \/ PublishSource(t)
                          \/ ImportReady(t) \/ ImportFailed(t) \/ Mirror(t)
                          \/ DeleteCheck(t) \/ DeleteDirectory(t) \/ DeleteRow(t) \/ AddEventGamebox(t)
    \/ Scan \/ BuildGamebox \/ UpdateGamebox \/ HideGamebox \/ Prune \/ UpdateEventGamebox \/ StartRun \/ Crash

Spec == Init /\ [][Next]_vars

-----------------------------------------------------------------------------
\* A ready box carries the image and the AWD-P material of its own package, all
\* of it or none, after any sequence of imports, failures, crashes and scans
\* (requests one at a time).
ReadyIsOfOnePackage ==
    (~world.overlap /\ box.status = "ready") =>
        /\ box.image = box.pid
        /\ box.awdp = (IF Content(box.pid).exploit = "none" THEN "none" ELSE box.pid)
        /\ box.awdp # "none" => box.source = box.pid

\* The AWD-P material of a ready box can be downloaded: its archive is stored
\* under the key of the row, overlapping imports included.
ArchiveIsStored ==
    (box.status = "ready" /\ box.awdp # "none") => \E o \in objects : o[1] = box.id /\ o[2] = box.awdp

\* A box that an event or a run refers to keeps its package directory, unless
\* copying it failed (requests one at a time).
ReferencedKeepsPackage ==
    (~world.overlap /\ Quiet /\ world.faults = 0 /\ world.crashes = 0 /\ box.is /\ Referenced) => dir # "none"
=============================================================================

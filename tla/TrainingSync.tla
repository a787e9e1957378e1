---------------------------- MODULE TrainingSync ----------------------------
(***************************************************************************)
(* The startup task that fetches the training site: BUILD_INFO, archive    *)
(* and checksum are three requests, the archive is unpacked in a staging   *)
(* directory, renamed to releases/<revision>, the link current is switched *)
(* and REVISION is written, under an advisory lock. Upstream may publish,  *)
(* the engine may cancel the task and the process may die in between.      *)
(***************************************************************************)
EXTENDS Naturals, FiniteSets

CONSTANTS Jobs,          \* dispatches of the task (boot and the poll)
          Revisions,     \* commits upstream publishes, 1..N in order
          KeepReleases,  \* KEEP_RELEASES
          Limits         \* bounds on runs, faults and bad artifacts

VARIABLES upstream,  \* the revision of the release channel and whether its artifact is sound
          lock,      \* holder of the advisory lock
          job,       \* running synchronisations
          dir,       \* releases/<revision>: the revision of its content and the age of the directory
          staging,   \* releases/.staging-<revision>
          current,   \* target of the link current
          revision,  \* the file REVISION
          setting,   \* TRAINING_SITE_REVISION
          spent

vars == <<upstream, lock, job, dir, staging, current, revision, setting, spent>>

None == 0
NoDir == [data |-> None, age |-> 0]
Idle == [pc |-> "idle", rev |-> None, data |-> None, sound |-> TRUE]

Init ==
    /\ upstream = [rev |-> 1, sound |-> TRUE]
    /\ lock = "none" /\ job = [j \in Jobs |-> Idle]
    /\ dir = [r \in Revisions |-> NoDir] /\ staging = [r \in Revisions |-> NoDir]
    /\ current = None /\ revision = None /\ setting = None
    /\ spent = [runs |-> 0, faults |-> 0, bad |-> 0]

Count(k) == spent[k] < Limits[k] /\ spent' = [spent EXCEPT ![k] = @ + 1]
At(j, pc) == job[j].pc = pc
Goto(j, pc) == job' = [job EXCEPT ![j].pc = pc]
disk == <<dir, staging, current>>
marks == <<revision, setting>>

\* A new training-latest release, whose artifact may be broken.
Publish ==
    /\ upstream.rev + 1 \in Revisions
    /\ \/ upstream' = [rev |-> upstream.rev + 1, sound |-> TRUE] /\ UNCHANGED spent
       \/ upstream' = [rev |-> upstream.rev + 1, sound |-> FALSE] /\ Count("bad")
    /\ UNCHANGED <<lock, job, disk, marks>>

\* run: without the lock the task is done at once.
Run(j) ==
    /\ At(j, "idle") /\ Count("runs")
    /\ IF lock = "none" THEN lock' = j /\ Goto(j, "info") ELSE UNCHANGED <<lock, job>>
    /\ UNCHANGED <<upstream, disk, marks>>

\* lock.release, or the guard dropped when the engine cancels the task.
Leave(j) == job' = [job EXCEPT ![j] = Idle] /\ lock' = IF lock = j THEN "none" ELSE lock

\* current_revision: the file, and the setting when there is none.
CurrentRevision == IF revision # None THEN revision ELSE setting

\* Path::exists follows the link.
CurrentExists == current # None /\ dir[current] # NoDir

\* Nothing is fetched when the revision is the same and the link is whole.
UpToDate(r) == CurrentRevision = r /\ CurrentExists

FetchBuildInfo(j) ==
    /\ At(j, "info")
    /\ IF UpToDate(upstream.rev) THEN Leave(j)
       ELSE job' = [job EXCEPT ![j].pc = "archive", ![j].rev = upstream.rev] /\ UNCHANGED lock
    /\ UNCHANGED <<upstream, disk, marks, spent>>

FetchArchive(j) ==
    /\ At(j, "archive")
    /\ job' = [job EXCEPT ![j].pc = "checksum", ![j].data = upstream.rev, ![j].sound = upstream.sound]
    /\ UNCHANGED <<upstream, lock, disk, marks, spent>>

\* The checksum is the one upstream has now.
FetchChecksum(j) ==
    /\ At(j, "checksum")
    /\ IF job[j].data = upstream.rev THEN Goto(j, "extract") /\ UNCHANGED lock ELSE Leave(j)
    /\ UNCHANGED <<upstream, disk, marks, spent>>

\* The age of a directory: the time it was unpacked, among those that are kept.
Newest == LET ages == {dir[r].age : r \in Revisions} IN 1 + CHOOSE a \in ages : \A b \in ages : b <= a

\* extract_archive and verify_site_layout, in the staging directory.
ExtractArchive(j) ==
    /\ At(j, "extract")
    /\ IF job[j].sound
       THEN /\ staging' = [staging EXCEPT ![job[j].rev] = [data |-> job[j].data, age |-> Newest]]
            /\ Goto(j, "remove") /\ UNCHANGED lock
       ELSE staging' = [staging EXCEPT ![job[j].rev] = NoDir] /\ Leave(j)
    /\ UNCHANGED <<upstream, dir, current, marks, spent>>

RemoveTarget(j) ==
    /\ At(j, "remove") /\ Goto(j, "rename")
    /\ dir' = [dir EXCEPT ![job[j].rev] = NoDir]
    /\ UNCHANGED <<upstream, lock, staging, current, marks, spent>>

\* The staging directory is there: nobody else runs while j has the lock.
RenameStaging(j) == LET r == job[j].rev IN
    /\ At(j, "rename") /\ Goto(j, "switch")
    /\ dir' = [dir EXCEPT ![r] = staging[r]] /\ staging' = [staging EXCEPT ![r] = NoDir]
    /\ UNCHANGED <<upstream, lock, current, marks, spent>>

\* The link is replaced by a rename: it is never missing.
SwitchCurrent(j) ==
    /\ At(j, "switch") /\ current' = job[j].rev /\ Goto(j, "mark")
    /\ UNCHANGED <<upstream, lock, dir, staging, marks, spent>>

\* REVISION, then the setting, whose failure is only logged.
WriteRevision(j) ==
    /\ At(j, "mark") /\ revision' = job[j].rev /\ setting' \in {setting, job[j].rev} /\ Goto(j, "prune")
    /\ UNCHANGED <<upstream, lock, disk, spent>>

\* Releases other than the one that was just switched to.
Prunable(keep) == {r \in Revisions : dir[r] # NoDir /\ r # keep}

\* Mutant: every release is pruned.
PruneAll(j) ==
    /\ At(j, "prune") /\ dir' = [r \in Revisions |-> NoDir] /\ Leave(j)
    /\ UNCHANGED <<upstream, staging, current, marks, spent>>

\* All but the KEEP_RELEASES - 1 newest of the others.
PruneOldReleases(j) ==
    LET others == Prunable(job[j].rev)
        newer(r) == {s \in others : dir[s].age > dir[r].age}
    IN  /\ At(j, "prune") /\ Leave(j)
        /\ dir' = [r \in Revisions |-> IF r \in others /\ Cardinality(newer(r)) >= KeepReleases - 1
                                       THEN NoDir ELSE dir[r]]
        /\ UNCHANGED <<upstream, staging, current, marks, spent>>

Sync(j) == \/ FetchBuildInfo(j) \/ FetchArchive(j) \/ FetchChecksum(j) \/ ExtractArchive(j)
           \/ RemoveTarget(j) \/ RenameStaging(j) \/ SwitchCurrent(j) \/ WriteRevision(j)
           \/ PruneOldReleases(j)

\* A request or a write fails, or the timeout of the engine strikes at an await.
Abort(j) ==
    /\ job[j].pc \notin {"idle", "prune"} /\ Count("faults") /\ Leave(j)
    /\ UNCHANGED <<upstream, disk, marks>>

\* The process dies: its sessions are closed, which frees the lock.
Crash ==
    /\ \E j \in Jobs : job[j] # Idle
    /\ Count("faults") /\ job' = [j \in Jobs |-> Idle] /\ lock' = "none"
    /\ UNCHANGED <<upstream, disk, marks>>

Next == Publish \/ Crash \/ \E j \in Jobs : Run(j) \/ Sync(j) \/ Abort(j)

Fairness == \A j \in Jobs : WF_vars(Sync(j))
Spec == Init /\ [][Next]_vars /\ Fairness

----------------------------------------------------------------------------
TypeOK ==
    /\ upstream.rev \in Revisions /\ lock \in Jobs \cup {"none"}
    /\ current \in Revisions \cup {None} /\ revision \in Revisions \cup {None}
    /\ setting \in Revisions \cup {None}
    /\ \A r \in Revisions : dir[r].data \in Revisions \cup {None}

(* The link current leads to a site whenever REVISION names its target:    *)
(* only the revision a run was cut off at, between the switch and the mark,*)
(* is removed under the link, and no run or pruning takes another away.    *)
SiteServed == current # None /\ dir[current] = NoDir => revision # current

(* When the site says it is at the revision of the channel and its link is *)
(* whole, it serves that revision, although BUILD_INFO and the archive are *)
(* fetched at different times and runs are cut off anywhere.               *)
ServesWhatItSays ==
    (\A j \in Jobs : job[j] = Idle) /\ UpToDate(upstream.rev) => dir[current].data = upstream.rev

(* At rest no more than KEEP_RELEASES directories are kept.                *)
ReleasesBounded ==
    (\A j \in Jobs : job[j] = Idle) /\ spent.faults = 0 =>
        Cardinality({r \in Revisions : dir[r] # NoDir}) <= KeepReleases

(* Every run ends and gives the lock back.                                 *)
LockFree == lock = "none"
----------------------------------------------------------------------------
(* What every step keeps *)

Early == {"archive", "checksum", "extract", "remove", "rename", "switch"}
Late == {"mark", "prune"}
Dirs == [data : Revisions \cup {None}, age : Nat]
Types ==
    /\ upstream \in [rev : Revisions, sound : BOOLEAN] /\ lock \in Jobs \cup {"none"}
    /\ job \in [Jobs -> [pc : {"idle", "info"} \cup Early \cup Late, rev : Revisions \cup {None},
                         data : Revisions \cup {None}, sound : BOOLEAN]]
    /\ dir \in [Revisions -> Dirs] /\ staging \in [Revisions -> Dirs]
    /\ current \in Revisions \cup {None} /\ revision \in Revisions \cup {None}
    /\ setting \in Revisions \cup {None}
    /\ spent \in [runs : Nat, faults : Nat, bad : Nat]

\* The one synchronisation under way holds the lock.
Locked == \A j \in Jobs : IF At(j, "idle") THEN job[j] = Idle ELSE lock = j

\* Content of a directory was published when or after its name was read, and
\* revisions, links and marks only go forward.
Published(d, r) == d = NoDir \/ (r <= d.data /\ d.data <= upstream.rev /\ d.age >= 1)
Forward ==
    /\ \A r \in Revisions : Published(dir[r], r) /\ Published(staging[r], r)
    /\ revision <= current /\ setting <= current /\ current <= upstream.rev

\* What a synchronisation has read and done so far.
Progress(j) ==
    /\ job[j].pc \in Early \cup Late => job[j].rev \in Revisions /\ job[j].rev <= upstream.rev
    /\ job[j].pc \in Early => current <= job[j].rev /\ (job[j].rev = current => revision # current)
    /\ job[j].pc \in {"checksum", "extract", "remove"} =>
          job[j].rev <= job[j].data /\ job[j].data <= upstream.rev
    /\ job[j].pc \in {"remove", "rename"} => staging[job[j].rev] # NoDir
    /\ job[j].pc \in {"switch"} \cup Late => dir[job[j].rev] # NoDir
    /\ job[j].pc \in Late => job[j].rev = current

\* No two releases have the same age: a run unpacks one, newer than the others.
Ages ==
    /\ \A r \in Revisions : dir[r].age <= spent.runs /\ staging[r].age <= spent.runs
    /\ \A j \in Jobs : job[j].pc \in {"info", "archive", "checksum", "extract"} =>
          \A r \in Revisions : dir[r].age < spent.runs
    /\ \A r, s \in Revisions : r # s /\ dir[r] # NoDir => dir[r].age # dir[s].age
    /\ \A j \in Jobs : job[j].pc \in {"remove", "rename"} =>
          \A r \in Revisions : dir[r].age < staging[job[j].rev].age

\* The release that was renamed comes on top of those that are kept.
Releases == {r \in Revisions : dir[r] # NoDir}
Added == {job[j].rev : j \in {i \in Jobs : job[i].pc \in {"switch"} \cup Late}}
Kept == spent.faults = 0 => Cardinality(Releases \ Added) <= KeepReleases

Inductive == Types /\ Locked /\ Forward /\ (\A j \in Jobs : Progress(j)) /\ SiteServed /\ Ages /\ Kept
=============================================================================

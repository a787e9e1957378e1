------------------------------ MODULE Packages ------------------------------
(***************************************************************************)
(* Content packages of the challenge catalogue and of the game box         *)
(* library: what an uploaded archive must look like before any of it is    *)
(* stored.  Package contents are abstracted to the facts the checks look   *)
(* at; pid stands for the content itself (its digest).                     *)
(***************************************************************************)
EXTENDS Naturals, FiniteSets

\* An archive as it is uploaded.  metas: where meta.toml files lie ("top" or a
\* directory); v: the version, 0 when it is not x.y.z; name: the safe_name that
\* meta.toml sets, if any; files: paths that exist in it.
Package(pid, v) ==
    [pid |-> pid, v |-> v, metas |-> {"web"}, small |-> TRUE, link |-> FALSE, name |-> "none",
     fields |-> TRUE, files |-> {"src/Dockerfile"}, port |-> TRUE, flag |-> "dynamic", value |-> FALSE,
     attachment |-> "none", judge |-> "none", exploit |-> "none", source |-> TRUE]

\* extract_package_zip: limits on sizes and on the number of files; no symbolic
\* link, no path that leaves the directory.
ExtractPackageZip(p) == p.small /\ ~p.link
\* find_meta_tomls and discover_package
DiscoverPackage(p) == "top" \in p.metas \/ Cardinality(p.metas) = 1
ContentId(p) == IF "top" \in p.metas THEN "none" ELSE CHOOSE d \in p.metas : TRUE
HasDockerfile(p) == "src/Dockerfile" \in p.files
RequirePackageLayout(p) == HasDockerfile(p)
ReadPackageFile(p, path) == path \in p.files
\* compute_package_digest over meta.toml and the listed directories
ComputePackageDigest(p) == p.pid

\* A name of lower-case letters and digits with single separators: "web" stands
\* for the entry's own, "Web!" and "___" for names that are not valid.
IsValidSafeName(name) == name = "web"
\* derive_safe_name: lower case, separators put in order; nothing may remain.
DeriveSafeName(dir) ==
    LET derived == IF dir = "Web!" THEN "web" ELSE dir IN
    IF IsValidSafeName(derived) THEN derived ELSE "none"
\* resolve_safe_name: a name that is given must be valid itself.
ResolveSafeName(p) ==
    IF p.name = "none" THEN DeriveSafeName(ContentId(p))
    ELSE IF IsValidSafeName(p.name) THEN p.name ELSE "none"
\* is_valid_version: x.y.z
IsValidVersion(v) == v > 0
\* validate_content_fields: the public fields.
ValidateContentFields(p) == p.fields /\ IsValidVersion(p.v)
\* [flag]: dynamic accepts no value, static requires one; the section may be absent.
FlagConfig(p) ==
    /\ p.flag = "dynamic" => ~p.value
    /\ p.flag = "static" => p.value
ValidateAttachmentPath(path) == path \notin {"../escape", "attachment/", "flag.txt"}
ChallengeMeta(p) ==
    /\ ValidateContentFields(p) /\ ResolveSafeName(p) # "none" /\ FlagConfig(p)
    /\ p.attachment # "none" => ValidateAttachmentPath(p.attachment)
ValidateScriptPath(path, prefix) == path = prefix
GameBoxMeta(p) ==
    /\ ValidateContentFields(p) /\ ResolveSafeName(p) # "none"
    /\ p.judge # "none" => ValidateScriptPath(p.judge, "judge/check.py")
    /\ p.exploit # "none" => ValidateScriptPath(p.exploit, "awdp/exploit.py")

\* NormalizedChallengeSpec with apply_container_policy: a declared port counts
\* for container content only.
ContainerPort(p) == p.port /\ HasDockerfile(p)

-----------------------------------------------------------------------------
(* The images of one entry.  tag[r]: the image with the name r; images:    *)
(* those held locally; pushed: those in the registry, by digest.           *)

\* content_image_ref: one name per version.
ContentImageRef(v) == v
\* tag_image: the name moves.
TagImage(tag, v, image) == [tag EXCEPT ![ContentImageRef(v)] = image]
InspectImage(tag, v) == tag[ContentImageRef(v)]
PushImage(push, pushed, image) == IF push THEN pushed \cup {image} ELSE pushed
\* pick_repo_digest: an image has a digest once it was pushed.
PickRepoDigest(push, image) == IF push THEN image ELSE "none"
\* effective_image_ref: the repository digest before the local id.
EffectiveImageRef(r) == IF r.digest # "none" THEN r.digest ELSE r.image
\* pull_image: a reference by digest has no tag, so every tag of the repository
\* comes along.
PullImage(images, pushed) == images \cup pushed
\* ensure_image: inspect, and pull what is missing; a local id cannot be pulled.
CanEnsure(r, images, pushed) == EffectiveImageRef(r) \in images \cup (pushed \cap {r.digest})
EnsureImage(r, images, pushed) ==
    IF EffectiveImageRef(r) \in images THEN images ELSE PullImage(images, pushed)

\* version_gate_reason: strictly above the current version, if there is one.
VersionGateOpen(incoming, current) == current = 0 \/ incoming > current
=============================================================================

--------------------------- MODULE StorageStartup ---------------------------
(***************************************************************************)
(* The API's connection to object storage at start: two buckets and their  *)
(* directories are made sure of, again and again within a bound on the     *)
(* attempts and on the time, unless the error is permanent.                *)
(***************************************************************************)
EXTENDS Naturals, FiniteSets

CONSTANTS MaxAttempts, TotalDeadline, InitialBackoff, MaxBackoff,
          Jitter,      \* whole seconds of jitter (0 .. Jitter)
          Durations,   \* how long an attempt that fails may take
          MaxBoots

VARIABLES service,     \* "starting", "usable" or "refusing" (credentials)
          public, policy, private,   \* the buckets, the policy of the public one
          dirs,        \* directories that exist
          boot         \* the start of the process

vars == <<service, public, policy, private, dirs, boot>>

Fresh == [pc |-> "head_public", attempt |-> 1, elapsed |-> 0, slow |-> FALSE, cut |-> FALSE,
          permanent |-> FALSE, n |-> 1]

Init ==
    /\ service \in {"starting", "usable", "refusing"}
    /\ public = FALSE /\ policy = FALSE /\ private = FALSE /\ dirs = {}
    /\ boot = Fresh

Buckets == <<public, policy, private, dirs>>
Goto(pc) == boot' = [boot EXCEPT !.pc = pc]
At(pc) == boot.pc = pc /\ service = "usable"

\* ensure_buckets: any error of head_bucket counts as a missing bucket, and the
\* policy is set only when the bucket was just created.
HeadPublic ==
    /\ boot.pc = "head_public"
    /\ Goto(IF public /\ service = "usable" THEN "public_dirs" ELSE "create_public")
    /\ UNCHANGED <<service, Buckets>>
CreatePublic ==
    /\ At("create_public") /\ ~public /\ public' = TRUE /\ Goto("put_policy")
    /\ UNCHANGED <<service, policy, private, dirs>>
PutPolicy ==
    /\ At("put_policy") /\ policy' = TRUE /\ Goto("public_dirs")
    /\ UNCHANGED <<service, public, private, dirs>>
PublicDirs ==
    /\ At("public_dirs") /\ dirs' = dirs \cup {"images/", "weapons/", "challenges/"} /\ Goto("head_private")
    /\ UNCHANGED <<service, public, policy, private>>
HeadPrivate ==
    /\ boot.pc = "head_private"
    /\ Goto(IF private /\ service = "usable" THEN "private_dirs" ELSE "create_private")
    /\ UNCHANGED <<service, Buckets>>
CreatePrivate ==
    /\ At("create_private") /\ ~private /\ private' = TRUE /\ Goto("private_dirs")
    /\ UNCHANGED <<service, public, policy, dirs>>
PrivateDirs ==
    /\ At("private_dirs") /\ dirs' = dirs \cup {"writeups"} /\ Goto("ready")
    /\ UNCHANGED <<service, public, policy, private>>

-----------------------------------------------------------------------------
(* ensure_buckets_with_retry                                               *)

Failing == {"create_public", "put_policy", "public_dirs", "create_private", "private_dirs"}
\* classify: credentials and permissions are permanent, everything else is not.
Classify == IF service = "refusing" THEN "permanent" ELSE "transient"
\* The step cannot succeed: the service is not usable, or the bucket exists
\* although head_bucket failed.
Refused ==
    \/ service # "usable"
    \/ boot.pc = "create_public" /\ public
    \/ boot.pc = "create_private" /\ private
BackoffForAttempt(attempt) ==
    LET b == InitialBackoff * 2 ^ (attempt - 1) IN IF b < MaxBackoff THEN b ELSE MaxBackoff
Exhausted(attempt, elapsed, delay) == attempt >= MaxAttempts \/ elapsed + delay >= TotalDeadline

\* Also when the service has come up meanwhile: a request may be lost.
AttemptFails(took, jitter) ==
    LET elapsed == boot.elapsed + took
        delay == BackoffForAttempt(boot.attempt) + jitter
        b == [boot EXCEPT !.elapsed = elapsed, !.slow = @ \/ took > 0, !.cut = @ \/ boot.pc = "put_policy"] IN
    /\ boot.pc \in Failing /\ Refused
    /\ boot' = IF Classify = "permanent" THEN [b EXCEPT !.pc = "failed", !.permanent = TRUE]
               ELSE IF Exhausted(boot.attempt, elapsed, delay) THEN [b EXCEPT !.pc = "failed"]
               ELSE [b EXCEPT !.pc = "head_public", !.attempt = @ + 1, !.elapsed = elapsed + delay]
    /\ UNCHANGED <<service, Buckets>>

\* The service starts, stops or is given other credentials.
ServiceChanges(s) ==
    /\ s # service /\ boot.pc \in Failing /\ service' = s
    /\ UNCHANGED <<Buckets, boot>>
\* The process is killed, or exits after the failure, and is started again.
Restart ==
    /\ boot.pc # "ready" /\ boot.n < MaxBoots
    /\ boot' = [Fresh EXCEPT !.n = boot.n + 1, !.cut = boot.cut \/ boot.pc = "put_policy"]
    /\ UNCHANGED <<service, Buckets>>

Step ==
    \/ HeadPublic \/ CreatePublic \/ PutPolicy \/ PublicDirs \/ HeadPrivate \/ CreatePrivate \/ PrivateDirs
    \/ \E took \in Durations, jitter \in 0 .. Jitter : AttemptFails(took, jitter)
Next == Step \/ Restart \/ \E s \in {"starting", "usable", "refusing"} : ServiceChanges(s)

Spec == Init /\ [][Next]_vars

-----------------------------------------------------------------------------
TypeOK ==
    /\ boot.attempt \in 1 .. MaxAttempts
    /\ policy => public
    /\ dirs \cap {"images/", "weapons/", "challenges/"} # {} => public

\* No attempt begins after the deadline, and never more than MaxAttempts are made.
StartsInTime == boot.pc = "head_public" => boot.elapsed < TotalDeadline

\* When attempts fail at once, giving up takes every attempt the policy allows:
\* the sum of the waits stays below the deadline.
EveryAttemptHappens ==
    (boot.pc = "failed" /\ ~boot.permanent /\ ~boot.slow) => boot.attempt = MaxAttempts

\* An API that starts finds both buckets with their directories, and the public
\* one readable unless an earlier try was cut off right before the policy.
ReadyMeansUsable ==
    boot.pc = "ready" =>
        public /\ private /\ dirs = {"images/", "weapons/", "challenges/", "writeups"} /\ (policy \/ boot.cut)
=============================================================================

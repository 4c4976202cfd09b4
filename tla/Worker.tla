------------------------------- MODULE Worker -------------------------------
(***************************************************************************)
(* The Worker agents (internal/workerserver), the gVisor runtime they      *)
(* drive (internal/runtime/gvisor), the snapshot directories on their      *)
(* disks and the object store behind snapshotstore.UploadDir/DownloadDir.  *)
(*                                                                         *)
(* Every operator that primes a variable is one critical section of one    *)
(* HTTP handler: the handlers of module Scheduler's calls are sequences of *)
(* these steps, and anything may happen between two of them.               *)
(*                                                                         *)
(* Snapshot contents are abstracted to what a restore can tell apart:      *)
(*   "none"     no directory / no manifest     "empty"    directory, no    *)
(*   "partial"  some files of a checkpoint                files in it      *)
(*   "torn"     manifest over mixed files      "stale"    an older one     *)
(*   "current"  the newest completed checkpoint of that sandbox (the       *)
(*              golden image, for a sandbox that was never checkpointed)   *)
(***************************************************************************)
CONSTANTS
    Workers,        \* worker ids
    Sandboxes,      \* sandbox ids (uuids)
    Goldens,        \* the ids "golden-<uuid>" that EnsureGolden boots
    GoldenPrefix,   \* object-store prefix of the golden snapshot
    None,           \* the empty string / no entry
    Faults          \* which failures the environment may inject

FaultKinds == {"boot", "checkpoint", "upload", "download", "restore", "status",
               "put", "read", "detach", "restart", "crash"}

ASSUME IdsAssumption ==
    /\ Workers \cap (Sandboxes \cup Goldens) = {}
    /\ Sandboxes \cap Goldens = {}
    /\ GoldenPrefix \notin Sandboxes \cup Goldens
    /\ None \notin Workers \cup Sandboxes \cup Goldens \cup {GoldenPrefix}
    /\ Faults \subseteq FaultKinds

VARIABLES
    alive,          \* alive[w]: Server.alive, the ids that hold w's only slot
    container,      \* container[w][i]: the checkpoint that i's container on w grew from
    image,          \* image[w][i]: contents of the directory snapRoot/w/i on w
    object,         \* object[k]: contents under prefix k of the object store
    taken           \* history: the sandboxes that were checkpointed at least once

workerVars == <<alive, container, image, object, taken>>

Ids == Sandboxes \cup Goldens
Keys == Sandboxes \cup {GoldenPrefix}

ContainerTags == {"none", "stale", "current"}
ImageTags == {"none", "empty", "partial", "stale", "current"}
ObjectTags == {"none", "torn", "stale", "current"}

WorkerTypeOK ==
    /\ alive \in [Workers -> SUBSET Ids]
    /\ container \in [Workers -> [Ids -> ContainerTags]]
    /\ image \in [Workers -> [Ids -> ImageTags]]
    /\ object \in [Keys -> ObjectTags]
    /\ taken \in SUBSET Sandboxes

WorkerInit ==
    /\ alive = [w \in Workers |-> {}]
    /\ container = [w \in Workers |-> [i \in Ids |-> "none"]]
    /\ image = [w \in Workers |-> [i \in Ids |-> "none"]]
    /\ object = [k \in Keys |-> "none"]
    /\ taken = {}

-----------------------------------------------------------------------------
(* The slot: Server.claim and Server.release under Server.mu.              *)

CanClaimAlways(w, i) == TRUE

\* claim: refused (409) while another id holds the slot.
CanClaim(w, i) == alive[w] \subseteq {i}

Claim(w, i) ==
    /\ CanClaim(w, i)
    /\ alive' = [alive EXCEPT ![w] = @ \cup {i}]
    /\ UNCHANGED <<container, image, object, taken>>

Released(w, i) == [alive EXCEPT ![w] = @ \ {i}]

\* handleStatus: usedSlots = len(alive), maxSlots = 1.
HasFreeSlot(w) == alive[w] = {}

\* handleLocalSnapshot: the directory exists, whatever it holds.
LocalSnapshotExists(w, i, path) == path = w /\ image[w][i] # "none"

-----------------------------------------------------------------------------
(* handleBoot after its claim: runsc create and start.  A failed boot      *)
(* deletes what it created and releases the slot.                          *)

RtBoot(w, i) ==
    /\ container' = [container EXCEPT ![w][i] = "current"]
    /\ UNCHANGED <<alive, image, object, taken>>

RtBootFails(w, i) ==
    /\ "boot" \in Faults
    /\ alive' = Released(w, i)
    /\ UNCHANGED <<container, image, object, taken>>

-----------------------------------------------------------------------------
(* handleCheckpoint: Runtime.Checkpoint, then UploadDir when the request   *)
(* has an objectKey, then release.                                         *)

Older(tag) == IF tag = "current" THEN "stale" ELSE tag

\* A new checkpoint of i exists: every other copy of i is an older one.
Superseded(copies, i) == [w \in Workers |-> [copies[w] EXCEPT ![i] = Older(@)]]

\* Runtime.Checkpoint, successful: clears the directory, writes the image and
\* deletes the container.
RtCheckpoint(w, i) ==
    /\ container[w][i] # "none"
    /\ container' = [Superseded(container, i) EXCEPT ![w][i] = "none"]
    /\ image' = [Superseded(image, i) EXCEPT ![w][i] = "current"]
    /\ object' = [k \in Keys |-> IF k = i THEN Older(object[k]) ELSE object[k]]
    /\ taken' = taken \cup ({i} \cap Sandboxes)
    /\ UNCHANGED alive

\* Runtime.Checkpoint, failed: RemoveAll and MkdirAll of the directory come
\* before runsc, which fails when there is no container to checkpoint.  The
\* handler returns without releasing the slot.
RtCheckpointFails(w, i) ==
    /\ \/ /\ container[w][i] = "none"
          /\ image' = [image EXCEPT ![w][i] = "empty"]
       \/ /\ container[w][i] # "none"
          /\ "checkpoint" \in Faults
          /\ \E left \in {"empty", "partial"} : image' = [image EXCEPT ![w][i] = left]
    /\ UNCHANGED <<alive, container, object, taken>>

Packed(tag) == IF tag = "partial" THEN "torn" ELSE tag

UploadDirSkipped(w, i, key) ==
    /\ image[w][i] \notin {"none", "empty"}
    /\ object' = [object EXCEPT ![key] = IF @ = "none" THEN Packed(image[w][i]) ELSE @]
    /\ alive' = Released(w, i)
    /\ UNCHANGED <<container, image, taken>>

\* UploadDir of the files, then the manifest; release.
UploadDir(w, i, key) ==
    /\ image[w][i] \notin {"none", "empty"}
    /\ object' = [object EXCEPT ![key] = Packed(image[w][i])]
    /\ alive' = Released(w, i)
    /\ UNCHANGED <<container, image, taken>>

UploadDirFailsReleasing(w, i, key, cancelled) ==
    /\ "upload" \in Faults \/ cancelled
    /\ alive' = Released(w, i)
    /\ UNCHANGED <<container, image, object, taken>>

\* What an upload of a directory that ends at any of its Puts (whose request may have
\* been applied) leaves: the manifest is written last and an older manifest stays, over
\* files that were overwritten.
UploadLeft(key, dir) ==
    IF dir \in {"none", "empty"} THEN {object[key]}
    ELSE {object[key], Packed(dir)} \cup (IF object[key] = "none" THEN {} ELSE {"torn"})

\* UploadDir fails: no files to upload, or any Put of it.
\* The slot is not released; the container is already gone.  `cancelled': the
\* caller has hung up, which cancels the context of the transfer.
UploadDirFails(w, i, key, cancelled) ==
    /\ image[w][i] \in {"none", "empty"} \/ "upload" \in Faults \/ cancelled
    /\ \E left \in UploadLeft(key, image[w][i]) : object' = [object EXCEPT ![key] = left]
    /\ UNCHANGED <<alive, container, image, taken>>

\* No objectKey (Pause): only the release.
KeepLocal(w, i) ==
    /\ alive' = Released(w, i)
    /\ UNCHANGED <<container, image, object, taken>>

-----------------------------------------------------------------------------
(* handleRestore after its claim: use the local directory when it holds    *)
(* any file, else DownloadDir, then Runtime.Restore.  Every failure        *)
(* releases the slot.                                                      *)

NeedDownload(w, i, path) == path # w \/ image[w][i] \in {"none", "empty"}

\* What DownloadDir finds for sandbox i under a prefix.
Fetched(i, key) ==
    IF key = None THEN "none"
    ELSE IF key = GoldenPrefix /\ object[key] = "current" /\ i \in taken THEN "stale"
    ELSE IF object[key] = "torn" THEN "partial" ELSE object[key]

\* The image that Runtime.Restore is given.
Loaded(w, i, path, key) == IF NeedDownload(w, i, path) THEN Fetched(i, key) ELSE image[w][i]

\* The directory after a transfer; only Worker w's own directory is tracked.
Wrote(w, i, path, tag) == IF path = w THEN [image EXCEPT ![w][i] = tag] ELSE image

RtRestoreUnchecked(w, i, path, key) ==
    LET tag == Loaded(w, i, path, key) IN
    /\ tag # "none"
    /\ container' = [container EXCEPT ![w][i] = tag]
    /\ image' = Wrote(w, i, path, tag)
    /\ UNCHANGED <<alive, object, taken>>

\* Runtime.Restore, successful.
RtRestore(w, i, path, key) ==
    LET tag == Loaded(w, i, path, key) IN
    /\ tag \in {"stale", "current"}
    /\ container' = [container EXCEPT ![w][i] = tag]
    /\ image' = Wrote(w, i, path, tag)
    /\ UNCHANGED <<alive, object, taken>>

RestoreFails(w, i, path, key, cancelled) ==
    LET tag == Loaded(w, i, path, key) IN
    /\ \/ /\ tag = "none"                         \* no key, or no manifest under it
          /\ UNCHANGED <<container, image>>
       \/ /\ "download" \in Faults \/ cancelled   \* after RemoveAll and MkdirAll
          /\ tag # "none" /\ NeedDownload(w, i, path)
          /\ \E left \in {"empty", "partial"} : image' = Wrote(w, i, path, left)
          /\ UNCHANGED container
       \/ /\ tag = "partial" \/ (tag # "none" /\ "restore" \in Faults)
          /\ image' = Wrote(w, i, path, tag)       \* runsc restore fails
          /\ container' = [container EXCEPT ![w][i] = "none"]
    /\ alive' = Released(w, i)
    /\ UNCHANGED <<object, taken>>

-----------------------------------------------------------------------------
\* handleDelete: kill and delete the container, release; snapshots stay.
HandleDelete(w, i) ==
    /\ container' = [container EXCEPT ![w][i] = "none"]
    /\ alive' = Released(w, i)
    /\ UNCHANGED <<image, object, taken>>

\* The agent restarts with an empty alive map and no containers; the snapshot
\* directories are on a persistent volume.  What a call was writing there or to the
\* object store is left to that call.
AgentRestart(w) ==
    /\ alive' = [alive EXCEPT ![w] = {}]
    /\ container' = [container EXCEPT ![w] = [i \in Ids |-> "none"]]
    /\ UNCHANGED taken
=============================================================================

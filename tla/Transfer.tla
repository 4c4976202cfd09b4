------------------------------ MODULE Transfer ------------------------------
(***************************************************************************)
(* UploadDir and DownloadDir (snapshotstore/store.go) file by file, for    *)
(* one object prefix and the Workers' directories of its sandbox.  Worker  *)
(* has each of them as one step between tags (none, torn, stale, current); *)
(* this module shows what those tags stand for.                            *)
(*                                                                         *)
(* A directory is a function from the names of its files to their          *)
(* contents; NoFiles is an empty or missing one.  One upload and one       *)
(* download at a time: two uploads to one prefix that overlap, after a     *)
(* call that timed out, are beyond this module.                            *)
(***************************************************************************)
EXTENDS Codec, FiniteSets

CONSTANTS
    Workers,
    Files,              \* names of the files of a checkpoint
    Blocks,             \* what a block of a file may be
    Contents,           \* what a file may contain
    MaxCheckpoints,     \* bound on the checkpoints
    None

ASSUME TransferAssumption ==
    /\ None \notin Workers
    /\ {"hole", "zero"} \subseteq Blocks
    /\ Contents \subseteq Seq(Blocks)
    /\ MaxCheckpoints \in Nat

VARIABLES
    dir,            \* dir[w]: the image directory on Worker w
    manifest,       \* the files manifest.json lists; {}: there is none
    blob,           \* the file objects under the prefix
    up,             \* the upload in progress
    down,           \* the download in progress
    saved,          \* history: the directory the last successful upload read
    tried,          \* history: those read by uploads that began after it and failed
    checkpoints     \* how many checkpoints were made

history == <<saved, tried, checkpoints>>
vars == <<dir, manifest, blob, up, down, history>>

NoFiles == [f \in {} |-> << >>]
Directories == UNION {[F -> Contents] : F \in SUBSET Files}

With(d, f, x) == [g \in DOMAIN d \cup {f} |-> IF g = f THEN x ELSE d[g]]

ReadDir(d) == [f \in DOMAIN d |-> Bytes(d[f])]

\* What DownloadDir would bring.
Prefix == [f \in manifest |-> Bytes(decodeContent(blob[f]))]

NoUpload == [w |-> None, todo |-> {}, read |-> NoFiles, over |-> NoFiles]
NoDownload == [w |-> None, todo |-> {}, clean |-> FALSE]

\* The prefix is empty, or holds a checkpoint in the plain format of earlier versions.
Init ==
    /\ dir = [w \in Workers |-> NoFiles]
    /\ saved \in {NoFiles} \cup [Files -> Contents]
    /\ manifest = DOMAIN saved
    /\ blob = [f \in DOMAIN saved |-> plainZstd(saved[f])]
    /\ up = NoUpload
    /\ down = NoDownload
    /\ tried = {}
    /\ checkpoints = 0

-----------------------------------------------------------------------------
(* handleCheckpoint: Runtime.Checkpoint, then UploadDir                    *)

\* A download that is under way when the prefix changes.
Disturbed == [down EXCEPT !.clean = FALSE]

\* Clears the directory and writes the image; the container is there only after the upload
\* of the last checkpoint has ended.  A Pause ends here; for a Suspend UploadDir lists the
\* files.
Checkpoint(w) ==
    /\ checkpoints < MaxCheckpoints
    /\ up = NoUpload
    /\ down.w # w
    /\ \E d \in Directories \ {NoFiles} :
          /\ dir' = [dir EXCEPT ![w] = d]
          /\ \/ UNCHANGED <<up, down, tried>>
             \/ /\ up' = [w |-> w, todo |-> DOMAIN d, read |-> d, over |-> Prefix]
                /\ down' = Disturbed
                /\ tried' = tried \cup {d}
    /\ checkpoints' = checkpoints + 1
    /\ UNCHANGED <<manifest, blob, saved>>

\* A repeated Checkpoint call: the directory is cleared, runsc finds no container.  An
\* upload whose caller has given up may still be reading the directory.
CheckpointFails(w) ==
    /\ down.w # w
    /\ dir' = [dir EXCEPT ![w] = NoFiles]
    /\ UNCHANGED <<manifest, blob, up, down, history>>

\* uploadFileZstd
PutFile(f) ==
    /\ f \in up.todo
    /\ f \in DOMAIN dir[up.w]
    /\ blob' = With(blob, f, writeContent(dir[up.w][f]))
    /\ up' = [up EXCEPT !.todo = @ \ {f}]
    /\ UNCHANGED <<dir, manifest, down, history>>

PutFileFailsCleaning(f) ==
    /\ f \in up.todo
    /\ manifest' = {}
    /\ up' = NoUpload
    /\ UNCHANGED <<dir, blob, down, history>>

\* The file is gone, the Put fails (the store may have done it all the same), the context
\* is cancelled, or the Worker restarts.
PutFileFails(f) ==
    /\ f \in up.todo
    /\ \/ f \in DOMAIN dir[up.w] /\ blob' = With(blob, f, writeContent(dir[up.w][f]))
       \/ UNCHANGED blob
    /\ up' = NoUpload
    /\ UNCHANGED <<dir, manifest, down, history>>

PutManifestEarly ==
    /\ up # NoUpload
    /\ manifest' = DOMAIN up.read
    /\ UNCHANGED <<dir, blob, up, down, history>>

PutManifest ==
    /\ up # NoUpload
    /\ up.todo = {}
    /\ manifest' = DOMAIN up.read
    /\ up' = NoUpload
    /\ saved' = up.read
    /\ tried' = {}
    /\ UNCHANGED <<dir, blob, down, checkpoints>>

PutManifestFails ==
    /\ up # NoUpload
    /\ up.todo = {}
    /\ manifest' \in {manifest, DOMAIN up.read}
    /\ up' = NoUpload
    /\ UNCHANGED <<dir, blob, down, history>>

-----------------------------------------------------------------------------
(* DownloadDir, called by handleRestore when the directory has no files    *)

BeginDownloadOfAllObjects(w) ==
    /\ down = NoDownload
    /\ up.w # w
    /\ dir[w] = NoFiles
    /\ manifest # {}
    /\ down' = [w |-> w, todo |-> DOMAIN blob, clean |-> (up = NoUpload)]
    /\ UNCHANGED <<dir, manifest, blob, up, history>>

\* A directory that is being uploaded is not restored into.
BeginDownload(w) ==
    /\ down = NoDownload
    /\ up.w # w
    /\ dir[w] = NoFiles
    /\ manifest # {}
    /\ down' = [w |-> w, todo |-> manifest, clean |-> (up = NoUpload)]
    /\ UNCHANGED <<dir, manifest, blob, up, history>>

\* downloadFileZstd
Arrives(f, content) ==
    /\ f \in down.todo
    /\ dir' = [dir EXCEPT ![down.w] = With(@, f, content)]

GetFile(f) ==
    /\ Arrives(f, decodeContent(blob[f]))
    /\ down' = [down EXCEPT !.todo = @ \ {f}]
    /\ UNCHANGED <<manifest, blob, up, history>>

\* The body ends early and nothing notices.
GetFileShort(f) ==
    /\ f \in down.todo
    /\ \E content \in DecodedShort(blob[f]) : Arrives(f, content)
    /\ down' = [down EXCEPT !.todo = @ \ {f}, !.clean = FALSE]
    /\ UNCHANGED <<manifest, blob, up, history>>

\* The file was created before the Get; what was decoded and files that arrived stay.
GetFileFails(f) ==
    /\ f \in down.todo
    /\ \E content \in DecodedPartly(blob[f]) : Arrives(f, content)
    /\ down' = NoDownload
    /\ UNCHANGED <<manifest, blob, up, history>>

Downloaded ==
    /\ down # NoDownload
    /\ down.todo = {}
    /\ down' = NoDownload
    /\ UNCHANGED <<dir, manifest, blob, up, history>>

-----------------------------------------------------------------------------
Next ==
    \/ \E w \in Workers :
          Checkpoint(w) \/ CheckpointFails(w) \/ BeginDownload(w)
    \/ \E f \in Files :
          \/ PutFile(f) \/ PutFileFails(f)
          \/ GetFile(f) \/ GetFileShort(f) \/ GetFileFails(f)
    \/ PutManifest \/ PutManifestFails \/ Downloaded

Spec == Init /\ [][Next]_vars

-----------------------------------------------------------------------------
(* Properties                                                              *)

\* The manifest is written last: at every moment, also between two Puts of an upload or
\* after one that failed, each file it lists is there, can be decoded, and is that file of
\* the last saved checkpoint or of one whose upload was tried since.
ManifestComplete ==
    \A f \in manifest :
       /\ f \in DOMAIN blob
       /\ Decodable(blob[f])
       /\ \E d \in {saved} \cup tried : f \in DOMAIN d /\ Prefix[f] = Bytes(d[f])

\* Every file of at most four blocks.
SmallFiles == UNION {[1 .. n -> Blocks] : n \in 0 .. 4}

RoundTrips(file) == RoundTrip(file, writeContent(file)) /\ RoundTrip(file, plainZstd(file))

AllRoundTrip == \A file \in SmallFiles : RoundTrips(file)

\* decodeContent gives back the bytes of the file, its length included, from the sparse and
\* from the plain format: for every small file, and for those in the directories.
CodecRoundTrip ==
    /\ AllRoundTrip
    /\ \A w \in Workers : \A f \in DOMAIN dir[w] : RoundTrips(dir[w][f])

\* DownloadDir of a prefix whose last upload succeeded brings exactly the checkpoint that
\* UploadDir read, holes and trailing zeros included, and no other file.
DownloadFaithful ==
    [][down # NoDownload /\ down' = NoDownload /\ down.todo = {} /\ down.clean /\ tried = {}
       => ReadDir(dir[down.w]) = ReadDir(saved)]_vars

\* What Worker's UploadDir and UploadDirFails say: a successful upload leaves the new
\* checkpoint; a failed one leaves what was there, the new one, or, over an older manifest,
\* a mixture of the two.
UploadOutcomes ==
    [][up # NoUpload /\ up' = NoUpload =>
         LET old == up.over
             new == ReadDir(up.read)
         IN  \/ Prefix' = new
             \/ /\ saved' = saved
                /\ \/ Prefix' = old
                   \/ /\ old # NoFiles
                      /\ DOMAIN Prefix' \in {DOMAIN old, DOMAIN new}
                      /\ \A f \in DOMAIN Prefix' :
                            \/ f \in DOMAIN old /\ Prefix'[f] = old[f]
                            \/ f \in DOMAIN new /\ Prefix'[f] = new[f]]_vars
=============================================================================

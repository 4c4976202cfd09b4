--------------------------- MODULE TransferProofs ---------------------------
(***************************************************************************)
(* Proofs about Transfer: whatever uploads fail at whatever file, and      *)
(* whatever else reads or clears the directories meanwhile, the manifest   *)
(* lists only files that are complete, and an undisturbed download brings  *)
(* what the last upload read.                                              *)
(***************************************************************************)
EXTENDS Transfer, CodecProofs

-----------------------------------------------------------------------------
(* The inductive invariant                                                 *)

Encodes(o, file) == o \in {writeContent(file), plainZstd(file)}

\* A directory that a checkpoint wrote, or an empty one.
IsCheckpoint(d) == DOMAIN d \subseteq Files /\ \A f \in DOMAIN d : d[f] \in Contents

\* A file on disk may also be one that a download has brought, in whole or in part.
DirsOK ==
    /\ DOMAIN dir = Workers
    /\ \A w \in Workers : \A f \in DOMAIN dir[w] : dir[w][f] \in Seq(Blocks)

BlobsOK == \A f \in DOMAIN blob : \E file \in Contents : Encodes(blob[f], file)

HistoryOK == \A d \in {saved} \cup tried : IsCheckpoint(d)

\* The upload in progress reads a directory that nobody else writes, though a repeated
\* Checkpoint may clear it; what is no longer to do has been stored, and the prefix holds
\* old files, but for those that have been overwritten with new ones.
UploadOK ==
    /\ up = [w |-> up.w, todo |-> up.todo, read |-> up.read, over |-> up.over]
    /\ up # NoUpload =>
          /\ up.w \in Workers \ {down.w}
          /\ up.read \in tried
          /\ up.todo \subseteq DOMAIN up.read
          /\ \A f \in DOMAIN dir[up.w] : f \in DOMAIN up.read /\ dir[up.w][f] = up.read[f]
          /\ \A f \in DOMAIN up.read \ up.todo :
                f \in DOMAIN blob /\ Encodes(blob[f], up.read[f])
          /\ DOMAIN up.over = manifest
          /\ up.over = [f \in manifest |-> up.over[f]]
          /\ \A f \in manifest :
                \/ Prefix[f] = up.over[f]
                \/ f \in DOMAIN up.read /\ Prefix[f] = Bytes(up.read[f])

\* Each listed file is one of a checkpoint that was read since the last success.
Listed ==
    \A f \in manifest :
       /\ f \in DOMAIN blob
       /\ \E d \in {saved} \cup tried : f \in DOMAIN d /\ Encodes(blob[f], d[f])

\* No upload has failed since the last success: the prefix is that checkpoint.
Settled == tried = {} => manifest = DOMAIN saved

\* An undisturbed download has brought what it no longer has to do.
DownloadOK ==
    /\ down = [w |-> down.w, todo |-> down.todo, clean |-> down.clean]
    /\ down.todo \subseteq DOMAIN blob
    /\ down.clean => up = NoUpload
    /\ down # NoDownload => down.w \in Workers
    /\ down # NoDownload /\ down.clean /\ tried = {} =>
          /\ down.todo \subseteq DOMAIN saved
          /\ DOMAIN dir[down.w] = DOMAIN saved \ down.todo
          /\ \A f \in DOMAIN dir[down.w] : Bytes(dir[down.w][f]) = Bytes(saved[f])

TInv ==
    /\ DirsOK
    /\ BlobsOK
    /\ HistoryOK
    /\ UploadOK
    /\ Listed
    /\ Settled
    /\ DownloadOK

-----------------------------------------------------------------------------
(* The operators                                                           *)

LEMMA NoFilesEmpty == DOMAIN NoFiles = {}
BY DEF NoFiles

LEMMA PrefixFacts ==
    /\ DOMAIN Prefix = manifest
    /\ \A f \in manifest : Prefix[f] = Bytes(decodeContent(blob[f]))
BY DEF Prefix

LEMMA ReadDirFacts ==
    ASSUME NEW d
    PROVE  DOMAIN ReadDir(d) = DOMAIN d /\ \A f \in DOMAIN d : ReadDir(d)[f] = Bytes(d[f])
BY DEF ReadDir

LEMMA EncodesRoundTrip ==
    ASSUME NEW file \in Seq(Blocks), NEW o, Encodes(o, file)
    PROVE  Decodable(o) /\ Bytes(decodeContent(o)) = Bytes(file)
<1>1. o = writeContent(file) \/ o = plainZstd(file)
  BY DEF Encodes
<1>2. RoundTrip(file, o)
  BY <1>1, SparseRoundTrip, PlainRoundTrip
<1>3. QED
  BY <1>2 DEF RoundTrip

\* Blocks that read as those of a file are blocks.
LEMMA SameBytesIsSeq ==
    ASSUME NEW file \in Seq(Blocks), NEW g, g = [i \in DOMAIN g |-> g[i]],
           Bytes(g) = Bytes(file)
    PROVE  g \in Seq(Blocks)
<1>1. Len(file) \in Nat /\ DOMAIN file = 1 .. Len(file)
  OBVIOUS
<1>2. DOMAIN g = 1 .. Len(file)
  BY <1>1 DEF Bytes
<1>3. ASSUME NEW i \in 1 .. Len(file) PROVE g[i] \in Blocks
  <2>1. Bytes(g)[i] = Bytes(file)[i]
    OBVIOUS
  <2>2. Bytes(file)[i] \in Blocks
    BY <1>1, TransferAssumption DEF Bytes
  <2>3. g[i] = "hole" \/ g[i] = Bytes(g)[i]
    BY <1>2 DEF Bytes
  <2>4. QED
    BY <2>1, <2>2, <2>3, TransferAssumption
<1>4. QED
  BY <1>1, <1>2, <1>3

LEMMA DecodedIsSeq ==
    ASSUME NEW file \in Seq(Blocks), NEW o, Encodes(o, file)
    PROVE  /\ decodeContent(o) \in Seq(Blocks)
           /\ \A c \in DecodedShort(o) \cup DecodedPartly(o) : c \in Seq(Blocks)
<1>1. decodeContent(o) \in Seq(Blocks)
  <2>1. decodeContent(o) = [i \in DOMAIN decodeContent(o) |-> decodeContent(o)[i]]
    BY DEF decodeContent, readSparseZstd, copyZstdSparse
  <2>2. QED
    BY <2>1, EncodesRoundTrip, SameBytesIsSeq
<1>2. CASE o = writeContent(file)
  <2>1. DecodedShort(o) = {<< >>}
    BY <1>2 DEF DecodedShort, writeContent, writeSparseZstd
  <2>2. o.sparse /\ o.size \in Nat
    BY <1>2 DEF writeContent, writeSparseZstd
  <2>3. ASSUME NEW n \in 0 .. o.size
        PROVE  [i \in 1 .. o.size |-> IF i <= n THEN readSparseZstd(o)[i] ELSE "hole"] \in Seq(Blocks)
    <3>1. PICK d : d = readSparseZstd(o)
      OBVIOUS
    <3>2. d \in Seq(Blocks)
      BY <1>1, <2>2, <3>1 DEF decodeContent
    <3>3. DOMAIN d = 1 .. Len(d) /\ \A i \in DOMAIN d : d[i] \in Blocks
      BY <3>2
    <3>4. DOMAIN d = 1 .. o.size
      BY <3>1 DEF readSparseZstd
    <3>5. \A i \in 1 .. o.size : readSparseZstd(o)[i] \in Blocks
      BY <3>1, <3>3, <3>4
    <3>6. QED
      BY <2>2, <3>5, TransferAssumption
  <2>4. << >> \in Seq(Blocks)
    OBVIOUS
  <2>5. \A c \in DecodedPartly(o) : c \in Seq(Blocks)
    BY <2>2, <2>3, <2>4 DEF DecodedPartly
  <2>6. QED
    BY <1>1, <2>1, <2>4, <2>5
<1>3. CASE o = plainZstd(file)
  <2>1. ~o.sparse /\ o.size = Len(file) /\ o.blocks = Bytes(file) /\ Len(file) \in Nat
    BY <1>3 DEF plainZstd
  <2>2. /\ DOMAIN o.blocks = 1 .. Len(file)
        /\ \A i \in 1 .. Len(file) : o.blocks[i] \in Blocks
    BY <2>1, TransferAssumption DEF Bytes
  <2>3. ASSUME NEW n \in 0 .. Len(file)
        PROVE  copyZstdSparse(SubSeq(o.blocks, 1, n)) \in Seq(Blocks)
    <3>1. \A i \in 1 .. n : o.blocks[i] \in Blocks
      BY <2>1, <2>2
    <3>2. SubSeq(o.blocks, 1, n) \in Seq(Blocks)
      BY <2>1, <3>1, SubSeqProperties
    <3> DEFINE p == SubSeq(o.blocks, 1, n)
    <3> HIDE DEF p
    <3>3. p \in Seq(Blocks) /\ Len(p) \in Nat /\ DOMAIN p = 1 .. Len(p)
          /\ \A i \in 1 .. Len(p) : p[i] \in Blocks
      BY <3>2 DEF p
    <3>4. copyZstdSparse(p) \in Seq(Blocks)
      BY <3>3, TransferAssumption DEF copyZstdSparse
    <3>5. QED
      BY <3>4 DEF p
  <2>4. QED
    <3>1. << >> \in Seq(Blocks)
      OBVIOUS
    <3>2. \A n \in 1 .. o.size : n \in 0 .. Len(file)
      BY <2>1
    <3>3. \A c \in DecodedPartly(o) : c \in Seq(Blocks)
      BY <2>1, <2>3, <3>1, <3>2 DEF DecodedPartly
    <3>4. \A c \in DecodedShort(o) : c \in Seq(Blocks)
      BY <2>1, <2>3 DEF DecodedShort
    <3>5. QED
      BY <1>1, <3>3, <3>4
<1>4. QED
  BY <1>2, <1>3 DEF Encodes

-----------------------------------------------------------------------------
(* The invariant is inductive                                              *)

LEMMA InitTInv == ASSUME Init PROVE TInv
<1>1. IsCheckpoint(saved)
  BY NoFilesEmpty DEF Init, IsCheckpoint
<1>2. DirsOK /\ HistoryOK /\ Settled
  BY <1>1, NoFilesEmpty DEF Init, DirsOK, HistoryOK, Settled
<1>3. ASSUME NEW f \in DOMAIN saved
      PROVE  f \in DOMAIN blob /\ saved[f] \in Contents /\ Encodes(blob[f], saved[f])
  BY <1>1 DEF Init, IsCheckpoint, Encodes
<1>4. BlobsOK /\ Listed
  BY <1>3 DEF Init, BlobsOK, Listed
<1>5. UploadOK /\ DownloadOK
  BY DEF Init, UploadOK, DownloadOK, NoUpload, NoDownload
<1>6. QED
  BY <1>2, <1>4, <1>5 DEF TInv

LEMMA StutterTInv == ASSUME TInv, UNCHANGED vars PROVE TInv'
BY DEF TInv, vars, history, DirsOK, BlobsOK, HistoryOK, UploadOK, Listed, Settled, DownloadOK,
       Prefix

\* What the invariant says of the upload in progress, and of the file it stores next.
LEMMA Uploading ==
    ASSUME TInv, up # NoUpload
    PROVE  /\ IsCheckpoint(up.read)
           /\ \A f \in DOMAIN up.read : up.read[f] \in Contents
           /\ tried # {}
           /\ ~down.clean
BY DEF TInv, UploadOK, HistoryOK, IsCheckpoint, DownloadOK

LEMMA CheckpointTInv == ASSUME TInv, NEW w \in Workers, Checkpoint(w) PROVE TInv'
<1>1. PICK d \in Directories \ {NoFiles} :
         /\ dir' = [dir EXCEPT ![w] = d]
         /\ \/ UNCHANGED <<up, down, tried>>
            \/ /\ up' = [w |-> w, todo |-> DOMAIN d, read |-> d, over |-> Prefix]
               /\ down' = Disturbed
               /\ tried' = tried \cup {d}
  BY DEF Checkpoint
<1>2. /\ up = NoUpload /\ down.w # w
      /\ UNCHANGED <<manifest, blob, saved>>
  BY DEF Checkpoint
<1>3. IsCheckpoint(d)
  BY DEF Directories, IsCheckpoint
<1>4. dir'[w] = d /\ DOMAIN dir' = Workers /\ \A x \in Workers \ {w} : dir'[x] = dir[x]
  BY <1>1 DEF TInv, DirsOK
<1>5. DirsOK'
  <2>1. \A f \in DOMAIN d : d[f] \in Seq(Blocks)
    BY <1>3, TransferAssumption DEF IsCheckpoint
  <2>2. QED
    BY <1>4, <2>1 DEF TInv, DirsOK
<1>6. BlobsOK'
  BY <1>2 DEF TInv, BlobsOK
<1>7. CASE UNCHANGED <<up, down, tried>>
  <2>1. HistoryOK' /\ UploadOK' /\ Listed' /\ Settled'
    BY <1>2, <1>7 DEF TInv, HistoryOK, UploadOK, Listed, Settled
  <2>2. DownloadOK'
    BY <1>2, <1>4, <1>7 DEF TInv, DownloadOK
  <2>3. QED
    BY <1>5, <1>6, <2>1, <2>2 DEF TInv
<1>8. CASE /\ up' = [w |-> w, todo |-> DOMAIN d, read |-> d, over |-> Prefix]
           /\ down' = Disturbed
           /\ tried' = tried \cup {d}
  <2>1. HistoryOK' /\ Listed' /\ Settled'
    BY <1>2, <1>3, <1>8 DEF TInv, HistoryOK, Listed, Settled
  <2>2. /\ down'.w = down.w /\ ~down'.clean
        /\ down' = [w |-> down.w, todo |-> down.todo, clean |-> FALSE]
    BY <1>8 DEF TInv, DownloadOK, Disturbed
  <2>3. DownloadOK'
    <3>1. down = NoDownload => down' = NoDownload
      BY <2>2 DEF NoDownload
    <3>2. QED
      BY <1>2, <2>2, <3>1 DEF TInv, DownloadOK
  <2>4. UploadOK'
    <3>1. /\ up'.w = w /\ up'.todo = DOMAIN d /\ up'.read = d /\ up'.over = Prefix
          /\ up' = [w |-> up'.w, todo |-> up'.todo, read |-> up'.read, over |-> up'.over]
      BY <1>8
    <3>2. Prefix' = Prefix /\ manifest' = manifest
      BY <1>2 DEF Prefix
    <3>3. DOMAIN Prefix = manifest /\ Prefix = [f \in manifest |-> Prefix[f]]
      BY DEF Prefix
    <3>4. QED
      BY <1>2, <1>4, <1>8, <2>2, <3>1, <3>2, <3>3 DEF UploadOK
  <2>5. QED
    BY <1>5, <1>6, <2>1, <2>3, <2>4 DEF TInv
<1>9. QED
  BY <1>1, <1>7, <1>8

LEMMA CheckpointFailsTInv == ASSUME TInv, NEW w \in Workers, CheckpointFails(w) PROVE TInv'
<1>1. /\ dir' = [dir EXCEPT ![w] = NoFiles] /\ down.w # w
      /\ UNCHANGED <<manifest, blob, up, down, saved, tried>>
  BY DEF CheckpointFails, history
<1>2. /\ DOMAIN dir' = Workers /\ DOMAIN dir'[w] = {}
      /\ \A x \in Workers \ {w} : dir'[x] = dir[x]
  BY <1>1, NoFilesEmpty DEF TInv, DirsOK
<1>3. DirsOK' /\ DownloadOK'
  BY <1>1, <1>2 DEF TInv, DirsOK, DownloadOK
<1>4. BlobsOK' /\ HistoryOK' /\ Listed' /\ Settled'
  BY <1>1 DEF TInv, BlobsOK, HistoryOK, Listed, Settled
<1>5. Prefix' = Prefix
  BY <1>1 DEF Prefix
<1>6. UploadOK'
  BY <1>1, <1>2, <1>5 DEF TInv, UploadOK
<1>7. QED
  BY <1>3, <1>4, <1>6 DEF TInv

\* One file is stored as the upload has read it.
StoredNow(f) ==
    f \in up.todo /\ f \in DOMAIN dir[up.w] /\ blob' = With(blob, f, writeContent(dir[up.w][f]))

LEMMA FileStored ==
    ASSUME TInv, NEW f, StoredNow(f), UNCHANGED <<manifest, saved, tried>>
    PROVE  /\ up # NoUpload
           /\ f \in DOMAIN up.read /\ Encodes(blob'[f], up.read[f])
           /\ DOMAIN blob' = DOMAIN blob \cup {f}
           /\ \A g \in DOMAIN blob \ {f} : blob'[g] = blob[g]
           /\ BlobsOK' /\ Listed'
           /\ \A g \in manifest :
                 \/ Prefix'[g] = Prefix[g]
                 \/ g \in DOMAIN up.read /\ Prefix'[g] = Bytes(up.read[g])
<1>1. up # NoUpload
  BY DEF StoredNow, NoUpload
<1>2. f \in DOMAIN up.read /\ dir[up.w][f] = up.read[f] /\ up.read \in tried
  BY <1>1 DEF TInv, UploadOK, StoredNow
<1>3. /\ DOMAIN blob' = DOMAIN blob \cup {f}
      /\ blob'[f] = writeContent(up.read[f])
      /\ \A g \in DOMAIN blob \ {f} : blob'[g] = blob[g]
  <2> DEFINE x == writeContent(up.read[f])
  <2>1. blob' = With(blob, f, x)
    BY <1>2 DEF StoredNow
  <2> HIDE DEF x
  <2>2. QED
    BY <2>1 DEF With, x
<1>4. Encodes(blob'[f], up.read[f]) /\ up.read[f] \in Contents
  BY <1>1, <1>2, <1>3, Uploading DEF Encodes
<1>5. BlobsOK'
  BY <1>3, <1>4 DEF TInv, BlobsOK
<1>6. Listed'
  <2>1. ASSUME NEW g \in manifest
        PROVE  /\ g \in DOMAIN blob'
               /\ \E d \in {saved} \cup tried : g \in DOMAIN d /\ Encodes(blob'[g], d[g])
    <3>1. CASE g = f
      BY <1>2, <1>3, <1>4, <3>1
    <3>2. CASE g # f
      BY <1>3, <3>2 DEF TInv, Listed
    <3>3. QED
      BY <3>1, <3>2
  <2>2. QED
    BY <2>1 DEF Listed
<1>7. ASSUME NEW g \in manifest
      PROVE  \/ Prefix'[g] = Prefix[g]
             \/ g \in DOMAIN up.read /\ Prefix'[g] = Bytes(up.read[g])
  <2>1. Prefix'[g] = Bytes(decodeContent(blob'[g])) /\ Prefix[g] = Bytes(decodeContent(blob[g]))
    BY DEF Prefix
  <2>2. CASE g = f
    <3>1. up.read[f] \in Seq(Blocks)
      BY <1>4, TransferAssumption
    <3>2. QED
      BY <1>2, <1>4, <2>1, <2>2, <3>1, EncodesRoundTrip
  <2>3. CASE g # f
    <3>1. g \in DOMAIN blob
      BY DEF TInv, Listed
    <3>2. QED
      BY <1>3, <2>1, <2>3, <3>1
  <2>4. QED
    BY <2>2, <2>3
<1>8. QED
  BY <1>1, <1>2, <1>3, <1>4, <1>5, <1>6, <1>7

LEMMA PutFileTInv == ASSUME TInv, NEW f, PutFile(f) PROVE TInv'
<1>1. /\ StoredNow(f) /\ up' = [up EXCEPT !.todo = @ \ {f}]
      /\ UNCHANGED <<dir, manifest, down, saved, tried>>
  BY DEF PutFile, StoredNow, history
<1>2. /\ up # NoUpload
      /\ f \in DOMAIN up.read /\ Encodes(blob'[f], up.read[f])
      /\ DOMAIN blob' = DOMAIN blob \cup {f}
      /\ \A g \in DOMAIN blob \ {f} : blob'[g] = blob[g]
      /\ BlobsOK' /\ Listed'
      /\ \A g \in manifest :
            \/ Prefix'[g] = Prefix[g]
            \/ g \in DOMAIN up.read /\ Prefix'[g] = Bytes(up.read[g])
  BY <1>1, FileStored
<1>3. /\ up' = [w |-> up.w, todo |-> up.todo \ {f}, read |-> up.read, over |-> up.over]
      /\ up'.w = up.w /\ up'.todo = up.todo \ {f} /\ up'.read = up.read /\ up'.over = up.over
  BY <1>1 DEF TInv, UploadOK
<1>4. UploadOK'
  BY <1>1, <1>2, <1>3 DEF TInv, UploadOK
<1>5. up' # NoUpload /\ ~down.clean /\ DOMAIN blob \subseteq DOMAIN blob'
  <2>1. up.w # None
    BY <1>2, TransferAssumption DEF TInv, UploadOK
  <2>2. QED
    BY <1>2, <1>3, <2>1, Uploading DEF NoUpload
<1>6. DirsOK' /\ HistoryOK' /\ Settled' /\ DownloadOK'
  BY <1>1, <1>5 DEF TInv, DirsOK, HistoryOK, Settled, DownloadOK
<1>7. QED
  BY <1>2, <1>4, <1>6 DEF TInv

\* An upload ends without success.
LEMMA UploadEnds ==
    ASSUME TInv, up # NoUpload, up' = NoUpload, BlobsOK', Listed',
           DOMAIN blob \subseteq DOMAIN blob', UNCHANGED <<dir, down, saved, tried>>
    PROVE  TInv'
<1>1. tried # {} /\ ~down.clean
  BY Uploading
<1>2. DirsOK' /\ HistoryOK' /\ Settled' /\ DownloadOK'
  BY <1>1 DEF TInv, DirsOK, HistoryOK, Settled, DownloadOK
<1>3. UploadOK'
  BY DEF UploadOK, NoUpload
<1>4. QED
  BY <1>2, <1>3 DEF TInv

LEMMA PutFileFailsTInv == ASSUME TInv, NEW f, PutFileFails(f) PROVE TInv'
<1>1. /\ up # NoUpload /\ up' = NoUpload
      /\ StoredNow(f) \/ UNCHANGED blob
      /\ UNCHANGED <<dir, manifest, down, saved, tried>>
  BY DEF PutFileFails, StoredNow, NoUpload, history
<1>2. BlobsOK' /\ Listed' /\ DOMAIN blob \subseteq DOMAIN blob'
  <2>1. CASE StoredNow(f)
    BY <1>1, <2>1, FileStored
  <2>2. CASE UNCHANGED blob
    BY <1>1, <2>2 DEF TInv, BlobsOK, Listed
  <2>3. QED
    BY <1>1, <2>1, <2>2
<1>3. QED
  BY <1>1, <1>2, UploadEnds

\* When nothing is left to do, all of the directory is stored.
LEMMA AllStored ==
    ASSUME TInv, up # NoUpload, up.todo = {}
    PROVE  \A f \in DOMAIN up.read :
              /\ f \in DOMAIN blob /\ Encodes(blob[f], up.read[f])
              /\ Bytes(decodeContent(blob[f])) = Bytes(up.read[f])
<1> SUFFICES ASSUME NEW f \in DOMAIN up.read
             PROVE  /\ f \in DOMAIN blob /\ Encodes(blob[f], up.read[f])
                    /\ Bytes(decodeContent(blob[f])) = Bytes(up.read[f])
  OBVIOUS
<1>1. f \in DOMAIN blob /\ Encodes(blob[f], up.read[f])
  BY DEF TInv, UploadOK
<1>2. up.read[f] \in Seq(Blocks)
  BY Uploading, TransferAssumption
<1>3. QED
  BY <1>1, <1>2, EncodesRoundTrip

LEMMA PutManifestTInv == ASSUME TInv, PutManifest PROVE TInv'
<1>1. /\ up # NoUpload /\ up.todo = {} /\ up' = NoUpload /\ manifest' = DOMAIN up.read
      /\ saved' = up.read /\ tried' = {} /\ UNCHANGED <<dir, blob, down>>
  BY DEF PutManifest
<1>2. Listed'
  BY <1>1, AllStored DEF Listed
<1>3. HistoryOK' /\ Settled'
  BY <1>1, Uploading DEF HistoryOK, Settled
<1>4. DirsOK' /\ BlobsOK' /\ UploadOK'
  BY <1>1 DEF TInv, DirsOK, BlobsOK, UploadOK, NoUpload
<1>5. DownloadOK'
  BY <1>1, Uploading DEF TInv, DownloadOK
<1>6. QED
  BY <1>2, <1>3, <1>4, <1>5 DEF TInv

LEMMA PutManifestFailsTInv == ASSUME TInv, PutManifestFails PROVE TInv'
<1>1. /\ up # NoUpload /\ up.todo = {} /\ up' = NoUpload
      /\ manifest' = manifest \/ manifest' = DOMAIN up.read
      /\ UNCHANGED <<dir, blob, down, saved, tried>>
  BY DEF PutManifestFails, history
<1>2. BlobsOK'
  BY <1>1 DEF TInv, BlobsOK
<1>3. Listed'
  <2>1. CASE manifest' = manifest
    BY <1>1, <2>1 DEF TInv, Listed
  <2>2. CASE manifest' = DOMAIN up.read
    <3>1. up.read \in tried
      BY <1>1 DEF TInv, UploadOK
    <3>2. QED
      BY <1>1, <2>2, <3>1, AllStored DEF Listed
  <2>3. QED
    BY <1>1, <2>1, <2>2
<1>4. QED
  BY <1>1, <1>2, <1>3, UploadEnds

LEMMA BeginDownloadTInv == ASSUME TInv, NEW w \in Workers, BeginDownload(w) PROVE TInv'
<1>1. /\ up.w # w /\ dir[w] = NoFiles
      /\ down' = [w |-> w, todo |-> manifest, clean |-> (up = NoUpload)]
      /\ UNCHANGED <<dir, manifest, blob, up, saved, tried>>
  BY DEF BeginDownload, history
<1>2. down'.w = w /\ down'.todo = manifest /\ (down'.clean => up = NoUpload)
  BY <1>1
<1>3. DirsOK' /\ BlobsOK' /\ HistoryOK' /\ Listed' /\ Settled'
  BY <1>1 DEF TInv, DirsOK, BlobsOK, HistoryOK, Listed, Settled
<1>4. UploadOK'
  <2>1. Prefix' = Prefix
    BY <1>1 DEF Prefix
  <2>2. QED
    BY <1>1, <1>2, <2>1 DEF TInv, UploadOK
<1>5. DownloadOK'
  <2>1. DOMAIN dir[w] = {}
    BY <1>1, NoFilesEmpty
  <2>2. tried' = {} => DOMAIN saved' = down'.todo
    BY <1>1, <1>2 DEF TInv, Settled
  <2>3. down' = [w |-> down'.w, todo |-> down'.todo, clean |-> down'.clean]
    BY <1>1
  <2>4. down'.todo \subseteq DOMAIN blob'
    BY <1>1, <1>2 DEF TInv, Listed
  <2>5. QED
    BY <1>1, <1>2, <2>1, <2>2, <2>3, <2>4 DEF DownloadOK
<1>6. QED
  BY <1>3, <1>4, <1>5 DEF TInv

\* A file arrives, whatever it is.
LEMMA ArrivesOK ==
    ASSUME TInv, NEW f, NEW content \in Seq(Blocks), Arrives(f, content),
           down' = NoDownload \/ down' = [down EXCEPT !.todo = @ \ {f}, !.clean = FALSE]
                              \/ down' = [down EXCEPT !.todo = @ \ {f}],
           UNCHANGED <<manifest, blob, up, saved, tried>>
    PROVE  /\ down # NoDownload /\ down.w \in Workers
           /\ DOMAIN dir'[down.w] = DOMAIN dir[down.w] \cup {f}
           /\ dir'[down.w][f] = content
           /\ \A g \in DOMAIN dir[down.w] \ {f} : dir'[down.w][g] = dir[down.w][g]
           /\ DirsOK' /\ BlobsOK' /\ HistoryOK' /\ UploadOK' /\ Listed' /\ Settled'
<1>1. down # NoDownload /\ down.w \in Workers
  BY DEF TInv, DownloadOK, Arrives, NoDownload
<1>2. /\ DOMAIN dir' = Workers
      /\ dir'[down.w] = With(dir[down.w], f, content)
      /\ \A x \in Workers \ {down.w} : dir'[x] = dir[x]
  BY <1>1 DEF TInv, DirsOK, Arrives
<1>3. /\ DOMAIN dir'[down.w] = DOMAIN dir[down.w] \cup {f}
      /\ dir'[down.w][f] = content
      /\ \A g \in DOMAIN dir[down.w] \ {f} : dir'[down.w][g] = dir[down.w][g]
  BY <1>2 DEF With
<1>4. DirsOK'
  BY <1>1, <1>2, <1>3 DEF TInv, DirsOK
<1>5. BlobsOK' /\ HistoryOK' /\ Listed' /\ Settled'
  BY DEF TInv, BlobsOK, HistoryOK, Listed, Settled
<1>6. UploadOK'
  <2>1. Prefix' = Prefix
    BY DEF Prefix
  <2>2. down'.w = down.w \/ down'.w = None
    <3>1. down = [w |-> down.w, todo |-> down.todo, clean |-> down.clean]
      BY DEF TInv, DownloadOK
    <3>2. CASE down' = NoDownload
      BY <3>2 DEF NoDownload
    <3>3. CASE down' = [down EXCEPT !.todo = @ \ {f}, !.clean = FALSE]
      BY <3>1, <3>3
    <3>4. CASE down' = [down EXCEPT !.todo = @ \ {f}]
      BY <3>1, <3>4
    <3>5. QED
      BY <3>2, <3>3, <3>4
  <2>3. QED
    BY <1>2, <2>1, <2>2, TransferAssumption DEF TInv, UploadOK
<1>7. QED
  BY <1>1, <1>3, <1>4, <1>5, <1>6

\* What decodeContent, an early end or a failure makes of an object is a file.
LEMMA BlobDecodes ==
    ASSUME TInv, NEW f \in DOMAIN blob
    PROVE  /\ decodeContent(blob[f]) \in Seq(Blocks)
           /\ \A c \in DecodedShort(blob[f]) \cup DecodedPartly(blob[f]) : c \in Seq(Blocks)
<1>1. PICK file \in Contents : Encodes(blob[f], file)
  BY DEF TInv, BlobsOK
<1>2. file \in Seq(Blocks)
  BY TransferAssumption
<1>3. QED
  BY <1>1, <1>2, DecodedIsSeq

LEMMA GetFileTInv == ASSUME TInv, NEW f, GetFile(f) PROVE TInv'
<1> DEFINE content == decodeContent(blob[f])
<1>1. /\ f \in down.todo /\ Arrives(f, content) /\ down' = [down EXCEPT !.todo = @ \ {f}]
      /\ UNCHANGED <<manifest, blob, up, saved, tried>>
  BY DEF GetFile, Arrives, history
<1>2. f \in DOMAIN blob
  BY <1>1 DEF TInv, DownloadOK
<1>3. content \in Seq(Blocks)
  BY <1>2, BlobDecodes
<1> HIDE DEF content
<1>4. /\ down # NoDownload /\ down.w \in Workers
      /\ DOMAIN dir'[down.w] = DOMAIN dir[down.w] \cup {f}
      /\ dir'[down.w][f] = content
      /\ \A g \in DOMAIN dir[down.w] \ {f} : dir'[down.w][g] = dir[down.w][g]
      /\ DirsOK' /\ BlobsOK' /\ HistoryOK' /\ UploadOK' /\ Listed' /\ Settled'
  BY <1>1, <1>3, ArrivesOK
<1>5. /\ down' = [w |-> down.w, todo |-> down.todo \ {f}, clean |-> down.clean]
      /\ down'.w = down.w /\ down'.todo = down.todo \ {f} /\ down'.clean = down.clean
  BY <1>1 DEF TInv, DownloadOK
<1>6. DownloadOK'
  <2>1. ASSUME down.clean, tried = {}
        PROVE  /\ DOMAIN dir'[down.w] = DOMAIN saved \ (down.todo \ {f})
               /\ \A g \in DOMAIN dir'[down.w] : Bytes(dir'[down.w][g]) = Bytes(saved[g])
    <3>1. manifest = DOMAIN saved
      BY <2>1 DEF TInv, Settled
    <3>2. /\ DOMAIN dir[down.w] = DOMAIN saved \ down.todo
          /\ \A g \in DOMAIN dir[down.w] : Bytes(dir[down.w][g]) = Bytes(saved[g])
      BY <1>4, <2>1 DEF TInv, DownloadOK
    <3>3. f \in DOMAIN saved
      BY <1>1, <1>4, <2>1 DEF TInv, DownloadOK
    <3>4. Bytes(content) = Bytes(saved[f])
      <4>1. Encodes(blob[f], saved[f])
        BY <2>1, <3>1, <3>3 DEF TInv, Listed
      <4>2. saved[f] \in Seq(Blocks)
        BY <3>3, TransferAssumption DEF TInv, HistoryOK, IsCheckpoint
      <4>3. QED
        BY <4>1, <4>2, EncodesRoundTrip DEF content
    <3>5. QED
      BY <1>1, <1>4, <3>2, <3>3, <3>4
  <2>2. QED
    BY <1>1, <1>4, <1>5, <2>1 DEF TInv, DownloadOK
<1>7. QED
  BY <1>4, <1>6 DEF TInv

LEMMA GetFileShortTInv == ASSUME TInv, NEW f, GetFileShort(f) PROVE TInv'
<1>1. /\ f \in down.todo /\ down' = [down EXCEPT !.todo = @ \ {f}, !.clean = FALSE]
      /\ UNCHANGED <<manifest, blob, up, saved, tried>>
  BY DEF GetFileShort, history
<1>2. PICK content \in DecodedShort(blob[f]) : Arrives(f, content)
  BY DEF GetFileShort
<1>3. f \in DOMAIN blob
  BY <1>1 DEF TInv, DownloadOK
<1>4. content \in Seq(Blocks)
  BY <1>2, <1>3, BlobDecodes
<1>5. /\ down # NoDownload /\ down.w \in Workers
      /\ DirsOK' /\ BlobsOK' /\ HistoryOK' /\ UploadOK' /\ Listed' /\ Settled'
  BY <1>1, <1>2, <1>4, ArrivesOK
<1>6. /\ down' = [w |-> down.w, todo |-> down.todo \ {f}, clean |-> FALSE]
      /\ down'.w = down.w /\ down'.todo = down.todo \ {f} /\ ~down'.clean
  BY <1>1 DEF TInv, DownloadOK
<1>7. DownloadOK'
  BY <1>1, <1>5, <1>6 DEF TInv, DownloadOK
<1>8. QED
  BY <1>5, <1>7 DEF TInv

LEMMA NoDownloadOK == ASSUME down' = NoDownload PROVE DownloadOK'
BY DEF DownloadOK, NoDownload

LEMMA GetFileFailsTInv == ASSUME TInv, NEW f, GetFileFails(f) PROVE TInv'
<1>1. /\ f \in down.todo /\ down' = NoDownload
      /\ UNCHANGED <<manifest, blob, up, saved, tried>>
  BY DEF GetFileFails, history
<1>2. PICK content \in DecodedPartly(blob[f]) : Arrives(f, content)
  BY DEF GetFileFails
<1>3. f \in DOMAIN blob
  BY <1>1 DEF TInv, DownloadOK
<1>4. content \in Seq(Blocks)
  BY <1>2, <1>3, BlobDecodes
<1>5. DirsOK' /\ BlobsOK' /\ HistoryOK' /\ UploadOK' /\ Listed' /\ Settled'
  BY <1>1, <1>2, <1>4, ArrivesOK
<1>6. QED
  BY <1>1, <1>5, NoDownloadOK DEF TInv

LEMMA DownloadedTInv == ASSUME TInv, Downloaded PROVE TInv'
<1>1. down' = NoDownload /\ UNCHANGED <<dir, manifest, blob, up, saved, tried>>
  BY DEF Downloaded, history
<1>2. DirsOK' /\ BlobsOK' /\ HistoryOK' /\ Listed' /\ Settled'
  BY <1>1 DEF TInv, DirsOK, BlobsOK, HistoryOK, Listed, Settled
<1>3. UploadOK'
  <2>1. Prefix' = Prefix /\ down'.w = None
    BY <1>1 DEF Prefix, NoDownload
  <2>2. QED
    BY <1>1, <2>1, TransferAssumption DEF TInv, UploadOK
<1>4. QED
  BY <1>1, <1>2, <1>3, NoDownloadOK DEF TInv

LEMMA NextTInv == ASSUME TInv, [Next]_vars PROVE TInv'
<1>1. CASE \E w \in Workers : Checkpoint(w) \/ CheckpointFails(w) \/ BeginDownload(w)
  BY <1>1, CheckpointTInv, CheckpointFailsTInv, BeginDownloadTInv
<1>2. CASE \E f \in Files : PutFile(f) \/ PutFileFails(f)
  BY <1>2, PutFileTInv, PutFileFailsTInv
<1>3. CASE \E f \in Files : GetFile(f) \/ GetFileShort(f) \/ GetFileFails(f)
  BY <1>3, GetFileTInv, GetFileShortTInv, GetFileFailsTInv
<1>4. CASE PutManifest \/ PutManifestFails \/ Downloaded
  BY <1>4, PutManifestTInv, PutManifestFailsTInv, DownloadedTInv
<1>5. CASE UNCHANGED vars
  BY <1>5, StutterTInv
<1>6. QED
  BY <1>1, <1>2, <1>3, <1>4, <1>5 DEF Next

\* The inductive invariant holds of every upload and download, failed ones included.
THEOREM TransferInvariance == Spec => []TInv
<1>1. Init => TInv
  BY InitTInv
<1>2. TInv /\ [Next]_vars => TInv'
  BY NextTInv
<1>3. QED
  BY <1>1, <1>2, PTL DEF Spec

-----------------------------------------------------------------------------
(* The properties                                                          *)

\* The manifest is written last (UploadDir): at every moment each file it lists is there,
\* can be decoded, and belongs to the last saved checkpoint or to one tried since.
THEOREM ManifestIsComplete == Spec => []ManifestComplete
<1>1. ASSUME TInv PROVE ManifestComplete
  <2>1. ASSUME NEW f \in manifest
        PROVE  /\ f \in DOMAIN blob
               /\ Decodable(blob[f])
               /\ \E d \in {saved} \cup tried : f \in DOMAIN d /\ Prefix[f] = Bytes(d[f])
    <3>1. PICK d \in {saved} \cup tried : f \in DOMAIN d /\ Encodes(blob[f], d[f])
      BY <1>1 DEF TInv, Listed
    <3>2. d[f] \in Seq(Blocks)
      BY <1>1, <3>1, TransferAssumption DEF TInv, HistoryOK, IsCheckpoint
    <3>3. Decodable(blob[f]) /\ Prefix[f] = Bytes(d[f])
      BY <3>1, <3>2, EncodesRoundTrip, PrefixFacts
    <3>4. QED
      BY <1>1, <3>1, <3>3 DEF TInv, Listed
  <2>2. QED
    BY <2>1 DEF ManifestComplete
<1>2. QED
  BY <1>1, TransferInvariance, PTL

\* decodeContent gives back every file that writeContent, or an earlier version, encoded:
\* all small ones, and all that a checkpoint or a download, even one cut short, left on disk.
THEOREM CodecIsRoundTrip == Spec => []CodecRoundTrip
<1>1. ASSUME NEW file \in Seq(Blocks) PROVE RoundTrips(file)
  BY SparseRoundTrip, PlainRoundTrip DEF RoundTrips
<1>2. AllRoundTrip
  <2>1. ASSUME NEW n \in 0 .. 4, NEW file \in [1 .. n -> Blocks] PROVE file \in Seq(Blocks)
    OBVIOUS
  <2>2. QED
    BY <1>1, <2>1 DEF AllRoundTrip, SmallFiles
<1>3. ASSUME TInv PROVE CodecRoundTrip
  BY <1>1, <1>2, <1>3 DEF TInv, DirsOK, CodecRoundTrip
<1>4. QED
  BY <1>3, TransferInvariance, PTL

\* DownloadDir after a successful UploadDir brings exactly what was read, and no other file.
THEOREM DownloadIsFaithful == Spec => DownloadFaithful
<1>1. ASSUME TInv, TInv', [Next]_vars, down # NoDownload, down' = NoDownload, down.todo = {},
             down.clean, tried = {}
      PROVE  ReadDir(dir[down.w]) = ReadDir(saved)
  <2>1. /\ DOMAIN dir[down.w] = DOMAIN saved
        /\ \A f \in DOMAIN dir[down.w] : Bytes(dir[down.w][f]) = Bytes(saved[f])
    BY <1>1 DEF TInv, DownloadOK
  <2>2. QED
    BY <2>1 DEF ReadDir
<1>2. TInv /\ [Next]_vars =>
         [down # NoDownload /\ down' = NoDownload /\ down.todo = {} /\ down.clean /\ tried = {}
          => ReadDir(dir[down.w]) = ReadDir(saved)]_vars
  BY <1>1, NextTInv
<1>3. QED
  BY <1>2, TransferInvariance, PTL DEF Spec, DownloadFaithful

\* The prefix is a mixture of what was there and of what the upload read.
Mixture ==
    \A f \in manifest :
       \/ Prefix'[f] = up.over[f]
       \/ f \in DOMAIN up.read /\ Prefix'[f] = Bytes(up.read[f])

LEMMA MixtureOutcome ==
    ASSUME TInv, up # NoUpload, manifest' = manifest, Mixture
    PROVE  \/ Prefix' = up.over
           \/ /\ up.over # NoFiles
              /\ DOMAIN Prefix' = DOMAIN up.over
              /\ \A f \in DOMAIN Prefix' :
                    \/ f \in DOMAIN up.over /\ Prefix'[f] = up.over[f]
                    \/ f \in DOMAIN ReadDir(up.read) /\ Prefix'[f] = ReadDir(up.read)[f]
<1>1. DOMAIN up.over = manifest /\ up.over = [f \in manifest |-> up.over[f]]
  BY DEF TInv, UploadOK
<1>2. DOMAIN Prefix' = manifest /\ Prefix' = [f \in manifest |-> Prefix'[f]]
  BY DEF Prefix
<1>3. CASE manifest = {}
  <2>1. Prefix' = up.over
    BY <1>1, <1>2, <1>3
  <2>2. QED
    BY <2>1
<1>4. CASE manifest # {}
  <2>1. up.over # NoFiles
    BY <1>1, <1>4, NoFilesEmpty
  <2>2. ASSUME NEW f \in manifest
        PROVE  \/ f \in DOMAIN up.over /\ Prefix'[f] = up.over[f]
               \/ f \in DOMAIN ReadDir(up.read) /\ Prefix'[f] = ReadDir(up.read)[f]
    BY <1>1, ReadDirFacts DEF Mixture
  <2>3. QED
    BY <1>1, <1>2, <2>1, <2>2
<1>5. QED
  BY <1>3, <1>4

\* All files and the new manifest have been stored.
LEMMA NewOutcome ==
    ASSUME TInv, up # NoUpload, up.todo = {}, manifest' = DOMAIN up.read, blob' = blob
    PROVE  Prefix' = ReadDir(up.read)
<1>1. Prefix' = [f \in DOMAIN up.read |-> Bytes(decodeContent(blob[f]))]
  BY DEF Prefix
<1>2. \A f \in DOMAIN up.read : Bytes(decodeContent(blob[f])) = Bytes(up.read[f])
  BY AllStored
<1>3. QED
  BY <1>1, <1>2 DEF ReadDir

\* Only four steps end an upload.
LEMMA EndsOfUpload ==
    ASSUME TInv, [Next]_vars, up # NoUpload, up' = NoUpload
    PROVE  PutManifest \/ PutManifestFails \/ \E f \in Files : PutFileFails(f)
<1>1. up' # up
  OBVIOUS
<1>2. ASSUME NEW w \in Workers, Checkpoint(w) PROVE FALSE
  BY <1>2 DEF Checkpoint
<1>3. ASSUME NEW f, PutFile(f) PROVE FALSE
  <2>1. up' = [up EXCEPT !.todo = @ \ {f}]
    BY <1>3 DEF PutFile
  <2>2. up.w # None /\ up'.w = up.w
    BY <2>1, TransferAssumption DEF TInv, UploadOK
  <2>3. QED
    BY <2>2 DEF NoUpload
<1>4. ASSUME NEW w, CheckpointFails(w) \/ BeginDownload(w) PROVE FALSE
  BY <1>1, <1>4 DEF CheckpointFails, BeginDownload
<1>5. ASSUME NEW f, GetFile(f) \/ GetFileShort(f) \/ GetFileFails(f) PROVE FALSE
  BY <1>1, <1>5 DEF GetFile, GetFileShort, GetFileFails
<1>6. ASSUME Downloaded \/ UNCHANGED vars PROVE FALSE
  BY <1>1, <1>6 DEF Downloaded, vars
<1>7. QED
  BY <1>2, <1>3, <1>4, <1>5, <1>6 DEF Next

\* The tags of Worker's UploadDir and UploadDirFails: an upload that succeeds leaves the new
\* checkpoint, one that fails what was there, the new one or a mixture of the two.
THEOREM UploadHasOutcomes == Spec => UploadOutcomes
<1> DEFINE Outcome ==
             LET old == up.over
                 new == ReadDir(up.read)
             IN  \/ Prefix' = new
                 \/ /\ saved' = saved
                    /\ \/ Prefix' = old
                       \/ /\ old # NoFiles
                          /\ DOMAIN Prefix' \in {DOMAIN old, DOMAIN new}
                          /\ \A f \in DOMAIN Prefix' :
                                \/ f \in DOMAIN old /\ Prefix'[f] = old[f]
                                \/ f \in DOMAIN new /\ Prefix'[f] = new[f]
<1>1. ASSUME TInv, [Next]_vars, up # NoUpload, up' = NoUpload PROVE Outcome
  <2>1. CASE PutManifest
    BY <1>1, <2>1, NewOutcome DEF PutManifest
  <2>2. CASE PutManifestFails
    <3>1. up.todo = {} /\ UNCHANGED <<blob, saved>>
      BY <2>2 DEF PutManifestFails, history
    <3>2. CASE manifest' = DOMAIN up.read
      BY <1>1, <3>1, <3>2, NewOutcome
    <3>3. CASE manifest' = manifest
      <4>1. Mixture
        <5>1. Prefix' = Prefix
          BY <3>1, <3>3 DEF Prefix
        <5>2. QED
          BY <1>1, <5>1 DEF TInv, UploadOK, Mixture
      <4>2. QED
        BY <1>1, <3>1, <3>3, <4>1, MixtureOutcome
    <3>4. QED
      BY <2>2, <3>2, <3>3 DEF PutManifestFails
  <2>3. ASSUME NEW f \in Files, PutFileFails(f) PROVE Outcome
    <3>1. UNCHANGED <<manifest, saved, tried>>
      BY <2>3 DEF PutFileFails, history
    <3>2. Mixture
      <4>1. CASE UNCHANGED blob
        <5>1. Prefix' = Prefix
          BY <3>1, <4>1 DEF Prefix
        <5>2. QED
          BY <1>1, <5>1 DEF TInv, UploadOK, Mixture
      <4>2. CASE StoredNow(f)
        <5>1. \A g \in manifest :
                 \/ Prefix'[g] = Prefix[g]
                 \/ g \in DOMAIN up.read /\ Prefix'[g] = Bytes(up.read[g])
          BY <1>1, <3>1, <4>2, FileStored
        <5>2. QED
          BY <1>1, <5>1 DEF TInv, UploadOK, Mixture
      <4>3. QED
        BY <2>3, <4>1, <4>2 DEF PutFileFails, StoredNow
    <3>3. QED
      BY <1>1, <3>1, <3>2, MixtureOutcome
  <2>4. QED
    BY <1>1, <2>1, <2>2, <2>3, EndsOfUpload
<1>2. TInv /\ [Next]_vars => [up # NoUpload /\ up' = NoUpload => Outcome]_vars
  BY <1>1
<1>3. QED
  BY <1>2, TransferInvariance, PTL DEF Spec, UploadOutcomes
=============================================================================

------------------------------- MODULE Codec -------------------------------
(***************************************************************************)
(* The encoding of one snapshot file (snapshotstore/codec.go and           *)
(* sparsezstd.go).  A file is a sequence of blocks: "hole" is a block that *)
(* was never written and reads as zeros, "zero" one of written zeros, any  *)
(* other value is data.  zstd itself is a faithful channel for a stream of *)
(* blocks; of a stream that ends early its reader gives the blocks before  *)
(* the end and then io.ErrUnexpectedEOF.                                   *)
(***************************************************************************)
EXTENDS Integers, Sequences, FiniteSetsExt

\* What a reader of the file sees.
Bytes(file) == [i \in DOMAIN file |-> IF file[i] = "hole" THEN "zero" ELSE file[i]]

-----------------------------------------------------------------------------
(* writeSparseZstd: offsets count from 0                                   *)

DataAfter(file, off) == {i \in off .. Len(file) - 1 : file[i + 1] # "hole"}

SeekData(file, off) == Min(DataAfter(file, off))

\* The end of the file is a hole to SEEK_HOLE.
SeekHole(file, off) ==
    Min({Len(file)} \cup {i \in off .. Len(file) - 1 : file[i + 1] = "hole"})

\* The loop over the extents: it ends at the end of the file or with ENXIO.
Extents(file) ==
    LET from[off \in 0 .. Len(file)] ==
          IF DataAfter(file, off) = {} THEN << >>
          ELSE LET ds == SeekData(file, off)
                   de == SeekHole(file, ds)
               IN  <<[off |-> ds, data |-> SubSeq(file, ds + 1, de)]>> \o from[de]
    IN  from[0]

writeSparseZstd(file) == [sparse |-> TRUE, size |-> Len(file), extents |-> Extents(file)]

\* What writeContent made of content that is not a file, and earlier versions of every file.
plainZstd(file) == [sparse |-> FALSE, size |-> Len(file), blocks |-> Bytes(file)]

\* uploadFileZstd always hands it a file.
writeContent(file) == writeSparseZstd(file)

-----------------------------------------------------------------------------
(* decodeContent                                                           *)

InRange(o, e) == e.off >= 0 /\ e.off <= o.size /\ Len(e.data) <= o.size - e.off

Covers(e, i) == e.off < i /\ i <= e.off + Len(e.data)

readSparseUntruncated(o) ==
    LET end == Max({0} \cup {o.extents[k].off + Len(o.extents[k].data) : k \in DOMAIN o.extents})
    IN  [i \in 1 .. end |->
           IF \E k \in DOMAIN o.extents : Covers(o.extents[k], i)
           THEN LET e == o.extents[CHOOSE k \in DOMAIN o.extents : Covers(o.extents[k], i)]
                IN  e.data[i - e.off]
           ELSE "hole"]

\* Truncate(size), then every extent at its offset.
readSparseZstd(o) ==
    [i \in 1 .. o.size |->
       IF \E k \in DOMAIN o.extents : Covers(o.extents[k], i)
       THEN LET e == o.extents[CHOOSE k \in DOMAIN o.extents : Covers(o.extents[k], i)]
            IN  e.data[i - e.off]
       ELSE "hole"]

\* A block of zeros is not written; Truncate(pos) at the end keeps trailing ones.
copyZstdSparse(blocks) ==
    [i \in DOMAIN blocks |-> IF blocks[i] = "zero" THEN "hole" ELSE blocks[i]]

Decodable(o) == o.sparse => \A k \in DOMAIN o.extents : InRange(o, o.extents[k])

decodeContent(o) == IF o.sparse THEN readSparseZstd(o) ELSE copyZstdSparse(o.blocks)

\* The files that a body which ends early can become without an error: one cut within the
\* first bytes of the magic is taken for an empty plain stream, and copyZstdSparse takes
\* io.ErrUnexpectedEOF for the end of the data.
DecodedShort(o) ==
    IF o.sparse THEN {<< >>}
    ELSE {copyZstdSparse(SubSeq(o.blocks, 1, n)) : n \in 0 .. o.size - 1}

\* The files that a decoding which fails midway leaves: the sparse format sets the size
\* first, the plain one last.
DecodedPartly(o) ==
    {<< >>} \cup
    IF o.sparse
    THEN {[i \in 1 .. o.size |-> IF i <= n THEN readSparseZstd(o)[i] ELSE "hole"] : n \in 0 .. o.size}
    ELSE {c \in {copyZstdSparse(SubSeq(o.blocks, 1, n)) : n \in 1 .. o.size} : c[Len(c)] # "hole"}

\* o decodes to the bytes of file, its length included.
RoundTrip(file, o) == Decodable(o) /\ Bytes(decodeContent(o)) = Bytes(file)
=============================================================================

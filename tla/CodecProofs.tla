---------------------------- MODULE CodecProofs -----------------------------
(***************************************************************************)
(* Every file survives its encoding (Codec): what writeSparseZstd and the  *)
(* plain format of earlier versions store decodes to the file's bytes,     *)
(* whatever its blocks and however many.  The extents of a file are a      *)
(* recursive function of the offset; that it exists, and what it lists, is *)
(* shown for the least offset from the end at which it could fail.         *)
(***************************************************************************)
EXTENDS Codec, NatLemmas, SequenceTheorems

-----------------------------------------------------------------------------
(* The extents of a file                                                   *)

NextOffset(file, off) == SeekHole(file, SeekData(file, off))

FirstExtent(file, off) ==
    [off |-> SeekData(file, off),
     data |-> SubSeq(file, SeekData(file, off) + 1, NextOffset(file, off))]

\* The loop of writeSparseZstd at offset off, f being what it does from later ones.
FromStep(file, f, off) ==
    IF DataAfter(file, off) = {} THEN << >>
    ELSE <<FirstExtent(file, off)>> \o f[NextOffset(file, off)]

IsLoop(file, f, from) ==
    f = [off \in from .. Len(file) |-> FromStep(file, f, off)]

\* An extent starts at data and ends after it, before the next hole.
LEMMA SeekFinds ==
    ASSUME NEW B, NEW file \in Seq(B), NEW off \in 0 .. Len(file), DataAfter(file, off) # {}
    PROVE  LET ds == SeekData(file, off)
               de == NextOffset(file, off)
           IN  /\ ds \in off .. Len(file) - 1
               /\ de \in ds + 1 .. Len(file)
               /\ \A i \in off + 1 .. ds : file[i] = "hole"
<1> DEFINE ds == SeekData(file, off)
           S == {Len(file)} \cup {i \in ds .. Len(file) - 1 : file[i + 1] = "hole"}
<1>1. Len(file) \in Nat
  OBVIOUS
<1>2. ds \in DataAfter(file, off) /\ \A i \in DataAfter(file, off) : ds <= i
  <2>1. DataAfter(file, off) \subseteq Nat
    BY <1>1 DEF DataAfter
  <2>2. QED
    BY <2>1, MinOfNat DEF SeekData
<1>3. ds \in off .. Len(file) - 1 /\ file[ds + 1] # "hole"
  BY <1>2 DEF DataAfter
<1>4. ASSUME NEW i \in off + 1 .. ds PROVE file[i] = "hole"
  <2>1. i - 1 \in off .. Len(file) - 1 /\ (i - 1) + 1 = i /\ ~(ds <= i - 1)
    BY <1>1, <1>3
  <2>2. QED
    BY <1>2, <2>1 DEF DataAfter
<1>5. S \subseteq Nat /\ S # {}
  BY <1>1, <1>3
<1>6. Min(S) \in S
  BY <1>5, MinOfNat
<1>7. NextOffset(file, off) = Min(S)
  BY DEF NextOffset, SeekHole
<1>8. NextOffset(file, off) \in ds + 1 .. Len(file)
  BY <1>1, <1>3, <1>6, <1>7
<1>9. QED
  BY <1>3, <1>4, <1>8

\* Extents is the loop from the start of the file, if there is such a loop.
LEMMA ExtentsIsLoop ==
    ASSUME NEW file
    PROVE  Extents(file) = (CHOOSE f : IsLoop(file, f, 0))[0]
BY Zenon DEF Extents, IsLoop, FromStep, FirstExtent, NextOffset

\* The loop gets from an offset to a later one only, so that it ends: a loop from off + 1
\* extends to one from off.
LEMMA LoopExtends ==
    ASSUME NEW B, NEW file \in Seq(B), NEW from \in 0 .. Len(file) - 1,
           NEW g, IsLoop(file, g, from + 1)
    PROVE  \E f : IsLoop(file, f, from)
<1> DEFINE f == [off \in from .. Len(file) |-> FromStep(file, g, off)]
<1>1. Len(file) \in Nat
  OBVIOUS
<1>2. ASSUME NEW off \in from + 1 .. Len(file) PROVE f[off] = g[off]
  BY <1>1 DEF IsLoop
<1>3. ASSUME NEW off \in from .. Len(file)
      PROVE  FromStep(file, f, off) = FromStep(file, g, off)
  <2>1. CASE DataAfter(file, off) = {}
    BY <2>1 DEF FromStep
  <2>2. CASE DataAfter(file, off) # {}
    <3>1. off \in 0 .. Len(file)
      BY <1>1
    <3>2. NextOffset(file, off) \in from + 1 .. Len(file)
      BY <1>1, <2>2, <3>1, SeekFinds
    <3>3. f[NextOffset(file, off)] = g[NextOffset(file, off)]
      BY <1>2, <3>2
    <3>4. QED
      BY <3>3 DEF FromStep
  <2>3. QED
    BY <2>1, <2>2
<1>4. [off \in from .. Len(file) |-> FromStep(file, f, off)] = f
  BY <1>3
<1>5. IsLoop(file, f, from)
  BY <1>4 DEF IsLoop
<1>6. QED
  BY <1>5

LEMMA LoopExists ==
    ASSUME NEW B, NEW file \in Seq(B)
    PROVE  \E f : IsLoop(file, f, 0)
<1> DEFINE T == {n \in 0 .. Len(file) : ~\E f : IsLoop(file, f, Len(file) - n)}
<1>1. Len(file) \in Nat
  OBVIOUS
<1>2. CASE T = {}
  <2>1. Len(file) \notin T /\ Len(file) \in 0 .. Len(file) /\ Len(file) - Len(file) = 0
    BY <1>1, <1>2
  <2>2. QED
    BY <2>1
<1>3. CASE T # {}
  <2>1. T \subseteq Nat
    BY <1>1
  <2>2. PICK n \in T : \A m \in T : n <= m
    BY <1>3, <2>1, LeastNat
  <2>3. n \in 0 .. Len(file) /\ ~\E f : IsLoop(file, f, Len(file) - n)
    BY <2>2
  <2>4. n # 0
    <3> DEFINE e == [off \in Len(file) .. Len(file) |-> << >>]
    <3>1. ASSUME NEW off \in Len(file) .. Len(file) PROVE FromStep(file, e, off) = << >>
      <4>1. DataAfter(file, off) = {}
        BY <1>1 DEF DataAfter
      <4>2. QED
        BY <4>1 DEF FromStep
    <3>2. IsLoop(file, e, Len(file))
      <4> HIDE DEF e
      <4>1. e = [off \in Len(file) .. Len(file) |-> << >>]
        BY DEF e
      <4>2. QED
        BY <3>1, <4>1 DEF IsLoop
    <3>3. Len(file) - 0 = Len(file)
      BY <1>1
    <3>4. QED
      BY <2>3, <3>2, <3>3
  <2>5. n - 1 \in 0 .. Len(file) /\ ~(n <= n - 1)
    BY <1>1, <2>3, <2>4
  <2>6. PICK g : IsLoop(file, g, Len(file) - (n - 1))
    BY <2>2, <2>5
  <2>7. Len(file) - n \in 0 .. Len(file) - 1 /\ Len(file) - (n - 1) = (Len(file) - n) + 1
    BY <1>1, <2>3, <2>4
  <2>8. QED
    BY <2>3, <2>6, <2>7, LoopExtends
<1>4. QED
  BY <1>2, <1>3

-----------------------------------------------------------------------------
(* What the extents hold                                                   *)

\* e lies in the file at off or later and repeats it there.
Faithful(file, e, off) ==
    /\ e.off \in off .. Len(file)
    /\ Len(e.data) \in 0 .. Len(file) - e.off
    /\ \A i \in 1 .. Len(file) : Covers(e, i) => e.data[i - e.off] = file[i]

ExtentsOver(B) == [off : Nat, data : Seq(B)]

\* es is a list of such extents with all of the data at off or later.
Lists(B, file, es, off) ==
    /\ es \in Seq(ExtentsOver(B))
    /\ \A k \in DOMAIN es : Faithful(file, es[k], off)
    /\ \A i \in off + 1 .. Len(file) :
          file[i] # "hole" => \E k \in DOMAIN es : Covers(es[k], i)

LEMMA FirstExtentFaithful ==
    ASSUME NEW B, NEW file \in Seq(B), NEW off \in 0 .. Len(file), DataAfter(file, off) # {}
    PROVE  /\ FirstExtent(file, off) \in ExtentsOver(B)
           /\ Faithful(file, FirstExtent(file, off), off)
           /\ \A i \in off + 1 .. NextOffset(file, off) :
                 file[i] # "hole" => Covers(FirstExtent(file, off), i)
<1> DEFINE ds == SeekData(file, off)
           de == NextOffset(file, off)
           e == FirstExtent(file, off)
<1>1. Len(file) \in Nat
  OBVIOUS
<1>2. /\ ds \in off .. Len(file) - 1
      /\ de \in ds + 1 .. Len(file)
      /\ \A i \in off + 1 .. ds : file[i] = "hole"
  BY SeekFinds
<1>3. e.off = ds /\ e.data = SubSeq(file, ds + 1, de)
  BY DEF FirstExtent
<1> HIDE DEF ds, de, e
<1>4. /\ e.data \in Seq(B)
      /\ Len(e.data) = de - ds
      /\ \A j \in 1 .. de - ds : e.data[j] = file[ds + j]
  <2>1. \A j \in ds + 1 .. de : file[j] \in B
    BY <1>1, <1>2
  <2>2. ds + 1 \in Int /\ de \in Int /\ ds + 1 <= de /\ de - (ds + 1) + 1 = de - ds
    BY <1>1, <1>2
  <2>3. \A j \in 1 .. de - ds : (ds + 1) + j - 1 = ds + j
    BY <1>1, <1>2
  <2>4. QED
    BY <1>3, <2>1, <2>2, <2>3, SubSeqProperties
<1>5. ASSUME NEW i \in 1 .. Len(file), Covers(e, i) PROVE e.data[i - e.off] = file[i]
  <2>1. i - ds \in 1 .. de - ds /\ ds + (i - ds) = i
    BY <1>1, <1>2, <1>3, <1>4, <1>5 DEF Covers
  <2>2. QED
    BY <1>3, <1>4, <2>1
<1>6. ASSUME NEW i \in off + 1 .. de, file[i] # "hole" PROVE Covers(e, i)
  <2>1. i \notin off + 1 .. ds
    BY <1>2, <1>6
  <2>2. QED
    BY <1>1, <1>2, <1>3, <1>4, <2>1 DEF Covers
<1>7. Faithful(file, e, off)
  <2>1. e.off \in off .. Len(file) /\ Len(e.data) \in 0 .. Len(file) - e.off
    BY <1>1, <1>2, <1>3, <1>4
  <2>2. QED
    BY <1>5, <2>1 DEF Faithful
<1>8. e \in ExtentsOver(B)
  <2>1. e = [off |-> ds, data |-> SubSeq(file, ds + 1, de)]
    BY DEF e, ds, de, FirstExtent
  <2>2. QED
    BY <1>1, <1>2, <1>3, <1>4, <2>1 DEF ExtentsOver
<1>9. QED
  BY <1>6, <1>7, <1>8 DEF e, de

\* One round of the loop.
LEMMA StepLists ==
    ASSUME NEW B, NEW file \in Seq(B), NEW f, IsLoop(file, f, 0), NEW off \in 0 .. Len(file),
           \A next \in off + 1 .. Len(file) : Lists(B, file, f[next], next)
    PROVE  Lists(B, file, f[off], off)
<1> DEFINE de == NextOffset(file, off)
           e == FirstExtent(file, off)
           rest == f[de]
<1>1. Len(file) \in Nat
  OBVIOUS
<1>2. f[off] = FromStep(file, f, off)
  BY DEF IsLoop
<1>3. CASE DataAfter(file, off) = {}
  <2>1. f[off] = << >>
    BY <1>2, <1>3 DEF FromStep
  <2>2. ASSUME NEW i \in off + 1 .. Len(file) PROVE file[i] = "hole"
    <3>1. i - 1 \in off .. Len(file) - 1 /\ (i - 1) + 1 = i
      BY <1>1
    <3>2. QED
      BY <1>3, <3>1 DEF DataAfter
  <2>3. QED
    BY <2>1, <2>2 DEF Lists
<1>4. CASE DataAfter(file, off) # {}
  <2>1. de \in off + 1 .. Len(file)
    BY <1>1, <1>4, SeekFinds
  <2>2. Lists(B, file, rest, de)
    BY <2>1
  <2>3. /\ e \in ExtentsOver(B)
        /\ Faithful(file, e, off)
        /\ \A i \in off + 1 .. de : file[i] # "hole" => Covers(e, i)
    BY <1>4, FirstExtentFaithful
  <2>4. f[off] = <<e>> \o rest
    BY <1>2, <1>4 DEF FromStep
  <2> HIDE DEF de, e, rest
  <2> DEFINE es == <<e>> \o rest
  <2>5. rest \in Seq(ExtentsOver(B)) /\ Len(rest) \in Nat /\ DOMAIN rest = 1 .. Len(rest)
    BY <2>2 DEF Lists
  <2>6. /\ es \in Seq(ExtentsOver(B))
        /\ DOMAIN es = 1 .. Len(rest) + 1
        /\ es[1] = e
        /\ \A k \in 1 .. Len(rest) : k + 1 \in 1 .. Len(rest) + 1 /\ es[k + 1] = rest[k]
        /\ \A k \in 2 .. Len(rest) + 1 : k - 1 \in 1 .. Len(rest) /\ es[k] = rest[k - 1]
    BY <2>3, <2>5
  <2> HIDE DEF es
  <2>7. ASSUME NEW k \in 1 .. Len(rest) + 1 PROVE Faithful(file, es[k], off)
    <3>1. CASE k = 1
      BY <2>3, <2>6, <3>1
    <3>2. CASE k # 1
      <4>1. k \in 2 .. Len(rest) + 1
        BY <2>5, <3>2
      <4>2. Faithful(file, es[k], de)
        BY <2>2, <2>5, <2>6, <4>1 DEF Lists
      <4>3. \A x : x \in de .. Len(file) => x \in off .. Len(file)
        BY <1>1, <2>1
      <4>4. QED
        BY <4>2, <4>3 DEF Faithful
    <3>3. QED
      BY <3>1, <3>2
  <2>8. ASSUME NEW i \in off + 1 .. Len(file), file[i] # "hole"
        PROVE  \E k \in 1 .. Len(rest) + 1 : Covers(es[k], i)
    <3>1. CASE i \in off + 1 .. de
      <4>1. 1 \in 1 .. Len(rest) + 1 /\ Covers(es[1], i)
        BY <2>3, <2>5, <2>6, <2>8, <3>1
      <4>2. QED
        BY <4>1
    <3>2. CASE i \in de + 1 .. Len(file)
      <4>1. PICK k \in 1 .. Len(rest) : Covers(rest[k], i)
        BY <2>2, <2>5, <2>8, <3>2 DEF Lists
      <4>2. QED
        BY <2>6, <4>1
    <3>3. QED
      BY <1>1, <2>1, <3>1, <3>2
  <2>9. QED
    BY <2>4, <2>6, <2>7, <2>8 DEF Lists, es
<1>5. QED
  BY <1>3, <1>4

\* Extents lists the data of the file: no block of it is left out or misplaced.
LEMMA ExtentsList ==
    ASSUME NEW B, NEW file \in Seq(B)
    PROVE  Lists(B, file, Extents(file), 0)
<1>1. PICK f : IsLoop(file, f, 0) /\ Extents(file) = f[0]
  BY LoopExists, ExtentsIsLoop
<1> DEFINE T == {n \in 0 .. Len(file) : ~Lists(B, file, f[Len(file) - n], Len(file) - n)}
<1>2. Len(file) \in Nat /\ T \subseteq Nat
  OBVIOUS
<1>3. T = {}
  <2>1. SUFFICES ASSUME T # {} PROVE FALSE
    OBVIOUS
  <2>2. PICK n \in T : \A m \in T : n <= m
    BY <1>2, <2>1, LeastNat
  <2>3. n \in 0 .. Len(file) /\ ~Lists(B, file, f[Len(file) - n], Len(file) - n)
    BY <2>2
  <2>4. ASSUME NEW next \in (Len(file) - n) + 1 .. Len(file)
        PROVE  Lists(B, file, f[next], next)
    <3>1. Len(file) - next \in 0 .. Len(file) /\ ~(n <= Len(file) - next)
          /\ Len(file) - (Len(file) - next) = next
      BY <1>2, <2>3
    <3>2. QED
      BY <2>2, <3>1
  <2>5. Len(file) - n \in 0 .. Len(file)
    BY <1>2, <2>3
  <2>6. QED
    BY <1>1, <2>3, <2>4, <2>5, StepLists
<1>4. Len(file) \in 0 .. Len(file) /\ Len(file) - Len(file) = 0
  BY <1>2
<1>5. Lists(B, file, f[Len(file) - Len(file)], Len(file) - Len(file))
  BY <1>3, <1>4
<1>6. QED
  BY <1>1, <1>4, <1>5

-----------------------------------------------------------------------------
(* The round trip                                                          *)

\* codec.go: what writeContent stores of a file decodes to the bytes and to the length of
\* that file, holes anywhere included.
THEOREM SparseRoundTrip ==
    ASSUME NEW B, NEW file \in Seq(B)
    PROVE  RoundTrip(file, writeContent(file))
<1> DEFINE es == Extents(file)
           o == writeContent(file)
           dec == readSparseZstd(o)
<1>1. Len(file) \in Nat /\ DOMAIN file = 1 .. Len(file)
  OBVIOUS
<1>2. o.sparse /\ o.size = Len(file) /\ o.extents = es
  BY DEF writeContent, writeSparseZstd
<1>3. Lists(B, file, es, 0)
  BY ExtentsList
<1> HIDE DEF es, o
<1>4. Decodable(o)
  <2>1. ASSUME NEW k \in DOMAIN es PROVE InRange(o, es[k])
    <3>1. Faithful(file, es[k], 0)
      BY <1>3 DEF Lists
    <3>2. QED
      BY <1>1, <1>2, <3>1 DEF Faithful, InRange
  <2>2. QED
    BY <1>2, <2>1 DEF Decodable
<1>5. ASSUME NEW i \in 1 .. Len(file)
      PROVE  dec[i] = file[i] \/ (file[i] = "hole" /\ dec[i] = "hole")
  <2>1. CASE \E k \in DOMAIN es : Covers(es[k], i)
    <3> DEFINE c == CHOOSE k \in DOMAIN es : Covers(es[k], i)
    <3>1. c \in DOMAIN es /\ Covers(es[c], i)
      BY <2>1
    <3>2. dec[i] = es[c].data[i - es[c].off]
      BY <1>2, <2>1 DEF readSparseZstd
    <3>3. Faithful(file, es[c], 0)
      BY <1>3, <3>1 DEF Lists
    <3>4. QED
      BY <3>1, <3>2, <3>3 DEF Faithful
  <2>2. CASE ~\E k \in DOMAIN es : Covers(es[k], i)
    <3>1. dec[i] = "hole"
      BY <1>2, <2>2 DEF readSparseZstd
    <3>2. i \in 0 + 1 .. Len(file)
      BY <1>1
    <3>3. QED
      BY <1>3, <2>2, <3>1, <3>2 DEF Lists
  <2>3. QED
    BY <2>1, <2>2
<1>6. DOMAIN dec = 1 .. Len(file)
  BY <1>2 DEF readSparseZstd
<1>7. decodeContent(o) = dec
  BY <1>2 DEF decodeContent
<1> HIDE DEF dec
<1>8. Bytes(dec) = Bytes(file)
  BY <1>1, <1>5, <1>6 DEF Bytes
<1>9. QED
  BY <1>4, <1>7, <1>8 DEF RoundTrip, o

\* The same for the plain format, which earlier versions wrote and DownloadDir still reads.
THEOREM PlainRoundTrip ==
    ASSUME NEW B, NEW file \in Seq(B)
    PROVE  RoundTrip(file, plainZstd(file))
<1>1. DOMAIN file = 1 .. Len(file)
  OBVIOUS
<1>2. Bytes(copyZstdSparse(Bytes(file))) = Bytes(file)
  BY <1>1 DEF Bytes, copyZstdSparse
<1>3. QED
  BY <1>2 DEF RoundTrip, Decodable, decodeContent, plainZstd
=============================================================================

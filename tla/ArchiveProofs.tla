--------------------------- MODULE ArchiveProofs ----------------------------
(***************************************************************************)
(* Proofs about ArchiveRead, for every archive that is well formed: all    *)
(* sizes of blocks, metablocks and files, wherever words, blocks and tails *)
(* are, and whatever was read before.                                      *)
(***************************************************************************)
EXTENDS ArchiveRead, SequenceTheorems, TLAPS

(* All that a buffer may hold. *)
Byte ==
  {Zero, Garbage} \cup {<<f.name, i>> : f \in File, i \in Nat}
    \cup {<<"fragment", i, j>> : i \in DOMAIN Fragment, j \in Nat}

BytesTyped ==
  /\ anyblock \in Seq(Byte) /\ Len(anyblock) = BlockSize
  /\ fragblock \in Seq(Byte) /\ out \in Seq(Byte) /\ word \in Seq(Nat)

(* The counters of a cat that runs, of any file. *)
CountInv ==
  /\ pc \in {"word", "block", "write", "fragment", "copy"} => file \in File
  /\ pc \in {"word", "block", "write"} =>
       /\ cursor.at + cursor.left = MetaSize
       /\ datasize > 0 /\ datasize <= bytesleft
  /\ pc = "word" => Len(word) < WordSize
  /\ pc \in {"fragment", "copy"} => file.fragment # None /\ bytesleft > 0
  /\ pc = "copy" => fragment.at + fragment.left <= Len(fragblock)

Place == cursor.meta * MetaSize + cursor.at
WordPlace(k) == file.list + (k - 1) * WordSize

(* A cat is at block k of the file. *)
BlockInv(k) ==
  /\ Len(out) = (k - 1) * BlockSize
  /\ bytesleft = file.size - (k - 1) * BlockSize
  /\ datasize = BlockLen(file, k)
  /\ pc \in {"word", "block"} =>
       /\ fulloffset = file.blocks[k].at
       /\ Place = WordPlace(k) + Len(word)
       /\ word = [j \in 1..Len(word) |-> WordPlace(k) + j - 1]
  /\ pc = "block" => Len(word) = WordSize
  /\ pc = "write" =>
       /\ fulloffset = file.blocks[k].at + file.blocks[k].sod
       /\ Place = WordPlace(k) + WordSize
       /\ \A i \in 1..datasize : anyblock[i] = Bytes(file, k)[i]

(* A cat is at the tail of the file. *)
TailInv ==
  /\ Len(out) = Len(file.blocks) * BlockSize /\ bytesleft = TailLen(file)
  /\ pc = "copy" =>
       /\ fragblock = FragmentBytes(file.fragment)
       /\ fragment.at = file.offset
       /\ fragment.left = Fragment[file.fragment].size - file.offset

(* What has been printed is right, and so is what will be. *)
OutInv ==
  /\ Len(out) <= file.size
  /\ \A i \in 1..Len(out) : out[i] = Contents(file)[i]

Fits == file # None /\ file.size < Wrap

PrintInv ==
  Fits =>
    /\ OutInv
    /\ pc = "idle" => Len(out) = file.size
    /\ pc # "refused"
    /\ pc \in {"word", "block", "write"} => \E k \in DOMAIN file.blocks : BlockInv(k)
    /\ pc \in {"fragment", "copy"} => TailInv

(* The parts of TypeOK. *)
Places == {"idle", "word", "block", "write", "fragment", "copy", "refused", "exited"}
CatTyped ==
  /\ file \in File \cup {None}
  /\ bytesleft \in 0..(Wrap - 1) /\ datasize \in 0..BlockSize /\ fulloffset \in Nat
  /\ cursor \in [meta : Nat, at : 0..MetaSize, left : 0..MetaSize]
FragmentTypeOK ==
  /\ fragment \in [at : 0..BlockSize, left : 0..BlockSize]
  /\ Len(fragblock) <= BlockSize
IdTyped == asked \in 0..IdCount /\ answer \in 0..IdCount \cup {Garbage, None}

IInv == TypeOK /\ BytesTyped /\ CountInv /\ PrintInv /\ IdsRight

-----------------------------------------------------------------------------
(* Arithmetic. *)
LEMMA DivMod ==
  ASSUME NEW a \in Nat, NEW b \in Nat \ {0}
  PROVE  /\ a \div b \in Nat /\ a % b \in 0..(b - 1)
         /\ a = (a \div b) * b + (a % b)
OBVIOUS

LEMMA Times ==
  ASSUME NEW i \in Int, NEW b \in Nat
  PROVE  /\ i * b \in Int /\ (i + 1) * b = i * b + b /\ (i - 1) * b = i * b - b
         /\ i \in Nat => i * b \in Nat
OBVIOUS

LEMMA TimesLess ==
  ASSUME NEW i \in Int, NEW j \in Int, NEW b \in Nat, i < j
  PROVE  i * b + b <= j * b
OBVIOUS

LEMMA DivOf ==
  ASSUME NEW q \in Nat, NEW b \in Nat \ {0}, NEW r \in 0..(b - 1)
  PROVE  (q * b + r) \div b = q /\ (q * b + r) % b = r
<1>. DEFINE a == q * b + r
<1>1. a \in Nat /\ q * b \in Nat BY Times
<1>2. a = (a \div b) * b + (a % b) /\ a \div b \in Nat /\ a % b \in 0..(b - 1)
  BY <1>1, DivMod
<1>. HIDE DEF a
<1>3. ~(a \div b < q) BY <1>1, <1>2, TimesLess DEF a
<1>4. ~(q < a \div b) BY <1>1, <1>2, TimesLess DEF a
<1>5. a \div b = q
  <2>1. a \div b \in Nat BY <1>2
  <2>. QED BY <1>3, <1>4, <2>1
<1>6. a = q * b + (a % b) BY <1>2, <1>5
<1>7. a % b = r BY <1>1, <1>2, <1>6 DEF a
<1>. QED BY <1>5, <1>7 DEF a

-----------------------------------------------------------------------------
(* The archive. *)
BlockType == [sod : Nat, stored : BOOLEAN, at : Nat]

LEMMA SizesTyped ==
  /\ BlockSize \in Nat \ {0} /\ WordSize \in Nat \ {0} /\ MetaSize \in Nat \ {0}
  /\ Wrap \in Nat /\ Wrap > BlockSize /\ IdCount \in Nat
  /\ FragmentsPerMetablock \in Nat \ {0}
BY ArchiveAssumption DEF ArchiveAssumption

LEMMA FileTyped ==
  ASSUME NEW f \in File
  PROVE  /\ f.size \in Nat /\ f.list \in Nat \ {0} /\ f.start \in Nat
         /\ f.blocks \in Seq(BlockType) /\ Len(f.blocks) \in Nat
         /\ DOMAIN f.blocks = 1..Len(f.blocks)
BY ArchiveAssumption, LenProperties DEF ArchiveAssumption, WellFormed, BlockType

LEMMA BlockTyped ==
  ASSUME NEW f \in File, NEW k \in DOMAIN f.blocks
  PROVE  /\ k \in 1..Len(f.blocks) /\ k \in Nat \ {0} /\ k - 1 \in Nat
         /\ f.blocks[k].sod \in Nat /\ f.blocks[k].stored \in BOOLEAN
         /\ f.blocks[k].at \in Nat
<1>1. k \in 1..Len(f.blocks) /\ Len(f.blocks) \in Nat BY FileTyped
<1>2. f.blocks[k] \in BlockType BY <1>1, FileTyped, ElementOfSeq
<1>. QED BY <1>1, <1>2 DEF BlockType

(* Where its blocks end, and its tail. *)
LEMMA FileSpan ==
  ASSUME NEW f \in File
  PROVE  /\ Len(f.blocks) * BlockSize \in Nat
         /\ f.fragment = None =>
              /\ f.size <= Len(f.blocks) * BlockSize
              /\ (Len(f.blocks) - 1) * BlockSize < f.size
         /\ f.fragment # None =>
              /\ TailLen(f) = f.size - Len(f.blocks) * BlockSize
              /\ TailLen(f) \in 1..(BlockSize - 1)
              /\ f.fragment \in DOMAIN Fragment /\ f.offset \in Nat
              /\ f.offset + TailLen(f) <= Fragment[f.fragment].size
<1>1. Len(f.blocks) * BlockSize \in Nat /\ f.size \in Nat
  BY FileTyped, SizesTyped, Times
<1>2. WellFormed(f) BY ArchiveAssumption DEF ArchiveAssumption
<1>3. CASE f.fragment = None
  <2>1. (Len(f.blocks) - 1) * BlockSize < f.size
        /\ f.size - Len(f.blocks) * BlockSize <= 0
    BY <1>2, <1>3 DEF WellFormed, TailLen
  <2>. QED BY <1>1, <1>3, <2>1
<1>4. CASE f.fragment # None
  BY <1>1, <1>2, <1>4 DEF WellFormed, TailLen
<1>. QED BY <1>1, <1>3, <1>4

LEMMA BlockSpan ==
  ASSUME NEW f \in File, NEW k \in DOMAIN f.blocks
  PROVE  /\ (k - 1) * BlockSize \in Nat /\ (k - 1) * BlockSize < f.size
         /\ k * BlockSize = (k - 1) * BlockSize + BlockSize
         /\ k * BlockSize <= Len(f.blocks) * BlockSize
         /\ BlockLen(f, k) = Least(f.size - (k - 1) * BlockSize, BlockSize)
         /\ BlockLen(f, k) \in 1..BlockSize
<1>. DEFINE n == Len(f.blocks)
            a == (k - 1) * BlockSize
<1>1. /\ k \in 1..n /\ n \in Nat /\ k - 1 \in Nat /\ f.size \in Nat
      /\ BlockSize \in Nat \ {0}
  BY BlockTyped, FileTyped, SizesTyped
<1>2. a \in Nat /\ k * BlockSize = a + BlockSize
  <2>1. k - 1 + 1 = k BY <1>1
  <2>. QED BY <1>1, <2>1, Times
<1>3. k * BlockSize <= n * BlockSize
  <2>1. CASE k = n BY <1>1, <1>2, <2>1
  <2>2. CASE k < n
    <3>1. k * BlockSize + BlockSize <= n * BlockSize BY <1>1, <2>2, TimesLess, SMTT(30)
    <3>. QED BY <1>1, <1>2, <3>1, Times, SMTT(30)
  <2>. QED BY <1>1, <2>1, <2>2
<1>4. a < f.size
  <2>1. CASE f.fragment = None
    <3>1. (n - 1) * BlockSize < f.size /\ (n - 1) * BlockSize = n * BlockSize - BlockSize
      BY <1>1, <2>1, FileSpan, Times
    <3>2. n * BlockSize \in Nat BY <1>1, Times
    <3>. QED BY <1>1, <1>2, <1>3, <3>1, <3>2, SMTT(30)
  <2>2. CASE f.fragment # None
    <3>1. f.size - n * BlockSize >= 1 /\ n * BlockSize \in Nat
      BY <1>1, <2>2, FileSpan
    <3>. QED BY <1>1, <1>2, <1>3, <3>1, SMTT(30)
  <2>. QED BY <2>1, <2>2
<1>5. BlockLen(f, k) = Least(f.size - a, BlockSize)
  <2>1. CASE k * BlockSize <= f.size
    <3>1. BlockLen(f, k) = BlockSize BY <2>1 DEF BlockLen
    <3>2. ~(f.size - a < BlockSize) BY <1>1, <1>2, <2>1
    <3>. QED BY <3>1, <3>2 DEF Least
  <2>2. CASE ~(k * BlockSize <= f.size)
    <3>1. f.size - a \in 0..(BlockSize - 1) /\ a + (f.size - a) = f.size
      <4>1. ~(a + BlockSize <= f.size) BY <1>2, <2>2
      <4>2. f.size \in Nat /\ BlockSize \in Nat BY <1>1
      <4>. HIDE DEF a
      <4>. QED BY <1>2, <1>4, <4>1, <4>2
    <3>2. f.size % BlockSize = f.size - a
      <4>1. ((k - 1) * BlockSize + (f.size - a)) % BlockSize = f.size - a
        BY <1>1, <3>1, DivOf
      <4>. QED BY <3>1, <4>1
    <3>3. f.size - a < BlockSize BY <1>1, <3>1
    <3>. QED BY <2>2, <3>2, <3>3 DEF BlockLen, Least
  <2>. QED BY <2>1, <2>2
<1>6. BlockLen(f, k) \in 1..BlockSize BY <1>1, <1>2, <1>4, <1>5, SMTT(30) DEF Least
<1>. QED BY <1>2, <1>3, <1>4, <1>5, <1>6

-----------------------------------------------------------------------------
(* Bytes. *)
LEMMA FunctionIsSeq ==
  ASSUME NEW S, NEW n \in Nat, NEW f \in [1..n -> S]
  PROVE  f \in Seq(S) /\ Len(f) = n
OBVIOUS

LEMMA BytesOf ==
  ASSUME NEW f \in File, NEW k \in DOMAIN f.blocks
  PROVE  Bytes(f, k) \in Seq(Byte) /\ Len(Bytes(f, k)) = BlockLen(f, k)
<1>1. BlockLen(f, k) \in Nat /\ (k - 1) * BlockSize \in Nat BY BlockSpan
<1>2. ASSUME NEW i \in 1..BlockLen(f, k)
      PROVE  (IF f.blocks[k].sod = 0 THEN Zero ELSE <<f.name, (k - 1) * BlockSize + i>>) \in Byte
  <2>1. (k - 1) * BlockSize + i \in Nat BY <1>1
  <2>2. <<f.name, (k - 1) * BlockSize + i>> \in {<<g.name, j>> : g \in File, j \in Nat}
    BY <2>1
  <2>. QED BY <2>2 DEF Byte
<1>3. Bytes(f, k) \in [1..BlockLen(f, k) -> Byte] BY <1>2 DEF Bytes
<1>. QED BY <1>1, <1>3, FunctionIsSeq

LEMMA FragmentTyped ==
  ASSUME NEW i \in DOMAIN Fragment
  PROVE  /\ i \in Nat /\ Fragment[i].size \in 1..BlockSize /\ Fragment[i].size \in Nat
         /\ FragmentBytes(i) \in Seq(Byte)
         /\ Len(FragmentBytes(i)) = Fragment[i].size
<1>1. i \in Nat /\ Fragment[i].size \in 1..BlockSize /\ Fragment[i].size \in Nat
  BY ArchiveAssumption DEF ArchiveAssumption
<1>2. ASSUME NEW j \in 1..Fragment[i].size
      PROVE  <<"fragment", i, j>> \in Byte
  <2>1. <<"fragment", i, j>> \in {<<"fragment", g, h>> : g \in DOMAIN Fragment, h \in Nat}
    BY <1>1
  <2>. QED BY <2>1 DEF Byte
<1>3. FragmentBytes(i) \in [1..Fragment[i].size -> Byte] BY <1>2 DEF FragmentBytes
<1>. QED BY <1>1, <1>3, FunctionIsSeq

LEMMA ContentsAt ==
  ASSUME NEW f, NEW i \in 1..f.size, i <= Len(f.blocks) * BlockSize
  PROVE  Contents(f)[i] =
           Bytes(f, ((i - 1) \div BlockSize) + 1)[((i - 1) % BlockSize) + 1]
BY Zenon DEF Contents

(* What the file has at byte j of its block k, and at byte j of its tail. *)
LEMMA ContentsBlock ==
  ASSUME NEW f \in File, NEW k \in DOMAIN f.blocks, NEW j \in 1..BlockLen(f, k)
  PROVE  /\ (k - 1) * BlockSize + j \in 1..f.size
         /\ Contents(f)[(k - 1) * BlockSize + j] = Bytes(f, k)[j]
<1>. DEFINE a == (k - 1) * BlockSize
<1>1. /\ a \in Nat /\ a < f.size /\ f.size \in Nat /\ BlockSize \in Nat \ {0}
      /\ k - 1 \in Nat
  BY BlockSpan, FileTyped, BlockTyped, SizesTyped
<1>2. j \in Nat \ {0} /\ j <= BlockSize /\ j <= f.size - a
  <2>1. BlockLen(f, k) = Least(f.size - a, BlockSize) /\ BlockLen(f, k) \in 1..BlockSize
    BY BlockSpan
  <2>. HIDE DEF a
  <2>. QED BY <1>1, <2>1 DEF Least
<1>3. a + j <= Len(f.blocks) * BlockSize
  <2>1. k * BlockSize = a + BlockSize /\ k * BlockSize <= Len(f.blocks) * BlockSize
    BY BlockSpan
  <2>2. Len(f.blocks) * BlockSize \in Nat BY FileSpan
  <2>. HIDE DEF a
  <2>. QED BY <1>1, <1>2, <2>1, <2>2
<1>4. ((a + j) - 1) \div BlockSize = k - 1 /\ ((a + j) - 1) % BlockSize = j - 1
  <2>1. j - 1 \in 0..(BlockSize - 1) BY <1>1, <1>2
  <2>2. (a + (j - 1)) \div BlockSize = k - 1 /\ (a + (j - 1)) % BlockSize = j - 1
    BY <1>1, <2>1, DivOf
  <2>3. a + (j - 1) = (a + j) - 1
    <3>. HIDE DEF a
    <3>. QED BY <1>1, <1>2
  <2>. QED BY <2>2, <2>3
<1>5. a + j \in 1..f.size
  <2>. HIDE DEF a
  <2>. QED BY <1>1, <1>2
<1>6. k - 1 + 1 = k /\ j - 1 + 1 = j BY <1>1, <1>2, BlockTyped
<1>. HIDE DEF a
<1>7. Contents(f)[a + j] =
        Bytes(f, (((a + j) - 1) \div BlockSize) + 1)[(((a + j) - 1) % BlockSize) + 1]
  BY <1>3, <1>5, ContentsAt DEF a
<1>8. Contents(f)[a + j] = Bytes(f, k)[j] BY <1>4, <1>6, <1>7
<1>. QED BY <1>5, <1>8 DEF a

LEMMA ContentsTail ==
  ASSUME NEW f \in File, f.fragment # None, NEW j \in 1..TailLen(f)
  PROVE  /\ Len(f.blocks) * BlockSize + j \in 1..f.size
         /\ Contents(f)[Len(f.blocks) * BlockSize + j]
              = FragmentBytes(f.fragment)[f.offset + j]
<1>. DEFINE a == Len(f.blocks) * BlockSize
<1>1. /\ a \in Nat /\ f.size \in Nat /\ TailLen(f) = f.size - a /\ f.offset \in Nat
      /\ j \in Nat \ {0}
  BY FileSpan, FileTyped
<1>. HIDE DEF a
<1>2. a + j \in 1..f.size /\ ~(a + j <= a) BY <1>1
<1>3. f.offset + (a + j) - a = f.offset + j BY <1>1
<1>4. Contents(f)[a + j] = FragmentBytes(f.fragment)[f.offset + (a + j) - a]
  BY <1>2 DEF Contents, a
<1>5. Contents(f)[a + j] = FragmentBytes(f.fragment)[f.offset + j] BY <1>3, <1>4
<1>. QED BY <1>2, <1>5 DEF a

LEMMA ContentsTyped ==
  ASSUME NEW f \in File
  PROVE  Contents(f) \in Seq(Byte) /\ Len(Contents(f)) = f.size
<1>. DEFINE n == Len(f.blocks)
            a == n * BlockSize
<1>1. /\ f.size \in Nat /\ n \in Nat /\ BlockSize \in Nat \ {0} /\ a \in Nat
  BY FileTyped, SizesTyped, FileSpan
<1>2. ASSUME NEW i \in 1..f.size
      PROVE  Contents(f)[i] \in Byte
  <2>1. i \in Nat \ {0} /\ i - 1 \in Nat BY <1>1
  <2>2. CASE i <= a
    <3>. DEFINE q == (i - 1) \div BlockSize
                r == (i - 1) % BlockSize
                b == q * BlockSize
    <3>1. q \in Nat /\ r \in 0..(BlockSize - 1) /\ i - 1 = b + r
      BY <1>1, <2>1, DivMod
    <3>2. b \in Nat BY <1>1, <3>1, Times
    <3>3. q < n
      <4>. SUFFICES ASSUME ~(q < n) PROVE FALSE OBVIOUS
      <4>1. q \in Nat /\ n \in Nat BY <1>1, <3>1
      <4>2. CASE q = n
        <5>1. a = b BY <4>2
        <5>2. r \in Nat BY <1>1, <3>1
        <5>3. i - 1 = b + r BY <3>1
        <5>. HIDE DEF a, b, q, r
        <5>. QED BY <1>1, <2>1, <2>2, <3>2, <5>1, <5>2, <5>3
      <4>3. CASE q # n
        <5>1. n < q BY <4>1, <4>3
        <5>2. a + BlockSize <= b BY <1>1, <4>1, <5>1, TimesLess
        <5>3. r \in Nat BY <1>1, <3>1
        <5>4. i - 1 = b + r BY <3>1
        <5>. HIDE DEF a, b, q, r
        <5>. QED BY <1>1, <2>1, <2>2, <3>2, <5>2, <5>3, <5>4
      <4>. QED BY <4>2, <4>3
    <3>4. q + 1 \in DOMAIN f.blocks /\ (q + 1) - 1 = q
      <4>1. q \in Nat BY <3>1
      <4>. HIDE DEF q
      <4>. QED BY <1>1, <3>3, <4>1, FileTyped
    <3>5. r + 1 \in 1..BlockLen(f, q + 1)
      <4>1. /\ BlockLen(f, q + 1) = Least(f.size - ((q + 1) - 1) * BlockSize, BlockSize)
        BY <3>4, BlockSpan
      <4>2. BlockLen(f, q + 1) = Least(f.size - b, BlockSize) BY <3>4, <4>1
      <4>3. r \in Nat /\ r < BlockSize BY <1>1, <3>1
      <4>4. i - 1 = b + r BY <3>1
      <4>. HIDE DEF b, r, q
      <4>. QED BY <1>1, <2>1, <3>2, <4>2, <4>3, <4>4 DEF Least
    <3>6. Contents(f)[i] = Bytes(f, q + 1)[r + 1]
      <4>1. i <= Len(f.blocks) * BlockSize BY <2>2
      <4>. QED BY <4>1, ContentsAt, Zenon
    <3>7. Bytes(f, q + 1) \in Seq(Byte) /\ Len(Bytes(f, q + 1)) = BlockLen(f, q + 1)
      BY <3>4, BytesOf
    <3>. HIDE DEF q, r, b
    <3>. QED BY <3>5, <3>6, <3>7, ElementOfSeq
  <2>3. CASE ~(i <= a)
    <3>. HIDE DEF a
    <3>1. f.fragment # None BY <1>1, <2>1, <2>3, FileSpan DEF a
    <3>2. TailLen(f) = f.size - a /\ f.offset \in Nat /\ f.fragment \in DOMAIN Fragment
          /\ f.offset + TailLen(f) <= Fragment[f.fragment].size
      BY <3>1, FileSpan DEF a
    <3>3. Fragment[f.fragment].size \in Nat BY <3>2, FragmentTyped
    <3>4. i - a \in 1..TailLen(f) /\ a + (i - a) = i BY <1>1, <2>1, <2>3, <3>2
    <3>5. Contents(f)[i] = FragmentBytes(f.fragment)[f.offset + (i - a)]
      BY <3>1, <3>4, ContentsTail DEF a
    <3>6. f.offset + (i - a) \in 1..Fragment[f.fragment].size
      BY <1>1, <2>1, <3>2, <3>3, <3>4
    <3>. QED BY <3>2, <3>5, <3>6, FragmentTyped, ElementOfSeq
  <2>. QED BY <2>2, <2>3
<1>3. Contents(f) \in [1..f.size -> Byte]
  <2>1. DOMAIN Contents(f) = 1..f.size
        /\ Contents(f) = [i \in 1..f.size |-> Contents(f)[i]]
    BY DEF Contents
  <2>. QED BY <1>2, <2>1
<1>. QED BY <1>1, <1>3, FunctionIsSeq

-----------------------------------------------------------------------------
(* Blocks on disk and their words. *)
LEMMA BlocksAre ==
  ASSUME NEW fk
  PROVE  fk \in Blocks <=> \E f \in File : \E k \in DOMAIN f.blocks : fk = <<f, k>>
<1>. DEFINE Of(f) == {<<f, k>> : k \in DOMAIN f.blocks}
<1>1. Blocks = UNION {Of(f) : f \in File} BY DEF Blocks
<1>2. \A f : fk \in Of(f) <=> \E k \in DOMAIN f.blocks : fk = <<f, k>> OBVIOUS
<1>. HIDE DEF Of
<1>3. fk \in Blocks <=> \E f \in File : fk \in Of(f) BY <1>1
<1>. QED BY <1>2, <1>3

LEMMA OnDiskTyped ==
  ASSUME NEW place, NEW n \in Nat
  PROVE  OnDisk(place, n) \in Seq(Byte)
<1>. DEFINE here == {fk \in Blocks : /\ fk[1].blocks[fk[2]].at = place
                                     /\ fk[1].blocks[fk[2]].sod = n}
<1>1. CASE here = {}
  <2>1. OnDisk(place, n) = [i \in 1..n |-> Garbage] BY <1>1 DEF OnDisk
  <2>2. Garbage \in Byte BY DEF Byte
  <2>3. [i \in 1..n |-> Garbage] \in [1..n -> Byte] BY <2>2
  <2>. QED BY <2>1, <2>3, FunctionIsSeq
<1>2. CASE here # {}
  <2>. DEFINE fk == CHOOSE x \in here : TRUE
  <2>1. fk \in here BY <1>2
  <2>2. OnDisk(place, n) = Bytes(fk[1], fk[2]) BY <1>2 DEF OnDisk
  <2>. HIDE DEF fk
  <2>3. PICK f \in File : \E k \in DOMAIN f.blocks : fk = <<f, k>> BY <2>1, BlocksAre
  <2>4. PICK k \in DOMAIN f.blocks : fk = <<f, k>> BY <2>3
  <2>. QED BY <2>2, <2>4, BytesOf
<1>. QED BY <1>1, <1>2

LEMMA RightOnDisk ==
  ASSUME NEW f \in File, NEW k \in DOMAIN f.blocks, f.blocks[k].sod # 0
  PROVE  OnDisk(f.blocks[k].at, f.blocks[k].sod) = Bytes(f, k)
<1>. DEFINE b == f.blocks[k]
            here == {fk \in Blocks : /\ fk[1].blocks[fk[2]].at = b.at
                                     /\ fk[1].blocks[fk[2]].sod = b.sod}
            gk == CHOOSE x \in here : TRUE
<1>1. <<f, k>> \in Blocks BY BlocksAre
<1>2. <<f, k>> \in here BY <1>1
<1>3. gk \in here BY <1>2
<1>4. OnDisk(b.at, b.sod) = Bytes(gk[1], gk[2]) BY <1>2 DEF OnDisk
<1>. HIDE DEF gk
<1>5. /\ gk \in Blocks /\ gk[1].blocks[gk[2]].at = b.at /\ gk[1].blocks[gk[2]].sod = b.sod
  BY <1>3
<1>6. Bytes(gk[1], gk[2]) = Bytes(f, k) BY <1>1, <1>5, DiskAssumption DEF DiskAssumption
<1>. QED BY <1>4, <1>6

(* What the word of a block is made of belongs to the block; another block
   whose word it is has the same one. *)
LEMMA ListedAt ==
  ASSUME NEW f \in File, NEW k \in DOMAIN f.blocks
  PROVE  LET places == [j \in 1..WordSize |-> f.list + (k - 1) * WordSize + j - 1]
         IN /\ <<f, k>> \in Listed(places)
            /\ \A gk \in Listed(places) :
                 /\ gk[1].blocks[gk[2]].sod = f.blocks[k].sod
                 /\ gk[1].blocks[gk[2]].stored = f.blocks[k].stored
<1>. DEFINE W(fk) == fk[1].list + (fk[2] - 1) * WordSize
            places == [j \in 1..WordSize |-> f.list + (k - 1) * WordSize + j - 1]
<1>1. <<f, k>> \in Blocks BY BlocksAre
<1>2. <<f, k>> \in Listed(places) BY <1>1 DEF Listed
<1>3. ASSUME NEW gk \in Listed(places)
      PROVE  /\ gk[1].blocks[gk[2]].sod = f.blocks[k].sod
             /\ gk[1].blocks[gk[2]].stored = f.blocks[k].stored
  <2>1. gk \in Blocks
        /\ places = [j \in 1..WordSize |-> gk[1].list + (gk[2] - 1) * WordSize + j - 1]
    BY DEF Listed
  <2>2. PICK g \in File : \E h \in DOMAIN g.blocks : gk = <<g, h>> BY <2>1, BlocksAre
  <2>3. PICK h \in DOMAIN g.blocks : gk = <<g, h>> BY <2>2
  <2>4. 1 \in 1..WordSize BY SizesTyped
  <2>5. f.list + (k - 1) * WordSize + 1 - 1 = g.list + (h - 1) * WordSize + 1 - 1
    BY <2>1, <2>3, <2>4
  <2>6. (k - 1) * WordSize \in Nat /\ (h - 1) * WordSize \in Nat
        /\ f.list \in Nat /\ g.list \in Nat
    BY BlockTyped, FileTyped, SizesTyped, Times, SMTT(30)
  <2>7. f.list + (k - 1) * WordSize = g.list + (h - 1) * WordSize BY <2>5, <2>6
  <2>. QED BY <1>1, <2>1, <2>3, <2>7, DiskAssumption DEF DiskAssumption
<1>. QED BY <1>2, <1>3

-----------------------------------------------------------------------------
(* The turns of cat's loop. *)
LEMMA TurnCounts ==
  ASSUME NEW f \in File, NEW left \in 0..(Wrap - 1), datasize \in 0..BlockSize,
         Turn(f, left)
  PROVE  /\ bytesleft' = left /\ word' = <<>> /\ datasize' \in 0..BlockSize
         /\ pc' \in {"idle", "word", "fragment"}
         /\ pc' = "word" => datasize' > 0 /\ datasize' <= bytesleft'
         /\ pc' = "fragment" => f.fragment # None /\ bytesleft' > 0
<1>1. left \in Nat /\ BlockSize \in Nat \ {0} BY SizesTyped
<1>2. bytesleft' = left /\ word' = <<>> BY DEF Turn
<1>3. CASE left = 0 /\ pc' = "idle" /\ UNCHANGED datasize BY <1>2, <1>3
<1>4. CASE /\ left > BlockSize \/ (left > 0 /\ f.fragment = None)
           /\ pc' = "word" /\ datasize' = Least(left, BlockSize)
  <2>1. left > 0 BY <1>1, <1>4
  <2>2. datasize' \in 1..BlockSize /\ datasize' <= left
    BY <1>1, <1>4, <2>1 DEF Least
  <2>. QED BY <1>1, <1>2, <1>4, <2>2
<1>5. CASE /\ left \in 1..BlockSize /\ f.fragment # None
           /\ pc' = "fragment" /\ UNCHANGED datasize
  BY <1>1, <1>2, <1>5
<1>. QED BY <1>3, <1>4, <1>5 DEF Turn

(* After n whole blocks the next turn is for the next block, for the tail
   after the last one, or there is nothing left. *)
LEMMA TurnAt ==
  ASSUME NEW f \in File, NEW n \in 0..Len(f.blocks), NEW left \in Nat,
         left = f.size - n * BlockSize, Turn(f, left)
  PROVE  \/ pc' = "idle" /\ left = 0
         \/ pc' = "word" /\ n + 1 \in DOMAIN f.blocks /\ datasize' = BlockLen(f, n + 1)
         \/ pc' = "fragment" /\ n = Len(f.blocks) /\ f.fragment # None
<1>1. /\ BlockSize \in Nat \ {0} /\ n \in Nat /\ Len(f.blocks) \in Nat /\ f.size \in Nat
      /\ n * BlockSize \in Nat /\ (n + 1) - 1 = n
  <2>1. Len(f.blocks) \in Nat BY FileTyped
  <2>2. n \in Nat BY <2>1
  <2>. QED BY <2>1, <2>2, SizesTyped, FileTyped, Times
<1>2. CASE /\ left > BlockSize \/ (left > 0 /\ f.fragment = None)
           /\ pc' = "word" /\ datasize' = Least(left, BlockSize)
  <2>1. n # Len(f.blocks)
    <3>. SUFFICES ASSUME n = Len(f.blocks) PROVE FALSE OBVIOUS
    <3>1. left = f.size - Len(f.blocks) * BlockSize OBVIOUS
    <3>2. Len(f.blocks) * BlockSize \in Nat BY FileSpan
    <3>3. CASE f.fragment = None
      <4>1. f.size <= Len(f.blocks) * BlockSize BY <3>3, FileSpan
      <4>. QED BY <1>1, <1>2, <3>1, <3>2, <4>1
    <3>4. CASE f.fragment # None
      <4>1. left \in 1..(BlockSize - 1) BY <3>1, <3>4, FileSpan
      <4>. QED BY <1>1, <1>2, <3>4, <4>1
    <3>. QED BY <3>3, <3>4
  <2>2. n + 1 \in DOMAIN f.blocks BY <1>1, <2>1, FileTyped
  <2>3. BlockLen(f, n + 1) = Least(f.size - ((n + 1) - 1) * BlockSize, BlockSize)
    BY <2>2, BlockSpan
  <2>4. BlockLen(f, n + 1) = Least(left, BlockSize) BY <1>1, <2>3
  <2>. QED BY <1>2, <2>2, <2>4
<1>3. CASE /\ left \in 1..BlockSize /\ f.fragment # None
           /\ pc' = "fragment" /\ UNCHANGED datasize
  <2>1. n = Len(f.blocks)
    <3>. SUFFICES ASSUME n < Len(f.blocks) PROVE FALSE BY <1>1
    <3>1. n * BlockSize + BlockSize <= Len(f.blocks) * BlockSize
      BY <1>1, TimesLess
    <3>2. f.size - Len(f.blocks) * BlockSize >= 1 /\ Len(f.blocks) * BlockSize \in Nat
      BY <1>3, FileSpan
    <3>. QED BY <1>1, <1>3, <3>1, <3>2
  <2>. QED BY <1>3, <2>1
<1>. QED BY <1>2, <1>3 DEF Turn

-----------------------------------------------------------------------------
(* The types. *)
LEMMA TypeParts ==
  /\ TypeOK <=> /\ pc \in Places /\ CatTyped /\ FragmentTypeOK /\ IdTyped
                /\ Len(word) <= WordSize /\ DOMAIN anyblock = 1..BlockSize
  /\ TypeOK' <=> /\ pc' \in Places /\ CatTyped' /\ FragmentTypeOK' /\ IdTyped'
                 /\ Len(word') <= WordSize /\ DOMAIN anyblock' = 1..BlockSize
BY DEF TypeOK, Places, CatTyped, FragmentTypeOK, IdTyped

LEMMA BufferFull ==
  ASSUME NEW b \in [1..BlockSize -> Byte]
  PROVE  b \in Seq(Byte) /\ Len(b) = BlockSize /\ DOMAIN b = 1..BlockSize
BY SizesTyped, FunctionIsSeq

LEMMA BufferIs ==
  ASSUME BytesTyped
  PROVE  anyblock \in [1..BlockSize -> Byte] /\ DOMAIN anyblock = 1..BlockSize
<1>1. anyblock \in Seq(Byte) /\ Len(anyblock) = BlockSize BY DEF BytesTyped
<1>. QED BY <1>1, LenProperties

LEMMA GarbageTyped ==
  /\ Garbage \in Byte /\ Zero \in Byte
  /\ [i \in 1..BlockSize |-> Garbage] \in [1..BlockSize -> Byte]
<1>1. Garbage \in Byte /\ Zero \in Byte BY DEF Byte
<1>. QED BY <1>1

LEMMA MetablockTyped ==
  ASSUME BytesTyped, LoadMetablock
  PROVE  anyblock' \in [1..BlockSize -> Byte]
<1>1. CASE UNCHANGED anyblock BY <1>1, BufferIs
<1>2. CASE anyblock' = [i \in 1..BlockSize |-> Garbage] BY <1>2, GarbageTyped
<1>. QED BY <1>1, <1>2 DEF LoadMetablock

LEMMA OverwriteTyped ==
  ASSUME BytesTyped, NEW bytes \in Seq(Byte), Overwrite(bytes)
  PROVE  /\ anyblock' \in [1..BlockSize -> Byte]
         /\ Len(bytes) <= BlockSize => \A i \in 1..Len(bytes) : anyblock'[i] = bytes[i]
<1>1. anyblock \in [1..BlockSize -> Byte] BY BufferIs
<1>2. anyblock' = [i \in 1..BlockSize |-> IF i <= Len(bytes) THEN bytes[i] ELSE anyblock[i]]
  BY DEF Overwrite
<1>3. Len(bytes) \in Nat /\ BlockSize \in Nat BY LenProperties, SizesTyped
<1>4. ASSUME NEW i \in 1..BlockSize, i <= Len(bytes) PROVE bytes[i] \in Byte
  <2>1. i \in 1..Len(bytes) BY <1>3, <1>4
  <2>. QED BY <2>1, ElementOfSeq
<1>5. anyblock' \in [1..BlockSize -> Byte] BY <1>1, <1>2, <1>4
<1>6. ASSUME Len(bytes) <= BlockSize, NEW i \in 1..Len(bytes)
      PROVE  anyblock'[i] = bytes[i]
  <2>1. i \in 1..BlockSize /\ i <= Len(bytes) BY <1>3, <1>6
  <2>. QED BY <1>2, <2>1
<1>. QED BY <1>5, <1>6

-----------------------------------------------------------------------------
(* cat begins. *)
LEMMA AfterInodeIs ==
  ASSUME NEW f \in File
  PROVE  /\ AfterInode(f) \in [meta : Nat, at : 0..MetaSize, left : 0..MetaSize]
         /\ AfterInode(f).at + AfterInode(f).left = MetaSize
         /\ AfterInode(f).meta * MetaSize + AfterInode(f).at = f.list
<1>. DEFINE meta == (f.list - 1) \div MetaSize
            start == meta * MetaSize
            at == f.list - start
<1>1. f.list \in Nat \ {0} /\ f.list - 1 \in Nat /\ MetaSize \in Nat \ {0}
  BY FileTyped, SizesTyped
<1>2. /\ meta \in Nat /\ (f.list - 1) % MetaSize \in 0..(MetaSize - 1)
      /\ f.list - 1 = start + ((f.list - 1) % MetaSize)
  BY <1>1, DivMod
<1>3. start \in Nat BY <1>1, <1>2, Times
<1>4. AfterInode(f) = [meta |-> meta, at |-> at, left |-> MetaSize - at]
  BY DEF AfterInode
<1>5. at \in 1..MetaSize /\ MetaSize - at \in 0..MetaSize /\ at + (MetaSize - at) = MetaSize
      /\ start + at = f.list
  <2>. DEFINE r == (f.list - 1) % MetaSize
  <2>1. r \in 0..(MetaSize - 1) /\ f.list - 1 = start + r BY <1>2
  <2>. HIDE DEF start, r
  <2>. QED BY <1>1, <1>3, <2>1
<1>. HIDE DEF meta, at
<1>6. meta * MetaSize + at = f.list BY <1>5
<1>7. at \in 0..MetaSize BY <1>1, <1>5
<1>. QED BY <1>2, <1>4, <1>5, <1>6, <1>7

LEMMA StartKeeps ==
  ASSUME IInv, NEW f \in File, StartCat(f)
  PROVE  IInv'
<1>. DEFINE left == f.size % Wrap
<1>1. /\ file' = f /\ cursor' = AfterInode(f) /\ fulloffset' = f.start /\ out' = <<>>
      /\ Turn(f, left) /\ LoadMetablock
      /\ UNCHANGED <<fragment, fragblock, asked, answer>>
  BY DEF StartCat, idVars
<1>2. /\ TypeOK /\ BytesTyped /\ CatTyped /\ FragmentTypeOK /\ IdTyped /\ IdsRight
      /\ datasize \in 0..BlockSize
  BY TypeParts DEF IInv, CatTyped
<1>3. left \in 0..(Wrap - 1) /\ f.size \in Nat /\ f.start \in Nat
  <2>1. f.size \in Nat /\ Wrap \in Nat \ {0} /\ f.start \in Nat
    BY FileTyped, SizesTyped
  <2>. QED BY <2>1, DivMod
<1>. HIDE DEF left
<1>4. /\ bytesleft' = left /\ word' = <<>> /\ datasize' \in 0..BlockSize
      /\ pc' \in {"idle", "word", "fragment"}
      /\ pc' = "word" => datasize' > 0 /\ datasize' <= bytesleft'
      /\ pc' = "fragment" => f.fragment # None /\ bytesleft' > 0
  BY <1>1, <1>2, <1>3, TurnCounts
<1>5. /\ anyblock' \in Seq(Byte) /\ Len(anyblock') = BlockSize
      /\ DOMAIN anyblock' = 1..BlockSize
  BY <1>1, <1>2, MetablockTyped, BufferFull
<1>6. word' \in Seq(Nat) /\ Len(word') = 0 /\ out' \in Seq(Byte) /\ Len(out') = 0
  BY <1>1, <1>4, EmptySeq
<1>7. TypeOK'
  <2>1. CatTyped' BY <1>1, <1>3, <1>4, AfterInodeIs DEF CatTyped
  <2>2. FragmentTypeOK' /\ IdTyped' BY <1>1, <1>2 DEF FragmentTypeOK, IdTyped
  <2>3. Len(word') <= WordSize BY <1>6, SizesTyped
  <2>4. pc' \in Places BY <1>4 DEF Places
  <2>. QED BY <1>5, <2>1, <2>2, <2>3, <2>4, TypeParts
<1>8. BytesTyped' BY <1>1, <1>2, <1>5, <1>6 DEF BytesTyped
<1>9. CountInv'
  <2>1. Len(word') < WordSize BY <1>6, SizesTyped
  <2>. QED BY <1>1, <1>4, <2>1, AfterInodeIs DEF CountInv
<1>10. IdsRight' BY <1>1, <1>2 DEF IdsRight
<1>11. PrintInv'
  <2>. SUFFICES ASSUME Fits' PROVE PrintInv' BY DEF PrintInv
  <2>1. left = f.size
    <3>1. f.size < Wrap BY <1>1 DEF Fits
    <3>. QED BY <1>3, <3>1, SizesTyped DEF left
  <2>2. 0 * BlockSize = 0 /\ 0 \in 0..Len(f.blocks) /\ Len(f.blocks) \in Nat
    BY SizesTyped, FileTyped
  <2>3. left = f.size - 0 * BlockSize /\ left \in Nat BY <1>3, <2>1, <2>2
  <2>4. \/ pc' = "idle" /\ left = 0
        \/ pc' = "word" /\ 0 + 1 \in DOMAIN f.blocks /\ datasize' = BlockLen(f, 0 + 1)
        \/ pc' = "fragment" /\ 0 = Len(f.blocks) /\ f.fragment # None
    BY <1>1, <2>2, <2>3, TurnAt
  <2>5. OutInv' BY <1>1, <1>3, <1>6 DEF OutInv
  <2>6. pc' = "idle" => Len(out') = file'.size BY <1>1, <1>6, <2>1, <2>4
  <2>7. pc' = "word" => 1 \in DOMAIN f.blocks /\ BlockInv(1)'
    <3>. SUFFICES ASSUME pc' = "word" PROVE 1 \in DOMAIN f.blocks /\ BlockInv(1)'
      OBVIOUS
    <3>1. 1 \in DOMAIN f.blocks /\ datasize' = BlockLen(f, 1) BY <2>4
    <3>2. (1 - 1) * BlockSize = 0 /\ (1 - 1) * WordSize = 0 BY SizesTyped
    <3>3. Len(out') = (1 - 1) * BlockSize BY <1>6, <3>2
    <3>4. bytesleft' = file'.size - (1 - 1) * BlockSize BY <1>1, <1>3, <1>4, <2>1, <3>2
    <3>5. fulloffset' = file'.blocks[1].at
      <4>1. f.blocks[1].at = f.start
        BY <3>1, ArchiveAssumption DEF ArchiveAssumption, WellFormed
      <4>. QED BY <1>1, <4>1
    <3>6. WordPlace(1)' = f.list /\ f.list \in Nat BY <1>1, <3>2, FileTyped DEF WordPlace
    <3>7. Place' = WordPlace(1)' + Len(word')
      <4>1. Place' = f.list BY <1>1, AfterInodeIs DEF Place
      <4>. QED BY <1>6, <3>6, <4>1
    <3>8. word' = [j \in 1..Len(word') |-> WordPlace(1)' + j - 1] BY <1>4, <1>6
    <3>. QED BY <1>1, <3>1, <3>3, <3>4, <3>5, <3>7, <3>8 DEF BlockInv
  <2>8. pc' = "fragment" => TailInv'
    <3>. SUFFICES ASSUME pc' = "fragment" PROVE TailInv' OBVIOUS
    <3>1. 0 = Len(f.blocks) BY <2>4
    <3>. QED BY <1>1, <1>4, <1>6, <2>1, <2>2, <2>3, <3>1 DEF TailInv, TailLen
  <2>. QED BY <1>1, <1>4, <2>5, <2>6, <2>7, <2>8 DEF PrintInv
<1>. QED BY <1>7, <1>8, <1>9, <1>10, <1>11 DEF IInv

-----------------------------------------------------------------------------
(* Between two cats: what does not touch what cat works on. *)
LEMMA IdleKeeps ==
  ASSUME IInv, UNCHANGED <<catVars, fragblock>>, IdTyped', IdsRight',
         anyblock' \in [1..BlockSize -> Byte],
         pc' = "exited" \/ (pc = "idle" /\ pc' = "idle")
  PROVE  IInv'
<1>1. /\ UNCHANGED <<file, bytesleft, datasize, fulloffset, cursor, word, fragment,
                     out, fragblock>>
      /\ TypeOK /\ BytesTyped /\ PrintInv
  BY DEF catVars, IInv
<1>2. TypeOK'
  <2>1. CatTyped' /\ FragmentTypeOK' /\ Len(word') <= WordSize
    BY <1>1, TypeParts DEF CatTyped, FragmentTypeOK
  <2>2. pc' \in Places BY DEF Places
  <2>. QED BY <2>1, <2>2, BufferFull, TypeParts
<1>3. BytesTyped' BY <1>1, BufferFull DEF BytesTyped
<1>4. CountInv' BY DEF CountInv
<1>5. PrintInv'
  <2>. SUFFICES ASSUME Fits' PROVE PrintInv' BY DEF PrintInv
  <2>1. Fits BY <1>1 DEF Fits
  <2>2. OutInv' BY <1>1, <2>1 DEF PrintInv, OutInv
  <2>3. pc' = "idle" => Len(out') = file'.size BY <1>1, <2>1 DEF PrintInv
  <2>. QED BY <2>2, <2>3 DEF PrintInv
<1>. QED BY <1>2, <1>3, <1>4, <1>5 DEF IInv

(* fetch_id: below the number it divides by, the metablock is the first one
   and the place in it is the index. *)
LEMMA FetchKeeps ==
  ASSUME IInv, NEW i \in 0..IdCount, FetchId(i) \/ FetchIdFails(i)
  PROVE  IInv'
<1>1. /\ IdsDivisor \in Nat \ {0} /\ IdsPerMetablock \in Nat \ {0} /\ IdCount \in Nat
      /\ i \in Nat
  <2>1. /\ IdsPerMetablock \in Nat /\ IdsDivisor \in 1..IdsPerMetablock /\ IdCount \in Nat
    BY ArchiveAssumption DEF ArchiveAssumption
  <2>. QED BY <2>1
<1>2. CASE FetchId(i)
  <2>. DEFINE n == i \div IdsDivisor
              id == n * IdsPerMetablock + SlotOf(i)
  <2>1. /\ pc = "idle" /\ i < IdCount /\ asked' = i /\ LoadMetablock
        /\ UNCHANGED <<pc, catVars, fragblock>>
        /\ IF n < IdMetablocks /\ id < IdCount THEN answer' = id ELSE answer' = Garbage
    BY <1>2 DEF FetchId
  <2>2. n \in Nat /\ SlotOf(i) \in Nat
    <3>1. i \div IdsDivisor \in Nat /\ i % IdsDivisor \in 0..(IdsDivisor - 1)
      BY <1>1, DivMod
    <3>. QED BY <1>1, <3>1 DEF SlotOf
  <2>3. id \in Nat
    <3>1. n * IdsPerMetablock \in Nat BY <1>1, <2>2, Times
    <3>. HIDE DEF n
    <3>. QED BY <2>2, <3>1
  <2>4. i < IdsDivisor => n = 0 /\ SlotOf(i) = i
    <3>. SUFFICES ASSUME i < IdsDivisor PROVE n = 0 /\ SlotOf(i) = i OBVIOUS
    <3>1. i \in 0..(IdsDivisor - 1) /\ 0 * IdsDivisor + i = i BY <1>1
    <3>2. (0 * IdsDivisor + i) \div IdsDivisor = 0 /\ (0 * IdsDivisor + i) % IdsDivisor = i
      BY <1>1, <3>1, DivOf
    <3>. QED BY <3>1, <3>2 DEF SlotOf
  <2>5. i < IdsDivisor => answer' = i
    <3>. SUFFICES ASSUME i < IdsDivisor PROVE answer' = i OBVIOUS
    <3>1. n = 0 /\ SlotOf(i) = i BY <2>4
    <3>2. id = i
      <4>1. 0 * IdsPerMetablock = 0 BY <1>1
      <4>. QED BY <1>1, <3>1, <4>1
    <3>3. 0 < IdMetablocks
      <4>1. IdCount - 1 \in Nat BY <1>1, <2>1
      <4>2. (IdCount - 1) \div IdsPerMetablock \in Nat BY <1>1, <4>1, DivMod
      <4>. QED BY <4>2 DEF IdMetablocks
    <3>. HIDE DEF n, id
    <3>. QED BY <2>1, <3>1, <3>2, <3>3
  <2>6. answer' \in 0..IdCount \cup {Garbage, None}
    <3>. HIDE DEF n, id
    <3>. QED BY <1>1, <2>1, <2>3
  <2>7. IdTyped' /\ IdsRight' BY <2>1, <2>5, <2>6 DEF IdTyped, IdsRight
  <2>8. anyblock' \in [1..BlockSize -> Byte] BY <2>1, MetablockTyped DEF IInv
  <2>. QED BY <2>1, <2>7, <2>8, IdleKeeps
<1>3. CASE FetchIdFails(i)
  <2>1. IdTyped' /\ IdsRight' BY <1>3 DEF FetchIdFails, IdTyped, IdsRight
  <2>2. anyblock' \in [1..BlockSize -> Byte] BY <1>3, BufferIs DEF FetchIdFails, IInv
  <2>. QED BY <1>3, <2>1, <2>2, IdleKeeps DEF FetchIdFails
<1>. QED BY <1>2, <1>3

LEMMA FailKeeps ==
  ASSUME IInv, Fail
  PROVE  IInv'
<1>1. pc' = "exited" /\ UNCHANGED <<catVars, anyblock, fragblock, asked, answer>>
  BY DEF Fail, idVars
<1>2. IdTyped' /\ IdsRight' BY <1>1, TypeParts DEF IInv, IdTyped, IdsRight
<1>3. anyblock' \in [1..BlockSize -> Byte] BY <1>1, BufferIs DEF IInv
<1>. QED BY <1>1, <1>2, <1>3, IdleKeeps

-----------------------------------------------------------------------------
(* The word of a block. *)
LEMMA CopyWordKeeps ==
  ASSUME IInv, CopyWord
  PROVE  IInv'
<1>. DEFINE k == Least(cursor.left, WordSize - Len(word))
            copied == [j \in 1..k |-> Place + j - 1]
<1>1. /\ pc = "word" /\ cursor.left > 0 /\ word' = word \o copied
      /\ cursor' = [cursor EXCEPT !.at = @ + k, !.left = @ - k]
      /\ pc' = IF Len(word') = WordSize THEN "block" ELSE "word"
      /\ UNCHANGED <<file, bytesleft, datasize, fulloffset, anyblock, fragment,
                     fragblock, out, asked, answer>>
  BY DEF CopyWord, Place, idVars
<1>2. /\ TypeOK /\ BytesTyped /\ CountInv /\ PrintInv /\ IdsRight
      /\ CatTyped /\ FragmentTypeOK /\ IdTyped /\ DOMAIN anyblock = 1..BlockSize
  BY TypeParts DEF IInv
<1>3. /\ file \in File /\ cursor.at + cursor.left = MetaSize
      /\ datasize > 0 /\ datasize <= bytesleft /\ Len(word) < WordSize
  BY <1>1, <1>2 DEF CountInv
<1>4. /\ cursor.at \in Nat /\ cursor.left \in Nat /\ cursor.meta \in Nat
      /\ MetaSize \in Nat /\ WordSize \in Nat /\ Len(word) \in Nat /\ word \in Seq(Nat)
      /\ cursor \in [meta : Nat, at : 0..MetaSize, left : 0..MetaSize]
  BY <1>2, SizesTyped, LenProperties DEF CatTyped, BytesTyped
<1>5. k \in Nat \ {0} /\ k <= cursor.left /\ k <= WordSize - Len(word)
  BY <1>1, <1>3, <1>4 DEF Least
<1>6. Place \in Nat
  <2>1. cursor.meta * MetaSize \in Nat BY <1>4, Times
  <2>. QED BY <1>4, <2>1 DEF Place
<1>. HIDE DEF k
<1>7. copied \in Seq(Nat) /\ Len(copied) = k
  <2>1. copied \in [1..k -> Nat] BY <1>5, <1>6
  <2>. QED BY <1>5, <2>1, FunctionIsSeq
<1>8. /\ word' \in Seq(Nat) /\ Len(word') = Len(word) + k
      /\ \A j \in 1..Len(word) + k :
           word'[j] = IF j <= Len(word) THEN word[j] ELSE copied[j - Len(word)]
  <2>1. word' = word \o copied BY <1>1
  <2>. HIDE DEF copied
  <2>2. /\ word \o copied \in Seq(Nat) /\ Len(word \o copied) = Len(word) + Len(copied)
        /\ \A j \in 1..Len(word) + Len(copied) :
             (word \o copied)[j] = IF j <= Len(word) THEN word[j] ELSE copied[j - Len(word)]
    BY <1>4, <1>7, ConcatProperties
  <2>. QED BY <1>7, <2>1, <2>2
<1>9. /\ cursor' \in [meta : Nat, at : 0..MetaSize, left : 0..MetaSize]
      /\ cursor'.at + cursor'.left = MetaSize
      /\ cursor'.meta = cursor.meta /\ cursor'.at = cursor.at + k
  <2>1. cursor.at + k \in 0..MetaSize /\ cursor.left - k \in 0..MetaSize
        /\ (cursor.at + k) + (cursor.left - k) = MetaSize
    BY <1>3, <1>4, <1>5
  <2>2. /\ cursor'.meta = cursor.meta /\ cursor'.at = cursor.at + k
        /\ cursor'.left = cursor.left - k
        /\ cursor' = [meta |-> cursor'.meta, at |-> cursor'.at, left |-> cursor'.left]
    BY <1>1, <1>4
  <2>. QED BY <1>4, <2>1, <2>2
<1>10. pc' \in {"word", "block"} BY <1>1
<1>11. TypeOK'
  <2>1. CatTyped' BY <1>1, <1>2, <1>9 DEF CatTyped
  <2>2. FragmentTypeOK' /\ IdTyped' BY <1>1, <1>2 DEF FragmentTypeOK, IdTyped
  <2>3. Len(word') <= WordSize BY <1>4, <1>5, <1>8
  <2>4. pc' \in Places BY <1>10 DEF Places
  <2>. QED BY <1>1, <1>2, <2>1, <2>2, <2>3, <2>4, TypeParts
<1>12. BytesTyped' BY <1>1, <1>2, <1>8 DEF BytesTyped
<1>13. CountInv'
  <2>1. pc' = "word" => Len(word') < WordSize
    <3>1. Len(word') <= WordSize /\ Len(word') \in Nat BY <1>4, <1>5, <1>8
    <3>2. pc' = "word" => Len(word') # WordSize BY <1>1
    <3>. QED BY <1>4, <3>1, <3>2
  <2>. QED BY <1>1, <1>3, <1>9, <1>10, <2>1 DEF CountInv
<1>14. IdsRight' BY <1>1, <1>2 DEF IdsRight
<1>15. PrintInv'
  <2>. SUFFICES ASSUME Fits' PROVE PrintInv' BY DEF PrintInv
  <2>1. Fits BY <1>1 DEF Fits
  <2>2. OutInv' BY <1>1, <1>2, <2>1 DEF PrintInv, OutInv
  <2>3. PICK n \in DOMAIN file.blocks : BlockInv(n) BY <1>1, <1>2, <2>1 DEF PrintInv
  <2>4. WordPlace(n)' = WordPlace(n) /\ WordPlace(n) \in Nat
    <3>1. n - 1 \in Nat /\ file.list \in Nat BY <1>3, BlockTyped, FileTyped
    <3>2. (n - 1) * WordSize \in Nat BY <1>4, <3>1, Times
    <3>. QED BY <1>1, <3>1, <3>2 DEF WordPlace
  <2>5. Place = WordPlace(n) + Len(word)
        /\ word = [j \in 1..Len(word) |-> WordPlace(n) + j - 1]
    BY <1>1, <2>3 DEF BlockInv
  <2>6. Place' = WordPlace(n) + Len(word')
    <3>1. cursor.meta * MetaSize \in Nat BY <1>4, Times
    <3>2. Place' = Place + k BY <1>4, <1>5, <1>9, <3>1 DEF Place
    <3>. QED BY <1>4, <1>5, <1>8, <2>4, <2>5, <3>2
  <2>7. word' = [j \in 1..Len(word') |-> WordPlace(n) + j - 1]
    <3>1. ASSUME NEW j \in 1..Len(word')
          PROVE  word'[j] = WordPlace(n) + j - 1
      <4>1. j \in 1..Len(word) + k /\ j \in Nat BY <1>4, <1>5, <1>8
      <4>2. CASE j <= Len(word)
        <5>1. j \in 1..Len(word) BY <1>4, <4>1, <4>2
        <5>. QED BY <1>8, <2>5, <4>1, <4>2, <5>1
      <4>3. CASE ~(j <= Len(word))
        <5>1. j - Len(word) \in 1..k BY <1>4, <1>5, <4>1, <4>3
        <5>2. copied[j - Len(word)] = Place + (j - Len(word)) - 1 BY <5>1
        <5>3. word'[j] = copied[j - Len(word)] BY <1>8, <4>1, <4>3
        <5>. HIDE DEF copied
        <5>. QED BY <1>4, <2>4, <2>5, <4>1, <5>2, <5>3
      <4>. QED BY <4>2, <4>3
    <3>2. word' = [j \in 1..Len(word') |-> word'[j]] BY <1>8
    <3>. QED BY <3>1, <3>2
  <2>8. BlockInv(n)'
    <3>1. pc' = "block" => Len(word') = WordSize BY <1>1
    <3>. QED BY <1>1, <1>10, <2>3, <2>4, <2>6, <2>7, <3>1 DEF BlockInv
  <2>. QED BY <1>1, <1>10, <2>2, <2>3, <2>8 DEF PrintInv
<1>. QED BY <1>11, <1>12, <1>13, <1>14, <1>15 DEF IInv

LEMMA AdvanceMetaKeeps ==
  ASSUME IInv, AdvanceMeta
  PROVE  IInv'
<1>1. /\ pc = "word" /\ cursor.left = 0 /\ pc' = pc /\ LoadMetablock
      /\ cursor' = [meta |-> cursor.meta + 1, at |-> 0, left |-> MetaSize]
      /\ UNCHANGED <<file, bytesleft, datasize, fulloffset, word, fragment,
                     fragblock, out, asked, answer>>
  BY DEF AdvanceMeta, NextMeta, idVars
<1>2. /\ TypeOK /\ BytesTyped /\ CountInv /\ PrintInv /\ IdsRight
      /\ CatTyped /\ FragmentTypeOK /\ IdTyped /\ Len(word) <= WordSize
  BY TypeParts DEF IInv
<1>3. /\ file \in File /\ cursor.at + cursor.left = MetaSize
      /\ datasize > 0 /\ datasize <= bytesleft /\ Len(word) < WordSize
  BY <1>1, <1>2 DEF CountInv
<1>4. cursor.meta \in Nat /\ MetaSize \in Nat /\ cursor.at \in Nat
  BY <1>2, SizesTyped DEF CatTyped
<1>5. anyblock' \in [1..BlockSize -> Byte] BY <1>1, <1>2, MetablockTyped
<1>6. /\ cursor' \in [meta : Nat, at : 0..MetaSize, left : 0..MetaSize]
      /\ cursor'.at + cursor'.left = MetaSize
  BY <1>1, <1>4
<1>7. Place' = Place
  <2>1. (cursor.meta + 1) * MetaSize = cursor.meta * MetaSize + MetaSize
        /\ cursor.meta * MetaSize \in Nat
    BY <1>4, Times
  <2>2. Place' = (cursor.meta + 1) * MetaSize + 0 BY <1>1 DEF Place
  <2>3. cursor.at = MetaSize BY <1>1, <1>3, <1>4
  <2>. QED BY <1>4, <2>1, <2>2, <2>3 DEF Place
<1>8. TypeOK'
  <2>1. CatTyped' BY <1>1, <1>2, <1>6 DEF CatTyped
  <2>2. FragmentTypeOK' /\ IdTyped' BY <1>1, <1>2 DEF FragmentTypeOK, IdTyped
  <2>3. pc' \in Places BY <1>1 DEF Places
  <2>. QED BY <1>1, <1>2, <1>5, <2>1, <2>2, <2>3, BufferFull, TypeParts
<1>9. BytesTyped' BY <1>1, <1>2, <1>5, BufferFull DEF BytesTyped
<1>10. CountInv' BY <1>1, <1>3, <1>6 DEF CountInv
<1>11. IdsRight' BY <1>1, <1>2 DEF IdsRight
<1>12. PrintInv'
  <2>. SUFFICES ASSUME Fits' PROVE PrintInv' BY DEF PrintInv
  <2>1. Fits BY <1>1 DEF Fits
  <2>2. OutInv' BY <1>1, <1>2, <2>1 DEF PrintInv, OutInv
  <2>3. PICK n \in DOMAIN file.blocks : BlockInv(n) BY <1>1, <1>2, <2>1 DEF PrintInv
  <2>4. WordPlace(n)' = WordPlace(n) BY <1>1 DEF WordPlace
  <2>5. BlockInv(n)' BY <1>1, <1>7, <2>3, <2>4 DEF BlockInv
  <2>. QED BY <1>1, <2>2, <2>3, <2>5 DEF PrintInv
<1>. QED BY <1>8, <1>9, <1>10, <1>11, <1>12 DEF IInv

-----------------------------------------------------------------------------
(* The block itself.  The buffer holds it after any of the three ways. *)
LEMMA AtBlock ==
  ASSUME file \in File, NEW k \in DOMAIN file.blocks, BlockInv(k), pc = "block"
  PROVE  /\ <<file, k>> \in Listed(word)
         /\ \A gk \in Listed(word) :
              /\ gk[1].blocks[gk[2]].sod = file.blocks[k].sod
              /\ gk[1].blocks[gk[2]].stored = file.blocks[k].stored
         /\ fulloffset = file.blocks[k].at /\ datasize = BlockLen(file, k)
         /\ datasize \in 1..BlockSize
<1>1. word = [j \in 1..WordSize |-> file.list + (k - 1) * WordSize + j - 1]
  BY DEF BlockInv, WordPlace
<1>2. datasize = BlockLen(file, k) /\ fulloffset = file.blocks[k].at BY DEF BlockInv
<1>3. datasize \in 1..BlockSize BY <1>2, BlockSpan
<1>. QED BY <1>1, <1>2, <1>3, ListedAt

LEMMA ListedTyped ==
  ASSUME NEW gk \in Listed(word)
  PROVE  gk[1].blocks[gk[2]].sod \in Nat
<1>1. gk \in Blocks BY DEF Listed
<1>2. PICK g \in File : \E h \in DOMAIN g.blocks : gk = <<g, h>> BY <1>1, BlocksAre
<1>3. PICK h \in DOMAIN g.blocks : gk = <<g, h>> BY <1>2
<1>. QED BY <1>3, BlockTyped

LEMMA ZerosTyped ==
  ASSUME datasize \in 0..BlockSize
  PROVE  /\ [i \in 1..datasize |-> Zero] \in Seq(Byte)
         /\ Len([i \in 1..datasize |-> Zero]) = datasize
<1>1. [i \in 1..datasize |-> Zero] \in [1..datasize -> Byte] BY GarbageTyped
<1>2. datasize \in Nat BY SizesTyped
<1>. QED BY <1>1, <1>2, FunctionIsSeq

LEMMA ReadBlockKeeps ==
  ASSUME IInv, ReadBlock
  PROVE  IInv'
<1>1. /\ pc = "block" /\ pc' = "write"
      /\ UNCHANGED <<file, bytesleft, datasize, cursor, word, fragment, fragblock,
                     out, asked, answer>>
  BY DEF ReadBlock, idVars
<1>2. PICK gk \in Listed(word) :
        LET b == gk[1].blocks[gk[2]] IN
          /\ \/ Sparse(b) /\ SparseBlock
             \/ Stored(b) /\ Overwrite(OnDisk(fulloffset, datasize))
             \/ Packed(b) /\ Overwrite(OnDisk(fulloffset, b.sod))
          /\ fulloffset' = Beyond(b)
  BY DEF ReadBlock
<1>. DEFINE b == gk[1].blocks[gk[2]]
<1>3. /\ TypeOK /\ BytesTyped /\ CountInv /\ PrintInv /\ IdsRight
      /\ CatTyped /\ FragmentTypeOK /\ IdTyped /\ Len(word) <= WordSize
  BY TypeParts DEF IInv
<1>4. /\ file \in File /\ cursor.at + cursor.left = MetaSize
      /\ datasize > 0 /\ datasize <= bytesleft /\ datasize \in 0..BlockSize
      /\ datasize \in Nat /\ fulloffset \in Nat /\ b.sod \in Nat
  BY <1>1, <1>3, ListedTyped, SizesTyped DEF CountInv, CatTyped
<1>5. fulloffset' = fulloffset + b.sod BY <1>2 DEF Beyond
<1>6. PICK bytes \in Seq(Byte) :
        /\ Overwrite(bytes)
        /\ \/ Sparse(b) /\ bytes = [i \in 1..datasize |-> Zero]
           \/ Stored(b) /\ bytes = OnDisk(fulloffset, datasize)
           \/ Packed(b) /\ bytes = OnDisk(fulloffset, b.sod)
  <2>1. CASE Sparse(b) /\ SparseBlock BY <1>4, <2>1, ZerosTyped DEF SparseBlock
  <2>2. CASE Stored(b) /\ Overwrite(OnDisk(fulloffset, datasize))
    BY <1>4, <2>2, OnDiskTyped
  <2>3. CASE Packed(b) /\ Overwrite(OnDisk(fulloffset, b.sod))
    BY <1>4, <2>3, OnDiskTyped
  <2>. QED BY <1>2, <2>1, <2>2, <2>3
<1>7. anyblock' \in [1..BlockSize -> Byte] BY <1>3, <1>6, OverwriteTyped
<1>8. TypeOK'
  <2>1. CatTyped'
    <3>1. fulloffset' \in Nat
      <4>1. b.sod \in Nat /\ fulloffset \in Nat BY <1>4
      <4>. HIDE DEF b
      <4>. QED BY <1>5, <4>1
    <3>. QED BY <1>1, <1>3, <3>1 DEF CatTyped
  <2>2. FragmentTypeOK' /\ IdTyped' BY <1>1, <1>3 DEF FragmentTypeOK, IdTyped
  <2>3. pc' \in Places BY <1>1 DEF Places
  <2>. QED BY <1>1, <1>3, <1>7, <2>1, <2>2, <2>3, BufferFull, TypeParts
<1>9. BytesTyped' BY <1>1, <1>3, <1>7, BufferFull DEF BytesTyped
<1>10. CountInv' BY <1>1, <1>4 DEF CountInv
<1>11. IdsRight' BY <1>1, <1>3 DEF IdsRight
<1>12. PrintInv'
  <2>. SUFFICES ASSUME Fits' PROVE PrintInv' BY DEF PrintInv
  <2>1. Fits BY <1>1 DEF Fits
  <2>2. OutInv' BY <1>1, <1>3, <2>1 DEF PrintInv, OutInv
  <2>3. PICK n \in DOMAIN file.blocks : BlockInv(n) BY <1>1, <1>3, <2>1 DEF PrintInv
  <2>4. /\ b.sod = file.blocks[n].sod /\ b.stored = file.blocks[n].stored
        /\ fulloffset = file.blocks[n].at /\ datasize = BlockLen(file, n)
        /\ datasize \in 1..BlockSize
    BY <1>1, <1>4, <2>3, AtBlock
  <2>5. Bytes(file, n) \in Seq(Byte) /\ Len(Bytes(file, n)) = datasize
    BY <1>4, <2>4, BytesOf
  <2>6. Len(bytes) = datasize /\ \A i \in 1..datasize : bytes[i] = Bytes(file, n)[i]
    <3>1. CASE Sparse(b) /\ bytes = [i \in 1..datasize |-> Zero]
      <4>1. file.blocks[n].sod = 0 BY <2>4, <3>1 DEF Sparse
      <4>2. Bytes(file, n) = [i \in 1..datasize |-> Zero] BY <2>4, <4>1 DEF Bytes
      <4>. QED BY <2>5, <3>1, <4>2
    <3>2. CASE Stored(b) /\ bytes = OnDisk(fulloffset, datasize)
      <4>1. b.sod = datasize /\ b.sod # 0 BY <2>4, <3>2 DEF Stored
      <4>2. bytes = Bytes(file, n) BY <1>4, <2>4, <3>2, <4>1, RightOnDisk
      <4>. QED BY <2>5, <4>2
    <3>3. CASE Packed(b) /\ bytes = OnDisk(fulloffset, b.sod)
      <4>1. b.sod # 0 BY <1>4, <3>3 DEF Packed
      <4>2. bytes = Bytes(file, n) BY <1>4, <2>4, <3>3, <4>1, RightOnDisk
      <4>. QED BY <2>5, <4>2
    <3>. QED BY <1>6, <3>1, <3>2, <3>3
  <2>7. \A i \in 1..datasize : anyblock'[i] = Bytes(file, n)[i]
    <3>1. Len(bytes) <= BlockSize BY <1>4, <2>6, SizesTyped
    <3>. QED BY <1>3, <1>6, <2>6, <3>1, OverwriteTyped
  <2>8. WordPlace(n)' = WordPlace(n) /\ Place' = Place BY <1>1 DEF WordPlace, Place
  <2>9. Place = WordPlace(n) + WordSize BY <1>1, <2>3 DEF BlockInv
  <2>10. fulloffset' = file.blocks[n].at + file.blocks[n].sod BY <1>5, <2>4
  <2>11. BlockInv(n)' BY <1>1, <2>3, <2>7, <2>8, <2>9, <2>10 DEF BlockInv
  <2>. QED BY <1>1, <2>2, <2>3, <2>11 DEF PrintInv
<1>. QED BY <1>8, <1>9, <1>10, <1>11, <1>12 DEF IInv

(* It is printed. *)
LEMMA OutGrows ==
  ASSUME BytesTyped, file \in File, Fits, OutInv, NEW s \in Seq(Byte), out' = out \o s,
         file' = file, Len(out) + Len(s) <= file.size,
         \A j \in 1..Len(s) : s[j] = Contents(file)[Len(out) + j]
  PROVE  OutInv' /\ out' \in Seq(Byte) /\ Len(out') = Len(out) + Len(s)
<1>1. out \in Seq(Byte) /\ Len(out) \in Nat /\ Len(s) \in Nat
  BY LenProperties DEF BytesTyped
<1>2. /\ out' \in Seq(Byte) /\ Len(out') = Len(out) + Len(s)
      /\ \A i \in 1..Len(out) + Len(s) :
           out'[i] = IF i <= Len(out) THEN out[i] ELSE s[i - Len(out)]
  BY <1>1, ConcatProperties
<1>3. ASSUME NEW i \in 1..Len(out')
      PROVE  out'[i] = Contents(file)[i]
  <2>1. i \in 1..Len(out) + Len(s) /\ i \in Nat BY <1>1, <1>2
  <2>2. CASE i <= Len(out)
    <3>1. i \in 1..Len(out) BY <1>1, <2>1, <2>2
    <3>. QED BY <1>2, <2>1, <2>2, <3>1 DEF OutInv
  <2>3. CASE ~(i <= Len(out))
    <3>1. i - Len(out) \in 1..Len(s) /\ Len(out) + (i - Len(out)) = i
      BY <1>1, <2>1, <2>3
    <3>2. out'[i] = s[i - Len(out)] BY <1>2, <2>1, <2>3
    <3>3. s[i - Len(out)] = Contents(file)[Len(out) + (i - Len(out))] BY <3>1
    <3>. QED BY <3>1, <3>2, <3>3
  <2>. QED BY <2>2, <2>3
<1>. QED BY <1>2, <1>3 DEF OutInv

LEMMA PartOf ==
  ASSUME NEW s \in Seq(Byte), NEW m \in Nat, NEW n \in Nat, m + n <= Len(s)
  PROVE  /\ SubSeq(s, m + 1, m + n) \in Seq(Byte)
         /\ Len(SubSeq(s, m + 1, m + n)) = n
         /\ \A j \in 1..n : SubSeq(s, m + 1, m + n)[j] = s[m + j]
<1>0. Len(s) \in Nat BY LenProperties
<1>1. \A i \in m + 1..m + n : s[i] \in Byte
  <2>1. \A i \in m + 1..m + n : i \in 1..Len(s) BY <1>0
  <2>. QED BY <2>1, ElementOfSeq
<1>2. m + 1 \in Int /\ m + n \in Int OBVIOUS
<1>3. /\ SubSeq(s, m + 1, m + n) \in Seq(Byte)
      /\ Len(SubSeq(s, m + 1, m + n)) = IF m + 1 <= m + n THEN ((m + n) - (m + 1)) + 1 ELSE 0
      /\ \A j \in 1..((m + n) - (m + 1)) + 1 :
           SubSeq(s, m + 1, m + n)[j] = s[(m + 1) + (j - 1)]
  BY <1>1, <1>2, SubSeqProperties
<1>4. ((m + n) - (m + 1)) + 1 = n OBVIOUS
<1>5. Len(SubSeq(s, m + 1, m + n)) = n
  <2>1. CASE n = 0
    <3>1. ~(m + 1 <= m + n) BY <2>1
    <3>. QED BY <1>3, <2>1, <3>1
  <2>2. CASE n # 0
    <3>1. m + 1 <= m + n BY <2>2
    <3>. QED BY <1>3, <1>4, <3>1
  <2>. QED BY <2>1, <2>2
<1>6. ASSUME NEW j \in 1..n
      PROVE  SubSeq(s, m + 1, m + n)[j] = s[m + j]
  <2>1. (m + 1) + (j - 1) = m + j OBVIOUS
  <2>2. j \in 1..((m + n) - (m + 1)) + 1 BY <1>4
  <2>3. SubSeq(s, m + 1, m + n)[j] = s[(m + 1) + (j - 1)] BY <1>3, <2>2, Zenon
  <2>. QED BY <2>1, <2>3
<1>. QED BY <1>3, <1>5, <1>6

LEMMA WriteBlockKeeps ==
  ASSUME IInv, WriteBlock
  PROVE  IInv'
<1>. DEFINE left == bytesleft - datasize
            s == SubSeq(anyblock, 1, datasize)
<1>1. /\ pc = "write" /\ out' = out \o s /\ Turn(file, left)
      /\ UNCHANGED <<file, fulloffset, cursor, anyblock, fragment, fragblock,
                     asked, answer>>
  BY DEF WriteBlock, idVars
<1>2. /\ TypeOK /\ BytesTyped /\ CountInv /\ PrintInv /\ IdsRight
      /\ CatTyped /\ FragmentTypeOK /\ IdTyped /\ DOMAIN anyblock = 1..BlockSize
  BY TypeParts DEF IInv
<1>3. /\ file \in File /\ cursor.at + cursor.left = MetaSize
      /\ datasize > 0 /\ datasize <= bytesleft /\ datasize \in 0..BlockSize
      /\ datasize \in Nat /\ bytesleft \in 0..(Wrap - 1) /\ bytesleft \in Nat
      /\ BlockSize \in Nat \ {0} /\ Wrap \in Nat
  BY <1>1, <1>2, SizesTyped DEF CountInv, CatTyped
<1>4. left \in 0..(Wrap - 1) /\ left \in Nat /\ left = bytesleft - datasize BY <1>3
<1>5. /\ s \in Seq(Byte) /\ Len(s) = datasize
      /\ \A j \in 1..datasize : s[j] = anyblock[j]
  <2>1. anyblock \in Seq(Byte) /\ Len(anyblock) = BlockSize BY <1>2 DEF BytesTyped
  <2>2. 0 + 1 = 1 /\ 0 + datasize = datasize /\ 0 + datasize <= Len(anyblock)
    BY <1>3, <2>1
  <2>3. /\ SubSeq(anyblock, 0 + 1, 0 + datasize) \in Seq(Byte)
        /\ Len(SubSeq(anyblock, 0 + 1, 0 + datasize)) = datasize
        /\ \A j \in 1..datasize : SubSeq(anyblock, 0 + 1, 0 + datasize)[j] = anyblock[0 + j]
    BY <1>3, <2>1, <2>2, PartOf
  <2>4. \A j \in 1..datasize : 0 + j = j BY <1>3
  <2>. QED BY <2>2, <2>3, <2>4
<1>. HIDE DEF left, s
<1>6. /\ bytesleft' = left /\ word' = <<>> /\ datasize' \in 0..BlockSize
      /\ pc' \in {"idle", "word", "fragment"}
      /\ pc' = "word" => datasize' > 0 /\ datasize' <= bytesleft'
      /\ pc' = "fragment" => file.fragment # None /\ bytesleft' > 0
  BY <1>1, <1>3, <1>4, TurnCounts
<1>7. word' \in Seq(Nat) /\ Len(word') = 0 BY <1>6, EmptySeq
<1>8. out \in Seq(Byte) /\ out' \in Seq(Byte)
  BY <1>1, <1>2, <1>5, ConcatProperties DEF BytesTyped
<1>9. TypeOK'
  <2>1. CatTyped' BY <1>1, <1>2, <1>4, <1>6 DEF CatTyped
  <2>2. FragmentTypeOK' /\ IdTyped' BY <1>1, <1>2 DEF FragmentTypeOK, IdTyped
  <2>3. Len(word') <= WordSize BY <1>7, SizesTyped
  <2>4. pc' \in Places BY <1>6 DEF Places
  <2>. QED BY <1>1, <1>2, <2>1, <2>2, <2>3, <2>4, TypeParts
<1>10. BytesTyped' BY <1>1, <1>2, <1>7, <1>8 DEF BytesTyped
<1>11. CountInv'
  <2>1. Len(word') < WordSize BY <1>7, SizesTyped
  <2>. QED BY <1>1, <1>3, <1>6, <2>1 DEF CountInv
<1>12. IdsRight' BY <1>1, <1>2 DEF IdsRight
<1>13. PrintInv'
  <2>. SUFFICES ASSUME Fits' PROVE PrintInv' BY DEF PrintInv
  <2>1. Fits BY <1>1 DEF Fits
  <2>2. PICK n \in DOMAIN file.blocks : BlockInv(n) BY <1>1, <1>2, <2>1 DEF PrintInv
  <2>. DEFINE a == (n - 1) * BlockSize
  <2>3. /\ Len(out) = a /\ bytesleft = file.size - a /\ datasize = BlockLen(file, n)
        /\ fulloffset = file.blocks[n].at + file.blocks[n].sod
        /\ Place = WordPlace(n) + WordSize
        /\ \A i \in 1..datasize : anyblock[i] = Bytes(file, n)[i]
    BY <1>1, <2>2 DEF BlockInv
  <2>4. /\ a \in Nat /\ a < file.size /\ n * BlockSize = a + BlockSize
        /\ datasize = Least(file.size - a, BlockSize) /\ file.size \in Nat
    BY <1>3, <2>3, BlockSpan, FileTyped
  <2>5. \A j \in 1..datasize : /\ a + j \in 1..file.size
                                /\ s[j] = Contents(file)[a + j]
    BY <1>3, <1>5, <2>3, ContentsBlock
  <2>. HIDE DEF a
  <2>6. Len(out) + Len(s) <= file.size
    <3>1. datasize \in 1..datasize BY <1>3
    <3>2. a + datasize \in 1..file.size BY <2>5, <3>1
    <3>. QED BY <1>5, <2>3, <2>4, <3>2
  <2>7. OutInv' /\ Len(out') = a + datasize
    <3>1. OutInv BY <1>2, <2>1 DEF PrintInv
    <3>2. \A j \in 1..Len(s) : s[j] = Contents(file)[Len(out) + j]
      BY <1>5, <2>3, <2>5
    <3>. QED BY <1>1, <1>2, <1>3, <1>5, <2>1, <2>3, <2>6, <3>1, <3>2, OutGrows
  <2>8. CASE datasize < BlockSize
    <3>1. left = 0 /\ Len(out') = file.size
      <4>1. datasize = file.size - a BY <1>3, <2>4, <2>8 DEF Least
      <4>. QED BY <1>3, <1>4, <2>3, <2>4, <2>7, <4>1
    <3>2. pc' = "idle"
      <4>1. ~(left > BlockSize) /\ ~(left > 0) /\ left \notin 1..BlockSize
        BY <1>3, <3>1
      <4>. QED BY <1>1, <4>1 DEF Turn
    <3>. QED BY <1>1, <2>7, <3>1, <3>2 DEF PrintInv
  <2>9. CASE ~(datasize < BlockSize)
    <3>1. datasize = BlockSize BY <1>3, <2>9
    <3>2. Len(out') = n * BlockSize /\ left = file.size - n * BlockSize
          /\ n * BlockSize \in Nat
      BY <1>3, <1>4, <2>3, <2>4, <2>7, <3>1
    <3>3. n \in 1..Len(file.blocks) /\ n \in Nat /\ Len(file.blocks) \in Nat
      BY <1>3, BlockTyped, FileTyped
    <3>4. n \in 0..Len(file.blocks) /\ (n + 1) - 1 = n BY <3>3
    <3>5. \/ pc' = "idle" /\ left = 0
          \/ /\ pc' = "word" /\ n + 1 \in DOMAIN file.blocks
             /\ datasize' = BlockLen(file, n + 1)
          \/ pc' = "fragment" /\ n = Len(file.blocks) /\ file.fragment # None
      BY <1>1, <1>3, <1>4, <3>2, <3>4, TurnAt
    <3>6. CASE pc' = "idle" /\ left = 0
      <4>1. Len(out') = file'.size BY <1>1, <2>4, <3>2, <3>6
      <4>. QED BY <2>7, <3>6, <4>1 DEF PrintInv
    <3>7. CASE /\ pc' = "word" /\ n + 1 \in DOMAIN file.blocks
               /\ datasize' = BlockLen(file, n + 1)
      <4>1. Len(out') = ((n + 1) - 1) * BlockSize
            /\ bytesleft' = file'.size - ((n + 1) - 1) * BlockSize
        BY <1>1, <1>6, <3>2, <3>4
      <4>2. fulloffset' = file'.blocks[n + 1].at
        <5>1. n + 1 # 1 BY <3>3
        <5>2. file.blocks[n + 1].at
                = file.blocks[(n + 1) - 1].at + file.blocks[(n + 1) - 1].sod
          BY <1>3, <3>7, <5>1, ArchiveAssumption DEF ArchiveAssumption, WellFormed
        <5>. QED BY <1>1, <2>3, <3>4, <5>2
      <4>3. /\ WordPlace(n + 1)' = WordPlace(n) + WordSize
            /\ WordPlace(n + 1)' \in Nat
        <5>1. ((n + 1) - 1) * WordSize = (n - 1) * WordSize + WordSize
              /\ (n - 1) * WordSize \in Nat /\ file.list \in Nat /\ WordSize \in Nat
          <6>1. n - 1 \in Nat /\ WordSize \in Nat /\ file.list \in Nat
            BY <1>3, <3>3, SizesTyped, FileTyped
          <6>2. (n - 1) + 1 = (n + 1) - 1 BY <3>3
          <6>3. ((n - 1) + 1) * WordSize = (n - 1) * WordSize + WordSize
                /\ (n - 1) * WordSize \in Nat
            BY <6>1, Times
          <6>. QED BY <6>1, <6>2, <6>3
        <5>2. WordPlace(n + 1)' = file.list + ((n + 1) - 1) * WordSize
          BY <1>1 DEF WordPlace
        <5>. QED BY <5>1, <5>2 DEF WordPlace
      <4>4. Place' = WordPlace(n + 1)' + Len(word')
        <5>1. Place' = Place BY <1>1 DEF Place
        <5>. QED BY <1>7, <2>3, <4>3, <5>1
      <4>5. word' = [j \in 1..Len(word') |-> WordPlace(n + 1)' + j - 1]
        BY <1>6, <1>7
      <4>6. BlockInv(n + 1)' BY <1>1, <3>7, <4>1, <4>2, <4>4, <4>5 DEF BlockInv
      <4>. QED BY <1>1, <2>7, <3>7, <4>6 DEF PrintInv
    <3>8. CASE pc' = "fragment" /\ n = Len(file.blocks) /\ file.fragment # None
      <4>1. TailInv'
        BY <1>1, <1>6, <3>2, <3>8 DEF TailInv, TailLen
      <4>. QED BY <2>7, <3>8, <4>1 DEF PrintInv
    <3>. QED BY <3>5, <3>6, <3>7, <3>8
  <2>. QED BY <2>8, <2>9
<1>. QED BY <1>9, <1>10, <1>11, <1>12, <1>13 DEF IInv

-----------------------------------------------------------------------------
(* The tail.  The header of a fragment is found by the quotient and the
   remainder of its index. *)
LEMMA HeaderIs ==
  ASSUME NEW i \in Nat
  PROVE  HeaderRead(i) = i
BY SizesTyped, DivMod DEF HeaderRead

LEMMA LoadFragmentKeeps ==
  ASSUME IInv, LoadFragment
  PROVE  IInv'
<1>. DEFINE i == file.fragment
<1>1. /\ TypeOK /\ BytesTyped /\ CountInv /\ PrintInv /\ IdsRight
      /\ CatTyped /\ FragmentTypeOK /\ IdTyped /\ Len(word) <= WordSize
  BY TypeParts DEF IInv
<1>2. pc = "fragment" BY DEF LoadFragment
<1>3. file \in File /\ file.fragment # None /\ bytesleft > 0 BY <1>1, <1>2 DEF CountInv
<1>4. /\ i \in DOMAIN Fragment /\ i \in Nat /\ file.offset \in Nat
      /\ Fragment[i].size \in 1..BlockSize /\ Fragment[i].size \in Nat
      /\ FragmentBytes(i) \in Seq(Byte) /\ Len(FragmentBytes(i)) = Fragment[i].size
      /\ BlockSize \in Nat
  BY <1>3, FileSpan, FragmentTyped, SizesTyped
<1>5. HeaderRead(file.fragment) = i BY <1>4, HeaderIs
<1>6. /\ file.offset < Fragment[i].size /\ fragblock' = FragmentBytes(i)
      /\ fragment' = [at |-> file.offset, left |-> Fragment[i].size - file.offset]
      /\ pc' = "copy"
      /\ IF Fragment[i].stored THEN LoadMetablock
         ELSE anyblock' = [j \in 1..BlockSize |-> Garbage]
      /\ UNCHANGED <<file, bytesleft, datasize, fulloffset, cursor, word, out,
                     asked, answer>>
  BY <1>5 DEF LoadFragment, HasFragment, idVars
<1>7. anyblock' \in [1..BlockSize -> Byte]
  BY <1>1, <1>6, MetablockTyped, GarbageTyped
<1>8. /\ fragment' \in [at : 0..BlockSize, left : 0..BlockSize]
      /\ fragment'.at = file.offset /\ fragment'.left = Fragment[i].size - file.offset
      /\ fragment'.at + fragment'.left = Len(fragblock')
  <2>1. file.offset \in 0..BlockSize /\ Fragment[i].size - file.offset \in 0..BlockSize
        /\ file.offset + (Fragment[i].size - file.offset) = Fragment[i].size
    BY <1>4, <1>6
  <2>. QED BY <1>4, <1>6, <2>1
<1>9. TypeOK'
  <2>1. CatTyped' /\ IdTyped' BY <1>1, <1>6 DEF CatTyped, IdTyped
  <2>2. FragmentTypeOK' BY <1>4, <1>6, <1>8 DEF FragmentTypeOK
  <2>3. pc' \in Places BY <1>6 DEF Places
  <2>. QED BY <1>1, <1>6, <1>7, <2>1, <2>2, <2>3, BufferFull, TypeParts
<1>10. BytesTyped' BY <1>1, <1>4, <1>6, <1>7, BufferFull DEF BytesTyped
<1>11. CountInv'
  <2>1. fragment'.at + fragment'.left <= Len(fragblock') BY <1>4, <1>6, <1>8
  <2>. QED BY <1>3, <1>6, <2>1 DEF CountInv
<1>12. IdsRight' BY <1>1, <1>6 DEF IdsRight
<1>13. PrintInv'
  <2>. SUFFICES ASSUME Fits' PROVE PrintInv' BY DEF PrintInv
  <2>1. Fits BY <1>6 DEF Fits
  <2>2. OutInv' BY <1>1, <1>6, <2>1 DEF PrintInv, OutInv
  <2>3. TailInv BY <1>1, <1>2, <2>1 DEF PrintInv
  <2>4. TailInv' BY <1>6, <1>8, <2>3 DEF TailInv, TailLen
  <2>. QED BY <1>6, <2>2, <2>4 DEF PrintInv
<1>. QED BY <1>9, <1>10, <1>11, <1>12, <1>13 DEF IInv

LEMMA CopyFragmentKeeps ==
  ASSUME IInv, CopyFragment
  PROVE  IInv'
<1>. DEFINE k == CopyCount
            s == SubSeq(fragblock, fragment.at + 1, fragment.at + k)
<1>1. /\ pc = "copy" /\ fragment.left > 0 /\ out' = out \o s
      /\ bytesleft' = bytesleft - k
      /\ pc' = IF bytesleft' = 0 THEN "idle" ELSE "copy"
      /\ UNCHANGED <<file, datasize, fulloffset, cursor, word, anyblock, fragment,
                     fragblock, asked, answer>>
  BY DEF CopyFragment, idVars
<1>2. /\ TypeOK /\ BytesTyped /\ CountInv /\ PrintInv /\ IdsRight
      /\ CatTyped /\ FragmentTypeOK /\ IdTyped
      /\ Len(word) <= WordSize /\ DOMAIN anyblock = 1..BlockSize
  BY TypeParts DEF IInv
<1>3. /\ file \in File /\ file.fragment # None /\ bytesleft > 0
      /\ fragment.at + fragment.left <= Len(fragblock)
  BY <1>1, <1>2 DEF CountInv
<1>4. /\ bytesleft \in 0..(Wrap - 1) /\ bytesleft \in Nat /\ Wrap \in Nat
      /\ fragment.at \in Nat /\ fragment.left \in Nat
      /\ fragblock \in Seq(Byte) /\ Len(fragblock) \in Nat
  BY <1>2, SizesTyped, LenProperties DEF CatTyped, FragmentTypeOK, BytesTyped
<1>5. k = Least(fragment.left, bytesleft) BY DEF CopyCount
<1>. HIDE DEF k
<1>6. k \in Nat \ {0} /\ k <= fragment.left /\ k <= bytesleft
  <2>1. fragment.left > 0 BY <1>1
  <2>. QED BY <1>3, <1>4, <1>5, <2>1 DEF Least
<1>7. fragment.at + k <= Len(fragblock) BY <1>3, <1>4, <1>6
<1>8. /\ s \in Seq(Byte) /\ Len(s) = k
      /\ \A j \in 1..k : s[j] = fragblock[fragment.at + j]
  BY <1>4, <1>6, <1>7, PartOf, SMTT(30)
<1>. HIDE DEF s
<1>9. bytesleft' \in 0..(Wrap - 1) /\ (bytesleft' # 0 => bytesleft' > 0)
  BY <1>1, <1>4, <1>6
<1>10. out \in Seq(Byte) /\ out' \in Seq(Byte)
  BY <1>1, <1>2, <1>8, ConcatProperties DEF BytesTyped
<1>11. pc' \in {"idle", "copy"} BY <1>1
<1>12. TypeOK'
  <2>1. CatTyped' BY <1>1, <1>2, <1>9 DEF CatTyped
  <2>2. FragmentTypeOK' /\ IdTyped' BY <1>1, <1>2 DEF FragmentTypeOK, IdTyped
  <2>3. pc' \in Places BY <1>11 DEF Places
  <2>. QED BY <1>1, <1>2, <2>1, <2>2, <2>3, TypeParts
<1>13. BytesTyped' BY <1>1, <1>2, <1>10 DEF BytesTyped
<1>14. CountInv'
  <2>1. pc' = "copy" => bytesleft' > 0 BY <1>1, <1>9
  <2>. QED BY <1>1, <1>3, <1>11, <2>1 DEF CountInv
<1>15. IdsRight' BY <1>1, <1>2 DEF IdsRight
<1>16. PrintInv'
  <2>. SUFFICES ASSUME Fits' PROVE PrintInv' BY DEF PrintInv
  <2>1. Fits BY <1>1 DEF Fits
  <2>. DEFINE a == Len(file.blocks) * BlockSize
  <2>2. /\ Len(out) = a /\ bytesleft = TailLen(file)
        /\ fragblock = FragmentBytes(file.fragment) /\ fragment.at = file.offset
        /\ fragment.left = Fragment[file.fragment].size - file.offset
    BY <1>1, <1>2, <2>1 DEF PrintInv, TailInv
  <2>3. /\ a \in Nat /\ TailLen(file) = file.size - a /\ file.size \in Nat
        /\ file.fragment \in DOMAIN Fragment /\ file.offset \in Nat
        /\ file.offset + TailLen(file) <= Fragment[file.fragment].size
        /\ Fragment[file.fragment].size \in Nat
    BY <1>3, FileSpan, FileTyped, FragmentTyped
  <2>4. \A j \in 1..TailLen(file) :
          Contents(file)[a + j] = FragmentBytes(file.fragment)[file.offset + j]
    BY <1>3, ContentsTail
  <2>. HIDE DEF a
  <2>5. k = bytesleft BY <1>4, <1>5, <2>2, <2>3 DEF Least
  <2>6. bytesleft' = 0 /\ pc' = "idle" BY <1>1, <1>4, <2>5
  <2>7. Len(out) + Len(s) = file.size BY <1>4, <1>8, <2>2, <2>3, <2>5
  <2>8. \A j \in 1..Len(s) : s[j] = Contents(file)[Len(out) + j]
    BY <1>8, <2>2, <2>4, <2>5
  <2>9. OutInv' /\ Len(out') = Len(out) + Len(s)
    <3>1. OutInv BY <1>2, <2>1 DEF PrintInv
    <3>2. Len(out) + Len(s) <= file.size BY <2>3, <2>7
    <3>. QED BY <1>1, <1>2, <1>3, <1>8, <2>1, <2>8, <3>1, <3>2, OutGrows
  <2>. QED BY <1>1, <2>6, <2>7, <2>9 DEF PrintInv
<1>. QED BY <1>12, <1>13, <1>14, <1>15, <1>16 DEF IInv

(* There is nothing to refuse in a file that fits: its words are those of
   blocks that are as they say, and its fragment has its tail. *)
LEMMA RefuseKeeps ==
  ASSUME IInv, Refuse
  PROVE  IInv'
<1>1. /\ Unacceptable /\ pc' = "refused"
      /\ UNCHANGED <<file, bytesleft, datasize, fulloffset, cursor, word, fragment,
                     out, anyblock, fragblock, asked, answer>>
  BY DEF Refuse, catVars, idVars
<1>2. /\ TypeOK /\ BytesTyped /\ CountInv /\ PrintInv /\ IdsRight
      /\ CatTyped /\ FragmentTypeOK /\ IdTyped
      /\ Len(word) <= WordSize /\ DOMAIN anyblock = 1..BlockSize
  BY TypeParts DEF IInv
<1>3. TypeOK'
  <2>1. CatTyped' /\ FragmentTypeOK' /\ IdTyped'
    BY <1>1, <1>2 DEF CatTyped, FragmentTypeOK, IdTyped
  <2>2. pc' \in Places BY <1>1 DEF Places
  <2>. QED BY <1>1, <1>2, <2>1, <2>2, TypeParts
<1>4. BytesTyped' BY <1>1, <1>2 DEF BytesTyped
<1>5. CountInv' BY <1>1 DEF CountInv
<1>6. IdsRight' BY <1>1, <1>2 DEF IdsRight
<1>7. ~Fits
  <2>. SUFFICES ASSUME Fits PROVE FALSE OBVIOUS
  <2>1. CASE pc = "block"
    <3>1. file \in File BY <1>2, <2>1 DEF CountInv
    <3>2. PICK n \in DOMAIN file.blocks : BlockInv(n) BY <1>2, <2>1 DEF PrintInv
    <3>. DEFINE b == file.blocks[n]
    <3>3. /\ <<file, n>> \in Listed(word) /\ fulloffset = b.at
          /\ datasize = BlockLen(file, n) /\ datasize \in 1..BlockSize
      BY <2>1, <3>1, <3>2, AtBlock
    <3>4. ~Sparse(b) /\ ~Stored(b) /\ ~Packed(b)
      <4>1. \A fk \in Listed(word) :
              LET c == fk[1].blocks[fk[2]] IN ~(Sparse(c) \/ Stored(c) \/ Packed(c))
        BY <1>1, <2>1 DEF Unacceptable
      <4>. QED BY <3>3, <4>1
    <3>5. b.sod # 0 BY <3>4 DEF Sparse
    <3>6. b.sod \in Nat /\ b.stored \in BOOLEAN BY <3>1, BlockTyped
    <3>7. WellFormed(file) BY <3>1, ArchiveAssumption DEF ArchiveAssumption
    <3>8. \/ b.sod = 0
          \/ b.stored /\ b.sod = datasize
          \/ ~b.stored /\ b.sod < datasize
      BY <3>3, <3>7 DEF WellFormed
    <3>9. ~b.stored /\ b.sod < datasize BY <3>4, <3>5, <3>8 DEF Stored
    <3>10. Len(OnDisk(fulloffset, b.sod)) = datasize
      <4>1. OnDisk(fulloffset, b.sod) = Bytes(file, n) BY <3>1, <3>3, <3>5, RightOnDisk
      <4>. QED BY <3>1, <3>3, <4>1, BytesOf
    <3>11. b.sod \in 1..(datasize - 1)
      <4>. HIDE DEF b
      <4>. QED BY <3>3, <3>5, <3>6, <3>9, SizesTyped
    <3>. QED BY <3>4, <3>9, <3>10, <3>11 DEF Packed
  <2>2. CASE pc # "block"
    <3>1. pc = "fragment" /\ ~HasFragment(HeaderRead(file.fragment))
      BY <1>1, <2>2 DEF Unacceptable
    <3>2. file \in File /\ file.fragment # None BY <1>2, <3>1 DEF CountInv
    <3>3. /\ file.fragment \in DOMAIN Fragment /\ file.offset \in Nat
          /\ TailLen(file) \in 1..(BlockSize - 1)
          /\ file.offset + TailLen(file) <= Fragment[file.fragment].size
      BY <3>2, FileSpan
    <3>4. file.fragment \in Nat /\ Fragment[file.fragment].size \in Nat
      BY <3>3, FragmentTyped
    <3>5. HeaderRead(file.fragment) = file.fragment BY <3>4, HeaderIs
    <3>6. file.offset < Fragment[file.fragment].size BY <3>3, <3>4, SizesTyped
    <3>. QED BY <3>1, <3>3, <3>5, <3>6 DEF HasFragment
  <2>. QED BY <2>1, <2>2
<1>8. PrintInv' BY <1>1, <1>7 DEF PrintInv, Fits
<1>. QED BY <1>3, <1>4, <1>5, <1>6, <1>8 DEF IInv

-----------------------------------------------------------------------------
(* The theorems. *)
LEMMA PrefixOf ==
  ASSUME NEW s \in Seq(Byte), NEW t \in Seq(Byte), Len(s) <= Len(t),
         \A j \in 1..Len(s) : s[j] = t[j]
  PROVE  IsPrefix(s, t)
<1>. DEFINE n == Len(s)
            p == SubSeq(s, 0 + 1, 0 + n)
            q == SubSeq(t, 0 + 1, 0 + n)
<1>1. n \in Nat /\ 0 + n <= Len(s) /\ 0 + n <= Len(t) BY LenProperties
<1>2. p \in Seq(Byte) /\ Len(p) = n /\ \A j \in 1..n : p[j] = s[0 + j] BY <1>1, PartOf
<1>3. q \in Seq(Byte) /\ Len(q) = n /\ \A j \in 1..n : q[j] = t[0 + j] BY <1>1, PartOf
<1>4. 0 + 1 = 1 /\ 0 + n = n /\ \A j \in 1..n : 0 + j = j BY <1>1
<1>5. ASSUME NEW j \in 1..n PROVE p[j] = q[j] BY <1>2, <1>3, <1>4
<1>. HIDE DEF p, q
<1>6. p = q BY <1>2, <1>3, <1>5, SeqEqual
<1>. QED BY <1>1, <1>4, <1>6 DEF IsPrefix, p, q

LEMMA InitIInv ==
  ASSUME Init
  PROVE  IInv
<1>1. /\ pc = "idle" /\ file = None /\ bytesleft = 0 /\ datasize = 0
      /\ fulloffset = 0 /\ cursor = [meta |-> 0, at |-> 0, left |-> 0]
      /\ word = <<>> /\ anyblock = [i \in 1..BlockSize |-> Garbage]
      /\ fragment = [at |-> 0, left |-> 0] /\ fragblock = <<>>
      /\ out = <<>> /\ asked = 0 /\ answer = None
  BY DEF Init
<1>2. /\ word \in Seq(Nat) /\ Len(word) = 0 /\ out \in Seq(Byte)
      /\ fragblock \in Seq(Byte) /\ Len(fragblock) = 0
  BY <1>1, EmptySeq
<1>3. anyblock \in [1..BlockSize -> Byte] BY <1>1, GarbageTyped
<1>4. TypeOK
  <2>1. 0 \in 0..(Wrap - 1) /\ 0 \in 0..BlockSize /\ 0 \in 0..MetaSize /\ 0 \in 0..IdCount
        /\ 0 <= WordSize /\ 0 <= BlockSize
    BY SizesTyped
  <2>2. CatTyped BY <1>1, <2>1 DEF CatTyped
  <2>3. FragmentTypeOK /\ IdTyped BY <1>1, <1>2, <2>1 DEF FragmentTypeOK, IdTyped
  <2>4. pc \in Places BY <1>1 DEF Places
  <2>. QED BY <1>2, <1>3, <2>1, <2>2, <2>3, <2>4, BufferFull, TypeParts
<1>5. BytesTyped BY <1>2, <1>3, BufferFull DEF BytesTyped
<1>6. CountInv BY <1>1 DEF CountInv
<1>7. PrintInv BY <1>1 DEF PrintInv, Fits
<1>8. IdsRight BY <1>1 DEF IdsRight
<1>. QED BY <1>4, <1>5, <1>6, <1>7, <1>8 DEF IInv

LEMMA NextIInv ==
  ASSUME IInv, [Next]_vars
  PROVE  IInv'
<1>1. ASSUME NEW f \in File, StartCat(f) PROVE IInv' BY <1>1, StartKeeps
<1>2. ASSUME NEW i \in 0..IdCount, FetchId(i) \/ FetchIdFails(i) PROVE IInv'
  BY <1>2, FetchKeeps
<1>3. CASE CatStep
  BY <1>3, CopyWordKeeps, AdvanceMetaKeeps, ReadBlockKeeps, WriteBlockKeeps,
     LoadFragmentKeeps, CopyFragmentKeeps, RefuseKeeps DEF CatStep
<1>4. CASE Fail BY <1>4, FailKeeps
<1>5. CASE UNCHANGED vars
  BY <1>5 DEF vars, catVars, idVars, IInv, TypeOK, BytesTyped, CountInv, PrintInv,
              IdsRight, Fits, OutInv, BlockInv, TailInv, Place, WordPlace
<1>. QED BY <1>1, <1>2, <1>3, <1>4, <1>5 DEF Next, Prompt

(* The inductive invariant: what is in the counters, the cursors and the
   buffers between any two steps. *)
THEOREM IInvHolds == Spec => []IInv
<1>1. Init => IInv BY InitIInv
<1>2. IInv /\ [Next]_vars => IInv' BY NextIInv
<1>. QED BY <1>1, <1>2, PTL DEF Spec

(* Every counter, cursor and buffer of archive.c keeps to its type; bytesleft
   does not drop below zero, and no part of a buffer is read that it does not
   have. *)
THEOREM TypeCorrect == Spec => []TypeOK
<1>1. IInv => TypeOK BY DEF IInv
<1>. QED BY <1>1, IInvHolds, PTL

(* cat, freadfile_archive in the code, prints the beginning of the file, and
   at its end all of it, for every file whose size fits in an unsigned int. *)
THEOREM PrintsTheFile == Spec => []PrintsFile
<1>1. ASSUME IInv PROVE PrintsFile
  <2>. SUFFICES ASSUME Fits
       PROVE  /\ IsPrefix(out, Contents(file))
              /\ pc = "idle" => Len(out) = file.size
              /\ pc # "refused"
    BY DEF PrintsFile, Fits
  <2>1. /\ OutInv /\ (pc = "idle" => Len(out) = file.size) /\ pc # "refused"
    BY <1>1 DEF IInv, PrintInv
  <2>2. file \in File BY <1>1 DEF IInv, TypeOK, Fits
  <2>3. Contents(file) \in Seq(Byte) /\ Len(Contents(file)) = file.size
        /\ file.size \in Nat
    BY <2>2, ContentsTyped, FileTyped
  <2>4. out \in Seq(Byte) /\ Len(out) \in Nat
    BY <1>1, LenProperties DEF IInv, BytesTyped
  <2>5. Len(out) <= Len(Contents(file)) /\ \A j \in 1..Len(out) : out[j] = Contents(file)[j]
    BY <2>1, <2>3 DEF OutInv
  <2>6. IsPrefix(out, Contents(file)) BY <2>3, <2>4, <2>5, PrefixOf
  <2>. QED BY <2>1, <2>6
<1>. QED BY <1>1, IInvHolds, PTL

(* The list of words, the place on disk and the output, which step_readfile
   counts separately, are at the same block. *)
THEOREM WordsBlocksOutInStep == Spec => []InStep
<1>1. ASSUME IInv PROVE InStep
  <2>. DEFINE done == Len(out) \div BlockSize
  <2>. SUFFICES ASSUME pc \in {"word", "write"}, file.size < Wrap
       PROVE  IF pc = "word"
                THEN /\ fulloffset = file.blocks[done + 1].at
                     /\ Place = file.list + done * WordSize + Len(word)
                ELSE /\ fulloffset = file.blocks[done + 1].at + file.blocks[done + 1].sod
                     /\ Place = file.list + (done + 1) * WordSize
    BY DEF InStep, Place
  <2>1. file \in File BY <1>1 DEF IInv, CountInv
  <2>2. Fits BY <2>1, ArchiveAssumption DEF ArchiveAssumption, Fits
  <2>3. PICK k \in DOMAIN file.blocks : BlockInv(k) BY <1>1, <2>2 DEF IInv, PrintInv
  <2>4. /\ k \in Nat /\ k - 1 \in Nat /\ BlockSize \in Nat \ {0} /\ WordSize \in Nat
        /\ file.list \in Nat
    BY <2>1, BlockTyped, FileTyped, SizesTyped
  <2>5. done = k - 1
    <3>1. Len(out) = (k - 1) * BlockSize + 0 /\ 0 \in 0..(BlockSize - 1)
      <4>1. Len(out) = (k - 1) * BlockSize BY <2>3 DEF BlockInv
      <4>2. (k - 1) * BlockSize \in Nat BY <2>4, Times
      <4>. QED BY <2>4, <4>1, <4>2
    <3>2. ((k - 1) * BlockSize + 0) \div BlockSize = k - 1 BY <2>4, <3>1, DivOf
    <3>. QED BY <3>1, <3>2
  <2>. HIDE DEF done
  <2>6. done + 1 = k /\ done \in Nat BY <2>4, <2>5
  <2>7. CASE pc = "word"
    <3>1. fulloffset = file.blocks[k].at /\ Place = WordPlace(k) + Len(word)
      BY <2>3, <2>7 DEF BlockInv
    <3>. QED BY <2>5, <2>6, <2>7, <3>1 DEF WordPlace
  <2>8. CASE pc = "write"
    <3>1. /\ fulloffset = file.blocks[k].at + file.blocks[k].sod
          /\ Place = WordPlace(k) + WordSize
      BY <2>3, <2>8 DEF BlockInv
    <3>2. (done + 1) * WordSize = done * WordSize + WordSize /\ done * WordSize \in Nat
      BY <2>4, <2>6, Times
    <3>3. Place = (file.list + done * WordSize) + WordSize BY <2>5, <3>1 DEF WordPlace
    <3>4. Place = file.list + (done + 1) * WordSize BY <2>4, <3>2, <3>3
    <3>. QED BY <2>6, <2>8, <3>1, <3>4
  <2>. QED BY <2>7, <2>8
<1>. QED BY <1>1, IInvHolds, PTL

(* fetch_id gives the id of the index asked for, as long as the index is
   below the number that the code divides by. *)
THEOREM IdsAreRight == Spec => []IdsRight
<1>1. IInv => IdsRight BY DEF IInv
<1>. QED BY <1>1, IInvHolds, PTL
=============================================================================

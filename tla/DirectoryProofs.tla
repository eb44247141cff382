-------------------------- MODULE DirectoryProofs ---------------------------
(***************************************************************************)
(* Proofs about Directory, for every archive that is well formed, every    *)
(* depth of the pwd and all paths and names.                               *)
(***************************************************************************)
EXTENDS Directory, SequenceTheorems, FiniteSetTheorems, TLAPS

-----------------------------------------------------------------------------
(* The reader: the last header read is the one that what comes next belongs
   to, and entry_count is what it has left. *)
ReaderInv ==
  /\ pos = 0 => entry_count = 0
  /\ pos > 0 => \E h \in 1..pos :
       /\ header = Listing[listed][h] /\ IsHeader(header)
       /\ h + header.count = pos + entry_count
       /\ \A j \in (h + 1)..pos : ~IsHeader(Listing[listed][j])

(* findentry looks in a->inode, for the first component of the path. *)
SearchInv ==
  /\ pc \in {"cdfind", "catfind"} => opened /\ listed = inode /\ path # <<>>
  /\ pc = "cdfind" => depth < MaxDepth

(* A listing is in step while the pwd changes, too. *)
ShownInv ==
  /\ shown \in Seq(Nat \X Nat)
  /\ opened /\ pc \in {"idle", "list", "chdir"} =>
       /\ Len(shown) = Cardinality(EntriesUpTo(listed, pos))
       /\ \A i \in EntriesUpTo(listed, pos) :
            shown[Cardinality(EntriesUpTo(listed, i))] = Target(listed, i)

IInv == TypeOK /\ ReaderInv /\ SearchInv /\ InodeIsPwd /\ ShownInv

(* The parts of TypeOK: the pwd and the reader. *)
PwdTyped ==
  /\ depth \in 0..MaxDepth /\ dirlist \in [0..MaxDepth -> Nat \X Nat]
  /\ pwdname \in Seq(STRING)
ReadTyped ==
  /\ opened \in BOOLEAN /\ IsDir(listed)
  /\ pos \in 0..Len(Listing[listed]) /\ entry_count \in Nat
  /\ header \in HeaderItem /\ entry \in EntryItem /\ filename \in STRING
Loops == {"idle", "list", "chdir", "cdfind", "catfind", "exited"}

-----------------------------------------------------------------------------
(* The archive. *)
LEMMA ListingTyped ==
  ASSUME NEW d \in DOMAIN Listing
  PROVE  /\ Listing[d] \in Seq(HeaderItem \cup EntryItem)
         /\ Len(Listing[d]) \in Nat /\ DOMAIN Listing[d] = 1..Len(Listing[d])
         /\ d \in Inode /\ d \in Nat \X Nat
BY ArchiveAssumption, LenProperties DEF ArchiveAssumption

LEMMA EmptyTyped == Empty \in STRING
BY NamesAssumption DEF NamesAssumption

LEMMA ItemTyped ==
  ASSUME NEW d \in DOMAIN Listing, NEW i \in 1..Len(Listing[d])
  PROVE  /\ IsHeader(Listing[d][i]) => Listing[d][i] \in HeaderItem
         /\ ~IsHeader(Listing[d][i]) => Listing[d][i] \in EntryItem
                                        /\ i \in EntriesOf(d)
<1>1. Listing[d][i] \in HeaderItem \cup EntryItem BY ListingTyped, ElementOfSeq
<1>2. Listing[d][i] \in HeaderItem <=> IsHeader(Listing[d][i])
  BY <1>1 DEF IsHeader, HeaderItem, EntryItem
<1>. QED BY <1>1, <1>2, ListingTyped DEF EntriesOf

LEMMA HeaderUnique ==
  ASSUME NEW d \in DOMAIN Listing, NEW i \in Nat, NEW h \in 1..i,
         IsHeader(Listing[d][h]),
         \A j \in (h + 1)..i : ~IsHeader(Listing[d][j])
  PROVE  HeaderOf(d, i) = h
<1>1. ASSUME NEW g \in 1..i, IsHeader(Listing[d][g]),
             \A j \in (g + 1)..i : ~IsHeader(Listing[d][j])
      PROVE  g = h
  <2>1. ~(g < h) BY <1>1
  <2>2. ~(h < g) BY <1>1
  <2>. QED BY <2>1, <2>2
<1>. QED BY <1>1 DEF HeaderOf

-----------------------------------------------------------------------------
(* Reading one item. *)
LEMMA ReadsHeader ==
  ASSUME TypeOK, ReaderInv, ReadHeader, listed' = listed
  PROVE  /\ pos + 1 \in 1..Len(Listing[listed]) /\ pos \in Nat
         /\ pos' = pos + 1 /\ IsHeader(Listing[listed][pos + 1])
         /\ header' \in HeaderItem /\ entry_count' \in Nat
         /\ ReaderInv'
<1>1. /\ listed \in DOMAIN Listing /\ pos \in 0..Len(Listing[listed])
      /\ entry_count = 0 /\ pos # Len(Listing[listed])
      /\ pos' = pos + 1 /\ header' = Listing[listed][pos + 1]
      /\ entry_count' = header'.count
  BY DEF TypeOK, IsDir, ReadHeader, AtEnd
<1>2. Len(Listing[listed]) \in Nat BY <1>1, ListingTyped
<1>3. pos + 1 \in 1..Len(Listing[listed]) /\ pos \in Nat BY <1>1, <1>2
<1>4. IsHeader(Listing[listed][pos + 1])
  <2>1. CASE pos = 0
    <3>1. Listing[listed] # <<>> BY <1>3, <2>1, <1>2
    <3>2. IsHeader(Listing[listed][1])
      BY <1>1, <3>1, ArchiveAssumption DEF ArchiveAssumption
    <3>. QED BY <2>1, <3>2
  <2>2. CASE pos > 0
    <3>1. PICK h \in 1..pos :
            /\ header = Listing[listed][h] /\ IsHeader(header)
            /\ h + header.count = pos + entry_count
            /\ \A j \in (h + 1)..pos : ~IsHeader(Listing[listed][j])
      BY <2>2 DEF ReaderInv
    <3>. SUFFICES ASSUME ~IsHeader(Listing[listed][pos + 1]) PROVE FALSE
      OBVIOUS
    <3>2. pos + 1 \in EntriesOf(listed) BY <1>1, <1>3, ItemTyped
    <3>3. \A j \in (h + 1)..(pos + 1) : ~IsHeader(Listing[listed][j])
      BY <1>3, <3>1
    <3>4. HeaderOf(listed, pos + 1) = h
      <4>1. h \in 1..(pos + 1) /\ pos + 1 \in Nat BY <1>3
      <4>. QED BY <1>1, <3>1, <3>3, <4>1, HeaderUnique
    <3>5. pos + 1 <= h + header.count
      BY <1>1, <3>1, <3>2, <3>4, ArchiveAssumption DEF ArchiveAssumption
    <3>. QED BY <1>1, <1>3, <3>1, <3>5
  <2>. QED BY <1>3, <2>1, <2>2
<1>5. header' \in HeaderItem BY <1>1, <1>3, <1>4, ItemTyped
<1>6. entry_count' \in Nat BY <1>1, <1>5 DEF HeaderItem
<1>7. ReaderInv'
  <2>1. pos' > 0 /\ pos' \in 1..pos' BY <1>1, <1>3
  <2>2. \A j \in (pos' + 1)..pos' : ~IsHeader(Listing[listed][j])
    BY <1>1, <1>3
  <2>3. pos' + header'.count = pos' + entry_count' BY <1>1
  <2>. QED BY <1>1, <1>4, <2>1, <2>2, <2>3 DEF ReaderInv
<1>. QED BY <1>1, <1>3, <1>4, <1>5, <1>6, <1>7

LEMMA ReadsEntry ==
  ASSUME TypeOK, ReaderInv, ReadEntry, listed' = listed
  PROVE  /\ pos + 1 \in 1..Len(Listing[listed]) /\ pos \in Nat
         /\ pos' = pos + 1 /\ pos + 1 \in EntriesOf(listed)
         /\ entry' = Listing[listed][pos + 1]
         /\ entry' \in EntryItem /\ entry_count' \in Nat
         /\ EntryPointer' = Target(listed, pos + 1) /\ EntryPointer' \in Inode
         /\ ReaderInv'
<1>1. /\ listed \in DOMAIN Listing /\ pos \in 0..Len(Listing[listed])
      /\ entry_count \in Nat /\ entry_count > 0 /\ pos \in Nat
      /\ pos' = pos + 1 /\ entry' = Listing[listed][pos + 1]
      /\ entry_count' = entry_count - 1 /\ header' = header
  BY DEF TypeOK, IsDir, ReadEntry
<1>2. pos > 0 BY <1>1 DEF ReaderInv
<1>3. PICK h \in 1..pos :
        /\ header = Listing[listed][h] /\ IsHeader(header)
        /\ h + header.count = pos + entry_count
        /\ \A j \in (h + 1)..pos : ~IsHeader(Listing[listed][j])
  BY <1>2 DEF ReaderInv
<1>4. h \in DOMAIN Listing[listed] /\ header.count \in Nat
  <2>1. h \in 1..Len(Listing[listed]) BY <1>1, ListingTyped
  <2>. QED BY <1>1, <1>3, <2>1, ListingTyped, ItemTyped DEF HeaderItem
<1>5. pos + 1 \in EntriesOf(listed)
  <2>1. (pos + 1) - h \in 1..header.count /\ h + ((pos + 1) - h) = pos + 1
    BY <1>1, <1>3, <1>4
  <2>. QED BY <1>1, <1>3, <1>4, <2>1, ArchiveAssumption DEF ArchiveAssumption
<1>6. pos + 1 \in 1..Len(Listing[listed]) /\ ~IsHeader(Listing[listed][pos + 1])
  BY <1>1, <1>5, ListingTyped DEF EntriesOf
<1>7. entry' \in EntryItem BY <1>1, <1>6, ItemTyped
<1>8. \A j \in (h + 1)..(pos + 1) : ~IsHeader(Listing[listed][j])
  BY <1>1, <1>3, <1>6
<1>9. HeaderOf(listed, pos + 1) = h
  <2>1. h \in 1..(pos + 1) /\ pos + 1 \in Nat BY <1>1
  <2>. QED BY <1>1, <1>3, <1>8, <2>1, HeaderUnique
<1>10. EntryPointer' = Target(listed, pos + 1)
  BY <1>1, <1>3, <1>9 DEF EntryPointer, Target
<1>11. EntryPointer' \in Inode
  BY <1>1, <1>5, <1>10, ArchiveAssumption DEF ArchiveAssumption
<1>12. entry_count' \in Nat BY <1>1
<1>13. ReaderInv'
  <2>1. pos' > 0 /\ h \in 1..pos' BY <1>1
  <2>2. h + header.count = pos' + entry_count' BY <1>1, <1>3, <1>4
  <2>. QED BY <1>1, <1>3, <1>8, <2>1, <2>2 DEF ReaderInv
<1>. QED BY <1>1, <1>5, <1>6, <1>7, <1>10, <1>11, <1>12, <1>13

LEMMA TypeParts ==
  /\ TypeOK <=> /\ PwdTyped /\ ReadTyped /\ inode \in Inode
                /\ pc \in Loops /\ path \in Seq(STRING)
  /\ TypeOK' <=> /\ PwdTyped' /\ ReadTyped' /\ inode' \in Inode
                 /\ pc' \in Loops /\ path' \in Seq(STRING)
BY DEF TypeOK, PwdTyped, ReadTyped, Loops

LEMMA ReadsItem ==
  ASSUME TypeOK, ReaderInv, ReadItem, listed' = listed, opened' \in BOOLEAN
  PROVE  ReadTyped' /\ ReaderInv'
<1>1. ReadTyped /\ listed \in DOMAIN Listing BY TypeParts DEF ReadTyped, IsDir
<1>2. CASE ReadHeader
  <2>1. /\ pos + 1 \in 1..Len(Listing[listed]) /\ pos \in Nat /\ pos' = pos + 1
        /\ header' \in HeaderItem /\ entry_count' \in Nat /\ ReaderInv'
    BY <1>2, ReadsHeader
  <2>2. entry' = entry /\ filename' = filename BY <1>2 DEF ReadHeader
  <2>3. pos' \in 0..Len(Listing[listed]) BY <1>1, <2>1, ListingTyped
  <2>. QED BY <1>1, <2>1, <2>2, <2>3 DEF ReadTyped
<1>3. CASE ReadEntry
  <2>1. /\ pos + 1 \in 1..Len(Listing[listed]) /\ pos \in Nat /\ pos' = pos + 1
        /\ entry' \in EntryItem /\ entry_count' \in Nat /\ ReaderInv'
    BY <1>3, ReadsEntry
  <2>2. header' = header /\ filename' = entry'.name BY <1>3 DEF ReadEntry
  <2>3. filename' \in STRING BY <2>1, <2>2 DEF EntryItem
  <2>4. pos' \in 0..Len(Listing[listed]) BY <1>1, <2>1, ListingTyped
  <2>. QED BY <1>1, <2>1, <2>2, <2>3, <2>4 DEF ReadTyped
<1>. QED BY <1>2, <1>3 DEF ReadItem

LEMMA Opens ==
  ASSUME TypeOK, NEW p, OpenListing(p), UNCHANGED <<header, entry>>,
         filename' \in STRING
  PROVE  ReadTyped' /\ ReaderInv' /\ opened' /\ listed' = p /\ p \in DOMAIN Listing
<1>1. ReadTyped BY TypeParts
<1>2. opened' = TRUE /\ listed' = p /\ pos' = 0 /\ entry_count' = 0 /\ p \in DOMAIN Listing
  BY DEF OpenListing, IsDir
<1>3. 0 \in 0..Len(Listing[p]) BY <1>2, ListingTyped
<1>4. opened' \in BOOLEAN BY <1>2
<1>5. /\ IsDir(listed') /\ pos' \in 0..Len(Listing[listed']) /\ entry_count' \in Nat
  BY <1>2, <1>3 DEF IsDir
<1>6. ReadTyped' BY <1>1, <1>4, <1>5 DEF ReadTyped
<1>7. ReaderInv' BY <1>2 DEF ReaderInv
<1>. QED BY <1>2, <1>6, <1>7

(* The pwd is set to the root, and goes back. *)
LEMMA RootTyped ==
  ASSUME PwdTyped, SetRoot
  PROVE  PwdTyped' /\ dirlist'[0] = Root /\ depth' = 0
<1>1. Root \in Nat \X Nat BY ArchiveAssumption DEF ArchiveAssumption
<1>2. depth' \in 0..MaxDepth /\ 0 \in 0..MaxDepth
  BY NamesAssumption DEF NamesAssumption, SetRoot
<1>. QED BY <1>1, <1>2 DEF PwdTyped, SetRoot

LEMMA BackTyped ==
  ASSUME TypeOK, Back
  PROVE  PwdTyped' /\ inode' \in Inode /\ (depth > 0 => inode' = dirlist'[depth'])
<1>1. PwdTyped /\ inode \in Inode BY TypeParts
<1>2. CASE depth = 0 BY <1>1, <1>2 DEF Back, PwdTyped, pwdVars
<1>3. CASE depth # 0
  <2>1. depth' = depth - 1 /\ pwdname' = Front(pwdname) /\ UNCHANGED dirlist
        /\ dirlist[depth'] \in Inode /\ inode' = dirlist[depth']
    BY <1>3 DEF Back, Load
  <2>2. depth' \in 0..MaxDepth
    BY <1>1, <1>3, <2>1, NamesAssumption DEF PwdTyped, NamesAssumption
  <2>3. Front(pwdname) \in Seq(STRING)
    <3>1. Len(pwdname) \in Nat /\ \A i \in 1..Len(pwdname) : pwdname[i] \in STRING
      BY <1>1, ElementOfSeq, LenProperties DEF PwdTyped
    <3>2. Len(pwdname) - 1 \in Int /\ \A i \in 1..Len(pwdname) - 1 : pwdname[i] \in STRING
      BY <3>1
    <3>. QED BY <3>2, SubSeqProperties DEF Front
  <2>. QED BY <1>1, <2>1, <2>2, <2>3 DEF PwdTyped
<1>. QED BY <1>2, <1>3

LEMMA OneElement ==
  ASSUME NEW S, NEW e \in S
  PROVE  <<e>> \in Seq(S) /\ Len(<<e>>) = 1
OBVIOUS

LEMMA PathTail ==
  ASSUME path \in Seq(STRING), path # <<>>
  PROVE  Tail(path) \in Seq(STRING) /\ Head(path) \in STRING
BY HeadTailProperties

-----------------------------------------------------------------------------
(* The steps of a listing. *)
LEMMA ListKeeps ==
  ASSUME IInv, NEW next \in {"idle", "list"}, List(next)
  PROVE  IInv'
<1>1. /\ pc' = next /\ dirlist[depth] \in Inode /\ inode' = dirlist[depth]
      /\ OpenListing(inode') /\ shown' = <<>>
      /\ UNCHANGED <<depth, dirlist, pwdname, header, entry, filename, path>>
  BY DEF List, Load, pwdVars
<1>2. TypeOK /\ PwdTyped /\ path \in Seq(STRING) /\ filename \in STRING
  BY TypeParts DEF IInv, ReadTyped
<1>3. ReadTyped' /\ ReaderInv' BY <1>1, <1>2, Opens
<1>4. TypeOK'
  <2>1. pc' \in Loops BY <1>1 DEF Loops
  <2>2. PwdTyped' BY <1>1, <1>2 DEF PwdTyped
  <2>. QED BY <1>1, <1>2, <1>3, <2>1, <2>2, TypeParts
<1>5. SearchInv' /\ InodeIsPwd' BY <1>1 DEF SearchInv, InodeIsPwd
<1>6. ShownInv'
  <2>1. pos' = 0 BY <1>1 DEF OpenListing
  <2>2. EntriesUpTo(listed', pos') = {} BY <2>1 DEF EntriesUpTo
  <2>3. Len(shown') = 0 /\ shown' \in Seq(Nat \X Nat) BY <1>1
  <2>. QED BY <2>2, <2>3, FS_EmptySet DEF ShownInv
<1>. QED BY <1>3, <1>4, <1>5, <1>6 DEF IInv

(* The entries up to an item. *)
LEMMA EntriesFinite ==
  ASSUME NEW d, NEW n \in Nat
  PROVE  IsFiniteSet(EntriesUpTo(d, n)) /\ Cardinality(EntriesUpTo(d, n)) \in Nat
<1>1. IsFiniteSet(1..n) BY FS_Interval
<1>2. EntriesUpTo(d, n) \in SUBSET (1..n) BY DEF EntriesUpTo
<1>. QED BY <1>1, <1>2, FS_Subset, FS_CardinalityType

LEMMA EntriesNext ==
  ASSUME NEW d, NEW n \in Nat
  PROVE  /\ n + 1 \in EntriesOf(d) =>
              /\ EntriesUpTo(d, n + 1) = EntriesUpTo(d, n) \cup {n + 1}
              /\ Cardinality(EntriesUpTo(d, n + 1)) = Cardinality(EntriesUpTo(d, n)) + 1
         /\ n + 1 \notin EntriesOf(d) => EntriesUpTo(d, n + 1) = EntriesUpTo(d, n)
<1>1. 1..n + 1 = (1..n) \cup {n + 1} /\ n + 1 \notin 1..n OBVIOUS
<1>2. n + 1 \in EntriesOf(d) => EntriesUpTo(d, n + 1) = EntriesUpTo(d, n) \cup {n + 1}
  BY <1>1 DEF EntriesUpTo
<1>3. n + 1 \notin EntriesUpTo(d, n) BY <1>1 DEF EntriesUpTo
<1>4. n + 1 \notin EntriesOf(d) => EntriesUpTo(d, n + 1) = EntriesUpTo(d, n)
  BY <1>1 DEF EntriesUpTo
<1>. QED BY <1>2, <1>3, <1>4, EntriesFinite, FS_AddElement

LEMMA EntriesFewer ==
  ASSUME NEW d, NEW n \in Nat, NEW i \in 1..n
  PROVE  Cardinality(EntriesUpTo(d, i)) <= Cardinality(EntriesUpTo(d, n))
<1>1. EntriesUpTo(d, i) \in SUBSET EntriesUpTo(d, n) BY DEF EntriesUpTo
<1>. QED BY <1>1, EntriesFinite, FS_Subset

LEMMA ListStepKeeps ==
  ASSUME IInv, ListStep, pc \in {"idle", "list"}, pc' \in {"idle", "list"}
  PROVE  IInv'
<1>1. /\ TypeOK /\ PwdTyped /\ ReadTyped /\ ReaderInv /\ inode \in Inode
      /\ path \in Seq(STRING) /\ ShownInv /\ listed \in DOMAIN Listing
  BY TypeParts DEF IInv, ReadTyped, IsDir
<1>2. UNCHANGED <<depth, dirlist, pwdname, listed, path>>
  BY DEF ListStep, pwdVars
<1>3. PwdTyped' BY <1>1, <1>2 DEF PwdTyped
<1>4. pc' \in Loops BY DEF Loops
<1>5. SearchInv' /\ InodeIsPwd' BY DEF SearchInv, InodeIsPwd
<1>6. CASE AtEnd /\ CloseReader /\ UNCHANGED <<inode, readVars, shown>>
  <2>1. opened' = FALSE /\ UNCHANGED <<inode, pos, entry_count, header, entry, filename, shown>>
    BY <1>6 DEF CloseReader, readVars
  <2>2. ReaderInv' BY <1>1, <1>2, <2>1 DEF ReaderInv
  <2>3. opened' \in BOOLEAN BY <2>1
  <2>4. ReadTyped' BY <1>1, <1>2, <2>1, <2>3 DEF ReadTyped
  <2>5. ShownInv' BY <1>1, <2>1 DEF ShownInv
  <2>. QED BY <1>1, <1>2, <1>3, <1>4, <1>5, <2>1, <2>2, <2>4, <2>5, TypeParts DEF IInv
<1>7. CASE ReadHeader /\ UNCHANGED <<inode, opened, shown>>
  <2>1. /\ pos \in Nat /\ pos' = pos + 1 /\ IsHeader(Listing[listed][pos + 1])
    BY <1>1, <1>2, <1>7, ReadsHeader
  <2>2. ReadTyped' /\ ReaderInv'
    BY <1>1, <1>2, <1>7, ReadsItem DEF ReadItem, ReadTyped
  <2>3. EntriesUpTo(listed, pos') = EntriesUpTo(listed, pos)
    BY <2>1, EntriesNext DEF EntriesOf
  <2>4. ShownInv' BY <1>1, <1>2, <1>7, <2>3 DEF ShownInv
  <2>. QED BY <1>1, <1>2, <1>3, <1>4, <1>5, <1>7, <2>2, <2>4, TypeParts DEF IInv
<1>8. CASE /\ ReadEntry
           /\ inode' \in {inode, EntryPointer'}
           /\ shown' = Append(shown, EntryPointer')
           /\ UNCHANGED opened
  <2>1. /\ pos \in Nat /\ pos' = pos + 1 /\ pos + 1 \in EntriesOf(listed)
        /\ EntryPointer' = Target(listed, pos + 1) /\ EntryPointer' \in Inode
    BY <1>1, <1>2, <1>8, ReadsEntry
  <2>2. ReadTyped' /\ ReaderInv'
    BY <1>1, <1>2, <1>8, ReadsItem DEF ReadItem, ReadTyped
  <2>3. EntryPointer' \in Nat \X Nat BY <2>1, ArchiveAssumption DEF ArchiveAssumption
  <2>4. /\ shown' \in Seq(Nat \X Nat) /\ Len(shown') = Len(shown) + 1
        /\ \A j \in 1..Len(shown) : shown'[j] = shown[j]
        /\ shown'[Len(shown) + 1] = EntryPointer'
    BY <1>1, <1>8, <2>3, AppendProperties DEF ShownInv
  <2>5. ShownInv'
    <3>. SUFFICES ASSUME opened
         PROVE  /\ Len(shown') = Cardinality(EntriesUpTo(listed, pos + 1))
                /\ \A i \in EntriesUpTo(listed, pos + 1) :
                     shown'[Cardinality(EntriesUpTo(listed, i))] = Target(listed, i)
      BY <1>2, <1>8, <2>1, <2>4 DEF ShownInv
    <3>1. /\ Len(shown) = Cardinality(EntriesUpTo(listed, pos))
          /\ \A i \in EntriesUpTo(listed, pos) :
               shown[Cardinality(EntriesUpTo(listed, i))] = Target(listed, i)
      BY <1>1 DEF ShownInv
    <3>2. /\ EntriesUpTo(listed, pos + 1) = EntriesUpTo(listed, pos) \cup {pos + 1}
          /\ Cardinality(EntriesUpTo(listed, pos + 1)) = Len(shown) + 1
      BY <2>1, <3>1, EntriesNext
    <3>3. ASSUME NEW i \in EntriesUpTo(listed, pos)
          PROVE  shown'[Cardinality(EntriesUpTo(listed, i))] = Target(listed, i)
      <4>1. i \in 1..pos /\ i \in Nat /\ i \in EntriesUpTo(listed, i)
        BY <2>1 DEF EntriesUpTo
      <4>2. Cardinality(EntriesUpTo(listed, i)) <= Len(shown)
        BY <2>1, <3>1, <4>1, EntriesFewer
      <4>3. Cardinality(EntriesUpTo(listed, i)) \in Nat
            /\ Cardinality(EntriesUpTo(listed, i)) # 0
        BY <4>1, EntriesFinite, FS_EmptySet
      <4>4. Cardinality(EntriesUpTo(listed, i)) \in 1..Len(shown) BY <4>2, <4>3
      <4>. QED BY <2>4, <3>1, <4>4
    <3>4. shown'[Cardinality(EntriesUpTo(listed, pos + 1))] = Target(listed, pos + 1)
      BY <2>1, <2>4, <3>2
    <3>. QED BY <2>4, <3>2, <3>3, <3>4
  <2>. QED BY <1>1, <1>2, <1>3, <1>4, <1>5, <1>8, <2>1, <2>2, <2>5, TypeParts DEF IInv
<1>. QED BY <1>6, <1>7, <1>8 DEF ListStep

-----------------------------------------------------------------------------
(* cd: the steps that leave the reader alone. *)
LEMMA ReaderKept ==
  ASSUME IInv, UNCHANGED <<opened, listed, readVars, shown>>, PwdTyped',
         inode' \in Inode, path' \in Seq(STRING),
         pc \in {"idle", "chdir"}, pc' \in {"idle", "chdir", "exited"},
         pc' = "chdir" => inode' = dirlist'[depth']
  PROVE  IInv'
<1>1. UNCHANGED <<opened, listed, pos, entry_count, header, entry, filename, shown>>
  BY DEF readVars
<1>2. ReadTyped' BY <1>1, TypeParts DEF IInv, ReadTyped
<1>3. ReaderInv' BY <1>1 DEF IInv, ReaderInv
<1>4. SearchInv' /\ InodeIsPwd' BY DEF SearchInv, InodeIsPwd
<1>5. ShownInv' BY <1>1 DEF IInv, ShownInv
<1>6. pc' \in Loops BY DEF Loops
<1>. QED BY <1>2, <1>3, <1>4, <1>5, <1>6, TypeParts DEF IInv

LEMMA CdKeeps ==
  ASSUME IInv, \/ CdRoot \/ CdDone \/ CdSame \/ CdBack \/ CdFails
               \/ \E p \in Path, isabsolute \in BOOLEAN : Cd(p, isabsolute)
  PROVE  IInv'
<1>1. TypeOK /\ PwdTyped /\ inode \in Inode /\ path \in Seq(STRING)
  BY TypeParts DEF IInv
<1>2. CASE CdRoot
  BY <1>1, <1>2, RootTyped, ReaderKept DEF CdRoot
<1>3. CASE CdDone
  <2>1. PwdTyped' BY <1>1, <1>3 DEF CdDone, pwdVars, PwdTyped
  <2>. QED BY <1>1, <1>3, <2>1, ReaderKept DEF CdDone
<1>4. CASE CdSame
  <2>1. PwdTyped' BY <1>1, <1>4 DEF CdSame, pwdVars, PwdTyped
  <2>2. inode' \in Inode /\ inode' = dirlist'[depth'] /\ path' \in Seq(STRING)
    BY <1>1, <1>4, PathTail DEF CdSame, Load, pwdVars
  <2>. QED BY <1>4, <2>1, <2>2, ReaderKept DEF CdSame
<1>5. CASE CdBack
  <2>1. Back /\ pc = "chdir" /\ pc' = pc /\ path' \in Seq(STRING)
        /\ UNCHANGED <<opened, listed, readVars, shown>>
    BY <1>1, <1>5, PathTail DEF CdBack
  <2>2. PwdTyped' /\ inode' \in Inode /\ (depth > 0 => inode' = dirlist'[depth'])
    BY <1>1, <2>1, BackTyped
  <2>3. inode' = dirlist'[depth']
    <3>1. CASE depth = 0
      BY <2>1, <3>1 DEF Back, pwdVars, IInv, InodeIsPwd
    <3>2. CASE depth # 0
      <4>1. depth > 0 BY <1>1, <3>2, NamesAssumption DEF PwdTyped, NamesAssumption
      <4>. QED BY <2>2, <4>1
    <3>. QED BY <3>1, <3>2
  <2>. QED BY <2>1, <2>2, <2>3, ReaderKept
<1>6. CASE CdFails
  <2>1. PwdTyped' BY <1>1, <1>6 DEF CdFails, pwdVars, PwdTyped
  <2>. QED BY <1>1, <1>6, <2>1, ReaderKept DEF CdFails
<1>7. ASSUME NEW p \in Path, NEW isabsolute \in BOOLEAN, Cd(p, isabsolute)
      PROVE  IInv'
  <2>1. PwdTyped'
    <3>1. CASE isabsolute BY <1>1, <1>7, <3>1, RootTyped DEF Cd
    <3>2. CASE ~isabsolute BY <1>1, <1>7, <3>2 DEF Cd, pwdVars, PwdTyped
    <3>. QED BY <3>1, <3>2
  <2>2. inode' \in Inode /\ inode' = dirlist'[depth'] BY <1>7 DEF Cd, Load
  <2>3. path' \in Seq(STRING)
    BY <1>7, NamesAssumption DEF Cd, NamesAssumption
  <2>. QED BY <1>7, <2>1, <2>2, <2>3, ReaderKept DEF Cd
<1>. QED BY <1>2, <1>3, <1>4, <1>5, <1>6, <1>7

-----------------------------------------------------------------------------
(* findentry, for cd X and cat X. *)
LEMMA FindKeeps ==
  ASSUME IInv, \/ CdFind \/ CdFindStep \/ CatFindStep
               \/ \E name \in File : Cat(name)
  PROVE  IInv'
<1>1. TypeOK /\ PwdTyped /\ inode \in Inode /\ path \in Seq(STRING) /\ ReaderInv
  BY TypeParts DEF IInv
<1>2. ASSUME NEW p \in Inode, StartFind(p), UNCHANGED <<pwdVars, shown>>,
             inode' = p, inode' = dirlist[depth], path' \in Seq(STRING), path' # <<>>,
             pc' \in {"cdfind", "catfind"}, pc' = "cdfind" => depth < MaxDepth
      PROVE  IInv'
  <2>1. filename' = Empty /\ Empty \in STRING /\ UNCHANGED <<header, entry, depth, dirlist, pwdname>>
    BY <1>2, EmptyTyped DEF StartFind, pwdVars
  <2>2. ReadTyped' /\ ReaderInv' /\ opened' /\ listed' = p
    BY <1>1, <1>2, <2>1, Opens DEF StartFind
  <2>3. PwdTyped' /\ pc' \in Loops BY <1>1, <1>2, <2>1 DEF PwdTyped, Loops
  <2>4. SearchInv' BY <1>2, <2>1, <2>2 DEF SearchInv
  <2>5. InodeIsPwd' BY <1>2, <2>1 DEF InodeIsPwd
  <2>6. ShownInv' BY <1>2 DEF IInv, ShownInv
  <2>. QED BY <1>2, <2>2, <2>3, <2>4, <2>5, <2>6, TypeParts DEF IInv
<1>3. CASE CdFind
  <2>1. inode = dirlist[depth] BY <1>3 DEF CdFind, IInv, InodeIsPwd
  <2>. QED BY <1>1, <1>2, <1>3, <2>1 DEF CdFind, IsName
<1>4. ASSUME NEW name \in File, Cat(name)
      PROVE  IInv'
  <2>1. path' = <<name>> /\ name \in STRING
    BY <1>4, NamesAssumption DEF Cat, NamesAssumption
  <2>2. path' \in Seq(STRING) /\ Len(path') = 1 BY <2>1, OneElement
  <2>4. path' # <<>> BY <2>2
  <2>3. inode' = dirlist[depth] /\ inode' \in Inode /\ StartFind(inode')
        /\ pc' = "catfind" /\ UNCHANGED <<pwdVars, shown>>
    BY <1>4 DEF Cat, Load
  <2>. QED BY <1>2, <2>2, <2>3, <2>4
<1>5. CASE CdFindStep \/ CatFindStep
  <2>1. /\ pc \in {"cdfind", "catfind"} /\ ReadItem
        /\ UNCHANGED <<inode, depth, dirlist, pwdname, opened, listed, pc, path, shown>>
    BY <1>5 DEF CdFindStep, CatFindStep, FindStep, pwdVars
  <2>2. ReadTyped' /\ ReaderInv'
    BY <1>1, <2>1, ReadsItem, TypeParts DEF ReadTyped
  <2>3. PwdTyped' BY <1>1, <2>1 DEF PwdTyped
  <2>4. SearchInv' /\ InodeIsPwd' BY <2>1 DEF IInv, SearchInv, InodeIsPwd
  <2>5. ShownInv' BY <2>1 DEF IInv, ShownInv
  <2>. QED BY <1>1, <2>1, <2>2, <2>3, <2>4, <2>5, TypeParts DEF IInv
<1>. QED BY <1>3, <1>4, <1>5

(* It is found, or it is not there: the reader is closed. *)
LEMMA FoundTyped ==
  ASSUME IInv, Finds(Head(path)) \/ FindsNothing, UNCHANGED listed
  PROVE  ReadTyped' /\ ReaderInv' /\ ~opened' /\ EntryPointer' \in Nat \X Nat
<1>1. TypeOK /\ ReadTyped /\ ReaderInv BY TypeParts DEF IInv
<1>2. opened' = FALSE BY DEF Finds, FindsNothing, CloseReader
<1>3. opened' \in BOOLEAN BY <1>2
<1>4. ReadTyped' /\ ReaderInv'
  <2>1. CASE Finds(Head(path)) BY <1>1, <1>3, <2>1, ReadsItem DEF Finds
  <2>2. CASE FindsNothing
    <3>1. UNCHANGED <<pos, entry_count, header, entry, filename>>
      BY <2>2 DEF FindsNothing, readVars
    <3>. QED BY <1>1, <1>3, <3>1 DEF ReadTyped, ReaderInv
  <2>. QED BY <2>1, <2>2
<1>5. EntryPointer' \in Nat \X Nat
  BY <1>4 DEF ReadTyped, EntryPointer, HeaderItem, EntryItem
<1>. QED BY <1>2, <1>4, <1>5

LEMMA FoundKeeps ==
  ASSUME IInv, CdEnter \/ CdStops \/ CatFile \/ CatMissing
  PROVE  IInv'
<1>1. TypeOK /\ PwdTyped /\ inode \in Inode /\ path \in Seq(STRING)
      /\ path # <<>> /\ UNCHANGED <<listed, shown>>
      /\ (Finds(Head(path)) \/ FindsNothing)
  <2>1. pc \in {"cdfind", "catfind"}
    BY DEF CdEnter, CdStops, CatFile, CatMissing
  <2>. QED BY <2>1, TypeParts DEF IInv, SearchInv, CdEnter, CdStops, CatFile, CatMissing
<1>2. ReadTyped' /\ ReaderInv' /\ ~opened' /\ EntryPointer' \in Nat \X Nat
  BY <1>1, FoundTyped
<1>3. ShownInv' BY <1>1, <1>2 DEF IInv, ShownInv
<1>4. ASSUME PwdTyped', inode' \in Inode, path' \in Seq(STRING),
             pc' \in {"idle", "chdir", "exited"},
             pc' = "chdir" => inode' = dirlist'[depth']
      PROVE  IInv'
  <2>1. SearchInv' /\ InodeIsPwd' BY <1>4 DEF SearchInv, InodeIsPwd
  <2>2. pc' \in Loops BY <1>4 DEF Loops
  <2>. QED BY <1>2, <1>3, <1>4, <2>1, <2>2, TypeParts DEF IInv
<1>5. CASE CdEnter
  <2>1. depth < MaxDepth BY <1>5 DEF CdEnter, IInv, SearchInv
  <2>2. Head(path) \in STRING /\ Tail(path) \in Seq(STRING) BY <1>1, PathTail
  <2>3. depth' \in 0..MaxDepth /\ depth + 1 \in 0..MaxDepth /\ depth' = depth + 1
    BY <1>1, <1>5, <2>1, NamesAssumption DEF CdEnter, PwdTyped, NamesAssumption
  <2>4. dirlist' \in [0..MaxDepth -> Nat \X Nat] /\ dirlist'[depth'] = EntryPointer'
    BY <1>1, <1>2, <1>5, <2>3 DEF CdEnter, PwdTyped
  <2>5. pwdname' \in Seq(STRING)
    BY <1>1, <1>5, <2>2, AppendProperties DEF CdEnter, PwdTyped
  <2>6. PwdTyped' BY <2>3, <2>4, <2>5 DEF PwdTyped
  <2>7. CASE EntryPointer' \in Inode
    BY <1>4, <1>5, <2>2, <2>4, <2>6, <2>7 DEF CdEnter
  <2>8. CASE EntryPointer' \notin Inode
    BY <1>1, <1>4, <1>5, <2>6, <2>8 DEF CdEnter
  <2>. QED BY <2>7, <2>8
<1>6. CASE CdStops \/ CatMissing
  <2>1. PwdTyped' BY <1>1, <1>6 DEF CdStops, CatMissing, pwdVars, PwdTyped
  <2>2. path' = <<>> /\ pc' = "idle" /\ inode' = inode
    BY <1>6 DEF CdStops, CatMissing
  <2>3. path' \in Seq(STRING) BY <2>2, EmptySeq
  <2>. QED BY <1>1, <1>4, <2>1, <2>2, <2>3
<1>7. CASE CatFile
  <2>1. PwdTyped' BY <1>1, <1>7 DEF CatFile, pwdVars, PwdTyped
  <2>. QED BY <1>4, <1>7, <2>1 DEF CatFile, Load
<1>. QED BY <1>5, <1>6, <1>7

-----------------------------------------------------------------------------
LEMMA InitIInv == Init => IInv
<1>. SUFFICES ASSUME Init PROVE IInv OBVIOUS
<1>1. inode \in Inode BY ArchiveAssumption DEF Init, ArchiveAssumption
<1>2. PwdTyped
  BY ArchiveAssumption, NamesAssumption DEF Init, PwdTyped, ArchiveAssumption, NamesAssumption
<1>3. ReadTyped
  <2>1. listed \in DOMAIN Listing /\ pos = 0 /\ entry_count = 0 /\ filename = Empty /\ Empty \in STRING
    BY ArchiveAssumption, EmptyTyped DEF Init, ArchiveAssumption, IsDir
  <2>2. header \in HeaderItem BY DEF Init, NoHeader, HeaderItem
  <2>3. entry \in EntryItem BY EmptyTyped DEF Init, NoEntry, EntryItem
  <2>4. opened \in BOOLEAN BY DEF Init
  <2>5. 0 \in 0..Len(Listing[listed]) BY <2>1, ListingTyped
  <2>. QED BY <2>1, <2>2, <2>3, <2>4, <2>5 DEF ReadTyped, IsDir
<1>4. path \in Seq(STRING) /\ pc \in Loops BY DEF Init, Loops
<1>5. ReaderInv BY DEF Init, ReaderInv
<1>6. SearchInv /\ InodeIsPwd BY DEF Init, SearchInv, InodeIsPwd
<1>7. ShownInv BY DEF Init, ShownInv
<1>. QED BY <1>1, <1>2, <1>3, <1>4, <1>5, <1>6, <1>7, TypeParts DEF IInv

LEMMA NextIInv == IInv /\ [Next]_vars => IInv'
<1>. SUFFICES ASSUME IInv, [Next]_vars PROVE IInv' OBVIOUS
<1>1. CASE Command
  <2>1. CASE Step \/ List("idle") \/ List("list")
    BY <2>1, ListKeeps, ListStepKeeps DEF Step
  <2>. QED BY <1>1, <2>1, CdKeeps, FindKeeps DEF Command
<1>2. CASE Loop
  <2>1. CASE ListLoop
    <3>1. ListStep /\ pc = "list" /\ pc' \in {"idle", "list"} BY <2>1 DEF ListLoop
    <3>. QED BY <3>1, ListStepKeeps
  <2>. QED BY <1>2, <2>1, CdKeeps, FindKeeps, FoundKeeps DEF Loop
<1>3. CASE Exit
  <2>1. UNCHANGED <<inode, depth, dirlist, pwdname, opened, listed, pos, entry_count,
                    header, entry, filename, path, shown>> /\ pc' = "exited"
    BY <1>3 DEF Exit, pwdVars, readVars
  <2>2. PwdTyped' /\ ReadTyped' /\ inode' \in Inode /\ path' \in Seq(STRING) /\ pc' \in Loops
    BY <2>1, TypeParts DEF IInv, PwdTyped, ReadTyped, Loops
  <2>3. ReaderInv' BY <2>1 DEF IInv, ReaderInv
  <2>4. SearchInv' /\ InodeIsPwd' BY <2>1 DEF SearchInv, InodeIsPwd
  <2>5. ShownInv' BY <2>1 DEF IInv, ShownInv
  <2>. QED BY <2>2, <2>3, <2>4, <2>5, TypeParts DEF IInv
<1>4. CASE UNCHANGED vars
  <2>1. UNCHANGED <<inode, depth, dirlist, pwdname, opened, listed, pos, entry_count,
                    header, entry, filename, path, shown, pc>>
    BY <1>4 DEF vars, pwdVars, readVars
  <2>. QED BY <2>1 DEF IInv, TypeOK, ReaderInv, SearchInv, InodeIsPwd, ShownInv
<1>. QED BY <1>1, <1>2, <1>3, <1>4 DEF Next

LEMMA IInvHolds == Spec => []IInv
BY InitIInv, NextIInv, PTL DEF Spec

(* Every variable has a value of its C type: depth indexes dirlist, and what
   the reader has read is in the directory. *)
THEOREM TypeCorrect == Spec => []TypeOK
<1>1. IInv => TypeOK BY DEF IInv
<1>. QED BY <1>1, IInvHolds, PTL

(* While a path is followed or a name is looked for, a->inode is the inode of
   the pwd, whatever was listed and loaded before. *)
THEOREM InodeStaysPwd == Spec => []InodeIsPwd
<1>1. IInv => InodeIsPwd BY DEF IInv
<1>. QED BY <1>1, IInvHolds, PTL

(* s and ls go through the entries of the directory in their order, one
   after the other, and to the inode of each, whatever commands come between
   two steps. *)
THEOREM ListingsStayInStep == Spec => []ListingInStep
<1>1. IInv => ListingInStep BY DEF IInv, ShownInv, ListingInStep
<1>. QED BY <1>1, IInvHolds, PTL

-----------------------------------------------------------------------------
(* What the pwd names.  For paths without an empty component, for which
   findentry may take an entry that is not there; dir_empty shows it. *)
NoEmptyComponent == \A p \in Path : \A i \in 1..Len(p) : p[i] # Empty

(* The name looked for is none of those seen so far, nor what filename is. *)
NameInv ==
  /\ pc \in {"chdir", "cdfind"} => \A i \in 1..Len(path) : path[i] # Empty
  /\ pc = "cdfind" =>
       /\ filename # Head(path) /\ Head(path) \notin {".", ".."}
       /\ \A i \in EntriesUpTo(listed, pos) : Listing[listed][i].name # Head(path)

PwdInv ==
  pc # "exited" =>
    /\ Len(pwdname) = depth
    /\ dirlist[0] = Root
    /\ \A i \in 1..depth :
         /\ IsDir(dirlist[i - 1]) /\ IsDir(dirlist[i])
         /\ dirlist[i] \in Subdirectory(dirlist[i - 1], pwdname[i])

LEMMA PwdUnchanged ==
  ASSUME PwdInv, UNCHANGED <<depth, dirlist, pwdname>>,
         pc # "exited" \/ pc' = "exited"
  PROVE  PwdInv'
BY DEF PwdInv

LEMMA RootPwd ==
  ASSUME PwdTyped, SetRoot
  PROVE  PwdInv'
<1>1. depth' = 0 /\ pwdname' = <<>> /\ dirlist'[0] = Root
  BY RootTyped DEF SetRoot
<1>2. Len(pwdname') = 0 BY <1>1
<1>. QED BY <1>1, <1>2 DEF PwdInv

LEMMA FrontOfPwd ==
  ASSUME PwdTyped, Len(pwdname) = depth, depth # 0
  PROVE  /\ Front(pwdname) \in Seq(STRING) /\ Len(Front(pwdname)) = depth - 1
         /\ \A i \in 1..depth - 1 : Front(pwdname)[i] = pwdname[i]
         /\ depth \in Nat \ {0}
<1>1. depth \in Nat \ {0} BY NamesAssumption DEF PwdTyped, NamesAssumption
<1>2. \A i \in 1..depth - 1 : pwdname[i] \in STRING
  BY <1>1, ElementOfSeq DEF PwdTyped
<1>3. 1 \in Int /\ depth - 1 \in Int BY <1>1
<1>4. /\ SubSeq(pwdname, 1, depth - 1) \in Seq(STRING)
      /\ Len(SubSeq(pwdname, 1, depth - 1)) = IF 1 <= depth - 1 THEN depth - 1 - 1 + 1 ELSE 0
      /\ \A i \in 1..depth - 1 - 1 + 1 : SubSeq(pwdname, 1, depth - 1)[i] = pwdname[1 + i - 1]
  BY <1>2, <1>3, SubSeqProperties
<1>5. Front(pwdname) = SubSeq(pwdname, 1, depth - 1) BY DEF Front
<1>6. Len(Front(pwdname)) = depth - 1 BY <1>1, <1>4, <1>5
<1>7. \A i \in 1..depth - 1 : Front(pwdname)[i] = pwdname[i]
  <2>1. \A i \in 1..depth - 1 : i \in 1..depth - 1 - 1 + 1 /\ 1 + i - 1 = i BY <1>1
  <2>. QED BY <1>4, <1>5, <2>1
<1>. QED BY <1>1, <1>4, <1>5, <1>6, <1>7

LEMMA BackPwd ==
  ASSUME TypeOK, PwdInv, pc # "exited", Back
  PROVE  PwdInv'
<1>1. PwdTyped BY TypeParts
<1>2. CASE depth = 0 BY <1>2, PwdUnchanged DEF Back, pwdVars
<1>3. CASE depth # 0
  <2>1. depth' = depth - 1 /\ pwdname' = Front(pwdname) /\ dirlist' = dirlist
    BY <1>3 DEF Back
  <2>2. /\ Len(pwdname) = depth /\ dirlist[0] = Root
        /\ \A i \in 1..depth :
             /\ IsDir(dirlist[i - 1]) /\ IsDir(dirlist[i])
             /\ dirlist[i] \in Subdirectory(dirlist[i - 1], pwdname[i])
    BY DEF PwdInv
  <2>3. /\ Len(pwdname') = depth' /\ depth \in Nat \ {0}
        /\ \A i \in 1..depth' : pwdname'[i] = pwdname[i]
    BY <1>1, <1>3, <2>1, <2>2, FrontOfPwd
  <2>4. \A i \in 1..depth' : i \in 1..depth BY <2>1, <2>3
  <2>. QED BY <2>1, <2>2, <2>3, <2>4 DEF PwdInv
<1>. QED BY <1>2, <1>3

(* An entry with the name is found: it is the one just read. *)
LEMMA FindsEntry ==
  ASSUME IInv, NameInv, pc = "cdfind", Finds(Head(path)), UNCHANGED listed
  PROVE  /\ pos \in Nat /\ pos + 1 \in EntriesOf(listed) /\ listed \in DOMAIN Listing
         /\ entry' = Listing[listed][pos + 1] /\ entry'.name = Head(path)
         /\ EntryPointer' = Target(listed, pos + 1) /\ EntryPointer' \in Inode
<1>1. ReadItem /\ filename' = Head(path) BY DEF Finds
<1>2. ~ReadHeader BY <1>1 DEF ReadHeader, NameInv
<1>3. ReadEntry BY <1>1, <1>2 DEF ReadItem
<1>4. entry'.name = Head(path) BY <1>1, <1>3 DEF ReadEntry
<1>5. listed \in DOMAIN Listing BY DEF IInv, TypeOK, IsDir
<1>. QED BY <1>3, <1>4, <1>5, ReadsEntry DEF IInv

LEMMA EnterPwd ==
  ASSUME IInv, NameInv, PwdInv, CdEnter
  PROVE  PwdInv' /\ pc' = "chdir" /\ path' = Tail(path)
<1>1. /\ pc = "cdfind" /\ Finds(Head(path)) /\ entry'.isdir /\ listed' = listed
      /\ pwdname' = Append(pwdname, Head(path)) /\ depth' = depth + 1
      /\ dirlist' = [dirlist EXCEPT ![depth + 1] = EntryPointer']
  BY DEF CdEnter
<1>2. /\ pos \in Nat /\ pos + 1 \in EntriesOf(listed) /\ listed \in DOMAIN Listing
      /\ entry' = Listing[listed][pos + 1] /\ entry'.name = Head(path)
      /\ EntryPointer' = Target(listed, pos + 1) /\ EntryPointer' \in Inode
  BY <1>1, FindsEntry
<1>3. pc' = "chdir" /\ path' = Tail(path) BY <1>2 DEF CdEnter
<1>4. PwdTyped /\ path \in Seq(STRING) /\ path # <<>> /\ listed = dirlist[depth]
      /\ depth < MaxDepth
  BY <1>1, TypeParts DEF IInv, SearchInv, InodeIsPwd
<1>5. /\ Len(pwdname) = depth /\ dirlist[0] = Root
      /\ \A i \in 1..depth :
           /\ IsDir(dirlist[i - 1]) /\ IsDir(dirlist[i])
           /\ dirlist[i] \in Subdirectory(dirlist[i - 1], pwdname[i])
  BY <1>1 DEF PwdInv
<1>6. EntryPointer' \in Subdirectory(listed, Head(path))
  BY <1>1, <1>2 DEF Subdirectory
<1>7. IsDir(EntryPointer') /\ IsDir(listed)
  BY <1>1, <1>2, ArchiveAssumption DEF ArchiveAssumption, IsDir
<1>8. Head(path) \in STRING BY <1>4, PathTail
<1>9. /\ Len(pwdname') = depth + 1 /\ pwdname'[depth + 1] = Head(path)
      /\ \A i \in 1..depth : pwdname'[i] = pwdname[i]
  BY <1>1, <1>4, <1>5, <1>8, AppendProperties DEF PwdTyped
<1>10. depth \in Nat /\ depth + 1 \in 0..MaxDepth
  BY <1>4, NamesAssumption DEF PwdTyped, NamesAssumption
<1>11. /\ dirlist'[depth + 1] = EntryPointer'
       /\ \A i \in 0..depth : dirlist'[i] = dirlist[i]
  BY <1>1, <1>4, <1>10 DEF PwdTyped
<1>12. ASSUME NEW i \in 1..depth'
       PROVE  /\ IsDir(dirlist'[i - 1]) /\ IsDir(dirlist'[i])
              /\ dirlist'[i] \in Subdirectory(dirlist'[i - 1], pwdname'[i])
  <2>1. CASE i = depth + 1
    <3>1. i - 1 = depth /\ depth \in 0..depth BY <1>10, <2>1
    <3>. QED BY <1>4, <1>6, <1>7, <1>9, <1>11, <2>1, <3>1
  <2>2. CASE i # depth + 1
    <3>1. i \in 1..depth /\ i \in 0..depth /\ i - 1 \in 0..depth
      BY <1>1, <1>10, <2>2
    <3>. QED BY <1>5, <1>9, <1>11, <3>1
  <2>. QED BY <2>1, <2>2
<1>13. dirlist'[0] = Root BY <1>5, <1>10, <1>11
<1>. QED BY <1>1, <1>3, <1>9, <1>12, <1>13 DEF PwdInv

LEMMA TailNamed ==
  ASSUME path \in Seq(STRING), path # <<>>, \A i \in 1..Len(path) : path[i] # Empty
  PROVE  \A i \in 1..Len(Tail(path)) : Tail(path)[i] # Empty
<1>1. Len(path) \in Nat BY LenProperties
<1>2. /\ Len(Tail(path)) = Len(path) - 1
      /\ \A i \in 1..Len(Tail(path)) : Tail(path)[i] = path[i + 1]
  BY HeadTailProperties
<1>3. \A i \in 1..Len(Tail(path)) : i + 1 \in 1..Len(path) BY <1>1, <1>2
<1>. QED BY <1>2, <1>3

(* A component is left of the path while a name is looked for. *)
LEMMA HeadNamed ==
  ASSUME path \in Seq(STRING), path # <<>>, \A i \in 1..Len(path) : path[i] # Empty
  PROVE  Head(path) # Empty
<1>1. Len(path) \in Nat \ {0} BY EmptySeq
<1>. QED BY <1>1

LEMMA NamesInit == Init => NameInv /\ PwdInv
<1>. SUFFICES ASSUME Init PROVE NameInv /\ PwdInv OBVIOUS
<1>1. depth = 0 /\ pwdname = <<>> /\ pc = "idle" BY DEF Init
<1>2. 0 \in 0..MaxDepth BY NamesAssumption DEF NamesAssumption
<1>3. dirlist[0] = Root BY <1>2 DEF Init
<1>4. Len(pwdname) = 0 BY <1>1
<1>. QED BY <1>1, <1>3, <1>4 DEF NameInv, PwdInv

(* What does not change the pwd and does not follow a path. *)
LEMMA NamesQuiet ==
  ASSUME PwdInv,
         \/ \E next \in {"idle", "list"} : List(next)
         \/ Step \/ ListLoop \/ CdDone \/ CdFails \/ CdStops \/ Exit
         \/ \E name \in File : Cat(name)
         \/ CatFindStep \/ CatFile \/ CatMissing
  PROVE  NameInv' /\ PwdInv'
<1>1. /\ UNCHANGED <<depth, dirlist, pwdname>>
      /\ pc' \notin {"chdir", "cdfind"} /\ pc # "exited"
  BY DEF List, Step, ListLoop, ListStep, CdDone, CdFails, CdStops, Exit, Cat,
         CatFindStep, CatFile, CatMissing, pwdVars
<1>. QED BY <1>1, PwdUnchanged DEF NameInv

LEMMA NamesCd ==
  ASSUME NoEmptyComponent, IInv, PwdInv, NEW p \in Path, NEW isabsolute \in BOOLEAN,
         Cd(p, isabsolute)
  PROVE  NameInv' /\ PwdInv'
<1>1. PwdTyped /\ pc = "idle" /\ pc' = "chdir" /\ path' = p
  BY TypeParts DEF IInv, Cd
<1>2. PwdInv'
  <2>1. CASE isabsolute BY <1>1, <2>1, RootPwd DEF Cd
  <2>2. CASE ~isabsolute BY <1>1, <2>2, PwdUnchanged DEF Cd, pwdVars
  <2>. QED BY <2>1, <2>2
<1>. QED BY <1>1, <1>2 DEF NoEmptyComponent, NameInv

LEMMA NamesFollow ==
  ASSUME IInv, NameInv, PwdInv, CdSame \/ CdBack \/ CdEnter
  PROVE  NameInv' /\ PwdInv'
<1>1. path \in Seq(STRING) /\ path # <<>> /\ pc \in {"chdir", "cdfind"} /\ TypeOK
  BY TypeParts DEF IInv, SearchInv, CdSame, CdBack, CdEnter
<1>2. \A i \in 1..Len(Tail(path)) : Tail(path)[i] # Empty
  BY <1>1, TailNamed DEF NameInv
<1>3. pc' = "chdir" /\ path' = Tail(path) BY <1>1, EnterPwd DEF CdSame, CdBack
<1>4. PwdInv'
  <2>1. CASE CdSame BY <2>1, PwdUnchanged DEF CdSame, pwdVars
  <2>2. CASE CdBack BY <1>1, <2>2, BackPwd DEF CdBack
  <2>. QED BY <2>1, <2>2, EnterPwd
<1>. QED BY <1>2, <1>3, <1>4 DEF NameInv

LEMMA NamesFind ==
  ASSUME IInv, NameInv, PwdInv, CdFind \/ CdFindStep
  PROVE  NameInv' /\ PwdInv'
<1>1. PwdInv' BY PwdUnchanged DEF CdFind, CdFindStep, pwdVars
<1>2. /\ path \in Seq(STRING) /\ path # <<>> /\ path' = path
      /\ \A i \in 1..Len(path) : path[i] # Empty
      /\ Head(path) \notin {".", ".."} /\ pc' = "cdfind"
  BY TypeParts DEF IInv, SearchInv, NameInv, CdFind, CdFindStep, IsName
<1>3. CASE CdFind
  <2>1. filename' = Empty /\ pos' = 0 BY <1>3 DEF CdFind, StartFind, OpenListing
  <2>2. EntriesUpTo(listed', pos') = {} BY <2>1 DEF EntriesUpTo
  <2>3. filename' # Head(path) BY <1>2, <2>1, HeadNamed
  <2>. QED BY <1>1, <1>2, <2>2, <2>3 DEF NameInv
<1>4. CASE CdFindStep
  <2>1. /\ pc = "cdfind" /\ ReadItem /\ filename' # Head(path) /\ listed' = listed
    BY <1>4 DEF CdFindStep, FindStep
  <2>2. \A i \in EntriesUpTo(listed, pos) : Listing[listed][i].name # Head(path)
    BY <2>1 DEF NameInv
  <2>3. \A i \in EntriesUpTo(listed, pos') : Listing[listed][i].name # Head(path)
    <3>1. CASE ReadHeader
      <4>1. pos \in Nat /\ pos' = pos + 1 /\ IsHeader(Listing[listed][pos + 1])
        BY <2>1, <3>1, ReadsHeader DEF IInv
      <4>2. pos + 1 \notin EntriesOf(listed) BY <4>1 DEF EntriesOf
      <4>. QED BY <2>2, <4>1, <4>2, EntriesNext
    <3>2. CASE ReadEntry
      <4>1. /\ pos \in Nat /\ pos' = pos + 1 /\ pos + 1 \in EntriesOf(listed)
            /\ entry' = Listing[listed][pos + 1]
        BY <2>1, <3>2, ReadsEntry DEF IInv
      <4>2. Listing[listed][pos + 1].name # Head(path)
        BY <2>1, <3>2, <4>1 DEF ReadEntry
      <4>3. EntriesUpTo(listed, pos') = EntriesUpTo(listed, pos) \cup {pos + 1}
        BY <4>1, EntriesNext
      <4>. QED BY <2>2, <4>2, <4>3
    <3>. QED BY <2>1, <3>1, <3>2 DEF ReadItem
  <2>. QED BY <1>1, <1>2, <2>1, <2>3 DEF NameInv
<1>. QED BY <1>3, <1>4

LEMMA NamesNext ==
  ASSUME NoEmptyComponent, IInv, NameInv, PwdInv, [Next]_vars
  PROVE  NameInv' /\ PwdInv'
<1>1. CASE CdRoot
  <2>1. SetRoot /\ pc' = "idle" BY <1>1 DEF CdRoot
  <2>. QED BY <2>1, RootPwd, TypeParts DEF IInv, NameInv
<1>2. CASE UNCHANGED vars
  <2>1. UNCHANGED <<depth, dirlist, pwdname, pc, path, filename, listed, pos>>
    BY <1>2 DEF vars, pwdVars, readVars
  <2>. QED BY <2>1 DEF NameInv, PwdInv
<1>. QED BY <1>1, <1>2, NamesQuiet, NamesCd, NamesFollow, NamesFind
         DEF Next, Command, Loop

LEMMA NamesHold ==
  ASSUME NoEmptyComponent
  PROVE  Spec => [](IInv /\ NameInv /\ PwdInv)
<1>1. Init => IInv /\ NameInv /\ PwdInv BY InitIInv, NamesInit
<1>2. (IInv /\ NameInv /\ PwdInv) /\ [Next]_vars => (IInv /\ NameInv /\ PwdInv)'
  BY NextIInv, NamesNext
<1>. QED BY <1>1, <1>2, PTL DEF Spec

(* Where no path has an empty component, the list of addresses and the list
   of names, which the prompt shows, are one chain of subdirectories from the
   root, whatever the other commands left in the reader and its buffers. *)
THEOREM PwdIsItsName ==
  ASSUME NoEmptyComponent
  PROVE  Spec => []PwdNamesDirectory
<1>1. PwdInv => PwdNamesDirectory BY DEF PwdInv, PwdNamesDirectory
<1>. QED BY <1>1, NamesHold, PTL

=============================================================================

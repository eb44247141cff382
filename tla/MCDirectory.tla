---------------------------- MODULE MCDirectory -----------------------------
(***************************************************************************)
(* An archive for Directory: inodes in two metablocks, names that occur in *)
(* several directories, a directory with two headers and empty ones.       *)
(*                                                                         *)
(*   /   f (file)  a (directory)  c (directory, in the other metablock)    *)
(*   /a  b (empty directory)  f (file)                                     *)
(*   /c  a (empty directory)                                               *)
(***************************************************************************)
EXTENDS Directory

Header(count, start) == [kind |-> "header", count |-> count, start |-> start]
FileEntry(name, offset) ==
  [kind |-> "entry", name |-> name, offset |-> offset, isdir |-> FALSE]
DirEntry(name, offset) ==
  [kind |-> "entry", name |-> name, offset |-> offset, isdir |-> TRUE]

RootDir == <<0, 0>>
A == <<0, 1>>
AB == <<1, 1>>
C == <<1, 0>>
CA == <<0, 3>>

MCRoot == RootDir
MCInode == {RootDir, A, AB, C, CA, <<0, 2>>, <<1, 2>>}
MCListing ==
  [d \in {RootDir, A, AB, C, CA} |->
     CASE d = RootDir -> <<Header(2, 0), FileEntry("f", 2), DirEntry("a", 1),
                           Header(1, 1), DirEntry("c", 0)>>
       [] d = A -> <<Header(2, 1), DirEntry("b", 1), FileEntry("f", 2)>>
       [] d = C -> <<Header(1, 0), DirEntry("a", 3)>>
       [] d \in {AB, CA} -> <<>>]

MCPath == {<<>>, <<"a">>, <<"c", "a">>, <<"a", "b">>, <<"..">>,
           <<".", "..", "c">>, <<"a", "no", "b">>, <<"f", "a">>}
MCFile == {"f", "a", "no"}

(* Paths with empty components, such as "a//b". *)
MCPathEmpty == {<<"a">>, <<"a", "", "b">>}
=============================================================================

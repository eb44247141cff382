--------------------------- MODULE MCArchiveRead ----------------------------
(***************************************************************************)
(* An archive for ArchiveRead, with blocks of three bytes, sizes that wrap *)
(* at nine, metablocks of five bytes and words of two, so that words lie  *)
(* across metablocks; two headers of fragments and four ids in a           *)
(* metablock, of which fetch_id counts two.                                *)
(***************************************************************************)
EXTENDS ArchiveRead

Block(sod, stored, at) == [sod |-> sod, stored |-> stored, at |-> at]
Plain(name, size, list, start, blocks) ==
  [name |-> name, size |-> size, extended |-> FALSE, list |-> list,
   start |-> start, blocks |-> blocks, fragment |-> None, offset |-> 0]

MCFile == {
  Plain("empty", 0, 1, 0, <<>>),
  Plain("short", 2, 2, 0, <<Block(1, FALSE, 0)>>),
  Plain("whole", 3, 5, 1, <<Block(3, TRUE, 1)>>),
  Plain("two", 6, 9, 4, <<Block(2, FALSE, 4), Block(2, FALSE, 6)>>),
  Plain("sparse", 7, 14, 8,
        <<Block(3, TRUE, 8), Block(0, FALSE, 11), Block(1, TRUE, 11)>>),
  [Plain("tail", 5, 21, 12, <<Block(2, FALSE, 12)>>)
     EXCEPT !.fragment = 2, !.offset = 1],
  [Plain("bits", 1, 24, 14, <<>>) EXCEPT !.fragment = 0],
  [Plain("end", 2, 26, 14, <<>>) EXCEPT !.fragment = 1, !.offset = 1],
  [Plain("cut", 12, 28, 14,
         <<Block(3, TRUE, 14), Block(2, FALSE, 17), Block(0, FALSE, 19),
           Block(2, FALSE, 19)>>) EXCEPT !.extended = TRUE],
  [Plain("refused", 10, 37, 21,
         <<Block(3, TRUE, 21), Block(2, FALSE, 24), Block(2, FALSE, 26),
           Block(1, TRUE, 28)>>) EXCEPT !.extended = TRUE],
  [Plain("last", 11, 46, 29,
         <<Block(3, TRUE, 29), Block(2, FALSE, 32), Block(2, FALSE, 34)>>)
     EXCEPT !.extended = TRUE, !.fragment = 2]}

MCFragment ==
  [i \in 0..2 |-> [size |-> 3, stored |-> i = 1]]
=============================================================================

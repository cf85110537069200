---------------------------- MODULE MCSortedFind ----------------------------
(* Small instances of SortedFind. *)
EXTENDS SortedFind

SevenKeys == 1 .. 7

EightKeys == 1 .. 8

(* The sorted files over eight and over seven keys, the empty one included. *)
FilesOverEight ==
    {SelectSeq(<<1, 2, 3, 4, 5, 6, 7, 8>>, LAMBDA k : k \in S) : S \in SUBSET EightKeys}

FilesOverSeven == FilesOverEight \cap Seq(SevenKeys)
=============================================================================

--------------------------- MODULE MCSortedMerge ----------------------------
(* Small instances of SortedMerge, with its file. *)
EXTENDS MergedFile

FourKeys == 1 .. 4

(* The sorted files over four keys, the empty file included. *)
Files == {SelectSeq(<<1, 2, 3, 4>>, LAMBDA k : k \in S) : S \in SUBSET FourKeys}

UpToThreeFiles ==
    {<< >>} \cup {<<f>> : f \in Files} \cup {<<f, g>> : f, g \in Files}
        \cup {<<f, g, h>> : f, g, h \in Files}
=============================================================================

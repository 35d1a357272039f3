------------------------------- MODULE MCRagIndex -------------------------------
(* RagIndex over two files and documents of no chunk, of one, whose number is not    *)
(* the first, and of two, one of them too long; and over all short sections, which   *)
(* are split in every way.                                                           *)
EXTENDS RagIndex, TLC

CONSTANTS f1, f2

MCFiles == {f1, f2}

MCDocuments == {<<<<0>>>>, <<<<0>>, <<2>>>>, <<<<1>>, <<5>>>>}

MCSections == UNION {[1 .. n -> 0 .. 5] : n \in 1 .. 4}

MCSymmetry == Permutations(MCFiles)
================================================================================

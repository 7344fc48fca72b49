----------------------------- MODULE MCFileCache -----------------------------
(* Small instances of FileCache.                                             *)
EXTENDS FileCache, TLC

CONSTANTS c1, c2, k1, k2, short, long

\* one tile takes one read, the other two
Sizes == [v \in Vals |-> IF v = short THEN 1 ELSE 2]

\* every key has its own writer; both clients read all keys
OneWriter == [k \in Keys |-> IF k = k1 THEN {c1} ELSE {c2}]

\* inodes are interchangeable
InodeSymmetry == Permutations(Inodes)
=============================================================================

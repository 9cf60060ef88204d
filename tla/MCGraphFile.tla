----------------------------- MODULE MCGraphFile ------------------------------
(***************************************************************************)
(* A text of two buffers, and an inode for each name and each open file.   *)
(***************************************************************************)
EXTENDS GraphFile, TLC

CONSTANTS s1, s2, i1, i2, i3, i4

Symmetry == Permutations(Savers) \cup Permutations(Inodes)
==============================================================================

--------------------------- MODULE MCMemtableFlush ---------------------------
(* Small instances of MemtableFlush for TLC.                               *)
EXTENDS MemtableFlush, TLC

Symmetry == Permutations(Readers) \union Permutations(Keys)
=============================================================================

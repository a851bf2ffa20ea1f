---------------------------- MODULE MCCompaction ----------------------------
(* Small instances of Compaction for TLC.                                  *)
EXTENDS Compaction
=============================================================================

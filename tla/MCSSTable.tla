------------------------------- MODULE MCSSTable -------------------------------
(* A small instance of SSTable for TLC: a filter of twice the bits that    *)
(* the cast lets through, in which two keys share all their bits because   *)
(* of the cast and a third overlaps them.                                  *)
EXTENDS SSTable, TLC

MCHash1 == 1 :> 2 @@ 2 :> 10 @@ 3 :> 3
MCHash2 == 1 :> 3 @@ 2 :> 3 @@ 3 :> 7
=============================================================================

------------------------------ MODULE MCLSMStore ------------------------------
(* An instance of LSMStore for TLC.  Keys are only compared for equality,  *)
(* so they may be exchanged.                                               *)
EXTENDS LSMStore, TLC

KeySymmetry == Permutations(Keys)
===============================================================================

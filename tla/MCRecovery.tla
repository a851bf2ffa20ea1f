------------------------------ MODULE MCRecovery ------------------------------
(* Instances of Recovery for TLC.                                          *)
EXTENDS Recovery

(* The last write is made in the first life only, and no crash and no      *)
(* third life follow it; all bounds at once are too many states.           *)
LastWriteBound ==
  Len(writes') = MaxWrites => /\ crashes' = 0 /\ starts' < MaxStarts
                              /\ writes' # writes => starts = 1
=============================================================================

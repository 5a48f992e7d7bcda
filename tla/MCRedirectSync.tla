--------------------------- MODULE MCRedirectSync ---------------------------
(***************************************************************************)
(* Instances of RedirectSync.tla for TLC.  The syncs are interchangeable;  *)
(* the symmetry is only used for safety.                                   *)
(***************************************************************************)
EXTENDS RedirectSync, TLC

SyncSymmetry == Permutations(Syncs)
=============================================================================

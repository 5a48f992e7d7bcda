------------------------- MODULE MCStagePublication -------------------------
(***************************************************************************)
(* Instances of StagePublication.tla for TLC.  Two builds of two files     *)
(* that differ in one and of which one lacks the other: a sync skips (the  *)
(* same build again), writes and deletes.  Stages are interchangeable.     *)
(***************************************************************************)
EXTENDS StagePublication, TLC

CONSTANTS page, style, v1, v2

MCFiles    == {page, style}
MCContents == {v1, v2}
MCBuilds   == { (page :> v1 @@ style :> v1), (page :> v2 @@ style :> Absent) }

StageSymmetry == Permutations(Stages)
=============================================================================

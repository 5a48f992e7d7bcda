-------------------------- MODULE MCPublicProjection --------------------------
(***************************************************************************)
(* Instances of PublicProjection.tla for TLC: two processes, a write of a  *)
(* section and one of that section or of a comment.                        *)
(***************************************************************************)
EXTENDS PublicProjection

CONSTANTS p, q

MCHome == <<p, q>>
MCChanges == <<{"rate_limits"}, {"rate_limits", "comment"}>>
MCHeldBy == [live |-> {"rate_limits", "comment"}, staging |-> {"rate_limits", "comment"}]
===============================================================================

------------------------- MODULE MCRouteActivation -------------------------
(* One slot, two or three callers; callers are alike. *)
EXTENDS RouteActivation, TLC

MCSymmetry == Permutations(Callers)
=============================================================================

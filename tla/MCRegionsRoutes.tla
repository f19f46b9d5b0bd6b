-------------------------- MODULE MCRegionsRoutes --------------------------
(***************************************************************************)
(* RegionsRoutes with concurrent requests: the handlers are                *)
(* interchangeable, since no definition tells one from another.            *)
(***************************************************************************)
EXTENDS RegionsRoutes, TLC

HandlerSymmetry == Permutations(Handlers)
=============================================================================

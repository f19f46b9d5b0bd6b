----------------------------- MODULE MCFetcher -----------------------------
(***************************************************************************)
(* Fetcher on a small instance: two fills, a warm task and a style handler *)
(* on one tile and one style sub-resource.  The fill slots are             *)
(* interchangeable: no definition tells one from another.                  *)
(***************************************************************************)
EXTENDS Fetcher, TLC

FillSymmetry == Permutations(Fills)
=============================================================================

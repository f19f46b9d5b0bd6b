---------------------------- MODULE MCTileCache ----------------------------
(***************************************************************************)
(* Instances of TileCache for TLC.  The keys are interchangeable (the sums *)
(* and the eviction order never compare two keys), hence the symmetry.     *)
(***************************************************************************)
EXTENDS TileCache, TLC

CONSTANTS MaxBatch,     \* rows in a batch, at most
          Sizes         \* bytes a row can weigh

MCTiles == [bytes : Sizes]

MCBatches == UNION {[1 .. n -> [key : Keys, tile : MCTiles]] : n \in 1 .. MaxBatch}

KeySymmetry == Permutations(Keys)
=============================================================================

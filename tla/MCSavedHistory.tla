--------------------------- MODULE MCSavedHistory ---------------------------
(***************************************************************************)
(* Instances of SavedHistory for TLC: up to two saved regions and two      *)
(* basemaps with one glyph range each.                                     *)
(***************************************************************************)
EXTENDS SavedHistory, TLC

CONSTANTS k1, g1, g2, r1, r2, assets, pw, light, dark,
          Negatives               \* {} or {404}: whether upstream may miss

MCGoodTiles == [bytes : {1}, status : {200}]
MCTiles == MCGoodTiles \cup [bytes : {1}, status : Negatives]
MCRealStaging == {TileStaging(j) : j \in Jobs} \cup {AssetStaging(j) : j \in Jobs}
MCPositionStaging == {PosStaging(j) : j \in Jobs}
MCAssetKeys == [s \in Styles |-> IF s = light THEN {g1} ELSE {g2}]
Roomy == [cap |-> 6, regions |-> 6, position |-> 1]
OnlyRoomy == {Roomy}
NoBatches == {}
OneKey == {{k1}}
NoStyles == {{}}
EachStyle == {{light}, {dark}}
=============================================================================

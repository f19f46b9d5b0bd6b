---------------------------- MODULE MCWarmEngine ----------------------------
(***************************************************************************)
(* Instances of WarmEngine for TLC.                                        *)
(***************************************************************************)
EXTENDS WarmEngine, TileGeometry, TLC

CONSTANTS k1, k2, g1, g2,         \* tile keys and glyph keys
          r1, r2, assets, pw,     \* saved regions
          light, dark,            \* vector basemaps
          Sizes,                  \* bytes a 200 answer can weigh
          Negatives               \* {} or {404}: whether upstream may miss

MCTiles == [bytes : Sizes, status : {200}] \cup [bytes : {1}, status : Negatives]
MCGoodTiles == [bytes : Sizes, status : {200}]
MCRealStaging == {TileStaging(j) : j \in Jobs} \cup {AssetStaging(j) : j \in Jobs}
MCPositionStaging == {PosStaging(j) : j \in Jobs}
MCAssetKeys == [s \in Styles |-> IF s = light THEN {g1} ELSE {g2}]

Config(cap, regions, position) == [cap |-> cap, regions |-> regions, position |-> position]
TwoBytes == Config(2, 2, 0)
ThreeBytes == Config(3, 3, 1)
ShrinkTo1 == {TwoBytes, Config(1, 1, 0)}
OnlyThree == {ThreeBytes}
Snug == Config(2, 2, 1)
OnlySnug == {Snug}

NoBatches == {}
OneKey == {{k1}}
TwoKeys == {{k1}, {k1, k2}}
BothKeys == {{k1, k2}}
NoStyles == {{}}
PerhapsLight == {{}, {light}}
OnlyLight == {{light}}
EachStyle == {{light}, {dark}}

\* With requests for all keys and no assets, keys are alike as well as jobs.
JobAndKeySymmetry == Permutations(Jobs) \cup Permutations(Keys)

(* Boxes a request or a source may have: every pair of meridians, with     *)
(* bands that reach beyond the Mercator limits, start or end on a tile     *)
(* edge or inside a tile, or are upside down.                              *)
Bands == {<<-1, World + 1>>, <<-1, 1>>, <<0, 2>>, <<1, 2>>, <<1, 3>>, <<3, World + 1>>, <<2, 1>>}
Boxes(meridians) ==
    {[west |-> w, north |-> band[1], east |-> e, south |-> band[2]] :
        w \in meridians, e \in meridians, band \in Bands}
Coarse == {b \in Boxes({0, 1, 3, World}) : b.west # b.east /\ b.north < b.south /\ b.west - b.east # World}

(* The map is wide enough for these boxes, and its tiles of the zooms that *)
(* are asked for are whole units wide.                                     *)
ASSUME MapAssumption ==
    World >= 3 /\ EffectiveZoom >= 2 /\ \A z \in 0 .. 2 : World % 2^z = 0

GeoSource(lo, hi, bounds, coverage) ==
    [minzoom |-> lo, maxzoom |-> hi, bounds |-> bounds, coverage |-> coverage]
Geometries(P(_, _, _, _)) ==
    /\ \A b \in Boxes(0 .. World), bounds \in {c \in Coarse : c.north < 1} \cup {NoBoxes} :
          P(GeoSource(0, 2, bounds, NoBoxes), b, 0, 2)
    /\ \A b \in {c \in Coarse : c.south - c.north > 1},
           pair \in {{c, d} : c \in {x \in Coarse : x.north = 1}, d \in {x \in Coarse : x.west > x.east /\ x.north # 1}} :
          P(GeoSource(1, 2, NoBoxes, pair), b, 0, 2)
    /\ \A b \in {c \in Coarse : c.north < 0}, lo, hi, zmin, zmax \in 0 .. 2 :
          P(GeoSource(lo, hi, NoBoxes, NoBoxes), b, zmin, zmax)

(* Whatever boxes a running job was given, it downloads what was asked,    *)
(* and the total it was accepted by is what it goes through (geom.rs).     *)
AllExact == Geometries(DownloadsWhatIsAsked) /\ Geometries(CountIsHonest)
DownloadIsExact == (\E j \in Jobs : Running(j)) => AllExact
=============================================================================

---------------------------- MODULE TileGeometry ----------------------------
(***************************************************************************)
(* Which tiles a box means (geom.rs): what the warm engine counts before   *)
(* it accepts a job and what it then downloads.                            *)
(*                                                                         *)
(* Positions are units of a World x World square, the projected map:       *)
(* longitude -180 is 0 and 180 is World; latitude is projected and grows   *)
(* southwards, the Mercator limits are 0 and World, and what is beyond     *)
(* them is outside 0 .. World.  The projection is monotone, so comparing   *)
(* latitudes is comparing units the other way round.  A tile of zoom z is  *)
(* World \div 2^z units wide: edges between tiles and inside them occur.   *)
(***************************************************************************)
EXTENDS Integers, SequencesExt

CONSTANTS
    World,            \* units across the map, a multiple of every 2^z used
    EffectiveZoom,    \* MAX_EFFECTIVE_ZOOM
    NoBoxes           \* a source without coverage, or without bounds

ASSUME GeometryAssumption ==
    /\ World \in Nat \ {0} /\ EffectiveZoom \in Nat
    /\ \A z \in 0 .. EffectiveZoom : 2^z \in Nat \ {0}

(* Longitudes are on the map, latitudes anywhere.  A source that passed    *)
(* ChartSource::is_valid has no zoom beyond 24, and boxes for its bounds   *)
(* and its coverage.                                                       *)
Box == [west : 0 .. World, east : 0 .. World, north : Int, south : Int]
IsSource(source) ==
    /\ source.minzoom \in Nat /\ source.maxzoom \in 0 .. EffectiveZoom
    /\ source.coverage # NoBoxes => source.coverage \subseteq Box
    /\ source.bounds # NoBoxes => source.bounds \in Box

AtLeast(a, b) == IF a > b THEN a ELSE b
NoMoreThan(a, b) == IF a < b THEN a ELSE b

\* tile_for_lng_lat, one coordinate: the tile a position falls in, clamped.
TileFor(p, z) == NoMoreThan(AtLeast((p * 2^z) \div World, 0), 2^z - 1)

SplitBbox(b) ==
    IF b.west < b.east THEN {b}
    ELSE IF b.west > b.east THEN {[b EXCEPT !.east = World], [b EXCEPT !.west = 0]}
    ELSE {}

Intersect(l, r) ==
    [west |-> AtLeast(l.west, r.west), east |-> NoMoreThan(l.east, r.east),
     north |-> AtLeast(AtLeast(l.north, r.north), 0),
     south |-> NoMoreThan(NoMoreThan(l.south, r.south), World)]

NotEmpty(b) == b.west < b.east /\ b.north < b.south

\* Mutant: the source's boxes are not split at the antimeridian.
SourceBoxes_Unsplit(source) ==
    IF source.coverage # NoBoxes THEN source.coverage
    ELSE IF source.bounds # NoBoxes THEN {source.bounds}
    ELSE {[west |-> 0, north |-> -1, east |-> World, south |-> World + 1]}

\* Its coverage, else its bounds, else the world, split at the antimeridian.
SourceBoxes(source) ==
    UNION {SplitBbox(b) : b \in
        IF source.coverage # NoBoxes THEN source.coverage
        ELSE IF source.bounds # NoBoxes THEN {source.bounds}
        ELSE {[west |-> 0, north |-> -1, east |-> World, south |-> World + 1]}}

Clips(source, b) ==
    IF b.west = b.east \/ b.west - b.east = World \/ b.south <= b.north THEN {}
    ELSE {c \in {Intersect(l, r) : l \in SplitBbox(b), r \in SourceBoxes(source)} : NotEmpty(c)}

ZoomBounds(source, zmin, zmax) ==
    AtLeast(zmin, source.minzoom) .. NoMoreThan(NoMoreThan(zmax, source.maxzoom), EffectiveZoom)

TileRect(c, z) ==
    [z |-> z, x0 |-> TileFor(c.west, z), x1 |-> TileFor(c.east, z),
     y0 |-> TileFor(c.north, z), y1 |-> TileFor(c.south, z)]

(* The intervals <<y0, y1>>, by start and those of one start in any order, *)
(* merged where they meet or overlap.                                      *)
ByStart(intervals) ==
    CHOOSE s \in [1 .. Cardinality(intervals) -> intervals] :
        IsInjective(s) /\ \A i, j \in DOMAIN s : i < j => s[i][1] <= s[j][1]
MergeInto(acc, i) ==
    IF acc # <<>> /\ i[1] <= acc[Len(acc)][2] + 1
    THEN [acc EXCEPT ![Len(acc)] = <<@[1], AtLeast(@[2], i[2])>>]
    ELSE Append(acc, i)
MergeIntervals(intervals) == FoldLeft(MergeInto, <<>>, ByStart(intervals))

\* Slabs between neighbouring x boundaries, with merged y intervals.
DisjointRanges(ranges) ==
    UNION {
        LET here == {r \in ranges : r.z = z}
            boundaries == {r.x0 : r \in here} \cup {r.x1 + 1 : r \in here}
            slabs == {p \in boundaries \X boundaries :
                         p[1] < p[2] /\ ~\E q \in boundaries : p[1] < q /\ q < p[2]}
            merged(p) == MergeIntervals({<<r.y0, r.y1>> :
                            r \in {r \in here : r.x0 <= p[1] /\ r.x1 >= p[2] - 1}})
        IN  UNION {{[z |-> z, x0 |-> p[1], x1 |-> p[2] - 1, y0 |-> m[1], y1 |-> m[2]] :
                       m \in {merged(p)[i] : i \in DOMAIN merged(p)}} : p \in slabs}
      : z \in {r.z : r \in ranges}}

CoveredRanges(source, b, zmin, zmax) ==
    DisjointRanges({TileRect(c, z) : c \in Clips(source, b), z \in ZoomBounds(source, zmin, zmax)})

TilesOf(r) == {<<r.z, x, y>> : x \in r.x0 .. r.x1, y \in r.y0 .. r.y1}

\* What tile_count_in_bbox adds up, range by range.
TileCountInBbox(ranges) ==
    MapThenSumSet(LAMBDA r : (r.x1 - r.x0 + 1) * (r.y1 - r.y0 + 1), ranges)

\* What tiles_iter goes through.
TilesIter(ranges) == UNION {TilesOf(r) : r \in ranges}

-----------------------------------------------------------------------------
(* Properties.                                                             *)

\* What a box means, cell by cell, without clipping, splitting or merging.
InBox(b, c) ==
    /\ IF b.west <= b.east THEN b.west <= c[1] /\ c[1] < b.east ELSE b.west <= c[1] \/ c[1] < b.east
    /\ b.north <= c[2] /\ c[2] < b.south
Offered(source, c) ==
    IF source.coverage # NoBoxes THEN \E b \in source.coverage : InBox(b, c)
    ELSE source.bounds # NoBoxes => InBox(source.bounds, c)
Cells == (0 .. World - 1) \X (0 .. World - 1)
Asked(source, b) == {c \in Cells : InBox(b, c) /\ Offered(source, c)}
Side(z) == World \div 2^z
Within(c, t, z) == t * Side(z) <= c /\ c < (t + 1) * Side(z)
Borders(c, t, z) == t * Side(z) <= c + 1 /\ c <= (t + 1) * Side(z)

(* A download leaves no hole and takes nothing that is not asked for: of   *)
(* the zooms both the request and the source have, the tiles of a job are  *)
(* tiles of the pyramid, every tile with a part of the box that the source *)
(* covers is among them, and each of them at least touches such a part,    *)
(* also across the antimeridian and beyond the Mercator limits (clips,     *)
(* tile_rect, disjoint_ranges).                                            *)
DownloadsWhatIsAsked(source, b, zmin, zmax) ==
    LET tiles == TilesIter(CoveredRanges(source, b, zmin, zmax))
        asked == Asked(source, b)
        zooms == {z \in zmin .. zmax : z \in source.minzoom .. source.maxzoom}
        all == UNION {{<<z, x, y>> : x \in 0 .. 2^z - 1, y \in 0 .. 2^z - 1} : z \in zooms}
    IN  /\ tiles \subseteq all
        /\ \A t \in all : (\E c \in asked : Within(c[1], t[2], t[1]) /\ Within(c[2], t[3], t[1])) => t \in tiles
        /\ \A t \in tiles : \E c \in asked : Borders(c[1], t[2], t[1]) /\ Borders(c[2], t[3], t[1])

(* The number a job is accepted by, and reports progress against, is the   *)
(* number of tiles it then goes through, each once, however the boxes of   *)
(* the source overlap (tile_count_in_bbox, tiles_iter).                    *)
CountIsHonest(source, b, zmin, zmax) ==
    LET ranges == CoveredRanges(source, b, zmin, zmax)
    IN  TileCountInBbox(ranges) = Cardinality(TilesIter(ranges))
=============================================================================

--------------------------- MODULE GeometryProofs ---------------------------
(***************************************************************************)
(* What a download is and what it is counted as, for a map of any size,    *)
(* any source, any box and any zooms whose tiles are whole units wide.     *)
(*                                                                         *)
(* One coordinate at a time, the tiles from the tile of one position to    *)
(* the tile of another are those that hold a unit between them, and each   *)
(* borders on one (TilesBetween).  The clips are what is asked, cell by    *)
(* cell (ClipsAreAsked).  Merging intervals by start loses no height,      *)
(* invents none and leaves gaps between the results (Merging), so cutting  *)
(* rectangles into slabs loses and repeats no tile (Disjoint); and of      *)
(* ranges that share no tile the sizes add up to the tiles                 *)
(* (CountOfRanges).                                                        *)
(***************************************************************************)
EXTENDS MCWarmEngine, FiniteSetTheorems, WellFoundedInduction, TLAPS

(* A zoom whose tiles are a whole number of units wide.                    *)
Tiled(z) == z \in 0 .. EffectiveZoom /\ World % 2^z = 0

-----------------------------------------------------------------------------
(* One coordinate.                                                         *)

LEMMA Sides ==
    ASSUME NEW z, Tiled(z)
    PROVE  2^z \in Nat \ {0} /\ Side(z) \in Nat \ {0} /\ World = 2^z * Side(z)
<1>1. World \in Nat /\ World > 0 /\ 2^z \in Nat /\ 2^z > 0 /\ World % 2^z = 0
  BY GeometryAssumption DEF Tiled
<1> DEFINE n == 2^z
<1> HIDE DEF n
<1>2. World \in Nat /\ World > 0 /\ n \in Nat /\ n > 0 /\ World % n = 0
  BY <1>1 DEF n
<1>3. World \div n \in Nat /\ World = n * (World \div n)
  BY <1>2
<1>4. World \div n # 0
  BY <1>2, <1>3
<1> QED BY <1>2, <1>3, <1>4 DEF Side, n

\* tile_for_lng_lat: the tile a position falls in; the far edge is in the last tile.
LEMMA TileOfPosition ==
    ASSUME NEW z, Tiled(z), NEW p \in 0 .. World
    PROVE  /\ TileFor(p, z) \in 0 .. 2^z - 1
           /\ TileFor(p, z) * Side(z) <= p
           /\ p < World => p < (TileFor(p, z) + 1) * Side(z)
           /\ p = World => TileFor(p, z) = 2^z - 1
<1> DEFINE n == 2^z  s == Side(z)  q == (p * n) \div World
<1>1. n \in Nat /\ n > 0 /\ s \in Nat /\ s > 0 /\ World = n * s
  BY Sides
<1>2. TileFor(p, z) = NoMoreThan(AtLeast(q, 0), n - 1)
  BY DEF TileFor
<1> HIDE DEF n, s
<1>3. q \in Int /\ q = p \div s
  BY <1>1
<1>4. q * s <= p /\ p < (q + 1) * s
  BY <1>1, <1>3
<1> HIDE DEF q
<1>5. q >= 0
  BY <1>1, <1>3, <1>4
<1>6. CASE p < World
  <2>1. q * s < n * s
    BY <1>1, <1>3, <1>4, <1>6
  <2>2. q < n
    BY <1>1, <1>3, <2>1
  <2>3. TileFor(p, z) = q
    BY <1>1, <1>2, <1>3, <1>5, <2>2 DEF NoMoreThan, AtLeast
  <2> QED BY <1>1, <1>3, <1>4, <1>5, <1>6, <2>2, <2>3 DEF n, s
<1>7. CASE p = World
  <2>1. q * s <= n * s /\ n * s < (q + 1) * s
    BY <1>1, <1>4, <1>7
  <2>2. q >= n
    BY <1>1, <1>3, <2>1
  <2>3. TileFor(p, z) = n - 1
    BY <1>1, <1>2, <1>3, <2>2 DEF NoMoreThan, AtLeast
  <2>4. (n - 1) * s <= n * s
    BY <1>1
  <2> QED BY <1>1, <1>7, <2>3, <2>4 DEF n, s
<1> QED BY <1>6, <1>7, GeometryAssumption

(* The tiles from the tile of lo to the tile of hi: all that hold a unit   *)
(* of lo .. hi - 1, and none that does not at least border on one.         *)
LEMMA TilesBetween ==
    ASSUME NEW z, Tiled(z), NEW lo \in 0 .. World, NEW hi \in 0 .. World, lo < hi
    PROVE  /\ TileFor(lo, z) <= TileFor(hi, z)
           /\ \A c \in lo .. hi - 1, t \in 0 .. 2^z - 1 :
                 Within(c, t, z) => TileFor(lo, z) <= t /\ t <= TileFor(hi, z)
           /\ \A t \in TileFor(lo, z) .. TileFor(hi, z) :
                 \E c \in lo .. hi - 1 : Borders(c, t, z)
<1> DEFINE n == 2^z  s == Side(z)  a == TileFor(lo, z)  b == TileFor(hi, z)
<1>1. n \in Nat /\ n > 0 /\ s \in Nat /\ s > 0 /\ World = n * s
  BY Sides
<1>2. /\ a \in Int /\ b \in Int /\ 0 <= a /\ 0 <= b /\ a * s <= lo /\ b * s <= hi
      /\ lo < (a + 1) * s /\ (hi < World => hi < (b + 1) * s) /\ (hi = World => b = n - 1)
      /\ a <= n - 1 /\ b <= n - 1
  BY TileOfPosition, GeometryAssumption
<1> HIDE DEF n, s, a, b
<1>3. lo \in Int /\ hi \in Int /\ hi <= World
  BY GeometryAssumption
<1>4. ASSUME NEW c \in lo .. hi - 1, NEW t \in 0 .. n - 1, t * s <= c, c < (t + 1) * s
      PROVE  a <= t /\ t <= b
  <2>1. a * s < (t + 1) * s
    BY <1>1, <1>2, <1>3, <1>4
  <2>2. a < t + 1
    BY <1>1, <1>2, <2>1
  <2>3. CASE hi < World
    <3>1. t * s < (b + 1) * s
      BY <1>1, <1>2, <1>3, <1>4, <2>3
    <3> QED BY <1>1, <1>2, <2>2, <3>1
  <2> QED BY <1>1, <1>2, <1>3, <2>2, <2>3
<1>5. a <= b
  <2>1. CASE hi < World
    <3>1. a * s < (b + 1) * s
      BY <1>1, <1>2, <1>3, <2>1
    <3> QED BY <1>1, <1>2, <3>1
  <2> QED BY <1>2, <1>3, <2>1, GeometryAssumption
<1>6. ASSUME NEW t \in a .. b
      PROVE  \E c \in lo .. hi - 1 : t * s <= c + 1 /\ c <= (t + 1) * s
  <2>1. t \in Int /\ a <= t /\ t <= b /\ t * s \in Int /\ (t + 1) * s \in Int
    BY <1>1, <1>2
  <2>2. (a + 1) * s <= (t + 1) * s /\ t * s <= b * s /\ t * s <= (t + 1) * s
    BY <1>1, <1>2, <2>1
  <2>3. CASE t * s <= lo
    <3>1. lo \in lo .. hi - 1 /\ t * s <= lo + 1 /\ lo <= (t + 1) * s
      BY <1>1, <1>2, <1>3, <2>1, <2>2, <2>3
    <3> QED BY <3>1
  <2>4. CASE lo < t * s
    <3>1. t * s - 1 \in lo .. hi - 1 /\ t * s <= (t * s - 1) + 1 /\ t * s - 1 <= (t + 1) * s
      BY <1>1, <1>2, <1>3, <2>1, <2>2, <2>4
    <3> QED BY <3>1
  <2> QED BY <1>3, <2>1, <2>3, <2>4
<1> QED BY <1>4, <1>5, <1>6 DEF Within, Borders, n, s, a, b

-----------------------------------------------------------------------------
(* Boxes.                                                                  *)

\* A unit of the map is in a piece of a box.
In(c, b) == b.west <= c[1] /\ c[1] < b.east /\ b.north <= c[2] /\ c[2] < b.south

Clip == [west : 0 .. World, east : 0 .. World, north : 0 .. World, south : 0 .. World]

LEMMA Units == ASSUME NEW c \in Cells PROVE c[1] \in Int /\ c[2] \in Int /\ 0 <= c[1] /\ c[1] < World /\ 0 <= c[2] /\ c[2] < World
BY GeometryAssumption DEF Cells

LEMMA BoxFields ==
    ASSUME NEW b \in Box
    PROVE  /\ b.west \in Int /\ 0 <= b.west /\ b.west <= World
           /\ b.east \in Int /\ 0 <= b.east /\ b.east <= World
           /\ b.north \in Int /\ b.south \in Int
BY GeometryAssumption DEF Box

\* split_bbox: the pieces of a box hold what the box holds, and are boxes.
LEMMA Pieces ==
    ASSUME NEW b \in Box
    PROVE  /\ SplitBbox(b) \subseteq Box
           /\ \A c \in Cells : InBox(b, c) <=> \E l \in SplitBbox(b) : In(c, l)
<1>1. World \in 0 .. World /\ 0 \in 0 .. World
  BY GeometryAssumption
<1>2. [b EXCEPT !.east = World] \in Box /\ [b EXCEPT !.west = 0] \in Box
  BY <1>1 DEF Box
<1>3. SplitBbox(b) \subseteq Box
  BY <1>2 DEF SplitBbox
<1> DEFINE e == [b EXCEPT !.east = World]  w == [b EXCEPT !.west = 0]
<1>4. /\ e.west = b.west /\ e.east = World /\ e.north = b.north /\ e.south = b.south
      /\ w.west = 0 /\ w.east = b.east /\ w.north = b.north /\ w.south = b.south
  BY DEF Box
<1>5. ASSUME NEW c \in Cells
      PROVE  InBox(b, c) <=> \E l \in SplitBbox(b) : In(c, l)
  <2>1. CASE b.west < b.east
    <3>1. SplitBbox(b) = {b} /\ b.west <= b.east
      BY <2>1, BoxFields DEF SplitBbox
    <3> QED BY <3>1 DEF InBox, In
  <2>2. CASE b.west > b.east
    <3>1. SplitBbox(b) = {e, w}
      BY <2>2, BoxFields DEF SplitBbox
    <3>2. ~(b.west <= b.east)
      BY <2>2, BoxFields
    <3>3. (\E l \in SplitBbox(b) : In(c, l)) <=> In(c, e) \/ In(c, w)
      BY <3>1
    <3> HIDE DEF e, w
    <3>4. In(c, e) <=> b.west <= c[1] /\ b.north <= c[2] /\ c[2] < b.south
      BY <1>4, Units DEF In
    <3>5. In(c, w) <=> c[1] < b.east /\ b.north <= c[2] /\ c[2] < b.south
      BY <1>4, Units DEF In
    <3> QED BY <3>2, <3>3, <3>4, <3>5 DEF InBox
  <2>3. CASE b.west = b.east
    <3>1. SplitBbox(b) = {} /\ b.west <= b.east
      BY <2>3, BoxFields DEF SplitBbox
    <3>2. ~InBox(b, c)
      BY <2>3, <3>1, Units, BoxFields DEF InBox
    <3> QED BY <3>1, <3>2
  <2> QED BY <2>1, <2>2, <2>3, BoxFields
<1> QED BY <1>3, <1>5

\* The boxes of a source hold what it offers.
LEMMA Offers ==
    ASSUME NEW source, IsSource(source)
    PROVE  /\ SourceBoxes(source) \subseteq Box
           /\ \A c \in Cells : Offered(source, c) <=> \E r \in SourceBoxes(source) : In(c, r)
<1> DEFINE whole == [west |-> 0, north |-> -1, east |-> World, south |-> World + 1]
           boxes == IF source.coverage # NoBoxes THEN source.coverage
                    ELSE IF source.bounds # NoBoxes THEN {source.bounds} ELSE {whole}
<1>1. whole \in Box
  BY GeometryAssumption DEF Box
<1>2. boxes \subseteq Box
  BY <1>1 DEF IsSource
<1>3. SourceBoxes(source) = UNION {SplitBbox(b) : b \in boxes}
  BY DEF SourceBoxes
<1>4. ASSUME NEW c \in Cells PROVE InBox(whole, c)
  BY Units, GeometryAssumption DEF InBox
<1>5. ASSUME NEW c \in Cells PROVE Offered(source, c) <=> \E b \in boxes : InBox(b, c)
  BY <1>4 DEF Offered
<1> HIDE DEF boxes
<1>6. SourceBoxes(source) \subseteq Box
  BY <1>2, <1>3, Pieces
<1>7. ASSUME NEW c \in Cells PROVE (\E b \in boxes : InBox(b, c)) <=> \E r \in SourceBoxes(source) : In(c, r)
  BY <1>2, <1>3, Pieces
<1> QED BY <1>5, <1>6, <1>7

\* intersect: within the Mercator limits, the units of both boxes.
LEMMA Intersects ==
    ASSUME NEW l \in Box, NEW r \in Box
    PROVE  /\ NotEmpty(Intersect(l, r)) => Intersect(l, r) \in Clip
           /\ \A c \in Cells : In(c, Intersect(l, r)) <=> In(c, l) /\ In(c, r)
<1> DEFINE i == Intersect(l, r)
<1>1. /\ i.west = AtLeast(l.west, r.west) /\ i.east = NoMoreThan(l.east, r.east)
      /\ i.north = AtLeast(AtLeast(l.north, r.north), 0)
      /\ i.south = NoMoreThan(NoMoreThan(l.south, r.south), World)
      /\ i = [west |-> i.west, east |-> i.east, north |-> i.north, south |-> i.south]
  BY DEF Intersect
<1> HIDE DEF i
<1>2. /\ i.west \in 0 .. World /\ i.east \in 0 .. World
      /\ i.north \in Int /\ 0 <= i.north /\ i.south \in Int /\ i.south <= World
  BY <1>1, BoxFields, GeometryAssumption DEF AtLeast, NoMoreThan
<1>3. ASSUME NotEmpty(i) PROVE i \in Clip
  <2>1. i.north \in 0 .. World /\ i.south \in 0 .. World
    BY <1>2, <1>3, GeometryAssumption DEF NotEmpty
  <2> QED BY <1>1, <1>2, <2>1 DEF Clip
<1>4. ASSUME NEW c \in Cells PROVE In(c, i) <=> In(c, l) /\ In(c, r)
  <2>1. i.west <= c[1] <=> l.west <= c[1] /\ r.west <= c[1]
    BY <1>1, Units, BoxFields DEF AtLeast
  <2>2. c[1] < i.east <=> c[1] < l.east /\ c[1] < r.east
    BY <1>1, Units, BoxFields DEF NoMoreThan
  <2>3. i.north <= c[2] <=> l.north <= c[2] /\ r.north <= c[2]
    BY <1>1, Units, BoxFields DEF AtLeast
  <2>4. c[2] < i.south <=> c[2] < l.south /\ c[2] < r.south
    BY <1>1, Units, BoxFields, GeometryAssumption DEF NoMoreThan
  <2> QED BY <2>1, <2>2, <2>3, <2>4 DEF In
<1> QED BY <1>3, <1>4 DEF i

(* clips, for every source and box: the clips are pieces of the map, none  *)
(* of them is empty, and together they hold exactly what is asked.         *)
LEMMA ClipsAreAsked ==
    ASSUME NEW source, IsSource(source), NEW b \in Box
    PROVE  /\ Clips(source, b) \subseteq Clip /\ \A k \in Clips(source, b) : NotEmpty(k)
           /\ Asked(source, b) = {c \in Cells : \E k \in Clips(source, b) : In(c, k)}
<1> DEFINE both == {Intersect(l, r) : l \in SplitBbox(b), r \in SourceBoxes(source)}
           none == b.west = b.east \/ b.west - b.east = World \/ b.south <= b.north
<1>1. Clips(source, b) = IF none THEN {} ELSE {k \in both : NotEmpty(k)}
  BY DEF Clips
<1>2. \A k \in both : NotEmpty(k) => k \in Clip
  BY Pieces, Offers, Intersects
<1>3. ASSUME NEW c \in Cells, none PROVE ~InBox(b, c)
  BY <1>3, BoxFields, Units, GeometryAssumption DEF InBox
<1>4. ASSUME NEW c \in Cells PROVE (InBox(b, c) /\ Offered(source, c)) <=> \E k \in both : In(c, k)
  <2>1. InBox(b, c) <=> \E l \in SplitBbox(b) : In(c, l)
    BY Pieces
  <2>2. Offered(source, c) <=> \E r \in SourceBoxes(source) : In(c, r)
    BY Offers
  <2>3. \A l \in SplitBbox(b), r \in SourceBoxes(source) : In(c, Intersect(l, r)) <=> In(c, l) /\ In(c, r)
    BY Pieces, Offers, Intersects
  <2> QED BY <2>1, <2>2, <2>3
<1>5. ASSUME NEW c \in Cells, NEW l \in Box, NEW r \in Box, In(c, Intersect(l, r))
      PROVE  NotEmpty(Intersect(l, r))
  <2> DEFINE i == Intersect(l, r)
  <2>1. i.west \in Int /\ i.east \in Int /\ i.north \in Int /\ i.south \in Int
    BY BoxFields, GeometryAssumption DEF Intersect, AtLeast, NoMoreThan
  <2> HIDE DEF i
  <2>2. In(c, i)
    BY <1>5 DEF i
  <2>3. NotEmpty(i)
    BY <2>1, <2>2, Units DEF In, NotEmpty
  <2> QED BY <2>3 DEF i
<1>6. ASSUME NEW c \in Cells, NEW k \in both, In(c, k) PROVE NotEmpty(k)
  BY <1>5, <1>6, Pieces, Offers
<1>7. ASSUME NEW c \in Cells
      PROVE  (InBox(b, c) /\ Offered(source, c)) <=> \E k \in Clips(source, b) : In(c, k)
  <2>1. CASE none
    BY <1>1, <1>3, <2>1
  <2>2. CASE ~none
    BY <1>1, <1>4, <1>6, <2>2
  <2> QED BY <2>1, <2>2
<1> HIDE DEF both, none
<1> QED BY <1>1, <1>2, <1>7 DEF Asked

-----------------------------------------------------------------------------
(* Finite sets and folds over them.  The provers cannot instantiate the    *)
(* induction theorems of the library, so a property of every finite set is *)
(* shown by its failures: among the subsets that fail, one has the fewest  *)
(* elements.                                                               *)

LEMMA LeastNatural ==
    ASSUME NEW S \in SUBSET Nat, S # {}
    PROVE  \E m \in S : \A n \in S : m <= n
<1>1. PICK m \in S : \A n \in S : ~(<<n, m>> \in OpToRel(<, Nat))
  BY NatLessThanWellFounded, WFMin
<1>2. \A n \in S : ~(n < m)
  BY <1>1 DEF OpToRel
<1> QED BY <1>2

LEMMA NoFailure ==
    ASSUME NEW S, IsFiniteSet(S), NEW bad \in SUBSET SUBSET S,
           \A T \in bad : \E U \in bad : U \subseteq T /\ U # T
    PROVE  bad = {}
<1> SUFFICES ASSUME bad # {} PROVE FALSE
  OBVIOUS
<1> DEFINE sizes == {Cardinality(T) : T \in bad}
<1>1. \A T \in SUBSET S : IsFiniteSet(T) /\ Cardinality(T) \in Nat
  BY FS_Subset, FS_CardinalityType
<1>2. sizes \in SUBSET Nat /\ sizes # {}
  BY <1>1
<1>3. PICK T \in bad : \A U \in bad : Cardinality(T) <= Cardinality(U)
  <2> HIDE DEF sizes
  <2>1. PICK m \in sizes : \A n \in sizes : m <= n
    BY <1>2, LeastNatural
  <2> QED BY <2>1 DEF sizes
<1>4. PICK U \in bad : U \subseteq T /\ U # T
  OBVIOUS
<1>5. Cardinality(U) <= Cardinality(T) /\ (Cardinality(T) = Cardinality(U) => T = U)
  BY <1>1, <1>4, FS_Subset
<1> QED BY <1>1, <1>3, <1>4, <1>5

LEMMA LargestInteger ==
    ASSUME NEW S \in SUBSET Int, IsFiniteSet(S), S # {}
    PROVE  \E m \in S : \A n \in S : n <= m
<1> DEFINE good(T) == T # {} => \E m \in T : \A n \in T : n <= m
           bad == {T \in SUBSET S : ~good(T)}
<1>1. ASSUME NEW T \in bad PROVE \E U \in bad : U \subseteq T /\ U # T
  <2>1. PICK x \in T : TRUE
    OBVIOUS
  <2> DEFINE U == T \ {x}
  <2>2. x \in Int /\ U \subseteq T /\ U # T /\ U \in SUBSET S
    BY <2>1
  <2>3. SUFFICES ASSUME good(U) PROVE FALSE
    BY <2>2
  <2>4. CASE U = {}
    <3>1. T = {x}
      BY <2>4
    <3> QED BY <2>2, <3>1
  <2>5. CASE U # {}
    <3>1. PICK m \in U : \A n \in U : n <= m
      BY <2>3, <2>5
    <3>2. m \in Int /\ m \in T
      BY <3>1
    <3>3. CASE x <= m
      BY <3>1, <3>2, <3>3
    <3>4. CASE m < x
      <4>1. \A n \in T : n <= x
        BY <2>2, <3>1, <3>2, <3>4
      <4> QED BY <4>1, <2>1
    <3> QED BY <2>2, <3>2, <3>3, <3>4
  <2> QED BY <2>4, <2>5
<1>2. bad = {}
  <2> HIDE DEF bad
  <2>1. bad \in SUBSET SUBSET S
    BY DEF bad
  <2> QED BY <1>1, <2>1, NoFailure
<1> QED BY <1>2

LEMMA LeastInteger ==
    ASSUME NEW S \in SUBSET Int, IsFiniteSet(S), S # {}
    PROVE  \E m \in S : \A n \in S : m <= n
<1> DEFINE neg == [x \in S |-> -x]  T == {-x : x \in S}
<1>1. neg \in Surjection(S, T)
  BY DEF Surjection
<1>2. IsFiniteSet(T)
  BY <1>1, FS_Surjection
<1>3. T \in SUBSET Int /\ T # {}
  <2>1. PICK x \in S : TRUE
    OBVIOUS
  <2>2. -x \in T
    OBVIOUS
  <2>3. ASSUME NEW y \in S PROVE -y \in Int
    OBVIOUS
  <2> QED BY <2>2, <2>3
<1>4. PICK m \in T : \A n \in T : n <= m
  BY <1>2, <1>3, LargestInteger
<1>5. PICK x \in S : m = -x
  BY <1>4
<1>6. ASSUME NEW y \in S PROVE x <= y
  <2>1. -y <= -x /\ x \in Int /\ y \in Int
    BY <1>4, <1>5
  <2> QED BY <2>1
<1> QED BY <1>6

(* A fold over the subsets of a finite set exists, and stays in the set    *)
(* its steps stay in.                                                      *)
Picks(pick, S) == \A s \in SUBSET S : s # {} => pick[s] \in s
Steps(step, S, V) == \A x \in S, v \in V : step[x][v] \in V
IsFold(g, S, V, base, pick, step) ==
    /\ g \in [SUBSET S -> V]
    /\ \A s \in SUBSET S : g[s] = IF s = {} THEN base ELSE step[pick[s]][g[s \ {pick[s]}]]

LEMMA FoldExists ==
    ASSUME NEW S, IsFiniteSet(S), NEW V, NEW base \in V, NEW pick, Picks(pick, S),
           NEW step, Steps(step, S, V)
    PROVE  \E g : IsFold(g, S, V, base, pick, step)
<1>0. /\ \A s \in SUBSET S : s # {} => pick[s] \in s
      /\ \A x \in S, v \in V : step[x][v] \in V
  BY DEF Picks, Steps
<1> DEFINE level(n) == {s \in SUBSET S : Cardinality(s) <= n}
           folds(g, n) == \A s \in level(n) :
              g[s] = IF s = {} THEN base ELSE step[pick[s]][g[s \ {pick[s]}]]
           bad == {n \in Nat : ~\E g \in [level(n) -> V] : folds(g, n)}
<1>1. \A s \in SUBSET S : Cardinality(s) \in Nat /\ (Cardinality(s) = 0 <=> s = {})
  BY FS_Subset, FS_CardinalityType, FS_EmptySet
<1>2. 0 \notin bad
  <2> DEFINE g == [s \in level(0) |-> base]
  <2>1. ASSUME NEW s \in level(0) PROVE s = {}
    <3>1. s \in SUBSET S /\ Cardinality(s) <= 0
      OBVIOUS
    <3>2. Cardinality(s) \in Nat /\ (Cardinality(s) = 0 <=> s = {})
      BY <1>1, <3>1
    <3> QED BY <3>1, <3>2
  <2> HIDE DEF level
  <2>2. g \in [level(0) -> V] /\ folds(g, 0)
    BY <2>1
  <2> QED BY <2>2
<1>3. ASSUME NEW n \in Nat, n # 0, n - 1 \notin bad PROVE n \notin bad
  <2>1. n - 1 \in Nat
    BY <1>3
  <2>2. PICK g \in [level(n - 1) -> V] : folds(g, n - 1)
    BY <1>3, <2>1
  <2>3. ASSUME NEW s \in level(n), s # {}
        PROVE  pick[s] \in S /\ s \ {pick[s]} \in level(n - 1)
    <3>1. pick[s] \in s /\ IsFiniteSet(s)
      BY <1>0, <2>3, FS_Subset
    <3>2. Cardinality(s \ {pick[s]}) = Cardinality(s) - 1
      BY <3>1, FS_RemoveElement
    <3>3. s \in SUBSET S /\ Cardinality(s) <= n /\ Cardinality(s) \in Nat
      BY <1>1
    <3>4. Cardinality(s) - 1 <= n - 1
      BY <3>3
    <3> QED BY <3>1, <3>2, <3>3, <3>4
  <2> DEFINE h == [s \in level(n) |-> IF s \in level(n - 1) THEN g[s] ELSE step[pick[s]][g[s \ {pick[s]}]]]
  <2>4. {} \in level(n - 1)
    BY <2>1, FS_EmptySet
  <2>5. ASSUME NEW s \in level(n - 1) PROVE s \in level(n)
    <3>1. s \in SUBSET S /\ Cardinality(s) <= n - 1 /\ Cardinality(s) \in Nat
      BY <1>1
    <3> QED BY <3>1
  <2> HIDE DEF level
  <2>6. h \in [level(n) -> V]
    BY <1>0, <2>3, <2>4
  <2>7. \A s \in level(n - 1) : h[s] = g[s]
    BY <2>5
  <2>8. ASSUME NEW s \in level(n)
        PROVE  h[s] = IF s = {} THEN base ELSE step[pick[s]][h[s \ {pick[s]}]]
    <3>1. CASE s \in level(n - 1)
      <4>1. g[s] = IF s = {} THEN base ELSE step[pick[s]][g[s \ {pick[s]}]]
        BY <2>2, <3>1
      <4>2. s # {} => g[s \ {pick[s]}] = h[s \ {pick[s]}]
        BY <2>3, <2>7
      <4> QED BY <2>7, <3>1, <4>1, <4>2
    <3>2. CASE s \notin level(n - 1)
      BY <2>3, <2>4, <2>7, <3>2
    <3> QED BY <3>1, <3>2
  <2> QED BY <2>6, <2>8
<1>4. bad = {}
  <2> HIDE DEF bad
  <2>1. bad \in SUBSET Nat
    BY DEF bad
  <2> SUFFICES ASSUME bad # {} PROVE FALSE
    OBVIOUS
  <2>2. PICK m \in bad : \A n \in bad : m <= n
    BY <2>1, LeastNatural
  <2>3. m \in Nat /\ m # 0
    BY <1>2, <2>1
  <2>4. m - 1 \in bad
    BY <1>3, <2>2, <2>3
  <2> QED BY <2>2, <2>3, <2>4
<1>5. Cardinality(S) \in Nat /\ \A s \in SUBSET S : Cardinality(s) <= Cardinality(S)
  BY FS_Subset, FS_CardinalityType
<1>6. level(Cardinality(S)) = SUBSET S
  BY <1>5
<1>7. PICK g \in [level(Cardinality(S)) -> V] : folds(g, Cardinality(S))
  BY <1>4, <1>5
<1> QED BY <1>6, <1>7 DEF IsFold

-----------------------------------------------------------------------------
(* Merging intervals.                                                      *)

Interval == {p \in Int \X Int : p[1] <= p[2]}
Spans(p, y) == p[1] <= y /\ y <= p[2]

LEMMA Enumerable ==
    ASSUME NEW I \in SUBSET Interval, IsFiniteSet(I)
    PROVE  \E s \in [1 .. Cardinality(I) -> I] :
              IsInjective(s) /\ \A i, j \in DOMAIN s : i < j => s[i][1] <= s[j][1]
<1> DEFINE ordered(s) == IsInjective(s) /\ \A i, j \in DOMAIN s : i < j => s[i][1] <= s[j][1]
           good(T) == \E s \in [1 .. Cardinality(T) -> T] : ordered(s)
           bad == {T \in SUBSET I : ~good(T)}
<1>1. ASSUME NEW T \in bad PROVE \E U \in bad : U \subseteq T /\ U # T
  <2> DEFINE n == Cardinality(T)
  <2>1. T \in SUBSET I /\ IsFiniteSet(T) /\ n \in Nat /\ ~good(T)
    BY FS_Subset, FS_CardinalityType
  <2>2. T # {}
    <3> SUFFICES ASSUME T = {} PROVE good(T)
      BY <2>1
    <3>1. n = 0 /\ 1 .. 0 = {}
      BY FS_EmptySet
    <3>2. <<>> \in [1 .. n -> T] /\ ordered(<<>>)
      BY <3>1 DEF IsInjective
    <3> QED BY <3>2
  <2> DEFINE start == [p \in T |-> p[1]]  starts == {p[1] : p \in T}
  <2>3. start \in Surjection(T, starts)
    BY DEF Surjection
  <2>4. IsFiniteSet(starts) /\ starts # {} /\ starts \in SUBSET Int
    BY <2>1, <2>2, <2>3, FS_Surjection DEF Interval
  <2>5. PICK t \in T : \A p \in T : p[1] <= t[1]
    <3> HIDE DEF starts
    <3>1. PICK m \in starts : \A k \in starts : k <= m
      BY <2>4, LargestInteger
    <3> QED BY <3>1 DEF starts
  <2> DEFINE U == T \ {t}
  <2>6. U \in SUBSET I /\ U \subseteq T /\ U # T /\ Cardinality(U) = n - 1
    BY <2>1, FS_RemoveElement
  <2>7. SUFFICES ASSUME good(U) PROVE FALSE
    BY <2>6
  <2>8. PICK s \in [1 .. n - 1 -> U] : ordered(s)
    BY <2>6, <2>7
  <2>9. n \in Nat /\ n > 0
    BY <2>1, <2>2, FS_EmptySet
  <2> DEFINE e == [i \in 1 .. n |-> IF i = n THEN t ELSE s[i]]
  <2> HIDE DEF n
  <2>10. \A i \in 1 .. n : i # n => i \in 1 .. n - 1
    BY <2>9
  <2>11. e \in [1 .. n -> T]
    BY <2>10
  <2>12. IsInjective(e)
    <3> SUFFICES ASSUME NEW i \in 1 .. n, NEW j \in 1 .. n, e[i] = e[j] PROVE i = j
      BY DEF IsInjective
    <3>1. \A k \in 1 .. n : k # n => e[k] = s[k] /\ s[k] # t
      BY <2>10
    <3>2. e[n] = t
      BY <2>9
    <3> HIDE DEF e, U
    <3>3. CASE i # n /\ j # n
      <4>1. s[i] = s[j] /\ i \in 1 .. n - 1 /\ j \in 1 .. n - 1
        BY <2>10, <3>1, <3>3
      <4> QED BY <2>8, <4>1 DEF IsInjective
    <3> QED BY <3>1, <3>2, <3>3
  <2>13. ASSUME NEW i \in 1 .. n, NEW j \in 1 .. n, i < j PROVE e[i][1] <= e[j][1]
    <3>1. i # n /\ i \in 1 .. n - 1
      BY <2>9, <2>13
    <3>2. CASE j = n
      BY <2>5, <3>1, <3>2
    <3>3. CASE j # n
      <4>1. e[i] = s[i] /\ e[j] = s[j] /\ j \in 1 .. n - 1
        BY <2>10, <3>1, <3>3
      <4> HIDE DEF e
      <4> QED BY <2>8, <2>13, <3>1, <4>1
    <3> QED BY <3>2, <3>3
  <2>14. ordered(e)
    <3> HIDE DEF e
    <3> QED BY <2>11, <2>12, <2>13
  <2> QED BY <2>1, <2>11, <2>14 DEF n
<1>2. bad = {}
  <2> HIDE DEF bad
  <2>1. bad \in SUBSET SUBSET I
    BY DEF bad
  <2> QED BY <1>1, <2>1, NoFailure
<1> QED BY <1>2

\* What a list of merged intervals is: none empty, and each ends before the next begins.
Separate(acc) ==
    /\ acc \in Seq(Int \X Int)
    /\ \A i \in 1 .. Len(acc) : acc[i][1] <= acc[i][2]
    /\ \A i, j \in 1 .. Len(acc) : i < j => acc[i][2] < acc[j][1]

\* One round of the loop of disjoint_ranges over the sorted intervals.
LEMMA MergeStep ==
    ASSUME NEW acc, Separate(acc), NEW p \in Interval, \A i \in 1 .. Len(acc) : acc[i][1] <= p[1]
    PROVE  /\ Separate(MergeInto(acc, p))
           /\ \A i \in 1 .. Len(MergeInto(acc, p)) : MergeInto(acc, p)[i][1] <= p[1]
           /\ \A y \in Int : (\E i \in 1 .. Len(MergeInto(acc, p)) : Spans(MergeInto(acc, p)[i], y)) <=>
                             (\E i \in 1 .. Len(acc) : Spans(acc[i], y)) \/ Spans(p, y)
<1> DEFINE n == Len(acc)  new == MergeInto(acc, p)  last == acc[n]
<1>1. acc \in Seq(Int \X Int) /\ n \in Nat /\ p \in Int \X Int /\ p[1] \in Int /\ p[2] \in Int /\ p[1] <= p[2]
  BY DEF Separate, Interval
<1>2. \A i \in 1 .. n : /\ acc[i] \in Int \X Int /\ acc[i][1] \in Int /\ acc[i][2] \in Int
                        /\ acc[i][1] <= acc[i][2] /\ acc[i][1] <= p[1]
  BY <1>1 DEF Separate
<1>3. \A i, j \in 1 .. n : i < j => acc[i][2] < acc[j][1]
  BY DEF Separate
<1>4. CASE acc # <<>> /\ p[1] <= last[2] + 1
  <2> DEFINE top == <<last[1], AtLeast(last[2], p[2])>>
  <2>1. n \in 1 .. n
    BY <1>1, <1>4
  <2>2. new = [acc EXCEPT ![n] = top]
    BY <1>4 DEF MergeInto
  <2>3. /\ top \in Int \X Int /\ top[1] = last[1] /\ top[1] <= top[2] /\ top[1] <= p[1]
        /\ last[2] <= top[2] /\ p[2] <= top[2]
        /\ \A y \in Int : Spans(top, y) <=> Spans(last, y) \/ Spans(p, y)
    <3>1. top[1] = last[1] /\ top[2] = AtLeast(last[2], p[2])
      OBVIOUS
    <3>2. last[1] \in Int /\ last[2] \in Int /\ last[1] <= last[2] /\ last[1] <= p[1]
      BY <1>2, <2>1
    <3>3. top[2] \in Int /\ last[2] <= top[2] /\ p[2] <= top[2] /\ (top[2] = last[2] \/ top[2] = p[2])
      BY <1>1, <3>1, <3>2 DEF AtLeast
    <3>4. top \in Int \X Int
      BY <3>1, <3>2, <3>3
    <3> HIDE DEF top, last
    <3> QED BY <1>1, <1>4, <3>1, <3>2, <3>3, <3>4 DEF Spans
  <2> HIDE DEF top
  <2>4. /\ new \in Seq(Int \X Int) /\ Len(new) = n /\ new[n] = top
        /\ \A i \in 1 .. n : i # n => new[i] = acc[i]
    BY <1>1, <2>1, <2>2, <2>3
  <2> HIDE DEF new
  <2>5. \A i \in 1 .. n : new[i][1] = acc[i][1] /\ new[i][1] <= new[i][2]
    BY <1>2, <2>1, <2>3, <2>4
  <2>6. \A i, j \in 1 .. n : i < j => new[i][2] < new[j][1]
    <3> SUFFICES ASSUME NEW i \in 1 .. n, NEW j \in 1 .. n, i < j PROVE new[i][2] < new[j][1]
      OBVIOUS
    <3>1. i # n
      BY <1>1
    <3>2. new[i] = acc[i] /\ new[j][1] = acc[j][1]
      BY <2>4, <2>5, <3>1
    <3> QED BY <1>3, <3>2
  <2>7. Separate(new)
    BY <2>4, <2>5, <2>6 DEF Separate
  <2>8. \A i \in 1 .. n : new[i][1] <= p[1]
    BY <1>2, <2>5
  <2>9. ASSUME NEW y \in Int
        PROVE  (\E i \in 1 .. n : Spans(new[i], y)) <=> (\E i \in 1 .. n : Spans(acc[i], y)) \/ Spans(p, y)
    <3>1. Spans(new[n], y) <=> Spans(acc[n], y) \/ Spans(p, y)
      BY <2>3, <2>4
    <3>2. \A i \in 1 .. n : i # n => (Spans(new[i], y) <=> Spans(acc[i], y))
      BY <2>4
    <3> QED BY <2>1, <3>1, <3>2
  <2> QED BY <2>4, <2>7, <2>8, <2>9 DEF new
<1>5. CASE ~(acc # <<>> /\ p[1] <= last[2] + 1)
  <2>1. new = Append(acc, p)
    BY <1>5 DEF MergeInto
  <2>2. /\ new \in Seq(Int \X Int) /\ Len(new) = n + 1 /\ new[n + 1] = p
        /\ \A i \in 1 .. n : new[i] = acc[i]
    BY <1>1, <2>1
  <2> HIDE DEF new
  <2>3. \A i \in 1 .. n + 1 : i # n + 1 => i \in 1 .. n
    BY <1>1
  <2>4. \A i \in 1 .. n : acc[i][2] < p[1]
    <3> SUFFICES ASSUME NEW i \in 1 .. n PROVE acc[i][2] < p[1]
      OBVIOUS
    <3>1. n \in 1 .. n /\ acc # <<>>
      BY <1>1
    <3>2. last[2] < p[1] /\ last[2] \in Int /\ last[1] <= last[2] /\ last[1] \in Int
      BY <1>1, <1>2, <1>5, <3>1
    <3>3. CASE i = n
      BY <3>2, <3>3
    <3>4. CASE i # n
      <4>1. acc[i][2] < last[1] /\ acc[i][2] \in Int
        BY <1>1, <1>2, <1>3, <3>1, <3>4
      <4> QED BY <1>1, <3>2, <4>1
    <3> QED BY <3>3, <3>4
  <2>5. \A i \in 1 .. n + 1 : new[i][1] <= new[i][2] /\ new[i][1] <= p[1]
    <3>1. \A i \in 1 .. n : new[i][1] <= new[i][2] /\ new[i][1] <= p[1]
      BY <1>2, <2>2
    <3>2. new[n + 1][1] <= new[n + 1][2] /\ new[n + 1][1] <= p[1]
      BY <1>1, <2>2
    <3> QED BY <2>3, <3>1, <3>2
  <2>6. \A i, j \in 1 .. n + 1 : i < j => new[i][2] < new[j][1]
    <3> SUFFICES ASSUME NEW i \in 1 .. n + 1, NEW j \in 1 .. n + 1, i < j PROVE new[i][2] < new[j][1]
      OBVIOUS
    <3>0. i # n + 1
      <4> HIDE DEF n
      <4> QED BY <1>1
    <3>1. i \in 1 .. n /\ new[i] = acc[i]
      BY <2>2, <2>3, <3>0
    <3>2. CASE j = n + 1
      BY <2>2, <2>4, <3>1, <3>2
    <3>3. CASE j # n + 1
      BY <1>3, <2>2, <2>3, <3>1, <3>3
    <3> QED BY <3>2, <3>3
  <2>7. Separate(new)
    BY <2>2, <2>5, <2>6 DEF Separate
  <2>8. ASSUME NEW y \in Int
        PROVE  (\E i \in 1 .. n + 1 : Spans(new[i], y)) <=> (\E i \in 1 .. n : Spans(acc[i], y)) \/ Spans(p, y)
    <3>1. n + 1 \in 1 .. n + 1 /\ \A i \in 1 .. n : i \in 1 .. n + 1
      BY <1>1
    <3> QED BY <2>2, <2>3, <3>1
  <2> QED BY <2>2, <2>5, <2>7, <2>8 DEF new
<1> QED BY <1>4, <1>5

\* sort_unstable_by_key: what the loop goes through is every interval, by start.
LEMMA Ordering ==
    ASSUME NEW I \in SUBSET Interval, IsFiniteSet(I)
    PROVE  LET n == Cardinality(I) sorted == ByStart(I) IN
           /\ n \in Nat /\ sorted \in [1 .. n -> I]
           /\ \A i, j \in 1 .. n : i < j => sorted[i][1] <= sorted[j][1]
           /\ \A p \in I : \E i \in 1 .. n : sorted[i] = p
<1> DEFINE n == Cardinality(I)  sorted == ByStart(I)
<1>1. n \in Nat
  BY FS_CardinalityType
<1>2. /\ sorted \in [1 .. n -> I] /\ IsInjective(sorted)
      /\ \A i, j \in DOMAIN sorted : i < j => sorted[i][1] <= sorted[j][1]
  BY Enumerable DEF ByStart
<1>3. IsFiniteSet(1 .. n) /\ Cardinality(1 .. n) = n
  BY <1>1, FS_Interval
<1> HIDE DEF sorted
<1>4. sorted \in Injection(1 .. n, I)
  BY <1>2 DEF Injection, IsInjective
<1>5. sorted \in Surjection(1 .. n, I)
  BY <1>3, <1>4, FS_Injection
<1>6. \A p \in I : \E i \in 1 .. n : sorted[i] = p
  BY <1>5 DEF Surjection
<1> QED BY <1>1, <1>2, <1>6 DEF sorted

(* The merged intervals of a slab do not overlap and hold what the         *)
(* intervals hold, however those overlap, touch or start together.         *)
LEMMA Merging ==
    ASSUME NEW I \in SUBSET Interval, IsFiniteSet(I)
    PROVE  /\ Separate(MergeIntervals(I))
           /\ \A y \in Int : (\E i \in 1 .. Len(MergeIntervals(I)) : Spans(MergeIntervals(I)[i], y)) <=>
                             \E p \in I : Spans(p, y)
<1> DEFINE n == Cardinality(I)  sorted == ByStart(I)  V == Seq(Int \X Int)
           pick == [s \in SUBSET (1 .. n) |-> Max(s)]
           step == [x \in 1 .. n |-> [v \in V |-> MergeInto(v, sorted[x])]]
           iter[s \in SUBSET (1 .. n)] ==
              IF s = {} THEN <<>> ELSE LET x == Max(s) IN MergeInto(iter[s \ {x}], sorted[x])
<1>1. /\ n \in Nat /\ sorted \in [1 .. n -> I] /\ DOMAIN sorted = 1 .. n
      /\ \A i, j \in 1 .. n : i < j => sorted[i][1] <= sorted[j][1]
      /\ \A p \in I : \E i \in 1 .. n : sorted[i] = p
  BY Ordering
<1>2. MergeIntervals(I) = iter[1 .. n]
  BY <1>1 DEF MergeIntervals, FoldLeft, MapThenFoldSet
<1> HIDE DEF n, sorted
<1>3. ASSUME NEW s \in SUBSET (1 .. n), s # {}
      PROVE  Max(s) \in s /\ \A x \in s : x <= Max(s)
  <2>0. IsFiniteSet(1 .. n) /\ 1 .. n \subseteq Int
    BY <1>1, FS_Interval
  <2>1. IsFiniteSet(s) /\ s \in SUBSET Int
    BY <2>0, FS_Subset
  <2>2. \E m \in s : \A x \in s : x <= m
    BY <1>3, <2>1, LargestInteger
  <2>3. \E m \in s : \A x \in s : m >= x
    BY <2>1, <2>2
  <2>4. Max(s) \in s /\ \A x \in s : Max(s) >= x
    BY <2>3 DEF Max
  <2> QED BY <2>1, <2>4
<1>4. ASSUME NEW acc \in V, NEW p \in Int \X Int PROVE MergeInto(acc, p) \in V
  <2>1. CASE acc = <<>>
    BY <2>1 DEF MergeInto
  <2>2. CASE acc # <<>>
    <3>1. Len(acc) \in 1 .. Len(acc) /\ acc[Len(acc)] \in Int \X Int
      BY <2>2
    <3> DEFINE top == <<acc[Len(acc)][1], AtLeast(acc[Len(acc)][2], p[2])>>
    <3>2. top \in Int \X Int
      BY <3>1 DEF AtLeast
    <3>3. MergeInto(acc, p) = [acc EXCEPT ![Len(acc)] = top] \/ MergeInto(acc, p) = Append(acc, p)
      BY DEF MergeInto
    <3> HIDE DEF top
    <3>4. [acc EXCEPT ![Len(acc)] = top] \in V /\ Append(acc, p) \in V
      BY <3>1, <3>2
    <3> QED BY <3>3, <3>4
  <2> QED BY <2>1, <2>2
<1>5. I \subseteq Int \X Int
  BY DEF Interval
<1>6. \A x \in 1 .. n, v \in V : step[x][v] = MergeInto(v, sorted[x]) /\ step[x][v] \in V
  BY <1>1, <1>4, <1>5
<1>7. \A s \in SUBSET (1 .. n) : s # {} => pick[s] \in s
  BY <1>3
<1>8. IsFiniteSet(1 .. n) /\ <<>> \in V
  BY <1>1, FS_Interval
<1>9. PICK g : IsFold(g, 1 .. n, V, <<>>, pick, step)
  <2>1. Picks(pick, 1 .. n) /\ Steps(step, 1 .. n, V)
    BY <1>6, <1>7 DEF Picks, Steps
  <2> HIDE DEF V, pick, step
  <2> QED BY <1>8, <2>1, FoldExists
<1>10. \A s \in SUBSET (1 .. n) :
         g[s] = IF s = {} THEN <<>> ELSE MergeInto(g[s \ {Max(s)}], sorted[Max(s)])
  <2> SUFFICES ASSUME NEW s \in SUBSET (1 .. n), s # {}
               PROVE  step[pick[s]][g[s \ {pick[s]}]] = MergeInto(g[s \ {Max(s)}], sorted[Max(s)])
    BY <1>9 DEF IsFold
  <2>1. pick[s] = Max(s) /\ Max(s) \in 1 .. n /\ s \ {Max(s)} \in SUBSET (1 .. n)
    BY <1>3
  <2> HIDE DEF step, pick
  <2>2. g[s \ {Max(s)}] \in V
    <3> HIDE DEF V
    <3> QED BY <1>9, <2>1 DEF IsFold
  <2> QED BY <1>6, <2>1, <2>2
<1>11. g = [s \in SUBSET (1 .. n) |->
         IF s = {} THEN <<>> ELSE LET x == Max(s) IN MergeInto(g[s \ {x}], sorted[x])]
  <2>1. g \in [SUBSET (1 .. n) -> V]
    BY <1>9 DEF IsFold
  <2> DEFINE body(s) == IF s = {} THEN <<>> ELSE LET x == Max(s) IN MergeInto(g[s \ {x}], sorted[x])
  <2>2. \A s \in SUBSET (1 .. n) : g[s] = body(s)
    BY <1>10
  <2> HIDE DEF V, pick, step, body
  <2>3. g = [s \in SUBSET (1 .. n) |-> body(s)]
    BY <2>1, <2>2
  <2> QED BY <2>3 DEF body
<1>12. iter = [s \in SUBSET (1 .. n) |->
         IF s = {} THEN <<>> ELSE LET x == Max(s) IN MergeInto(iter[s \ {x}], sorted[x])]
  BY <1>11
<1> HIDE DEF iter, step, pick, V
<1>13. iter[1 .. 0] = <<>>
  <2>1. 1 .. 0 = {}
    OBVIOUS
  <2> QED BY <1>12, <2>1
<1>14. ASSUME NEW k \in 1 .. n PROVE iter[1 .. k] = MergeInto(iter[1 .. k - 1], sorted[k])
  <2>0. n \in Int /\ k \in Int /\ 1 <= k /\ k <= n
    BY <1>1
  <2>1. 1 .. k \in SUBSET (1 .. n) /\ k \in 1 .. k /\ (1 .. k) \ {k} = 1 .. k - 1
    BY <2>0
  <2>2. Max(1 .. k) = k
    <3> DEFINE s == 1 .. k
    <3>1. s \in SUBSET (1 .. n) /\ s # {}
      BY <2>1
    <3> HIDE DEF s
    <3>2. Max(s) \in s /\ \A x \in s : x <= Max(s)
      BY <1>3, <3>1
    <3> QED BY <2>0, <2>1, <3>2 DEF s
  <2> QED BY <1>12, <2>1, <2>2
<1> DEFINE acc(k) == iter[1 .. k]
           inv(k) ==
             /\ Separate(acc(k))
             /\ \A i \in 1 .. Len(acc(k)), m \in 1 .. n : k < m => acc(k)[i][1] <= sorted[m][1]
             /\ \A y \in Int : (\E i \in 1 .. Len(acc(k)) : Spans(acc(k)[i], y)) <=>
                               \E m \in 1 .. k : Spans(sorted[m], y)
           bad == {k \in 0 .. n : ~inv(k)}
<1>15. inv(0)
  <2>1. acc(0) = <<>> /\ Len(<<>>) = 0 /\ 1 .. 0 = {} /\ <<>> \in Seq(Int \X Int)
    BY <1>13
  <2> QED BY <2>1 DEF Separate
<1>16. ASSUME NEW k \in 1 .. n, inv(k - 1) PROVE inv(k)
  <2> DEFINE old == acc(k - 1)  p == sorted[k]
  <2>1. acc(k) = MergeInto(old, p)
    BY <1>14
  <2>2. p \in Interval /\ p[1] \in Int
    BY <1>1 DEF Interval
  <2>3. Separate(old) /\ \A i \in 1 .. Len(old) : old[i][1] <= p[1]
    BY <1>1, <1>16
  <2>4. \A y \in Int : (\E i \in 1 .. Len(old) : Spans(old[i], y)) <=> \E m \in 1 .. k - 1 : Spans(sorted[m], y)
    BY <1>16
  <2> HIDE DEF acc
  <2>5. /\ Separate(acc(k)) /\ \A i \in 1 .. Len(acc(k)) : acc(k)[i][1] <= p[1]
        /\ \A y \in Int : (\E i \in 1 .. Len(acc(k)) : Spans(acc(k)[i], y)) <=>
                          (\E i \in 1 .. Len(old) : Spans(old[i], y)) \/ Spans(p, y)
    <3> HIDE DEF old, p
    <3> DEFINE new == MergeInto(old, p)
    <3>1. /\ Separate(new) /\ \A i \in 1 .. Len(new) : new[i][1] <= p[1]
          /\ \A y \in Int : (\E i \in 1 .. Len(new) : Spans(new[i], y)) <=>
                            (\E i \in 1 .. Len(old) : Spans(old[i], y)) \/ Spans(p, y)
      BY <2>2, <2>3, MergeStep
    <3> HIDE DEF new
    <3>2. acc(k) = new
      BY <2>1 DEF new
    <3> QED BY <3>1, <3>2
  <2>6. ASSUME NEW i \in 1 .. Len(acc(k)), NEW m \in 1 .. n, k < m
        PROVE  acc(k)[i][1] <= sorted[m][1]
    <3>1. p[1] <= sorted[m][1] /\ sorted[m] \in Interval
      BY <1>1, <2>6
    <3>2. acc(k)[i][1] <= p[1]
      BY <2>5
    <3>3. acc(k)[i] \in Int \X Int
      BY <2>5 DEF Separate
    <3>4. acc(k)[i][1] \in Int /\ sorted[m][1] \in Int
      BY <3>1, <3>3 DEF Interval
    <3> HIDE DEF p
    <3> QED BY <2>2, <3>1, <3>2, <3>4
  <2>7. ASSUME NEW y \in Int
        PROVE  (\E m \in 1 .. k : Spans(sorted[m], y)) <=> (\E m \in 1 .. k - 1 : Spans(sorted[m], y)) \/ Spans(p, y)
    <3>1. 1 .. k = (1 .. k - 1) \cup {k}
      BY <1>1
    <3> QED BY <3>1
  <2> QED BY <2>4, <2>5, <2>6, <2>7
<1>17. bad = {}
  <2> HIDE DEF inv
  <2> SUFFICES ASSUME bad # {} PROVE FALSE
    OBVIOUS
  <2>1. bad \in SUBSET Nat
    BY <1>1
  <2>2. PICK k \in bad : \A j \in bad : k <= j
    <3> HIDE DEF bad
    <3> QED BY <2>1, LeastNatural
  <2>3. k # 0 /\ k \in 0 .. n /\ ~inv(k)
    BY <1>15
  <2>4. k \in 1 .. n /\ k - 1 \in 0 .. n /\ ~(k <= k - 1)
    BY <1>1, <2>3
  <2>5. inv(k - 1)
    BY <2>2, <2>4
  <2> QED BY <1>16, <2>3, <2>4, <2>5
<1>18. inv(n)
  <2>1. n \in 0 .. n
    BY <1>1
  <2> HIDE DEF inv
  <2> QED BY <1>17, <2>1
<1>19. \A y \in Int : (\E m \in 1 .. n : Spans(sorted[m], y)) <=> \E p \in I : Spans(p, y)
  BY <1>1
<1> QED BY <1>2, <1>18, <1>19

-----------------------------------------------------------------------------
(* Disjoint ranges.                                                        *)

Rect == {r \in [z : Int, x0 : Int, x1 : Int, y0 : Int, y1 : Int] : r.x0 <= r.x1 /\ r.y0 <= r.y1}

Here(R, z) == {r \in R : r.z = z}
Edges(R, z) == {r.x0 : r \in Here(R, z)} \cup {r.x1 + 1 : r \in Here(R, z)}
Slabs(R, z) ==
    {p \in Edges(R, z) \X Edges(R, z) : p[1] < p[2] /\ ~\E q \in Edges(R, z) : p[1] < q /\ q < p[2]}
Across(R, z, p) == {r \in Here(R, z) : r.x0 <= p[1] /\ r.x1 >= p[2] - 1}
Heights(R, z, p) == {<<r.y0, r.y1>> : r \in Across(R, z, p)}
Merged(R, z, p) == MergeIntervals(Heights(R, z, p))
At(R, z, p, i) == z \in {q.z : q \in R} /\ p \in Slabs(R, z) /\ i \in DOMAIN Merged(R, z, p)
Piece(z, p, m) == [z |-> z, x0 |-> p[1], x1 |-> p[2] - 1, y0 |-> m[1], y1 |-> m[2]]

LEMMA RangeTiles ==
    ASSUME NEW r \in Rect
    PROVE  /\ \A t \in TilesOf(r) : \E x \in Int, y \in Int : t = <<r.z, x, y>>
           /\ \A z, x \in Int, y \in Int : <<z, x, y>> \in TilesOf(r) <=>
                 z = r.z /\ r.x0 <= x /\ x <= r.x1 /\ r.y0 <= y /\ y <= r.y1
<1>1. r.x0 \in Int /\ r.x1 \in Int /\ r.y0 \in Int /\ r.y1 \in Int
  BY DEF Rect
<1>2. TilesOf(r) = {<<r.z, x, y>> : x \in r.x0 .. r.x1, y \in r.y0 .. r.y1}
  BY DEF TilesOf
<1> QED BY <1>1, <1>2

LEMMA TileIn ==
    ASSUME NEW r \in Rect, NEW x \in Int, NEW y \in Int
    PROVE  <<r.z, x, y>> \in TilesOf(r) <=> r.x0 <= x /\ x <= r.x1 /\ r.y0 <= y /\ y <= r.y1
<1>1. r.x0 \in Int /\ r.x1 \in Int /\ r.y0 \in Int /\ r.y1 \in Int
  BY DEF Rect
<1>2. TilesOf(r) = {<<r.z, a, b>> : a \in r.x0 .. r.x1, b \in r.y0 .. r.y1}
  BY DEF TilesOf
<1> QED BY <1>1, <1>2

LEMMA ImageFinite ==
    ASSUME NEW S, NEW f, IsFiniteSet(S)
    PROVE  IsFiniteSet({f[x] : x \in S})
<1> DEFINE T == {f[x] : x \in S}  g == [x \in S |-> f[x]]
<1>1. g \in Surjection(S, T)
  BY DEF Surjection
<1> QED BY <1>1, FS_Surjection

LEMMA FiniteEdges ==
    ASSUME NEW R \in SUBSET Rect, IsFiniteSet(R), NEW z
    PROVE  /\ IsFiniteSet(Edges(R, z)) /\ Edges(R, z) \in SUBSET Int
           /\ \A p : IsFiniteSet(Heights(R, z, p)) /\ Heights(R, z, p) \in SUBSET Interval
<1>1. Here(R, z) \in SUBSET R /\ Here(R, z) \subseteq Rect /\ IsFiniteSet(Here(R, z))
  BY FS_Subset DEF Here
<1> DEFINE left == [r \in Rect |-> r.x0]  right == [r \in Rect |-> r.x1 + 1]
           height == [r \in Rect |-> <<r.y0, r.y1>>]
<1>2. IsFiniteSet({left[r] : r \in Here(R, z)}) /\ IsFiniteSet({right[r] : r \in Here(R, z)})
  <2> HIDE DEF left, right
  <2> QED BY <1>1, ImageFinite
<1>3. Edges(R, z) = {left[r] : r \in Here(R, z)} \cup {right[r] : r \in Here(R, z)}
  BY <1>1 DEF Edges
<1>4. IsFiniteSet(Edges(R, z))
  <2> DEFINE lefts == {left[r] : r \in Here(R, z)}  rights == {right[r] : r \in Here(R, z)}
  <2> HIDE DEF lefts, rights
  <2>1. IsFiniteSet(lefts \cup rights)
    BY <1>2, FS_Union DEF lefts, rights
  <2> QED BY <1>3, <2>1 DEF lefts, rights
<1>5. Edges(R, z) \in SUBSET Int
  BY <1>1 DEF Edges, Rect
<1>6. ASSUME NEW p PROVE IsFiniteSet(Heights(R, z, p)) /\ Heights(R, z, p) \in SUBSET Interval
  <2>1. Across(R, z, p) \in SUBSET Here(R, z) /\ Across(R, z, p) \subseteq Rect
    BY <1>1 DEF Across
  <2>2. IsFiniteSet({height[r] : r \in Across(R, z, p)})
    <3>1. IsFiniteSet(Across(R, z, p))
      BY <1>1, <2>1, FS_Subset
    <3> HIDE DEF height
    <3> QED BY <3>1, ImageFinite
  <2>3. Heights(R, z, p) = {height[r] : r \in Across(R, z, p)}
    BY <2>1 DEF Heights
  <2>4. Heights(R, z, p) \in SUBSET Interval
    BY <2>1 DEF Heights, Interval, Rect
  <2> QED BY <2>2, <2>3, <2>4
<1> QED BY <1>4, <1>5, <1>6

LEMMA PiecesOf ==
    ASSUME NEW R, NEW r
    PROVE  r \in DisjointRanges(R) <=> \E z, p, i : At(R, z, p, i) /\ r = Piece(z, p, Merged(R, z, p)[i])
<1> DEFINE merged(z, p) == MergeIntervals(Heights(R, z, p))
           pieces(z, p) == {Piece(z, p, m) : m \in {merged(z, p)[i] : i \in DOMAIN merged(z, p)}}
<1>1. DisjointRanges(R) = UNION {UNION {pieces(z, p) : p \in Slabs(R, z)} : z \in {q.z : q \in R}}
  BY DEF DisjointRanges, Slabs, Edges, Here, Heights, Across, Piece
<1>2. \A z, p : r \in pieces(z, p) <=> \E i \in DOMAIN merged(z, p) : r = Piece(z, p, merged(z, p)[i])
  OBVIOUS
<1> HIDE DEF pieces, merged
<1>3. r \in DisjointRanges(R) <=> \E z \in {q.z : q \in R} : \E p \in Slabs(R, z) : r \in pieces(z, p)
  BY <1>1
<1> QED BY <1>2, <1>3 DEF merged, Merged, At

\* Every column of a range lies in a slab that the range spans.
LEMMA SlabAround ==
    ASSUME NEW R \in SUBSET Rect, IsFiniteSet(R), NEW r \in R, NEW x \in r.x0 .. r.x1
    PROVE  \E p \in Slabs(R, r.z) :
              /\ p[1] \in Int /\ p[2] \in Int /\ p[1] <= x /\ x <= p[2] - 1
              /\ r.x0 <= p[1] /\ r.x1 >= p[2] - 1
<1> DEFINE edges == Edges(R, r.z)  lo == {q \in edges : q <= x}  hi == {q \in edges : x < q}
<1>1. r.x0 \in Int /\ r.x1 \in Int /\ x \in Int /\ r.x0 <= x /\ x <= r.x1
  BY DEF Rect
<1>2. r.x0 \in edges /\ r.x1 + 1 \in edges
  BY DEF Edges, Here
<1>3. IsFiniteSet(edges) /\ edges \in SUBSET Int
  BY FiniteEdges
<1> HIDE DEF edges
<1>4. IsFiniteSet(lo) /\ lo \in SUBSET Int /\ r.x0 \in lo
  <2>1. lo \in SUBSET edges /\ r.x0 \in lo
    BY <1>1, <1>2
  <2> HIDE DEF lo
  <2> QED BY <1>3, <2>1, FS_Subset
<1>5. IsFiniteSet(hi) /\ hi \in SUBSET Int /\ r.x1 + 1 \in hi
  <2>1. hi \in SUBSET edges /\ r.x1 + 1 \in hi
    BY <1>1, <1>2
  <2> HIDE DEF hi
  <2> QED BY <1>3, <2>1, FS_Subset
<1>6. PICK a \in lo : \A q \in lo : q <= a
  <2> HIDE DEF lo
  <2> QED BY <1>4, LargestInteger
<1>7. PICK b \in hi : \A q \in hi : b <= q
  <2> HIDE DEF hi
  <2> QED BY <1>5, LeastInteger
<1>8. a \in Int /\ b \in Int /\ a <= x /\ x < b /\ r.x0 <= a /\ b <= r.x1 + 1 /\ a \in edges /\ b \in edges
  BY <1>3, <1>4, <1>5, <1>6, <1>7
<1>9. ~\E q \in edges : a < q /\ q < b
  BY <1>1, <1>3, <1>6, <1>7, <1>8
<1>10. <<a, b>> \in Slabs(R, r.z)
  BY <1>1, <1>8, <1>9 DEF Slabs, edges
<1> QED BY <1>1, <1>8, <1>10

\* Two slabs with a column in common are one.
LEMMA SlabsApart ==
    ASSUME NEW R \in SUBSET Rect, IsFiniteSet(R), NEW z, NEW p \in Slabs(R, z), NEW q \in Slabs(R, z), NEW x \in Int,
           p[1] <= x, x <= p[2] - 1, q[1] <= x, x <= q[2] - 1
    PROVE  p = q
<1>1. /\ p[1] \in Edges(R, z) /\ p[2] \in Edges(R, z) /\ q[1] \in Edges(R, z) /\ q[2] \in Edges(R, z)
      /\ ~(p[1] < q[1] /\ q[1] < p[2]) /\ ~(p[1] < q[2] /\ q[2] < p[2])
      /\ ~(q[1] < p[1] /\ p[1] < q[2]) /\ ~(q[1] < p[2] /\ p[2] < q[2])
      /\ p = <<p[1], p[2]>> /\ q = <<q[1], q[2]>>
  BY DEF Slabs
<1>2. p[1] \in Int /\ p[2] \in Int /\ q[1] \in Int /\ q[2] \in Int
  BY <1>1, FiniteEdges
<1>3. p[1] = q[1] /\ p[2] = q[2]
  BY <1>1, <1>2
<1> QED BY <1>1, <1>3

\* What is known of a range disjoint_ranges returns.
LEMMA PieceFacts ==
    ASSUME NEW R \in SUBSET Rect, IsFiniteSet(R), NEW z, NEW p, NEW i, At(R, z, p, i)
    PROVE  /\ Piece(z, p, Merged(R, z, p)[i]) \in Rect /\ Piece(z, p, Merged(R, z, p)[i]).z = z
           /\ p[1] \in Int /\ p[2] \in Int /\ p \in Slabs(R, z)
           /\ Separate(Merged(R, z, p)) /\ i \in 1 .. Len(Merged(R, z, p))
           /\ \A x \in Int, y \in Int : <<z, x, y>> \in TilesOf(Piece(z, p, Merged(R, z, p)[i])) <=>
                 p[1] <= x /\ x <= p[2] - 1 /\ Spans(Merged(R, z, p)[i], y)
<1> DEFINE m == Merged(R, z, p)  r == Piece(z, p, m[i])
<1>1. Heights(R, z, p) \in SUBSET Interval /\ IsFiniteSet(Heights(R, z, p))
  BY FiniteEdges
<1>2. Separate(m)
  BY <1>1, Merging DEF Merged
<1>3. i \in DOMAIN m /\ p \in Slabs(R, z)
  BY DEF At
<1> HIDE DEF m
<1>4. m \in Seq(Int \X Int) /\ i \in 1 .. Len(m)
  BY <1>2, <1>3 DEF Separate
<1>5. m[i] \in Int \X Int /\ m[i][1] <= m[i][2]
  BY <1>2, <1>4 DEF Separate
<1>6. p[1] \in Int /\ p[2] \in Int /\ p[1] < p[2]
  BY <1>3, FiniteEdges DEF Slabs
<1>7. z \in Int
  BY DEF At, Rect
<1>8. /\ r.z = z /\ r.x0 = p[1] /\ r.x1 = p[2] - 1 /\ r.y0 = m[i][1] /\ r.y1 = m[i][2]
  BY DEF Piece
<1>9. r \in Rect
  <2>1. p[1] <= p[2] - 1 /\ p[2] - 1 \in Int
    BY <1>6
  <2> QED BY <1>5, <1>6, <1>7, <2>1 DEF Piece, Rect
<1> HIDE DEF r
<1>10. ASSUME NEW x \in Int, NEW y \in Int
       PROVE  <<z, x, y>> \in TilesOf(r) <=> p[1] <= x /\ x <= p[2] - 1 /\ Spans(m[i], y)
  <2>1. <<r.z, x, y>> \in TilesOf(r) <=> r.x0 <= x /\ x <= r.x1 /\ r.y0 <= y /\ y <= r.y1
    BY <1>9, TileIn
  <2> QED BY <1>8, <2>1 DEF Spans
<1> QED BY <1>2, <1>3, <1>4, <1>6, <1>8, <1>9, <1>10 DEF m, r

\* A height of the slab is held by one of the merged intervals, and only such are.
LEMMA MergedFacts ==
    ASSUME NEW R \in SUBSET Rect, IsFiniteSet(R), NEW z, NEW p, NEW y \in Int
    PROVE  /\ DOMAIN Merged(R, z, p) = 1 .. Len(Merged(R, z, p))
           /\ (\E i \in DOMAIN Merged(R, z, p) : Spans(Merged(R, z, p)[i], y)) <=>
              \E q \in Across(R, z, p) : q.y0 <= y /\ y <= q.y1
<1>1. Heights(R, z, p) \in SUBSET Interval /\ IsFiniteSet(Heights(R, z, p))
  BY FiniteEdges
<1>2. /\ Separate(Merged(R, z, p))
      /\ (\E i \in 1 .. Len(Merged(R, z, p)) : Spans(Merged(R, z, p)[i], y)) <=>
         \E h \in Heights(R, z, p) : Spans(h, y)
  BY <1>1, Merging DEF Merged
<1>3. DOMAIN Merged(R, z, p) = 1 .. Len(Merged(R, z, p))
  BY <1>2 DEF Separate
<1>4. (\E h \in Heights(R, z, p) : Spans(h, y)) <=> \E q \in Across(R, z, p) : q.y0 <= y /\ y <= q.y1
  <2>1. \A q : Spans(<<q.y0, q.y1>>, y) <=> q.y0 <= y /\ y <= q.y1
    BY DEF Spans
  <2> QED BY <2>1 DEF Heights
<1> QED BY <1>2, <1>3, <1>4

(* disjoint_ranges, for any ranges: it loses no tile and adds none, and no *)
(* tile is in two of the ranges it returns.                                *)
LEMMA Disjoint ==
    ASSUME NEW R \in SUBSET Rect, IsFiniteSet(R)
    PROVE  /\ DisjointRanges(R) \subseteq Rect
           /\ TilesIter(DisjointRanges(R)) = TilesIter(R)
           /\ \A r, s \in DisjointRanges(R) : r # s => TilesOf(r) \cap TilesOf(s) = {}
<1>1. DisjointRanges(R) \subseteq Rect
  BY PiecesOf, PieceFacts
<1>2. ASSUME NEW r \in DisjointRanges(R), NEW t \in TilesOf(r) PROVE t \in TilesIter(R)
  <2>1. PICK z, p, i : At(R, z, p, i) /\ r = Piece(z, p, Merged(R, z, p)[i])
    BY PiecesOf
  <2>2. r.z = z /\ p[1] \in Int /\ p[2] \in Int
    BY <2>1, PieceFacts
  <2>3. PICK x \in Int, y \in Int : t = <<z, x, y>>
    BY <1>1, <2>2, RangeTiles
  <2>4. p[1] <= x /\ x <= p[2] - 1 /\ Spans(Merged(R, z, p)[i], y)
    BY <2>1, <2>3, PieceFacts
  <2>5. PICK q \in Across(R, z, p) : q.y0 <= y /\ y <= q.y1
    BY <2>1, <2>4, MergedFacts DEF At
  <2>6. q \in R /\ q \in Rect /\ q.z = z /\ q.x0 <= p[1] /\ q.x1 >= p[2] - 1 /\ q.x0 \in Int /\ q.x1 \in Int
    BY DEF Across, Here, Rect
  <2>7. q.x0 <= x /\ x <= q.x1
    BY <2>2, <2>4, <2>6
  <2>8. t \in TilesOf(q)
    <3>1. <<q.z, x, y>> \in TilesOf(q)
      BY <2>5, <2>6, <2>7, TileIn
    <3> QED BY <2>3, <2>6, <3>1
  <2> QED BY <2>6, <2>8 DEF TilesIter
<1>3. ASSUME NEW q \in R, NEW t \in TilesOf(q) PROVE t \in TilesIter(DisjointRanges(R))
  <2>1. PICK x \in Int, y \in Int : t = <<q.z, x, y>>
    BY RangeTiles
  <2>2. q.x0 <= x /\ x <= q.x1 /\ q.y0 <= y /\ y <= q.y1 /\ q.x0 \in Int /\ q.x1 \in Int
    BY <1>3, <2>1, RangeTiles DEF Rect
  <2>3. PICK p \in Slabs(R, q.z) : /\ p[1] \in Int /\ p[2] \in Int /\ p[1] <= x /\ x <= p[2] - 1
                                   /\ q.x0 <= p[1] /\ q.x1 >= p[2] - 1
    <3>1. x \in q.x0 .. q.x1
      BY <2>2
    <3> QED BY <3>1, SlabAround
  <2>4. q \in Across(R, q.z, p)
    BY <2>3 DEF Across, Here
  <2>5. PICK i \in DOMAIN Merged(R, q.z, p) : Spans(Merged(R, q.z, p)[i], y)
    BY <2>2, <2>4, MergedFacts
  <2>6. At(R, q.z, p, i)
    BY DEF At
  <2>7. t \in TilesOf(Piece(q.z, p, Merged(R, q.z, p)[i]))
    BY <2>1, <2>3, <2>5, <2>6, PieceFacts
  <2>8. Piece(q.z, p, Merged(R, q.z, p)[i]) \in DisjointRanges(R)
    BY <2>6, PiecesOf
  <2> QED BY <2>7, <2>8 DEF TilesIter
<1>4. ASSUME NEW r \in DisjointRanges(R), NEW s \in DisjointRanges(R), NEW t, t \in TilesOf(r), t \in TilesOf(s)
      PROVE  r = s
  <2>1. PICK z, p, i : At(R, z, p, i) /\ r = Piece(z, p, Merged(R, z, p)[i])
    BY PiecesOf
  <2>2. PICK w, q, j : At(R, w, q, j) /\ s = Piece(w, q, Merged(R, w, q)[j])
    BY PiecesOf
  <2>3. r.z = z /\ s.z = w /\ r \in Rect /\ s \in Rect
    BY <2>1, <2>2, PieceFacts
  <2>4. PICK x \in Int, y \in Int : t = <<z, x, y>>
    BY <1>4, <2>3, RangeTiles
  <2>5. w = z
    BY <1>4, <2>3, <2>4, RangeTiles
  <2>6. p[1] <= x /\ x <= p[2] - 1 /\ Spans(Merged(R, z, p)[i], y)
    BY <1>4, <2>1, <2>4, PieceFacts
  <2>7. q[1] <= x /\ x <= q[2] - 1 /\ Spans(Merged(R, z, q)[j], y)
    BY <1>4, <2>2, <2>4, <2>5, PieceFacts
  <2>8. p = q
    <3>1. p \in Slabs(R, z) /\ q \in Slabs(R, z)
      BY <2>1, <2>2, <2>5 DEF At
    <3> QED BY <2>6, <2>7, <3>1, SlabsApart
  <2> DEFINE m == Merged(R, z, p)
  <2>9. /\ i \in 1 .. Len(m) /\ j \in 1 .. Len(m) /\ Spans(m[i], y) /\ Spans(m[j], y) /\ Separate(m)
        /\ r = Piece(z, p, m[i]) /\ s = Piece(z, p, m[j])
    BY <2>1, <2>2, <2>5, <2>6, <2>7, <2>8, PieceFacts
  <2> HIDE DEF m
  <2>10. i = j
    <3>1. m \in Seq(Int \X Int) /\ i \in Int /\ j \in Int
      BY <2>9 DEF Separate
    <3>2. m[i] \in Int \X Int /\ m[j] \in Int \X Int
      BY <2>9, <3>1
    <3>3. m[i][1] \in Int /\ m[i][2] \in Int /\ m[j][1] \in Int /\ m[j][2] \in Int
      BY <3>2
    <3>4. m[i][1] <= y /\ y <= m[i][2] /\ m[j][1] <= y /\ y <= m[j][2]
      BY <2>9 DEF Spans
    <3>5. (i < j => m[i][2] < m[j][1]) /\ (j < i => m[j][2] < m[i][1])
      BY <2>9 DEF Separate
    <3> DEFINE a == m[i]  c == m[j]
    <3> HIDE DEF a, c
    <3>6. i < j => a[2] < c[1]
      BY <3>5 DEF a, c
    <3>7. j < i => c[2] < a[1]
      BY <3>5 DEF a, c
    <3>8. a[1] \in Int /\ a[2] \in Int /\ c[1] \in Int /\ c[2] \in Int /\ a[1] <= y /\ y <= a[2] /\ c[1] <= y /\ y <= c[2]
      BY <3>3, <3>4 DEF a, c
    <3> QED BY <3>1, <3>6, <3>7, <3>8
  <2> QED BY <2>9, <2>10
<1>5. TilesIter(DisjointRanges(R)) = TilesIter(R)
  BY <1>2, <1>3 DEF TilesIter
<1> QED BY <1>1, <1>4, <1>5

-----------------------------------------------------------------------------
(* A download.                                                             *)

Rects(source, b, zmin, zmax) ==
    {TileRect(c, z) : c \in Clips(source, b), z \in ZoomBounds(source, zmin, zmax)}

LEMMA ClipFields ==
    ASSUME NEW k \in Clip
    PROVE  /\ k.west \in 0 .. World /\ k.east \in 0 .. World /\ k.north \in 0 .. World /\ k.south \in 0 .. World
           /\ k.west \in Int /\ k.east \in Int /\ k.north \in Int /\ k.south \in Int
BY GeometryAssumption DEF Clip

LEMMA FiniteClips == IsFiniteSet(Clip)
<1> DEFINE line == 0 .. World  pairs == line \X line  corners == pairs \X pairs
           clip == [q \in corners |->
                       [west |-> q[1][1], east |-> q[1][2], north |-> q[2][1], south |-> q[2][2]]]
<1>1. IsFiniteSet(line)
  BY GeometryAssumption, FS_Interval
<1> HIDE DEF line
<1>2. IsFiniteSet(pairs)
  BY <1>1, FS_Product
<1> HIDE DEF pairs
<1>3. IsFiniteSet(corners)
  BY <1>2, FS_Product
<1>4. Clip \subseteq {clip[q] : q \in corners}
  <2> SUFFICES ASSUME NEW k \in Clip PROVE \E q \in corners : k = clip[q]
    OBVIOUS
  <2> DEFINE q == <<<<k.west, k.east>>, <<k.north, k.south>>>>
  <2>1. q \in corners /\ k = [west |-> k.west, east |-> k.east, north |-> k.north, south |-> k.south]
    BY DEF Clip, pairs, line
  <2> QED BY <2>1
<1>5. IsFiniteSet({clip[q] : q \in corners})
  <2> HIDE DEF clip, corners
  <2> QED BY <1>3, ImageFinite
<1> QED BY <1>4, <1>5, FS_Subset

\* zoom_bounds: the zooms both the request and the source have.
LEMMA Zooms ==
    ASSUME NEW source, IsSource(source), NEW zmin \in Nat, NEW zmax \in Nat
    PROVE  /\ ZoomBounds(source, zmin, zmax) = {z \in zmin .. zmax : z \in source.minzoom .. source.maxzoom}
           /\ ZoomBounds(source, zmin, zmax) \in SUBSET Int /\ IsFiniteSet(ZoomBounds(source, zmin, zmax))
<1>1. /\ source.minzoom \in Int /\ source.maxzoom \in Int /\ source.maxzoom <= EffectiveZoom /\ EffectiveZoom \in Int
  BY GeometryAssumption DEF IsSource
<1> DEFINE lo == AtLeast(zmin, source.minzoom)
           hi == NoMoreThan(NoMoreThan(zmax, source.maxzoom), EffectiveZoom)
<1>2. lo \in Int /\ hi \in Int
  BY <1>1 DEF AtLeast, NoMoreThan
<1>3. \A z \in Int : (lo <= z <=> zmin <= z /\ source.minzoom <= z) /\ (z <= hi <=> z <= zmax /\ z <= source.maxzoom)
  BY <1>1 DEF AtLeast, NoMoreThan
<1>4. ZoomBounds(source, zmin, zmax) = lo .. hi
  BY DEF ZoomBounds
<1> HIDE DEF lo, hi
<1>5. IsFiniteSet(lo .. hi)
  BY <1>2, FS_Interval
<1>6. lo .. hi = {z \in zmin .. zmax : z \in source.minzoom .. source.maxzoom}
  BY <1>1, <1>2, <1>3
<1> QED BY <1>2, <1>4, <1>5, <1>6

\* tile_rect: a clip that is not empty has a rectangle of tiles of the pyramid.
LEMMA RectOfClip ==
    ASSUME NEW k \in Clip, NotEmpty(k), NEW z, Tiled(z)
    PROVE  /\ TileRect(k, z) \in Rect /\ TileRect(k, z).z = z
           /\ 0 <= TileRect(k, z).x0 /\ TileRect(k, z).x1 <= 2^z - 1
           /\ 0 <= TileRect(k, z).y0 /\ TileRect(k, z).y1 <= 2^z - 1
<1> DEFINE n == 2^z  r == TileRect(k, z)
<1>1. n \in Nat /\ z \in Int
  BY Sides DEF Tiled
<1>2. k.west < k.east /\ k.north < k.south
  BY DEF NotEmpty
<1>3. /\ TileFor(k.west, z) \in 0 .. n - 1 /\ TileFor(k.east, z) \in 0 .. n - 1
      /\ TileFor(k.north, z) \in 0 .. n - 1 /\ TileFor(k.south, z) \in 0 .. n - 1
  BY ClipFields, TileOfPosition
<1>4. TileFor(k.west, z) <= TileFor(k.east, z) /\ TileFor(k.north, z) <= TileFor(k.south, z)
  BY <1>2, ClipFields, TilesBetween
<1> HIDE DEF n
<1>5. /\ r.z = z /\ r.x0 = TileFor(k.west, z) /\ r.x1 = TileFor(k.east, z)
      /\ r.y0 = TileFor(k.north, z) /\ r.y1 = TileFor(k.south, z)
  BY DEF TileRect
<1>6. r \in Rect
  BY <1>1, <1>3, <1>4 DEF TileRect, Rect
<1> QED BY <1>1, <1>3, <1>5, <1>6 DEF n

LEMMA RectsAreRects ==
    ASSUME NEW source, IsSource(source), NEW b \in Box, NEW zmin \in Nat, NEW zmax \in Nat,
           \A z \in ZoomBounds(source, zmin, zmax) : Tiled(z)
    PROVE  Rects(source, b, zmin, zmax) \in SUBSET Rect /\ IsFiniteSet(Rects(source, b, zmin, zmax))
<1> DEFINE clips == Clips(source, b)  zooms == ZoomBounds(source, zmin, zmax)  both == clips \X zooms
           rect == [q \in both |-> TileRect(q[1], q[2])]
<1>1. clips \subseteq Clip /\ \A k \in clips : NotEmpty(k)
  BY ClipsAreAsked
<1>2. IsFiniteSet(clips) /\ IsFiniteSet(zooms)
  BY <1>1, FiniteClips, FS_Subset, Zooms
<1> HIDE DEF clips, zooms
<1>3. IsFiniteSet(both)
  BY <1>2, FS_Product
<1>4. Rects(source, b, zmin, zmax) = {rect[q] : q \in both}
  <2>1. \A r : r \in Rects(source, b, zmin, zmax) <=> \E c \in clips, z \in zooms : r = TileRect(c, z)
    BY DEF Rects, clips, zooms
  <2>2. \A r : r \in {rect[q] : q \in both} <=> \E q \in both : r = TileRect(q[1], q[2])
    OBVIOUS
  <2>3. ASSUME NEW c \in clips, NEW z \in zooms PROVE \E q \in both : TileRect(c, z) = TileRect(q[1], q[2])
    <3>1. <<c, z>> \in both /\ <<c, z>>[1] = c /\ <<c, z>>[2] = z
      OBVIOUS
    <3> QED BY <3>1
  <2>4. \A q \in both : q[1] \in clips /\ q[2] \in zooms
    OBVIOUS
  <2> QED BY <2>1, <2>2, <2>3, <2>4
<1>5. IsFiniteSet({rect[q] : q \in both})
  <2> HIDE DEF rect, both
  <2> QED BY <1>3, ImageFinite
<1>6. Rects(source, b, zmin, zmax) \in SUBSET Rect
  BY <1>1, RectOfClip DEF Rects, clips, zooms
<1> QED BY <1>4, <1>5, <1>6

\* disjoint_ranges of rectangles, for the ranges of a download.
LEMMA RangesOfDownload ==
    ASSUME NEW source, IsSource(source), NEW b \in Box, NEW zmin \in Nat, NEW zmax \in Nat,
           \A z \in ZoomBounds(source, zmin, zmax) : Tiled(z)
    PROVE  LET D == CoveredRanges(source, b, zmin, zmax) IN
           /\ D \subseteq Rect /\ \A r, s \in D : r # s => TilesOf(r) \cap TilesOf(s) = {}
           /\ TilesIter(D) = TilesIter(Rects(source, b, zmin, zmax))
<1> DEFINE R == Rects(source, b, zmin, zmax)
<1>1. R \in SUBSET Rect /\ IsFiniteSet(R)
  BY RectsAreRects
<1>2. CoveredRanges(source, b, zmin, zmax) = DisjointRanges(R)
  BY DEF CoveredRanges, Rects
<1> HIDE DEF R
<1>3. /\ DisjointRanges(R) \subseteq Rect /\ TilesIter(DisjointRanges(R)) = TilesIter(R)
      /\ \A r, s \in DisjointRanges(R) : r # s => TilesOf(r) \cap TilesOf(s) = {}
  BY <1>1, Disjoint
<1> QED BY <1>2, <1>3 DEF R

\* A tile is in the rectangle of a clip.
InClips(source, b, zmin, zmax, t) ==
    \E k \in Clips(source, b), z \in ZoomBounds(source, zmin, zmax), x \in Int, y \in Int :
       /\ t = <<z, x, y>>
       /\ TileFor(k.west, z) <= x /\ x <= TileFor(k.east, z)
       /\ TileFor(k.north, z) <= y /\ y <= TileFor(k.south, z)

\* A tile of a download is a tile of the rectangle of a clip, and the other way round.
LEMMA TilesOfDownload ==
    ASSUME NEW source, IsSource(source), NEW b \in Box, NEW zmin \in Nat, NEW zmax \in Nat,
           \A z \in ZoomBounds(source, zmin, zmax) : Tiled(z), NEW t
    PROVE  t \in TilesIter(CoveredRanges(source, b, zmin, zmax)) <=> InClips(source, b, zmin, zmax, t)
<1> DEFINE zooms == ZoomBounds(source, zmin, zmax)
<1>1. \A k \in Clips(source, b), z \in zooms : TileRect(k, z) \in Rect
  BY ClipsAreAsked, RectOfClip
<1>2. t \in TilesIter(CoveredRanges(source, b, zmin, zmax)) <=>
      \E k \in Clips(source, b), z \in zooms : t \in TilesOf(TileRect(k, z))
  BY RangesOfDownload DEF TilesIter, Rects
<1>3. ASSUME NEW k \in Clips(source, b), NEW z \in zooms
      PROVE  t \in TilesOf(TileRect(k, z)) <=> \E x \in Int, y \in Int :
              /\ t = <<z, x, y>>
              /\ TileFor(k.west, z) <= x /\ x <= TileFor(k.east, z)
              /\ TileFor(k.north, z) <= y /\ y <= TileFor(k.south, z)
  <2> DEFINE r == TileRect(k, z)
  <2>1. /\ r.z = z /\ r.x0 = TileFor(k.west, z) /\ r.x1 = TileFor(k.east, z)
        /\ r.y0 = TileFor(k.north, z) /\ r.y1 = TileFor(k.south, z)
    BY DEF TileRect
  <2>2. r \in Rect
    BY <1>1
  <2> HIDE DEF r
  <2>3. ASSUME NEW x \in Int, NEW y \in Int
        PROVE  <<z, x, y>> \in TilesOf(r) <=>
               /\ TileFor(k.west, z) <= x /\ x <= TileFor(k.east, z)
               /\ TileFor(k.north, z) <= y /\ y <= TileFor(k.south, z)
    <3>1. <<r.z, x, y>> \in TilesOf(r) <=> r.x0 <= x /\ x <= r.x1 /\ r.y0 <= y /\ y <= r.y1
      BY <2>2, TileIn
    <3> QED BY <2>1, <3>1
  <2>4. t \in TilesOf(r) => \E x \in Int, y \in Int : t = <<z, x, y>>
    BY <2>1, <2>2, RangeTiles
  <2> QED BY <2>3, <2>4 DEF r
<1> QED BY <1>2, <1>3 DEF InClips

(* A download, for a map of any size, any source and any box: no hole, and *)
(* nothing that was not asked for (clips, tile_rect, disjoint_ranges).     *)
THEOREM EveryDownload ==
    ASSUME NEW source, IsSource(source), NEW b \in Box, NEW zmin \in Nat, NEW zmax \in Nat,
           \A z \in ZoomBounds(source, zmin, zmax) : Tiled(z)
    PROVE  DownloadsWhatIsAsked(source, b, zmin, zmax)
<1> DEFINE tiles == TilesIter(CoveredRanges(source, b, zmin, zmax))
           asked == Asked(source, b)
           zooms == ZoomBounds(source, zmin, zmax)
           all == UNION {{<<z, x, y>> : x \in 0 .. 2^z - 1, y \in 0 .. 2^z - 1} : z \in zooms}
           spans(k, z, x, y) == /\ TileFor(k.west, z) <= x /\ x <= TileFor(k.east, z)
                                /\ TileFor(k.north, z) <= y /\ y <= TileFor(k.south, z)
<1>1. ASSUME NEW t
      PROVE  t \in tiles <=> \E k \in Clips(source, b), z \in zooms, x \in Int, y \in Int :
                                t = <<z, x, y>> /\ spans(k, z, x, y)
  <2>1. t \in tiles <=> InClips(source, b, zmin, zmax, t)
    BY TilesOfDownload
  <2> QED BY <2>1 DEF InClips
<1>2. \A k \in Clips(source, b) : k \in Clip /\ NotEmpty(k)
  BY ClipsAreAsked
<1>3. \A c : c \in asked <=> c \in Cells /\ \E k \in Clips(source, b) : In(c, k)
  BY ClipsAreAsked
<1>4. zooms = {z \in zmin .. zmax : z \in source.minzoom .. source.maxzoom}
  BY Zooms
<1>5. \A z \in zooms : Tiled(z)
  OBVIOUS
<1> HIDE DEF tiles, asked, zooms
<1>6. ASSUME NEW k \in Clip, NotEmpty(k), NEW z, Tiled(z)
      PROVE  /\ 2^z \in Nat
             /\ TileFor(k.west, z) \in 0 .. 2^z - 1 /\ TileFor(k.east, z) \in 0 .. 2^z - 1
             /\ TileFor(k.north, z) \in 0 .. 2^z - 1 /\ TileFor(k.south, z) \in 0 .. 2^z - 1
  BY <1>6, ClipFields, TileOfPosition, Sides
<1>7. tiles \subseteq all
  <2> SUFFICES ASSUME NEW t \in tiles PROVE t \in all
    OBVIOUS
  <2>1. PICK k \in Clips(source, b), z \in zooms, x \in Int, y \in Int : t = <<z, x, y>> /\ spans(k, z, x, y)
    BY <1>1
  <2> DEFINE n == 2^z
  <2>2. /\ n \in Nat
        /\ TileFor(k.west, z) \in 0 .. n - 1 /\ TileFor(k.east, z) \in 0 .. n - 1
        /\ TileFor(k.north, z) \in 0 .. n - 1 /\ TileFor(k.south, z) \in 0 .. n - 1
    BY <1>2, <1>5, <1>6
  <2> HIDE DEF n
  <2>3. x \in 0 .. n - 1 /\ y \in 0 .. n - 1
    BY <2>1, <2>2
  <2> QED BY <2>1, <2>3 DEF n
<1>8. ASSUME NEW t \in all, NEW c \in asked, Within(c[1], t[2], t[1]), Within(c[2], t[3], t[1])
      PROVE  t \in tiles
  <2>1. PICK z \in zooms : \E x \in 0 .. 2^z - 1, y \in 0 .. 2^z - 1 : t = <<z, x, y>>
    OBVIOUS
  <2>2. PICK x \in 0 .. 2^z - 1, y \in 0 .. 2^z - 1 : t = <<z, x, y>>
    BY <2>1
  <2>3. PICK k \in Clips(source, b) : In(c, k)
    BY <1>3
  <2>4. c \in Cells /\ k \in Clip /\ NotEmpty(k) /\ Tiled(z)
    BY <1>2, <1>3, <1>5
  <2>5. c[1] \in k.west .. k.east - 1 /\ c[2] \in k.north .. k.south - 1
    BY <2>3, <2>4, Units, ClipFields DEF In
  <2>6. k.west < k.east /\ k.north < k.south
    BY <2>4 DEF NotEmpty
  <2>7. Within(c[1], x, z) /\ Within(c[2], y, z)
    BY <1>8, <2>2
  <2>8. TileFor(k.west, z) <= x /\ x <= TileFor(k.east, z)
    BY <2>2, <2>4, <2>5, <2>6, <2>7, ClipFields, TilesBetween
  <2>9. TileFor(k.north, z) <= y /\ y <= TileFor(k.south, z)
    BY <2>2, <2>4, <2>5, <2>6, <2>7, ClipFields, TilesBetween
  <2>10. x \in Int /\ y \in Int
    <3> DEFINE n == 2^z
    <3>1. x \in 0 .. n - 1 /\ y \in 0 .. n - 1
      OBVIOUS
    <3> HIDE DEF n
    <3> QED BY <3>1
  <2> QED BY <1>1, <2>2, <2>8, <2>9, <2>10
<1>9. ASSUME NEW t \in tiles
      PROVE  \E c \in asked : Borders(c[1], t[2], t[1]) /\ Borders(c[2], t[3], t[1])
  <2>1. PICK k \in Clips(source, b), z \in zooms, x \in Int, y \in Int : t = <<z, x, y>> /\ spans(k, z, x, y)
    BY <1>1
  <2>2. k \in Clip /\ NotEmpty(k) /\ Tiled(z)
    BY <1>2, <1>5
  <2>3. k.west < k.east /\ k.north < k.south
    BY <2>2 DEF NotEmpty
  <2> DEFINE n == 2^z
  <2>4. /\ n \in Nat
        /\ TileFor(k.west, z) \in 0 .. n - 1 /\ TileFor(k.east, z) \in 0 .. n - 1
        /\ TileFor(k.north, z) \in 0 .. n - 1 /\ TileFor(k.south, z) \in 0 .. n - 1
    BY <1>6, <2>2
  <2> HIDE DEF n
  <2>5. x \in TileFor(k.west, z) .. TileFor(k.east, z) /\ y \in TileFor(k.north, z) .. TileFor(k.south, z)
    BY <2>1, <2>4
  <2>6. PICK e \in k.west .. k.east - 1 : Borders(e, x, z)
    BY <2>2, <2>3, <2>5, ClipFields, TilesBetween
  <2>7. PICK s \in k.north .. k.south - 1 : Borders(s, y, z)
    BY <2>2, <2>3, <2>5, ClipFields, TilesBetween
  <2>8. e \in 0 .. World - 1 /\ s \in 0 .. World - 1 /\ e \in Int /\ s \in Int
    BY <2>2, ClipFields, GeometryAssumption
  <2> DEFINE c == <<e, s>>
  <2>9. c \in Cells /\ In(c, k)
    BY <2>2, <2>8, ClipFields DEF Cells, In
  <2>10. c \in asked
    BY <1>3, <2>9
  <2> QED BY <2>1, <2>6, <2>7, <2>10
<1> QED BY <1>4, <1>7, <1>8, <1>9 DEF DownloadsWhatIsAsked, tiles, asked

-----------------------------------------------------------------------------
(* The count.                                                              *)

Size(r) == (r.x1 - r.x0 + 1) * (r.y1 - r.y0 + 1)

\* The tiles of one range, counted by its sides.
LEMMA TilesOfOne ==
    ASSUME NEW r \in Rect
    PROVE  /\ IsFiniteSet(TilesOf(r)) /\ Cardinality(TilesOf(r)) = Size(r)
           /\ Size(r) \in Int /\ TilesOf(r) # {}
<1>1. /\ r.x0 \in Int /\ r.x1 \in Int /\ r.y0 \in Int /\ r.y1 \in Int
      /\ r.x0 <= r.x1 /\ r.y0 <= r.y1
  BY DEF Rect
<1> DEFINE cols == r.x0 .. r.x1  rows == r.y0 .. r.y1  place == [q \in cols \X rows |-> <<r.z, q[1], q[2]>>]
<1>2. /\ IsFiniteSet(cols) /\ Cardinality(cols) = r.x1 - r.x0 + 1
      /\ IsFiniteSet(rows) /\ Cardinality(rows) = r.y1 - r.y0 + 1
  <2>1. \A a \in Int, b \in Int : a <= b => IsFiniteSet(a .. b) /\ Cardinality(a .. b) = b - a + 1
    BY FS_Interval
  <2> QED BY <1>1, <2>1
<1>3. r.x0 \in cols /\ r.y0 \in rows
  BY <1>1
<1>4. TilesOf(r) = {<<r.z, x, y>> : x \in cols, y \in rows}
  BY DEF TilesOf
<1> HIDE DEF cols, rows
<1>5. place \in Bijection(cols \X rows, TilesOf(r))
  <2>1. ASSUME NEW q \in cols \X rows PROVE place[q] \in TilesOf(r)
    BY <1>4
  <2>2. ASSUME NEW q \in cols \X rows, NEW w \in cols \X rows, place[q] = place[w] PROVE q = w
    BY <2>2
  <2>3. ASSUME NEW t \in TilesOf(r) PROVE \E q \in cols \X rows : place[q] = t
    <3>1. PICK x \in cols, y \in rows : t = <<r.z, x, y>>
      BY <1>4
    <3> DEFINE q == <<x, y>>
    <3>2. q \in cols \X rows /\ q[1] = x /\ q[2] = y
      OBVIOUS
    <3> HIDE DEF q
    <3>3. place[q] = t
      BY <3>1, <3>2
    <3> QED BY <3>2, <3>3
  <2> QED BY <2>1, <2>2, <2>3 DEF Bijection, Injection, Surjection, IsInjective
<1>6. IsFiniteSet(cols \X rows) /\ Cardinality(cols \X rows) = (r.x1 - r.x0 + 1) * (r.y1 - r.y0 + 1)
  BY <1>2, FS_Product
<1> HIDE DEF place
<1>7. IsFiniteSet(TilesOf(r)) /\ Cardinality(TilesOf(r)) = Size(r)
  BY <1>5, <1>6, FS_Bijection DEF ExistsBijection, Size
<1>8. Size(r) \in Int
  BY <1>1 DEF Size
<1>9. <<r.z, r.x0, r.y0>> \in TilesOf(r)
  BY <1>3, <1>4
<1> QED BY <1>7, <1>8, <1>9

LEMMA FiniteTiles ==
    ASSUME NEW R \in SUBSET Rect, IsFiniteSet(R)
    PROVE  IsFiniteSet(TilesIter(R))
<1> DEFINE tiles == [r \in R |-> TilesOf(r)]
<1>1. TilesIter(R) = UNION {tiles[r] : r \in R}
  BY DEF TilesIter
<1>2. \A T \in {tiles[r] : r \in R} : IsFiniteSet(T)
  BY TilesOfOne
<1> HIDE DEF tiles
<1>3. IsFiniteSet({tiles[r] : r \in R})
  BY ImageFinite
<1> QED BY <1>1, <1>2, <1>3, FS_UNION

\* Ranges that share no tile are finitely many when their tiles are.
LEMMA FiniteRanges ==
    ASSUME NEW D \in SUBSET Rect, \A r, s \in D : r # s => TilesOf(r) \cap TilesOf(s) = {},
           IsFiniteSet(TilesIter(D))
    PROVE  IsFiniteSet(D)
<1> DEFINE T == TilesIter(D)  owner == [t \in T |-> CHOOSE r \in D : t \in TilesOf(r)]
<1>1. ASSUME NEW t \in T PROVE owner[t] \in D /\ t \in TilesOf(owner[t])
  BY DEF TilesIter
<1>2. ASSUME NEW r \in D PROVE \E t \in T : owner[t] = r
  <2>1. PICK t \in TilesOf(r) : TRUE
    BY TilesOfOne
  <2>2. t \in T
    BY DEF TilesIter
  <2>3. owner[t] = r
    BY <1>1, <2>2
  <2> QED BY <2>2, <2>3
<1>3. owner \in Surjection(T, D)
  BY <1>1, <1>2 DEF Surjection
<1> HIDE DEF owner
<1> QED BY <1>3, FS_Surjection

\* tile_count_in_bbox of ranges that share no tile: what tiles_iter goes through.
LEMMA CountOfRanges ==
    ASSUME NEW D \in SUBSET Rect, IsFiniteSet(D),
           \A r, s \in D : r # s => TilesOf(r) \cap TilesOf(s) = {}
    PROVE  TileCountInBbox(D) = Cardinality(TilesIter(D))
<1> DEFINE pick == [s \in SUBSET D |-> CHOOSE x \in s : TRUE]
           step == [x \in D |-> [v \in Int |-> Size(x) + v]]
           iter[s \in SUBSET D] ==
              IF s = {} THEN 0 ELSE LET x == CHOOSE x \in s : TRUE IN Size(x) + iter[s \ {x}]
<1>1. TileCountInBbox(D) = iter[D]
  BY DEF TileCountInBbox, MapThenSumSet, MapThenFoldSet, Size
<1>2. \A x \in D : Size(x) \in Int
  BY TilesOfOne
<1>3. \A x \in D, v \in Int : step[x][v] = Size(x) + v /\ step[x][v] \in Int
  BY <1>2
<1>4. \A s \in SUBSET D : s # {} => pick[s] \in s
  OBVIOUS
<1>5. PICK g : IsFold(g, D, Int, 0, pick, step)
  <2>1. Picks(pick, D) /\ Steps(step, D, Int) /\ 0 \in Int
    BY <1>3, <1>4 DEF Picks, Steps
  <2> HIDE DEF pick, step
  <2> QED BY <2>1, FoldExists
<1> DEFINE body(h, s) == IF s = {} THEN 0 ELSE LET x == CHOOSE x \in s : TRUE IN Size(x) + h[s \ {x}]
<1>6. \A s \in SUBSET D : g[s] = body(g, s)
  <2> SUFFICES ASSUME NEW s \in SUBSET D, s # {} PROVE g[s] = body(g, s)
    BY <1>5 DEF IsFold
  <2>1. g[s] = step[pick[s]][g[s \ {pick[s]}]]
    BY <1>5 DEF IsFold
  <2>2. pick[s] \in D /\ s \ {pick[s]} \in SUBSET D
    BY <1>4
  <2>3. g[s \ {pick[s]}] \in Int
    <3> HIDE DEF pick, step
    <3> QED BY <1>5, <2>2 DEF IsFold
  <2>4. g[s] = Size(pick[s]) + g[s \ {pick[s]}]
    <3> HIDE DEF pick, step
    <3> QED BY <1>3, <2>1, <2>2, <2>3
  <2>5. pick[s] = CHOOSE x \in s : TRUE
    OBVIOUS
  <2> HIDE DEF pick
  <2> QED BY <2>4, <2>5
<1>7. g = [s \in SUBSET D |-> body(g, s)]
  <2>1. g \in [SUBSET D -> Int]
    BY <1>5 DEF IsFold
  <2> HIDE DEF body
  <2> QED BY <1>6, <2>1
<1>8. iter = [s \in SUBSET D |-> body(iter, s)]
  BY <1>7
<1> HIDE DEF iter, step, pick
<1>9. \A s \in SUBSET D : iter[s] = body(iter, s)
  <2> HIDE DEF body
  <2> QED BY <1>8
<1> DEFINE good(s) == iter[s] = Cardinality(TilesIter(s))
           bad == {s \in SUBSET D : ~good(s)}
<1>10. ASSUME NEW s \in bad PROVE \E u \in bad : u \subseteq s /\ u # s
  <2>1. CASE s = {}
    <3>1. TilesIter({}) = {} /\ iter[{}] = 0
      BY <1>9 DEF TilesIter
    <3> QED BY <2>1, <3>1, FS_EmptySet
  <2>2. CASE s # {}
    <3> DEFINE x == CHOOSE y \in s : TRUE  u == s \ {x}
    <3>1. x \in s /\ x \in D /\ x \in Rect /\ s \in SUBSET D
      BY <2>2
    <3>2. iter[s] = Size(x) + iter[u]
      BY <1>9, <2>2, <3>1
    <3> HIDE DEF x
    <3>3. u \in SUBSET D /\ u \subseteq s /\ u # s /\ u \in SUBSET Rect
      BY <3>1
    <3>4. TilesIter(s) = TilesOf(x) \cup TilesIter(u)
      BY <3>1 DEF TilesIter
    <3>5. TilesOf(x) \cap TilesIter(u) = {}
      BY <3>1, <3>3 DEF TilesIter
    <3>6. IsFiniteSet(TilesIter(u))
      <4>1. IsFiniteSet(u)
        BY <3>3, FS_Subset
      <4> HIDE DEF u
      <4> QED BY <3>3, <4>1, FiniteTiles
    <3>7. IsFiniteSet(TilesOf(x)) /\ Cardinality(TilesOf(x)) = Size(x) /\ Size(x) \in Int
      BY <3>1, TilesOfOne
    <3> HIDE DEF u
    <3>8. Cardinality(TilesIter(u)) \in Nat
      BY <3>6, FS_CardinalityType
    <3>9. Cardinality(TilesOf(x) \cup TilesIter(u)) =
          Cardinality(TilesOf(x)) + Cardinality(TilesIter(u)) - Cardinality(TilesOf(x) \cap TilesIter(u))
      BY <3>6, <3>7, FS_Union
    <3>10. Cardinality(TilesIter(s)) = Size(x) + Cardinality(TilesIter(u))
      <4>1. Cardinality(TilesOf(x) \cap TilesIter(u)) = 0
        BY <3>5, FS_EmptySet
      <4>2. Cardinality(TilesIter(s)) = Size(x) + Cardinality(TilesIter(u)) - 0
        BY <3>4, <3>7, <3>9, <4>1
      <4> QED BY <3>7, <3>8, <4>2
    <3>11. ~good(u)
      BY <3>2, <3>10
    <3> QED BY <3>3, <3>11
  <2> QED BY <2>1, <2>2
<1>11. bad = {}
  <2> HIDE DEF bad
  <2>1. bad \in SUBSET SUBSET D
    BY DEF bad
  <2> QED BY <1>10, <2>1, NoFailure
<1>12. good(D)
  BY <1>11
<1> QED BY <1>1, <1>12

(* The count of a download, for a map of any size, any source and any box: *)
(* what a job is accepted by is what it goes through, each tile once       *)
(* (tile_count_in_bbox, tiles_iter).                                       *)
THEOREM EveryCount ==
    ASSUME NEW source, IsSource(source), NEW b \in Box, NEW zmin \in Nat, NEW zmax \in Nat,
           \A z \in ZoomBounds(source, zmin, zmax) : Tiled(z)
    PROVE  CountIsHonest(source, b, zmin, zmax)
<1> DEFINE D == CoveredRanges(source, b, zmin, zmax)  R == Rects(source, b, zmin, zmax)
<1>1. D \subseteq Rect /\ TilesIter(D) = TilesIter(R) /\ \A r, s \in D : r # s => TilesOf(r) \cap TilesOf(s) = {}
  BY RangesOfDownload
<1>2. R \in SUBSET Rect /\ IsFiniteSet(R)
  BY RectsAreRects
<1> HIDE DEF D, R
<1>3. IsFiniteSet(TilesIter(D))
  BY <1>1, <1>2, FiniteTiles
<1>4. IsFiniteSet(D)
  BY <1>1, <1>3, FiniteRanges
<1>5. TileCountInBbox(D) = Cardinality(TilesIter(D))
  BY <1>1, <1>4, CountOfRanges
<1> QED BY <1>5 DEF CountIsHonest, D

-----------------------------------------------------------------------------
(* The requests the runs go through.                                       *)

LEMMA BoxesAreBoxes ==
    ASSUME NEW meridians \in SUBSET (0 .. World)
    PROVE  Boxes(meridians) \subseteq Box
<1>1. \A band \in Bands : band[1] \in Int /\ band[2] \in Int
  BY GeometryAssumption DEF Bands
<1> QED BY <1>1 DEF Boxes, Box

LEMMA CoarseIsBoxes == Coarse \subseteq Box
<1>1. {0, 1, 3, World} \in SUBSET (0 .. World)
  BY MapAssumption, GeometryAssumption
<1>2. Boxes({0, 1, 3, World}) \subseteq Box
  BY <1>1, BoxesAreBoxes
<1> QED BY <1>2 DEF Coarse

LEMMA SmallRequests ==
    ASSUME NEW source, IsSource(source), source.maxzoom <= 2, NEW b \in Box,
           NEW zmin \in 0 .. 2, NEW zmax \in 0 .. 2
    PROVE  DownloadsWhatIsAsked(source, b, zmin, zmax) /\ CountIsHonest(source, b, zmin, zmax)
<1>1. zmin \in Nat /\ zmax \in Nat
  OBVIOUS
<1>2. \A z \in 0 .. 2 : Tiled(z)
  <2>1. 0 .. 2 \subseteq 0 .. EffectiveZoom
    BY MapAssumption, GeometryAssumption
  <2> QED BY <2>1, MapAssumption, Zenon DEF Tiled
<1>3. ZoomBounds(source, zmin, zmax) \subseteq 0 .. 2
  <2>1. source.maxzoom \in Int /\ source.minzoom \in Int /\ source.minzoom >= 0
    BY GeometryAssumption DEF IsSource
  <2>2. ZoomBounds(source, zmin, zmax) = {z \in zmin .. zmax : z \in source.minzoom .. source.maxzoom}
    BY <1>1, Zooms
  <2> QED BY <2>1, <2>2
<1>4. \A z \in ZoomBounds(source, zmin, zmax) : Tiled(z)
  BY <1>2, <1>3
<1> QED BY <1>1, <1>4, EveryDownload, EveryCount

LEMMA EachRequest ==
    ASSUME NEW lo \in 0 .. 2, NEW hi \in 0 .. 2, NEW bounds, NEW coverage,
           bounds = NoBoxes \/ bounds \in Box, coverage = NoBoxes \/ coverage \subseteq Box,
           NEW b \in Box, NEW zmin \in 0 .. 2, NEW zmax \in 0 .. 2
    PROVE  /\ DownloadsWhatIsAsked(GeoSource(lo, hi, bounds, coverage), b, zmin, zmax)
           /\ CountIsHonest(GeoSource(lo, hi, bounds, coverage), b, zmin, zmax)
<1> DEFINE source == GeoSource(lo, hi, bounds, coverage)
<1>1. source.minzoom = lo /\ source.maxzoom = hi /\ source.bounds = bounds /\ source.coverage = coverage
  BY DEF GeoSource
<1> HIDE DEF source
<1>2. IsSource(source) /\ source.maxzoom <= 2
  BY <1>1, MapAssumption, GeometryAssumption DEF IsSource
<1>3. DownloadsWhatIsAsked(source, b, zmin, zmax) /\ CountIsHonest(source, b, zmin, zmax)
  BY <1>2, SmallRequests
<1> QED BY <1>3 DEF source

LEMMA Exact == AllExact
<1>1. Boxes(0 .. World) \subseteq Box /\ Coarse \subseteq Box
  BY BoxesAreBoxes, CoarseIsBoxes
<1>2. 0 \in 0 .. 2 /\ 1 \in 0 .. 2 /\ 2 \in 0 .. 2
  OBVIOUS
<1>3. ASSUME NEW b \in Boxes(0 .. World), NEW bounds \in {c \in Coarse : c.north < 1} \cup {NoBoxes}
      PROVE  /\ DownloadsWhatIsAsked(GeoSource(0, 2, bounds, NoBoxes), b, 0, 2)
             /\ CountIsHonest(GeoSource(0, 2, bounds, NoBoxes), b, 0, 2)
  <2>1. b \in Box /\ (bounds = NoBoxes \/ bounds \in Box)
    BY <1>1
  <2> QED BY <1>2, <2>1, EachRequest
<1>4. ASSUME NEW b \in {c \in Coarse : c.south - c.north > 1},
             NEW pair \in {{c, d} : c \in {x \in Coarse : x.north = 1},
                                    d \in {x \in Coarse : x.west > x.east /\ x.north # 1}}
      PROVE  /\ DownloadsWhatIsAsked(GeoSource(1, 2, NoBoxes, pair), b, 0, 2)
             /\ CountIsHonest(GeoSource(1, 2, NoBoxes, pair), b, 0, 2)
  <2>1. b \in Box /\ pair \subseteq Box
    BY <1>1
  <2> QED BY <1>2, <2>1, EachRequest
<1>5. ASSUME NEW b \in {c \in Coarse : c.north < 0}, NEW lo \in 0 .. 2, NEW hi \in 0 .. 2,
             NEW zmin \in 0 .. 2, NEW zmax \in 0 .. 2
      PROVE  /\ DownloadsWhatIsAsked(GeoSource(lo, hi, NoBoxes, NoBoxes), b, zmin, zmax)
             /\ CountIsHonest(GeoSource(lo, hi, NoBoxes, NoBoxes), b, zmin, zmax)
  <2>1. b \in Box
    BY <1>1
  <2> QED BY <2>1, EachRequest
<1> QED BY <1>3, <1>4, <1>5 DEF AllExact, Geometries

(* The run's form of it: in every state of the engine with a job running,  *)
(* on every map MapAssumption allows, each of the runs' requests downloads *)
(* what it asked for and was counted right.                                *)
THEOREM DownloadsAlwaysExact == WarmSpec => []DownloadIsExact
<1>1. DownloadIsExact
  BY Exact DEF DownloadIsExact
<1> QED BY <1>1, PTL

=============================================================================

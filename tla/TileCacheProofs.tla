-------------------------- MODULE TileCacheProofs --------------------------
(***************************************************************************)
(* Theorems about TileCache, for every set of keys, regions, tile contents *)
(* and batches and every cap and budget.                                   *)
(***************************************************************************)
EXTENDS TileCache, FiniteSetTheorems, WellFoundedInduction, TLAPS

-----------------------------------------------------------------------------
(* Arithmetic and sums                                                     *)

\* A nonempty set of naturals has a least element: what makes the first
\* refused row of a batch well defined.
LEMMA LeastNatural ==
    ASSUME NEW S \in SUBSET Nat, S # {}
    PROVE  \E m \in S : \A n \in S : m <= n
<1>1. PICK m \in S : \A n \in S : ~(<<n, m>> \in OpToRel(<, Nat))
  BY NatLessThanWellFounded, WFMin
<1>2. \A n \in S : ~(n < m)
  BY <1>1 DEF OpToRel
<1> QED BY <1>2

\* A sum of bytes over a finite set is a natural number.
LEMMA SumBytesNat ==
    ASSUME NEW S, NEW f, IsFiniteSet(S)
    PROVE  SumBytes(S, f) \in Nat
<1>1. IsFiniteSet(1 .. MaxTileBytes)
  BY FS_Interval, TileAssumption
<1>2. IsFiniteSet(S \X (1 .. MaxTileBytes))
  BY <1>1, FS_Product
<1>3. IsFiniteSet({u \in S \X (1 .. MaxTileBytes) : u[2] <= f[u[1]]})
  BY <1>2, FS_Subset
<1> QED BY <1>3, FS_CardinalityType DEF SumBytes

\* Every set of keys is finite, so every sum over rows is a natural number.
LEMMA KeySumNat ==
    ASSUME NEW S \in SUBSET Keys, NEW f
    PROVE  IsFiniteSet(S) /\ SumBytes(S, f) \in Nat
<1>1. IsFiniteSet(S)
  BY FS_Subset, TileAssumption
<1> QED BY <1>1, SumBytesNat

\* The bytes column holds naturals up to the largest blob.
LEMMA BytesColumnType ==
    ASSUME NEW t \in [Keys -> Tiles \cup {NoTile}], NEW k \in Keys
    PROVE  BytesColumn(t)[k] \in 0 .. MaxTileBytes
BY TileAssumption DEF BytesColumn

-----------------------------------------------------------------------------
(* Row removal                                                             *)

\* Removing rows V from a table leaves a table with exactly the other rows.
LEMMA WithoutRowsFacts ==
    ASSUME NEW t \in [Keys -> Tiles \cup {NoTile}],
           NEW la \in [Keys -> Times],
           NEW V \in SUBSET Keys
    PROVE  /\ WithoutRows(t, V) \in [Keys -> Tiles \cup {NoTile}]
           /\ WithoutAccess(la, V) \in [Keys -> Times]
           /\ Rows(WithoutRows(t, V)) = Rows(t) \ V
BY BoundAssumption DEF WithoutRows, WithoutAccess, Rows

\* The windowed DELETE, and the make-room pass built on it, touch unpinned
\* rows only.
LEMMA EvictedUnpinned ==
    ASSUME NEW t, NEW la, NEW p, NEW n, NEW cap,
           NEW V \in EvictionSets(t, la, p, n) \cup MakeRoomSets(t, la, p, n, cap)
    PROVE  V \in SUBSET Keys /\ V \cap p = {}
BY DEF EvictionSets, MakeRoomSets, Unpinned, Rows

-----------------------------------------------------------------------------
(* The batch of put_many_pinned                                            *)

BatchRows == [key : Keys, tile : Tiles]

LEMMA BatchesAreRows == Batches \subseteq Seq(BatchRows)
BY BoundAssumption DEF BatchRows

\* The rows a batch stores are a prefix of it.
LEMMA StoredRowsPrefix ==
    ASSUME NEW batch \in Seq(BatchRows), NEW budget, NEW cap, NEW region
    PROVE  StoredRows(batch, budget, cap, region) \in 0 .. Len(batch)
<1>1. Len(batch) \in Nat
  OBVIOUS
<1> DEFINE refused == {i \in 1 .. Len(batch) : ~Fits(batch, i, budget, cap, region)}
<1>2. CASE refused = {}
  BY <1>1, <1>2 DEF StoredRows
<1>3. CASE refused # {}
  <2>1. refused \in SUBSET Nat
    BY <1>1
  <2> HIDE DEF refused
  <2>2. \E m \in refused : \A j \in refused : m <= j
    BY <1>3, <2>1, LeastNatural
  <2>3. (CHOOSE i \in refused : \A j \in refused : i <= j) \in refused
    BY <2>2
  <2> USE DEF refused
  <2> QED BY <1>1, <1>3, <2>3 DEF StoredRows
<1> QED BY <1>2, <1>3

\* Storing a prefix keeps the table typed, adds exactly the batch's keys to
\* its rows, and moves the running totals by integers.
LEMMA InsertedFacts ==
    ASSUME NEW batch \in Seq(BatchRows), NEW n \in 0 .. Len(batch),
           tile \in [Keys -> Tiles \cup {NoTile}]
    PROVE  /\ BatchKeys(batch, n) \subseteq Keys
           /\ Inserted(batch, n) \in [Keys -> Tiles \cup {NoTile}]
           /\ Rows(Inserted(batch, n)) = Rows(tile) \cup BatchKeys(batch, n)
           /\ Added(batch, n) \in Int
           /\ PinnedAdded(batch, n) \in Int
<1>1. /\ Len(batch) \in Nat
      /\ \A i \in 1 .. n : batch[i] \in [key : Keys, tile : Tiles]
  <2>1. Len(batch) \in Nat /\ \A i \in 1 .. Len(batch) : batch[i] \in BatchRows
    OBVIOUS
  <2> QED BY <2>1 DEF BatchRows
<1>2. BatchKeys(batch, n) \subseteq Keys
  BY <1>1 DEF BatchKeys
<1> DEFINE Last(k) == CHOOSE i \in 1 .. n :
                         /\ batch[i].key = k
                         /\ \A j \in 1 .. n : batch[j].key = k => j <= i
<1>3. \A k \in BatchKeys(batch, n) : Last(k) \in 1 .. n
  <2> SUFFICES ASSUME NEW k \in BatchKeys(batch, n)
               PROVE  \E i \in 1 .. n : /\ batch[i].key = k
                                        /\ \A j \in 1 .. n : batch[j].key = k => j <= i
    OBVIOUS
  <2> DEFINE below == {n - i : i \in {j \in 1 .. n : batch[j].key = k}}
  <2>1. below # {} /\ below \in SUBSET Nat
    BY <1>1 DEF BatchKeys
  <2> HIDE DEF below
  <2>2. PICK m \in below : \A d \in below : m <= d
    BY <2>1, LeastNatural
  <2> USE DEF below
  <2>3. PICK i \in 1 .. n : batch[i].key = k /\ m = n - i
    BY <2>2
  <2>4. \A j \in 1 .. n : batch[j].key = k => n - j \in below
    OBVIOUS
  <2>5. \A j \in 1 .. n : batch[j].key = k => j <= i
    <3> SUFFICES ASSUME NEW j \in 1 .. n, batch[j].key = k
                 PROVE  j <= i
      OBVIOUS
    <3>1. m <= n - j
      BY <2>2, <2>4
    <3> QED BY <2>3, <3>1, <1>1
  <2> QED BY <2>3, <2>5
<1>4. \A k \in BatchKeys(batch, n) : batch[Last(k)].tile \in Tiles
  BY <1>1, <1>3
<1>5. \A k \in Keys : Inserted(batch, n)[k] =
                        IF k \in BatchKeys(batch, n) THEN batch[Last(k)].tile ELSE tile[k]
  BY DEF Inserted
<1> HIDE DEF Last
<1>6. Inserted(batch, n) \in [Keys -> Tiles \cup {NoTile}]
  BY <1>4, <1>5 DEF Inserted
<1>7. Rows(Inserted(batch, n)) = Rows(tile) \cup BatchKeys(batch, n)
  BY <1>2, <1>4, <1>5, TileAssumption DEF Rows
<1>8. IsFiniteSet(1 .. n)
  BY FS_Interval, <1>1
<1>9. Added(batch, n) \in Int /\ PinnedAdded(batch, n) \in Int
  <2> DEFINE held == {i \in 1 .. n : WasPinned(batch, i)}
  <2>1. IsFiniteSet(held)
    BY <1>8, FS_Subset
  <2> HIDE DEF held
  <2>2. NewBytesUpTo(batch, n) \in Nat /\ OldBytesOf(batch, 1 .. n) \in Nat
    BY <1>8, SumBytesNat DEF NewBytesUpTo, OldBytesOf
  <2>3. OldBytesOf(batch, held) \in Nat
    BY <2>1, SumBytesNat DEF OldBytesOf
  <2> QED BY <2>2, <2>3 DEF Added, PinnedAdded, held
<1> QED BY <1>2, <1>6, <1>7, <1>9

-----------------------------------------------------------------------------
(* Every action keeps the tables and the join table consistent             *)

\* The inductive invariant: neither half is preserved without the other.  A
\* promotion keeps a pin on a row only because its staging join was pinned.
TableInv == TypeOK /\ JoinedIsPinned

\* The parts of TableInv that speak of the counters alone.
CounterTypes ==
    /\ total_bytes \in Int
    /\ pinned_bytes \in Int
    /\ real_region_cache \in Int \cup {Dirty}

\* A step that removes unpinned rows V and nothing else keeps TableInv: the
\* shape of evict_to, the age sweep and the cache clear.
LEMMA RemovalKeepsTableInv ==
    ASSUME TableInv, NEW V \in SUBSET Keys, V \cap pinned = {},
           tile' = WithoutRows(tile, V),
           last_access' = WithoutAccess(last_access, V),
           total_bytes' = total_bytes - SumBytes(V, BytesColumn(tile)),
           UNCHANGED <<pinned, region_tiles, pinned_bytes, real_region_cache>>
    PROVE  TableInv'
<1>1. /\ tile' \in [Keys -> Tiles \cup {NoTile}]
      /\ last_access' \in [Keys -> Times]
      /\ Rows(tile') = Rows(tile) \ V
  BY WithoutRowsFacts DEF TableInv, TypeOK
<1>2. SumBytes(V, BytesColumn(tile)) \in Nat
  BY KeySumNat
<1>3. total_bytes' \in Int
  BY <1>2 DEF TableInv, TypeOK
<1>4. pinned' \subseteq Rows(tile')
  BY <1>1 DEF TableInv, TypeOK
<1>5. JoinedIsPinned'
  BY DEF TableInv, JoinedIsPinned, Joined
<1> QED BY <1>1, <1>3, <1>4, <1>5 DEF TableInv, TypeOK

LEMMA EvictToKeeps ==
    ASSUME TableInv, NEW cap, EvictTo(cap)
    PROVE  TableInv'
<1>1. PICK V \in EvictionSets(tile, last_access, pinned, total_bytes - eviction_target(cap)) :
        /\ tile' = WithoutRows(tile, V)
        /\ last_access' = WithoutAccess(last_access, V)
        /\ total_bytes' = total_bytes - SumBytes(V, BytesColumn(tile))
  BY DEF EvictTo
<1>2. V \in SUBSET Keys /\ V \cap pinned = {}
  BY <1>1, EvictedUnpinned
<1> QED BY <1>1, <1>2, RemovalKeepsTableInv DEF EvictTo

LEMMA ChunkKeeps ==
    ASSUME TableInv, NEW cutoff, SweepAgedUnpinned(cutoff) \/ ClearUnpinned
    PROVE  TableInv'
<1>1. PICK V \in AgedChunks(cutoff) \cup ScrollChunks : DeleteChunkOf(V)
  BY DEF SweepAgedUnpinned, ClearUnpinned
<1>2. V \in SUBSET Keys /\ V \cap pinned = {}
  BY <1>1 DEF AgedChunks, ScrollChunks, Unpinned, Rows
<1> QED BY <1>1, <1>2, RemovalKeepsTableInv DEF DeleteChunkOf

LEMMA PutKeeps ==
    ASSUME TableInv, NEW k \in Keys, NEW t \in Tiles, NEW now \in Times, Put(k, t, now)
    PROVE  TableInv'
<1>1. /\ t.bytes \in Int
      /\ BytesColumn(tile)[k] \in Int
  BY BytesColumnType, TileAssumption DEF TableInv, TypeOK
<1>2. /\ tile' \in [Keys -> Tiles \cup {NoTile}]
      /\ last_access' \in [Keys -> Times]
      /\ Rows(tile) \subseteq Rows(tile')
  BY TileAssumption DEF TableInv, TypeOK, Put, Rows
<1>3. CounterTypes'
  BY <1>1 DEF TableInv, TypeOK, Put, CounterTypes
<1>4. JoinedIsPinned'
  BY DEF TableInv, Put, JoinedIsPinned, Joined
<1>5. pinned' \subseteq Rows(tile')
  BY <1>2 DEF TableInv, TypeOK, Put
<1>6. region_tiles' \subseteq Regions \X Keys
  BY DEF TableInv, TypeOK, Put
<1> QED BY <1>2, <1>3, <1>4, <1>5, <1>6 DEF TableInv, TypeOK, CounterTypes

LEMMA TouchKeeps ==
    ASSUME TableInv, NEW k \in Keys, NEW now \in Times, Touch(k, now)
    PROVE  TableInv'
BY DEF TableInv, TypeOK, JoinedIsPinned, Joined, Rows, Touch, counters

LEMMA ReadKeeps ==
    ASSUME TableInv, ReadRealRegionPinnedBytes
    PROVE  TableInv'
<1> DEFINE real == pinned \cap Joined(region_tiles, Regions \ PositionRegions)
<1>1. RealRegionPinnedBytes(tile, pinned, region_tiles) \in Int
  <2>1. real \in SUBSET Keys
    BY DEF Joined
  <2> QED BY <2>1, KeySumNat DEF RealRegionPinnedBytes
<1>2. UNCHANGED <<tile, last_access, pinned, region_tiles, total_bytes, pinned_bytes>>
  BY DEF ReadRealRegionPinnedBytes, tables
<1>3. real_region_cache' \in Int
  BY <1>1 DEF ReadRealRegionPinnedBytes
<1> QED BY <1>2, <1>3 DEF TableInv, TypeOK, JoinedIsPinned, Joined, Rows

LEMMA PutManyPinnedKeeps ==
    ASSUME TableInv, NEW batch \in Seq(BatchRows), NEW budget, NEW cap,
           NEW region \in Regions \cup {NoRegion}, NEW now \in Times,
           PutManyPinned(batch, budget, cap, region, now)
    PROVE  TableInv'
<1> DEFINE n == StoredRows(batch, budget, cap, region)
           ks == BatchKeys(batch, n)
           t == Inserted(batch, n)
           la == [k \in Keys |-> IF k \in ks THEN now ELSE last_access[k]]
           newTotal == total_bytes + Added(batch, n)
<1>1. n \in 0 .. Len(batch)
  BY StoredRowsPrefix
<1>2. /\ ks \subseteq Keys
      /\ t \in [Keys -> Tiles \cup {NoTile}]
      /\ Rows(t) = Rows(tile) \cup ks
      /\ Added(batch, n) \in Int
      /\ PinnedAdded(batch, n) \in Int
  BY <1>1, InsertedFacts DEF TableInv, TypeOK
<1>3. la \in [Keys -> Times]
  BY DEF TableInv, TypeOK
<1>4. /\ pinned' = pinned \cup ks
      /\ region_tiles' = region_tiles \cup JoinRows(region, ks)
      /\ pinned_bytes' = pinned_bytes + PinnedAdded(batch, n)
      /\ real_region_cache' = Dirty
  BY DEF PutManyPinned
<1>5. PICK V \in MakeRoomSets(t, la, pinned \cup ks, newTotal, cap) :
        /\ tile' = WithoutRows(t, V)
        /\ last_access' = WithoutAccess(la, V)
        /\ total_bytes' = newTotal - SumBytes(V, BytesColumn(t))
  BY DEF PutManyPinned
<1> HIDE DEF n, ks, t, la, newTotal
<1>6. V \in SUBSET Keys /\ V \cap (pinned \cup ks) = {}
  BY <1>5, EvictedUnpinned
<1>7. /\ tile' \in [Keys -> Tiles \cup {NoTile}]
      /\ last_access' \in [Keys -> Times]
      /\ Rows(tile') = Rows(t) \ V
  BY <1>2, <1>3, <1>5, <1>6, WithoutRowsFacts
<1>8. newTotal \in Int /\ SumBytes(V, BytesColumn(t)) \in Int
  <2>1. newTotal \in Int
    BY <1>2 DEF TableInv, TypeOK, newTotal
  <2>2. SumBytes(V, BytesColumn(t)) \in Nat
    BY <1>6, KeySumNat
  <2> QED BY <2>1, <2>2
<1>9. CounterTypes'
  BY <1>2, <1>4, <1>5, <1>8 DEF TableInv, TypeOK, CounterTypes
<1>10. JoinRows(region, ks) \subseteq Regions \X ks
  BY DEF JoinRows
<1>11. pinned' \subseteq Rows(tile')
  BY <1>2, <1>4, <1>6, <1>7 DEF TableInv, TypeOK
<1>12. region_tiles' \subseteq Regions \X Keys
  BY <1>2, <1>4, <1>10 DEF TableInv, TypeOK
<1>13. JoinedIsPinned'
  BY <1>4, <1>10 DEF TableInv, JoinedIsPinned, Joined
<1> QED BY <1>7, <1>9, <1>11, <1>12, <1>13 DEF TableInv, TypeOK, CounterTypes

LEMMA PinIfFreshCappedKeeps ==
    ASSUME TableInv, NEW k \in Keys, NEW budget, NEW cap, NEW region \in Regions \cup {NoRegion},
           PinIfFreshCapped(k, budget, cap, region)
    PROVE  TableInv'
<1>1. BytesColumn(tile)[k] \in Int
  BY BytesColumnType DEF TableInv, TypeOK
<1>2. JoinRows(region, {k}) \subseteq Regions \X {k}
  BY DEF JoinRows
<1>3. CounterTypes'
  BY <1>1 DEF TableInv, TypeOK, PinIfFreshCapped, CounterTypes
<1>4. pinned' \subseteq Rows(tile')
  BY DEF TableInv, TypeOK, PinIfFreshCapped, Rows
<1>5. region_tiles' \subseteq Regions \X Keys
  BY <1>2 DEF TableInv, TypeOK, PinIfFreshCapped
<1>6. JoinedIsPinned'
  BY <1>2 DEF TableInv, JoinedIsPinned, Joined, PinIfFreshCapped
<1>7. tile' = tile /\ last_access' = last_access
  BY DEF PinIfFreshCapped
<1> QED BY <1>3, <1>4, <1>5, <1>6, <1>7 DEF TableInv, TypeOK, CounterTypes

LEMMA DeleteRegionKeeps ==
    ASSUME TableInv, NEW region \in Regions, DeleteRegion(region)
    PROVE  TableInv'
<1> DEFINE rt == {j \in region_tiles : j[1] # region}
           p == pinned \cap Joined(rt, Regions)
<1>1. /\ region_tiles' = rt /\ pinned' = p
      /\ pinned_bytes' = SumBytes(p, BytesColumn(tile))
      /\ UNCHANGED <<tile, last_access, total_bytes>>
      /\ real_region_cache' = Dirty
  BY DEF DeleteRegion
<1>2. p \in SUBSET Keys
  BY DEF Joined
<1>3. CounterTypes'
  BY <1>1, <1>2, KeySumNat DEF TableInv, TypeOK, CounterTypes
<1>4. Joined(rt, Regions) \subseteq Joined(region_tiles, Regions)
  BY DEF Joined
<1>5. JoinedIsPinned'
  BY <1>1, <1>4 DEF TableInv, JoinedIsPinned
<1>6. pinned' \subseteq Rows(tile')
  BY <1>1 DEF TableInv, TypeOK
<1> QED BY <1>1, <1>3, <1>5, <1>6 DEF TableInv, TypeOK, CounterTypes

LEMMA PromoteKeeps ==
    ASSUME TableInv, NEW repl \in Replacements, NEW rb, NEW pb, NEW cap,
           PromoteStagedRegions(repl, rb, pb, cap)
    PROVE  TableInv'
<1> DEFINE targets == {repl[s] : s \in DOMAIN repl}
           rt == PromotedJoins(repl)
           p == PromotedPins(repl)
<1>1. targets \subseteq Regions
  <2>1. PICK S \in SUBSET StagingRegions : repl \in [S -> SavedRegions]
    BY DEF Replacements
  <2>2. SavedRegions \subseteq Regions
    BY DEF SavedRegions, Regions, PositionRegions
  <2> QED BY <2>1, <2>2
<1>2. rt \subseteq Regions \X Keys
  BY <1>1 DEF PromotedJoins, TableInv, TypeOK
\* Every key joined after the promotion was joined before it, hence pinned.
<1>3. Joined(rt, Regions) \subseteq pinned
  <2>1. Joined(rt, Regions) \subseteq Joined(region_tiles, Regions)
    <3> SUFFICES ASSUME NEW k \in Keys, NEW r \in Regions, <<r, k>> \in rt
                 PROVE  \E q \in Regions : <<q, k>> \in region_tiles
      BY DEF Joined
    <3>1. CASE <<r, k>> \in region_tiles
      BY <3>1
    <3>2. CASE \E i \in region_tiles : <<r, k>> = <<repl[i[1]], i[2]>>
      <4>1. PICK i \in region_tiles : <<r, k>> = <<repl[i[1]], i[2]>>
        BY <3>2
      <4>2. i = <<i[1], k>> /\ i[1] \in Regions
        BY <4>1 DEF TableInv, TypeOK
      <4> QED BY <4>2
    <3> QED BY <3>1, <3>2 DEF PromotedJoins
  <2> QED BY <2>1 DEF TableInv, JoinedIsPinned
<1>4. Joined(rt, Regions) \subseteq p
  BY <1>3 DEF PromotedPins
<1>5. p \subseteq Rows(tile) /\ p \in SUBSET Keys
  BY DEF PromotedPins, TableInv, TypeOK, Rows, Joined
<1>6. SumBytes(p, BytesColumn(tile)) \in Nat
  BY <1>5, KeySumNat
<1>7. /\ region_tiles' = rt /\ pinned' = p
      /\ pinned_bytes' = SumBytes(p, BytesColumn(tile))
      /\ UNCHANGED <<tile, last_access, total_bytes>>
      /\ real_region_cache' = Dirty
  BY DEF PromoteStagedRegions
<1> HIDE DEF rt, p
<1>8. CounterTypes'
  BY <1>6, <1>7 DEF TableInv, TypeOK, CounterTypes
<1>9. JoinedIsPinned'
  BY <1>4, <1>7 DEF JoinedIsPinned
<1> QED BY <1>2, <1>5, <1>7, <1>8, <1>9 DEF TableInv, TypeOK, CounterTypes

LEMMA OpenKeeps ==
    ASSUME TableInv, NEW cleanup \in BOOLEAN, NEW cap, Open(cleanup, cap)
    PROVE  TableInv'
<1> DEFINE rt == IF cleanup THEN {j \in region_tiles : j[1] \notin StagingRegions} ELSE region_tiles
           p == IF cleanup THEN pinned \cap Joined(rt, Regions) ELSE pinned
           total == SumBytes(Rows(tile), BytesColumn(tile))
<1>1. /\ region_tiles' = rt /\ pinned' = p
      /\ pinned_bytes' = SumBytes(p, BytesColumn(tile))
      /\ real_region_cache' = Dirty
  BY DEF Open
<1>2. PICK V \in MakeRoomSets(tile, last_access, p, total, cap) :
        /\ tile' = WithoutRows(tile, V)
        /\ last_access' = WithoutAccess(last_access, V)
        /\ total_bytes' = total - SumBytes(V, BytesColumn(tile))
  BY DEF Open
<1>3. /\ rt \subseteq region_tiles
      /\ p \subseteq pinned /\ p \in SUBSET Keys
      /\ Rows(tile) \in SUBSET Keys
  BY DEF TableInv, TypeOK, Rows
<1>4. Joined(rt, Regions) \subseteq p
  <2>1. Joined(rt, Regions) \subseteq Joined(region_tiles, Regions)
    BY DEF Joined
  <2> QED BY <2>1 DEF TableInv, JoinedIsPinned
<1>5. total \in Nat /\ SumBytes(p, BytesColumn(tile)) \in Nat
  BY <1>3, KeySumNat
<1> HIDE DEF rt, p, total
<1>6. V \in SUBSET Keys /\ V \cap p = {}
  BY <1>2, EvictedUnpinned
<1>7. /\ tile' \in [Keys -> Tiles \cup {NoTile}]
      /\ last_access' \in [Keys -> Times]
      /\ Rows(tile') = Rows(tile) \ V
  BY <1>2, <1>6, WithoutRowsFacts DEF TableInv, TypeOK
<1>8. SumBytes(V, BytesColumn(tile)) \in Nat
  BY <1>6, KeySumNat
<1>9. CounterTypes'
  BY <1>1, <1>2, <1>5, <1>8 DEF CounterTypes
<1>10. JoinedIsPinned'
  BY <1>1, <1>4 DEF JoinedIsPinned
<1>11. pinned' \subseteq Rows(tile') /\ region_tiles' \subseteq Regions \X Keys
  BY <1>1, <1>3, <1>6, <1>7 DEF TableInv, TypeOK
<1> QED BY <1>7, <1>9, <1>10, <1>11 DEF TableInv, TypeOK, CounterTypes

\* The empty database, at first start and after a recreation.
LEMMA EmptyTableInv == EmptyCache => TableInv
BY BoundAssumption DEF EmptyCache, TableInv, TypeOK, JoinedIsPinned, Joined, Rows

LEMMA RecreateKeeps ==
    ASSUME Recreate
    PROVE  TableInv'
BY BoundAssumption DEF Recreate, TableInv, TypeOK, JoinedIsPinned, Joined, Rows

-----------------------------------------------------------------------------
(* One critical section, with any arguments                                *)

(***************************************************************************)
(* What a caller of cache.rs can make it do: Next without its bounds on    *)
(* batches and times, and with any cap and budget, so that the lemmas hold *)
(* of every module that calls these actions with values of its own.        *)
(***************************************************************************)
PinningSection(cap) ==
    \/ \E batch \in Seq(BatchRows), region \in Regions \cup {NoRegion}, now \in Times :
            \E budget : PutManyPinned(batch, budget, cap, region, now)
    \/ \E k \in Keys, region \in Regions \cup {NoRegion} :
            \E budget : PinIfFreshCapped(k, budget, cap, region)

OtherSection ==
    \/ \E k \in Keys, t \in Tiles, now \in Times : Put(k, t, now)
    \/ \E k \in Keys, now \in Times : Touch(k, now)
    \/ \E cap : EvictTo(cap)
    \/ (\E cutoff : SweepAgedUnpinned(cutoff)) \/ ClearUnpinned
    \/ ReadRealRegionPinnedBytes
    \/ \E region \in Regions : DeleteRegion(region)
    \/ \E repl \in Replacements : \E rb, pb, cap : PromoteStagedRegions(repl, rb, pb, cap)
    \/ \E cleanup \in BOOLEAN : \E cap : Open(cleanup, cap)

CriticalSection == OtherSection \/ \E cap : PinningSection(cap)

LEMMA NextIsSection == Next => OtherSection \/ PinningSection(Cap) \/ Recreate
<1>1. WarmRegions \subseteq Regions \cup {NoRegion}
  BY DEF WarmRegions, StagingRegions, Regions, PositionRegions
<1>2. LiveNext => OtherSection
  BY DEF LiveNext, OtherSection
<1>3. WarmNext => OtherSection \/ PinningSection(Cap)
  BY <1>1, BatchesAreRows DEF WarmNext, OtherSection, PinningSection
<1>4. ProcessNext => OtherSection \/ Recreate
  BY DEF ProcessNext, OtherSection
<1> QED BY <1>2, <1>3, <1>4 DEF Next

LEMMA SectionKeeps ==
    ASSUME TableInv, CriticalSection
    PROVE  TableInv'
BY PutKeeps, TouchKeeps, EvictToKeeps, ChunkKeeps, ReadKeeps, PutManyPinnedKeeps, PinIfFreshCappedKeeps,
   DeleteRegionKeeps, PromoteKeeps, OpenKeeps DEF CriticalSection, OtherSection, PinningSection

LEMMA IdleKeeps ==
    ASSUME TableInv, UNCHANGED cacheVars
    PROVE  TableInv'
BY DEF cacheVars, tables, counters, TableInv, TypeOK, JoinedIsPinned, Joined, Rows

LEMMA NextKeeps ==
    ASSUME TableInv, [Next]_cacheVars
    PROVE  TableInv'
BY NextIsSection, SectionKeeps, RecreateKeeps, IdleKeeps DEF CriticalSection

-----------------------------------------------------------------------------
(* Theorems                                                                *)

\* Whatever the callers of cache.rs do, the tables, totals and memo keep
\* their types and every tile a region references is a pinned row.
THEOREM TableInvariant == Spec => []TableInv
<1>1. Init => TableInv
  BY EmptyTableInv DEF Init
<1>2. TableInv /\ [Next]_cacheVars => TableInv'
  BY NextKeeps
<1> QED BY <1>1, <1>2, PTL DEF Spec

\* The type half, as the runs check it.
THEOREM TypeCorrect == Spec => []TypeOK
BY TableInvariant, PTL DEF TableInv

\* The reference counting of region_tiles keeps a pin on every joined tile:
\* the invariant sweep_aged_unpinned and clear_unpinned rely on.
THEOREM JoinedTilesPinned == Spec => []JoinedIsPinned
BY TableInvariant, PTL DEF TableInv

\* A step that removes rows removes unpinned ones of the tables it leaves.
LEMMA SectionSparesSaved ==
    ASSUME TableInv, CriticalSection
    PROVE  \A k \in Joined(region_tiles, SavedRegions) : tile'[k] # NoTile
<1> DEFINE saved == Joined(region_tiles, SavedRegions)
<1>1. saved \subseteq pinned /\ pinned \subseteq Rows(tile) /\ tile \in [Keys -> Tiles \cup {NoTile}]
  BY DEF TableInv, TypeOK, JoinedIsPinned, Joined, SavedRegions, Regions, PositionRegions
<1>2. saved \subseteq Keys
  BY DEF Joined
<1>3. ASSUME NEW V \in SUBSET Keys, NEW t, V \cap saved = {},
             saved \subseteq Rows(t), tile' = WithoutRows(t, V)
      PROVE  \A k \in saved : tile'[k] # NoTile
  BY <1>3, <1>2 DEF WithoutRows, Rows
<1>4. ASSUME NEW k \in Keys, NEW t \in Tiles, NEW now \in Times, Put(k, t, now)
      PROVE  \A s \in saved : tile'[s] # NoTile
  BY <1>4, <1>1, TileAssumption DEF Put, Rows
<1>5. ASSUME NEW cap, EvictTo(cap)
      PROVE  \A s \in saved : tile'[s] # NoTile
  <2>1. PICK V \in EvictionSets(tile, last_access, pinned, total_bytes - eviction_target(cap)) :
           tile' = WithoutRows(tile, V)
    BY <1>5 DEF EvictTo
  <2>2. V \in SUBSET Keys /\ V \cap pinned = {}
    BY <2>1, EvictedUnpinned
  <2> QED BY <1>1, <1>3, <2>1, <2>2
<1>6. ASSUME NEW cutoff, SweepAgedUnpinned(cutoff) \/ ClearUnpinned
      PROVE  \A s \in saved : tile'[s] # NoTile
  <2>1. PICK V \in AgedChunks(cutoff) \cup ScrollChunks : DeleteChunkOf(V)
    BY <1>6 DEF SweepAgedUnpinned, ClearUnpinned
  <2>2. V \in SUBSET Keys /\ V \cap pinned = {}
    BY <2>1 DEF AgedChunks, ScrollChunks, Unpinned, Rows
  <2> QED BY <1>1, <1>3, <2>1, <2>2 DEF DeleteChunkOf
<1>7. ASSUME NEW batch \in Seq(BatchRows), NEW budget, NEW cap, NEW region, NEW now,
             PutManyPinned(batch, budget, cap, region, now)
      PROVE  \A s \in saved : tile'[s] # NoTile
  <2> DEFINE n == StoredRows(batch, budget, cap, region)
             ks == BatchKeys(batch, n)
             t == Inserted(batch, n)
             la == [k \in Keys |-> IF k \in ks THEN now ELSE last_access[k]]
             newTotal == total_bytes + Added(batch, n)
  <2>1. PICK V \in MakeRoomSets(t, la, pinned \cup ks, newTotal, cap) : tile' = WithoutRows(t, V)
    BY <1>7 DEF PutManyPinned
  <2>2. n \in 0 .. Len(batch)
    BY StoredRowsPrefix
  <2>3. Rows(tile) \subseteq Rows(t)
    BY <1>1, <2>2, InsertedFacts
  <2> HIDE DEF n, ks, t, la, newTotal
  <2>4. V \in SUBSET Keys /\ V \cap pinned = {}
    BY <2>1, EvictedUnpinned
  <2> QED BY <1>1, <1>3, <2>1, <2>3, <2>4
<1>8. ASSUME NEW cleanup \in BOOLEAN, NEW cap, Open(cleanup, cap)
      PROVE  \A s \in saved : tile'[s] # NoTile
  <2> DEFINE rt == IF cleanup THEN {j \in region_tiles : j[1] \notin StagingRegions} ELSE region_tiles
             p == IF cleanup THEN pinned \cap Joined(rt, Regions) ELSE pinned
             total == SumBytes(Rows(tile), BytesColumn(tile))
  <2>1. PICK V \in MakeRoomSets(tile, last_access, p, total, cap) : tile' = WithoutRows(tile, V)
    BY <1>8 DEF Open
  <2>2. saved \subseteq Joined(rt, Regions)
    BY RegionAssumption DEF Joined, SavedRegions, Regions, PositionRegions, StagingRegions
  <2>3. saved \subseteq p
    BY <1>1, <2>2
  <2> HIDE DEF rt, p, total
  <2>4. V \in SUBSET Keys /\ V \cap p = {}
    BY <2>1, EvictedUnpinned
  <2> QED BY <1>1, <1>3, <2>1, <2>3, <2>4
<1>9. CASE tile' = tile
  BY <1>9, <1>1 DEF Rows
<1> QED BY <1>4, <1>5, <1>6, <1>7, <1>8, <1>9
        DEF CriticalSection, OtherSection, PinningSection, Touch, ReadRealRegionPinnedBytes, tables, PinIfFreshCapped, DeleteRegion,
            PromoteStagedRegions

\* The offline guarantee: no step deletes a tile a saved region references,
\* unless the whole database is found corrupt and recreated.
THEOREM SavedTilesKept == Spec => SavedTilesSurvive
<1>1. TableInv /\ [Next]_cacheVars =>
        [Recreate \/ \A k \in Joined(region_tiles, SavedRegions) : tile'[k] # NoTile]_cacheVars
  BY NextIsSection, SectionSparesSaved DEF CriticalSection
<1> QED BY <1>1, TableInvariant, PTL DEF Spec, SavedTilesSurvive

-----------------------------------------------------------------------------
(* The running totals and the gates that read them.  A sum of bytes is the *)
(* number of byte units in a set of rows, so that it obeys the laws of     *)
(* cardinalities.  What a batch does is followed row by row; in place of   *)
(* an induction over its rows each proof takes the first row at which a    *)
(* claim would fail (LeastFailure).                                        *)

-----------------------------------------------------------------------------
(* Sums                                                                    *)

\* The byte units of rows S with weights f.
Units(S, f) == {u \in S \X (1 .. MaxTileBytes) : u[2] <= f[u[1]]}

LEMMA UnitsFinite ==
    ASSUME NEW S, NEW f, IsFiniteSet(S)
    PROVE  IsFiniteSet(Units(S, f)) /\ SumBytes(S, f) = Cardinality(Units(S, f))
<1>1. IsFiniteSet(1 .. MaxTileBytes)
  BY FS_Interval, TileAssumption
<1>2. IsFiniteSet(S \X (1 .. MaxTileBytes))
  BY <1>1, FS_Product
<1> QED BY <1>2, FS_Subset DEF Units, SumBytes

\* A sum depends on the weights of its rows alone.
LEMMA SumOfSame ==
    ASSUME NEW S, NEW f, NEW g, \A k \in S : f[k] = g[k]
    PROVE  SumBytes(S, f) = SumBytes(S, g)
<1>1. {u \in S \X (1 .. MaxTileBytes) : u[2] <= f[u[1]]} = {u \in S \X (1 .. MaxTileBytes) : u[2] <= g[u[1]]}
  OBVIOUS
<1> QED BY <1>1 DEF SumBytes

\* Rows that weigh nothing may be left out.
LEMMA SumOfHeavy ==
    ASSUME NEW S, NEW T \in SUBSET S, NEW f, \A k \in S \ T : f[k] = 0
    PROVE  SumBytes(S, f) = SumBytes(T, f)
<1>1. \A u \in S \X (1 .. MaxTileBytes) : u[2] <= f[u[1]] => u[1] \in T
  <2> SUFFICES ASSUME NEW k \in S, NEW b \in 1 .. MaxTileBytes, b <= f[k] PROVE k \in T
    OBVIOUS
  <2>1. b \in Nat /\ b >= 1
    BY TileAssumption
  <2> QED BY <2>1
<1>2. {u \in S \X (1 .. MaxTileBytes) : u[2] <= f[u[1]]} = {u \in T \X (1 .. MaxTileBytes) : u[2] <= f[u[1]]}
  BY <1>1
<1> QED BY <1>2 DEF SumBytes

\* The sum over two disjoint sets is the sum of the sums.
LEMMA SumOfUnion ==
    ASSUME NEW S, NEW T, NEW f, IsFiniteSet(S), IsFiniteSet(T), S \cap T = {}
    PROVE  SumBytes(S \cup T, f) = SumBytes(S, f) + SumBytes(T, f)
<1>1. Units(S \cup T, f) = Units(S, f) \cup Units(T, f) /\ Units(S, f) \cap Units(T, f) = {}
  BY DEF Units
<1>2. /\ IsFiniteSet(Units(S, f)) /\ SumBytes(S, f) = Cardinality(Units(S, f))
      /\ IsFiniteSet(Units(T, f)) /\ SumBytes(T, f) = Cardinality(Units(T, f))
  BY UnitsFinite
<1>3. Cardinality(Units(S, f) \cup Units(T, f)) =
        Cardinality(Units(S, f)) + Cardinality(Units(T, f)) - Cardinality({})
  BY <1>1, <1>2, FS_Union
<1>4. Cardinality(Units(S, f)) \in Nat /\ Cardinality(Units(T, f)) \in Nat
  BY <1>2, FS_CardinalityType
<1>5. SumBytes(S \cup T, f) = Cardinality(Units(S \cup T, f))
  BY DEF SumBytes, Units
<1> QED BY <1>1, <1>2, <1>3, <1>4, <1>5, FS_EmptySet

\* One row weighs what it weighs.
LEMMA SumOfOne ==
    ASSUME NEW k, NEW f, f[k] \in 0 .. MaxTileBytes
    PROVE  SumBytes({k}, f) = f[k]
<1> DEFINE n == f[k]
           one == [i \in 1 .. n |-> <<k, i>>]
<1>1. n \in Nat /\ n <= MaxTileBytes /\ MaxTileBytes \in Nat
  BY TileAssumption
<1>2. Units({k}, f) = {<<k, i>> : i \in 1 .. n}
  <2>1. \A i \in 1 .. MaxTileBytes : i <= f[k] <=> i \in 1 .. n
    BY <1>1
  <2>2. 1 .. n \subseteq 1 .. MaxTileBytes
    BY <1>1
  <2> HIDE DEF n
  <2>3. ASSUME NEW u \in Units({k}, f) PROVE u \in {<<k, i>> : i \in 1 .. n}
    BY <2>1 DEF Units
  <2>4. ASSUME NEW i \in 1 .. n PROVE <<k, i>> \in Units({k}, f)
    BY <2>1, <2>2 DEF Units
  <2> QED BY <2>3, <2>4
<1>3. one \in Bijection(1 .. n, Units({k}, f))
  <2> HIDE DEF n
  <2>1. one \in [1 .. n -> Units({k}, f)] /\ \A a, b \in 1 .. n : one[a] = one[b] => a = b
    BY <1>2
  <2>2. \A u \in Units({k}, f) : \E i \in 1 .. n : one[i] = u
    BY <1>2
  <2> QED BY <2>1, <2>2 DEF Bijection, Injection, Surjection, IsInjective
<1>4. Cardinality(Units({k}, f)) = n
  BY <1>1, <1>3, FS_CountingElements DEF ExistsBijection
<1>5. SumBytes({k}, f) = Cardinality(Units({k}, f))
  BY DEF SumBytes, Units
<1> QED BY <1>4, <1>5

\* An empty set weighs nothing.
LEMMA SumOfNone == ASSUME NEW f PROVE SumBytes({}, f) = 0
<1>1. {u \in {} \X (1 .. MaxTileBytes) : u[2] <= f[u[1]]} = {}
  OBVIOUS
<1> QED BY <1>1, FS_EmptySet DEF SumBytes

\* One row more.
LEMMA SumWith ==
    ASSUME NEW S, NEW k, NEW f, IsFiniteSet(S), k \notin S, f[k] \in 0 .. MaxTileBytes
    PROVE  SumBytes(S \cup {k}, f) = SumBytes(S, f) + f[k]
<1>1. IsFiniteSet({k}) /\ S \cap {k} = {}
  BY FS_Singleton
<1> QED BY <1>1, SumOfUnion, SumOfOne

\* One row replaced.
LEMMA SumReplaced ==
    ASSUME NEW S, NEW k \in S, NEW f, NEW g, IsFiniteSet(S),
           f[k] \in 0 .. MaxTileBytes, g[k] \in 0 .. MaxTileBytes,
           \A j \in S \ {k} : f[j] = g[j]
    PROVE  SumBytes(S, g) = SumBytes(S, f) + g[k] - f[k]
<1> DEFINE R == S \ {k}
<1>1. IsFiniteSet(R) /\ k \notin R /\ R \cup {k} = S
  BY FS_Subset
<1>2. SumBytes(R, f) = SumBytes(R, g) /\ SumBytes(R, f) \in Nat
  BY <1>1, SumOfSame, SumBytesNat
<1> HIDE DEF R
<1>3. SumBytes(S, f) = SumBytes(R, f) + f[k] /\ SumBytes(S, g) = SumBytes(R, g) + g[k]
  BY <1>1, SumWith
<1>4. f[k] \in Nat /\ g[k] \in Nat
  BY TileAssumption
<1> QED BY <1>2, <1>3, <1>4

\* A subset taken out.
LEMMA SumWithout ==
    ASSUME NEW S, NEW V \in SUBSET S, NEW f, IsFiniteSet(S)
    PROVE  SumBytes(S \ V, f) = SumBytes(S, f) - SumBytes(V, f)
<1>1. IsFiniteSet(V) /\ IsFiniteSet(S \ V) /\ (S \ V) \cap V = {} /\ (S \ V) \cup V = S
  BY FS_Subset
<1>2. SumBytes(S, f) = SumBytes(S \ V, f) + SumBytes(V, f)
  BY <1>1, SumOfUnion
<1>3. SumBytes(S \ V, f) \in Nat /\ SumBytes(V, f) \in Nat
  BY <1>1, SumBytesNat
<1> QED BY <1>2, <1>3

\* A claim that holds of 0, and of each number when it holds of the one before,
\* has no first failure up to n: bad is where it would fail.
LEMMA LeastFailure ==
    ASSUME NEW n \in Nat, NEW bad \in SUBSET (0 .. n), 0 \notin bad,
           \A i \in 1 .. n : i \in bad => i - 1 \in bad
    PROVE  bad = {}
<1> SUFFICES ASSUME bad # {} PROVE FALSE
  OBVIOUS
<1>1. bad \in SUBSET Nat
  OBVIOUS
<1>2. PICK m \in bad : \A i \in bad : m <= i
  BY <1>1, LeastNatural
<1>3. m \in 1 .. n
  BY <1>2
<1>4. m - 1 \in bad
  BY <1>2, <1>3
<1> QED BY <1>2, <1>3, <1>4

-----------------------------------------------------------------------------
(* A batch, row by row                                                     *)

LEMMA RowTypes ==
    ASSUME NEW batch \in Seq(BatchRows), NEW i \in 1 .. Len(batch)
    PROVE  batch[i].key \in Keys /\ batch[i].tile \in Tiles
<1>1. batch[i] \in BatchRows
  OBVIOUS
<1> QED BY <1>1 DEF BatchRows

\* Row i is the last of the first n with key k.
IsLast(batch, n, k, i) ==
    i \in 1 .. n /\ batch[i].key = k /\ \A j \in 1 .. n : batch[j].key = k => j <= i

LEMMA LastExists ==
    ASSUME NEW batch \in Seq(BatchRows), NEW n \in 0 .. Len(batch), NEW k \in BatchKeys(batch, n)
    PROVE  \E i : IsLast(batch, n, k, i)
<1>1. n \in Nat
  OBVIOUS
<1> DEFINE below == {n - i : i \in {j \in 1 .. n : batch[j].key = k}}
<1>2. below # {} /\ below \in SUBSET Nat
  BY <1>1 DEF BatchKeys
<1> HIDE DEF below
<1>3. PICK m \in below : \A d \in below : m <= d
  BY <1>2, LeastNatural
<1> USE DEF below
<1>4. PICK i \in 1 .. n : batch[i].key = k /\ m = n - i
  BY <1>3
<1>5. \A j \in 1 .. n : batch[j].key = k => n - j \in below
  OBVIOUS
<1>6. \A j \in 1 .. n : batch[j].key = k => j <= i
  <2> SUFFICES ASSUME NEW j \in 1 .. n, batch[j].key = k PROVE j <= i
    OBVIOUS
  <2>1. m <= n - j
    BY <1>3, <1>5
  <2> QED BY <1>4, <2>1, <1>1
<1> QED BY <1>4, <1>6 DEF IsLast

\* The last row of a key is what the table holds under it.
LEMMA InsertedLast ==
    ASSUME NEW batch, NEW n \in Nat, NEW k \in Keys, NEW i, IsLast(batch, n, k, i)
    PROVE  Inserted(batch, n)[k] = batch[i].tile
<1>1. k \in BatchKeys(batch, n)
  BY DEF BatchKeys, IsLast
<1>2. \A m \in 1 .. n : (batch[m].key = k /\ \A j \in 1 .. n : batch[j].key = k => j <= m) => m = i
  BY DEF IsLast
<1>3. (CHOOSE m \in 1 .. n : batch[m].key = k /\ \A j \in 1 .. n : batch[j].key = k => j <= m) = i
  BY <1>2 DEF IsLast
<1> QED BY <1>1, <1>3 DEF Inserted

LEMMA InsertedNone ==
    ASSUME NEW batch, tile \in [Keys -> Tiles \cup {NoTile}]
    PROVE  BatchKeys(batch, 0) = {} /\ Inserted(batch, 0) = tile
<1>1. BatchKeys(batch, 0) = {}
  BY DEF BatchKeys
<1> QED BY <1>1 DEF Inserted

\* Row n replaces what the rows before it left under its key.
LEMMA InsertedStep ==
    ASSUME NEW batch \in Seq(BatchRows), NEW n \in 1 .. Len(batch), tile \in [Keys -> Tiles \cup {NoTile}]
    PROVE  /\ batch[n].key \in Keys /\ batch[n].tile \in Tiles
           /\ BatchKeys(batch, n) = BatchKeys(batch, n - 1) \cup {batch[n].key}
           /\ Inserted(batch, n) = [Inserted(batch, n - 1) EXCEPT ![batch[n].key] = batch[n].tile]
           /\ RepeatOf(batch, n) # {} <=> batch[n].key \in BatchKeys(batch, n - 1)
           /\ OldBytes(batch, n) = BytesColumn(Inserted(batch, n - 1))[batch[n].key]
<1> DEFINE k == batch[n].key
           m == n - 1
<1>1. m \in Nat /\ n \in Nat /\ m \in 0 .. Len(batch) /\ n \in 0 .. Len(batch)
  OBVIOUS
<1>2. k \in Keys /\ batch[n].tile \in Tiles
  BY RowTypes
<1>3. \A i : i \in 1 .. n <=> i \in 1 .. m \/ i = n
  BY <1>1
<1>4. BatchKeys(batch, n) = BatchKeys(batch, m) \cup {k}
  BY <1>3 DEF BatchKeys
<1>5. RepeatOf(batch, n) # {} <=> k \in BatchKeys(batch, m)
  BY DEF RepeatOf, BatchKeys
<1>6. \A x \in Keys : x \notin BatchKeys(batch, m) => Inserted(batch, m)[x] = tile[x]
  BY DEF Inserted
<1>7. ASSUME NEW x \in Keys
      PROVE  Inserted(batch, n)[x] = IF x = k THEN batch[n].tile ELSE Inserted(batch, m)[x]
  <2>1. CASE x = k
    <3>1. IsLast(batch, n, k, n)
      BY <1>1 DEF IsLast
    <3> QED BY <1>1, <1>2, <2>1, <3>1, InsertedLast
  <2>2. CASE x # k /\ x \in BatchKeys(batch, m)
    <3>1. PICK i : IsLast(batch, m, x, i)
      BY <1>1, <2>2, LastExists
    <3>2. IsLast(batch, n, x, i)
      BY <1>3, <2>2, <3>1 DEF IsLast
    <3> QED BY <1>1, <2>2, <3>1, <3>2, InsertedLast
  <2>3. CASE x # k /\ x \notin BatchKeys(batch, m)
    <3>1. x \notin BatchKeys(batch, n)
      BY <1>4, <2>3
    <3>2. Inserted(batch, n)[x] = tile[x]
      BY <3>1 DEF Inserted
    <3> QED BY <1>6, <2>3, <3>2
  <2> QED BY <2>1, <2>2, <2>3
<1>8. Inserted(batch, n) = [Inserted(batch, m) EXCEPT ![k] = batch[n].tile]
  <2>1. Inserted(batch, n) = [x \in Keys |-> Inserted(batch, n)[x]]
    BY DEF Inserted
  <2>2. Inserted(batch, m) = [x \in Keys |-> Inserted(batch, m)[x]]
    BY DEF Inserted
  <2> QED BY <1>7, <2>1, <2>2
<1>9. OldBytes(batch, n) = BytesColumn(Inserted(batch, m))[k]
  <2>1. CASE RepeatOf(batch, n) = {}
    <3>1. Inserted(batch, m)[k] = tile[k]
      BY <1>2, <1>5, <1>6, <2>1
    <3> QED BY <1>2, <2>1, <3>1 DEF OldBytes, BytesColumn
  <2>2. CASE RepeatOf(batch, n) # {}
    <3>1. PICK i : IsLast(batch, m, k, i)
      BY <1>1, <1>5, <2>2, LastExists
    <3>2. i \in RepeatOf(batch, n) /\ \A j \in RepeatOf(batch, n) : j <= i /\ j \in Nat
      BY <3>1 DEF IsLast, RepeatOf
    <3>3. \A j \in RepeatOf(batch, n) : (\A h \in RepeatOf(batch, n) : h <= j) => j = i
      BY <3>2
    <3>4. (CHOOSE j \in RepeatOf(batch, n) : \A h \in RepeatOf(batch, n) : h <= j) = i
      BY <3>2, <3>3
    <3>5. OldBytes(batch, n) = batch[i].tile.bytes
      BY <2>2, <3>4 DEF OldBytes
    <3>6. Inserted(batch, m)[k] = batch[i].tile
      BY <1>1, <1>2, <3>1, InsertedLast
    <3>7. batch[i].tile \in Tiles
      <4>1. i \in 1 .. Len(batch)
        BY <1>1, <3>1 DEF IsLast
      <4> QED BY <4>1, RowTypes
    <3> QED BY <1>2, <3>5, <3>6, <3>7, TileAssumption DEF BytesColumn
  <2> QED BY <2>1, <2>2
<1> QED BY <1>2, <1>4, <1>5, <1>8, <1>9

\* The sums of new and of old bytes, one row further.
LEMMA BytesStep ==
    ASSUME NEW batch \in Seq(BatchRows), NEW n \in 1 .. Len(batch), tile \in [Keys -> Tiles \cup {NoTile}],
           NEW held \in SUBSET (1 .. n)
    PROVE  /\ batch[n].tile.bytes \in 0 .. MaxTileBytes /\ OldBytes(batch, n) \in 0 .. MaxTileBytes
           /\ NewBytesUpTo(batch, n) = NewBytesUpTo(batch, n - 1) + batch[n].tile.bytes
           /\ NewBytesUpTo(batch, n - 1) \in Nat /\ OldBytesOf(batch, held \ {n}) \in Nat
           /\ OldBytesOf(batch, held) =
                OldBytesOf(batch, held \ {n}) + (IF n \in held THEN OldBytes(batch, n) ELSE 0)
<1> DEFINE m == n - 1
           new == [i \in 1 .. n |-> batch[i].tile.bytes]
           old == [i \in held |-> OldBytes(batch, i)]
           rest == held \ {n}
<1>1. m \in Nat /\ n \in Nat /\ m \in 0 .. Len(batch) /\ 1 .. n = 1 .. m \cup {n} /\ n \notin 1 .. m
  OBVIOUS
<1>2. IsFiniteSet(1 .. m) /\ IsFiniteSet(held) /\ IsFiniteSet(rest)
  <2>1. IsFiniteSet(1 .. m) /\ IsFiniteSet(1 .. n)
    BY <1>1, FS_Interval
  <2> QED BY <2>1, FS_Subset
<1>3. batch[n].tile.bytes \in 0 .. MaxTileBytes
  BY InsertedStep, TileAssumption
<1>4. OldBytes(batch, n) \in 0 .. MaxTileBytes
  <2>1. Inserted(batch, m) \in [Keys -> Tiles \cup {NoTile}]
    BY <1>1, InsertedFacts
  <2> QED BY <2>1, InsertedStep, BytesColumnType
<1>5. NewBytesUpTo(batch, n) = NewBytesUpTo(batch, m) + batch[n].tile.bytes
  <2>1. new[n] = batch[n].tile.bytes /\ NewBytesUpTo(batch, n) = SumBytes(1 .. n, new)
    BY DEF NewBytesUpTo
  <2>2. \A i \in 1 .. m : new[i] = [j \in 1 .. m |-> batch[j].tile.bytes][i]
    BY <1>1
  <2> HIDE DEF new
  <2>3. SumBytes(1 .. m, new) = NewBytesUpTo(batch, m)
    BY <2>2, SumOfSame DEF NewBytesUpTo
  <2>4. SumBytes(1 .. m \cup {n}, new) = SumBytes(1 .. m, new) + new[n]
    BY <1>1, <1>2, <1>3, <2>1, SumWith
  <2> QED BY <1>1, <2>1, <2>3, <2>4
<1>6. OldBytesOf(batch, held) = OldBytesOf(batch, rest) + (IF n \in held THEN OldBytes(batch, n) ELSE 0)
  <2>1. CASE n \notin held
    <3>1. rest = held
      BY <2>1
    <3>2. OldBytesOf(batch, held) \in Nat
      BY <1>2, SumBytesNat DEF OldBytesOf
    <3> HIDE DEF rest
    <3> QED BY <2>1, <3>1, <3>2
  <2>2. CASE n \in held
    <3>1. rest \cup {n} = held /\ n \notin rest /\ old[n] = OldBytes(batch, n)
      BY <2>2
    <3>2. \A i \in rest : old[i] = [j \in rest |-> OldBytes(batch, j)][i]
      OBVIOUS
    <3>3. OldBytesOf(batch, held) = SumBytes(held, old)
      BY DEF OldBytesOf
    <3> HIDE DEF rest, old
    <3>4. SumBytes(rest, old) = OldBytesOf(batch, rest)
      BY <3>2, SumOfSame DEF OldBytesOf
    <3>5. SumBytes(rest \cup {n}, old) = SumBytes(rest, old) + old[n]
      BY <1>2, <1>4, <3>1, SumWith
    <3> QED BY <2>2, <3>1, <3>3, <3>4, <3>5
  <2> QED BY <2>1, <2>2
<1>7. NewBytesUpTo(batch, m) \in Nat /\ OldBytesOf(batch, rest) \in Nat
  BY <1>2, SumBytesNat DEF NewBytesUpTo, OldBytesOf
<1> QED BY <1>3, <1>4, <1>5, <1>6, <1>7

\* The rows of a batch whose predecessor counts among the keys P or comes from the batch.
Held(batch, n, P) == {i \in 1 .. n : batch[i].key \in P \/ RepeatOf(batch, i) # {}}

\* What storing n rows adds to the bytes of the keys P, when the batch's keys join them.
AddedTo(batch, n, P) == NewBytesUpTo(batch, n) - OldBytesOf(batch, Held(batch, n, P))

\* What row n alone adds.
DeltaTo(batch, n, P) ==
    batch[n].tile.bytes
      - (IF batch[n].key \in P \/ RepeatOf(batch, n) # {} THEN OldBytes(batch, n) ELSE 0)

LEMMA AddedStep ==
    ASSUME NEW batch \in Seq(BatchRows), NEW n \in 1 .. Len(batch), NEW P,
           tile \in [Keys -> Tiles \cup {NoTile}]
    PROVE  /\ AddedTo(batch, n, P) = AddedTo(batch, n - 1, P) + DeltaTo(batch, n, P)
           /\ AddedTo(batch, n - 1, P) \in Int /\ DeltaTo(batch, n, P) \in Int
<1> DEFINE held == Held(batch, n, P)
<1>1. held \in SUBSET (1 .. n)
  BY DEF Held
<1>2. held \ {n} = Held(batch, n - 1, P)
  BY DEF Held
<1>3. n \in held <=> batch[n].key \in P \/ RepeatOf(batch, n) # {}
  BY DEF Held
<1> HIDE DEF held
<1>4. /\ batch[n].tile.bytes \in 0 .. MaxTileBytes /\ OldBytes(batch, n) \in 0 .. MaxTileBytes
      /\ NewBytesUpTo(batch, n) = NewBytesUpTo(batch, n - 1) + batch[n].tile.bytes
      /\ NewBytesUpTo(batch, n - 1) \in Nat /\ OldBytesOf(batch, Held(batch, n - 1, P)) \in Nat
      /\ OldBytesOf(batch, held) =
           OldBytesOf(batch, Held(batch, n - 1, P)) + (IF n \in held THEN OldBytes(batch, n) ELSE 0)
  <2>1. /\ batch[n].tile.bytes \in 0 .. MaxTileBytes /\ OldBytes(batch, n) \in 0 .. MaxTileBytes
        /\ NewBytesUpTo(batch, n) = NewBytesUpTo(batch, n - 1) + batch[n].tile.bytes
        /\ NewBytesUpTo(batch, n - 1) \in Nat /\ OldBytesOf(batch, held \ {n}) \in Nat
        /\ OldBytesOf(batch, held) =
             OldBytesOf(batch, held \ {n}) + (IF n \in held THEN OldBytes(batch, n) ELSE 0)
    BY <1>1, BytesStep
  <2> QED BY <1>2, <2>1
<1>5. batch[n].tile.bytes \in Nat /\ OldBytes(batch, n) \in Nat
  BY <1>4, TileAssumption
<1>6. AddedTo(batch, n, P) = NewBytesUpTo(batch, n) - OldBytesOf(batch, held)
  BY DEF AddedTo, held
<1> QED BY <1>3, <1>4, <1>5, <1>6 DEF AddedTo, DeltaTo

LEMMA AddedNone == ASSUME NEW batch, NEW P PROVE AddedTo(batch, 0, P) = 0
<1>1. 1 .. 0 = {} /\ Held(batch, 0, P) = {}
  BY DEF Held
<1>2. NewBytesUpTo(batch, 0) = 0
  BY <1>1, SumOfNone DEF NewBytesUpTo
<1>3. OldBytesOf(batch, {}) = 0
  BY SumOfNone DEF OldBytesOf
<1> QED BY <1>1, <1>2, <1>3 DEF AddedTo

(* The deltas of a batch are exact: what they add up to is what the bytes  *)
(* of the keys P, joined by the keys of the batch, have grown by.          *)
LEMMA BatchSum ==
    ASSUME NEW batch \in Seq(BatchRows), NEW n \in 0 .. Len(batch), NEW P \in SUBSET Keys,
           tile \in [Keys -> Tiles \cup {NoTile}]
    PROVE  /\ SumBytes(P \cup BatchKeys(batch, n), BytesColumn(Inserted(batch, n))) =
                SumBytes(P, BytesColumn(tile)) + AddedTo(batch, n, P)
           /\ AddedTo(batch, n, P) \in Int
<1> DEFINE Exact(i) ==
             /\ SumBytes(P \cup BatchKeys(batch, i), BytesColumn(Inserted(batch, i))) =
                  SumBytes(P, BytesColumn(tile)) + AddedTo(batch, i, P)
             /\ AddedTo(batch, i, P) \in Int
           bad == {i \in 0 .. n : ~Exact(i)}
<1>1. Len(batch) \in Nat /\ n \in Nat /\ SumBytes(P, BytesColumn(tile)) \in Nat
  BY KeySumNat
<1>2. Exact(0)
  <2>1. AddedTo(batch, 0, P) = 0 /\ Inserted(batch, 0) = tile /\ P \cup BatchKeys(batch, 0) = P
    BY AddedNone, InsertedNone
  <2>2. SumBytes(P \cup BatchKeys(batch, 0), BytesColumn(Inserted(batch, 0))) = SumBytes(P, BytesColumn(tile))
    BY <2>1
  <2>3. SumBytes(P, BytesColumn(tile)) + 0 = SumBytes(P, BytesColumn(tile))
    BY <1>1
  <2> QED BY <2>1, <2>2, <2>3
<1>3. ASSUME NEW i \in 1 .. n, Exact(i - 1) PROVE Exact(i)
  <2> DEFINE k == batch[i].key
             S == P \cup BatchKeys(batch, i - 1)
             before == BytesColumn(Inserted(batch, i - 1))
             after == BytesColumn(Inserted(batch, i))
  <2>1. i \in 1 .. Len(batch) /\ i - 1 \in 0 .. Len(batch)
    BY <1>1
  <2>2. /\ k \in Keys /\ batch[i].tile \in Tiles /\ BatchKeys(batch, i) = BatchKeys(batch, i - 1) \cup {k}
        /\ Inserted(batch, i) = [Inserted(batch, i - 1) EXCEPT ![k] = batch[i].tile]
        /\ RepeatOf(batch, i) # {} <=> k \in BatchKeys(batch, i - 1)
        /\ OldBytes(batch, i) = before[k]
    BY <2>1, InsertedStep
  <2>3. Inserted(batch, i - 1) \in [Keys -> Tiles \cup {NoTile}] /\ BatchKeys(batch, i - 1) \subseteq Keys
    BY <2>1, InsertedFacts
  <2>4. /\ after[k] = batch[i].tile.bytes /\ batch[i].tile.bytes \in 0 .. MaxTileBytes
        /\ \A x \in Keys \ {k} : after[x] = before[x]
        /\ before[k] \in 0 .. MaxTileBytes
    BY <2>2, <2>3, BytesColumnType, TileAssumption DEF BytesColumn
  <2>5. /\ AddedTo(batch, i, P) = AddedTo(batch, i - 1, P) + DeltaTo(batch, i, P)
        /\ AddedTo(batch, i - 1, P) \in Int /\ DeltaTo(batch, i, P) \in Int
    BY <2>1, AddedStep
  <2>6. IsFiniteSet(S) /\ S \subseteq Keys /\ SumBytes(S, before) \in Nat
    BY <2>3, KeySumNat
  <2>7. SumBytes(S, before) = SumBytes(P, BytesColumn(tile)) + AddedTo(batch, i - 1, P)
    BY <1>3
  <2>8. P \cup BatchKeys(batch, i) = S \cup {k}
    BY <2>2
  <2>9. k \in S <=> batch[i].key \in P \/ RepeatOf(batch, i) # {}
    BY <2>2
  <2>10. DeltaTo(batch, i, P) = after[k] - (IF k \in S THEN before[k] ELSE 0)
    BY <2>2, <2>4, <2>9 DEF DeltaTo
  <2> HIDE DEF k, S, before, after
  <2>11. SumBytes(S \cup {k}, after) = SumBytes(S, before) + DeltaTo(batch, i, P)
    <3>1. after[k] \in 0 .. MaxTileBytes
      BY <2>4
    <3>2. after[k] \in Nat /\ before[k] \in Nat
      BY <2>4, <3>1, TileAssumption
    <3>3. CASE k \in S
      <4>1. SumBytes(S, after) = SumBytes(S, before) + after[k] - before[k]
        BY <2>4, <2>6, <3>1, <3>3, SumReplaced
      <4>2. S \cup {k} = S
        BY <3>3
      <4> QED BY <2>6, <2>10, <3>2, <3>3, <4>1, <4>2
    <3>4. CASE k \notin S
      <4>1. SumBytes(S \cup {k}, after) = SumBytes(S, after) + after[k]
        BY <2>6, <3>1, <3>4, SumWith
      <4>2. SumBytes(S, after) = SumBytes(S, before)
        BY <2>4, <2>6, <3>4, SumOfSame
      <4> QED BY <2>6, <2>10, <3>2, <3>4, <4>1, <4>2
    <3> QED BY <3>3, <3>4
  <2>12. SumBytes(P \cup BatchKeys(batch, i), after) = SumBytes(P, BytesColumn(tile)) + AddedTo(batch, i, P)
    <3>1. SumBytes(P \cup BatchKeys(batch, i), after) = SumBytes(S \cup {k}, after)
      BY <2>8
    <3> QED BY <1>1, <2>5, <2>7, <2>11, <3>1
  <2> QED BY <2>5, <2>12 DEF after
<1> HIDE DEF Exact
<1>4. bad = {}
  <2>1. bad \in SUBSET (0 .. n) /\ 0 \notin bad
    BY <1>2
  <2>2. \A i \in 1 .. n : i \in bad => i - 1 \in bad
    BY <1>1, <1>3
  <2> HIDE DEF bad
  <2> QED BY <1>1, <2>1, <2>2, LeastFailure
<1>5. Exact(n)
  BY <1>1, <1>4
<1> QED BY <1>5 DEF Exact

\* The module's three running sums are instances of it.
LEMMA RunningSums ==
    ASSUME NEW batch \in Seq(BatchRows), NEW n \in 0 .. Len(batch), NEW region
    PROVE  /\ Added(batch, n) = AddedTo(batch, n, Keys)
           /\ PinnedAdded(batch, n) = AddedTo(batch, n, pinned)
           /\ region # NoRegion => CategoryAdded(batch, n, region) =
                 AddedTo(batch, n, Joined(region_tiles, CategoryOf(region)))
           /\ \A i \in 1 .. Len(batch) : PinDelta(batch, i) = DeltaTo(batch, i, pinned)
           /\ region # NoRegion => \A i \in 1 .. Len(batch) : CategoryDelta(batch, i, region) =
                 DeltaTo(batch, i, Joined(region_tiles, CategoryOf(region)))
<1>1. \A i \in 1 .. n : batch[i].key \in Keys
  BY RowTypes
<1>2. Held(batch, n, Keys) = 1 .. n
  BY <1>1 DEF Held
<1>3. Held(batch, n, pinned) = {i \in 1 .. n : WasPinned(batch, i)}
  BY DEF Held, WasPinned
<1>4. region # NoRegion => Held(batch, n, Joined(region_tiles, CategoryOf(region))) =
                             {i \in 1 .. n : WasInCategory(batch, i, region)}
  BY DEF Held, WasInCategory, InCategory
<1> QED BY <1>2, <1>3, <1>4 DEF Added, PinnedAdded, CategoryAdded, AddedTo, PinDelta, CategoryDelta, DeltaTo,
           WasPinned, WasInCategory, InCategory

-----------------------------------------------------------------------------
(* Every critical section keeps the totals exact                           *)

\* Rows that are not there weigh nothing.
LEMMA AbsentWeighNothing ==
    ASSUME NEW t \in [Keys -> Tiles \cup {NoTile}], NEW P \in SUBSET Keys
    PROVE  SumBytes(P \cap Rows(t), BytesColumn(t)) = SumBytes(P, BytesColumn(t))
<1>1. \A k \in P \ (P \cap Rows(t)) : BytesColumn(t)[k] = 0
  BY DEF Rows, BytesColumn
<1> QED BY <1>1, SumOfHeavy

\* The total, as a sum over all keys.
LEMMA TotalOverKeys ==
    ASSUME NEW t \in [Keys -> Tiles \cup {NoTile}]
    PROVE  SumBytes(Rows(t), BytesColumn(t)) = SumBytes(Keys, BytesColumn(t))
<1>1. Keys \cap Rows(t) = Rows(t)
  BY DEF Rows
<1> QED BY <1>1, AbsentWeighNothing

\* What is left after rows V are gone weighs the difference, and no other set of rows changes.
LEMMA RemovedBytes ==
    ASSUME NEW t \in [Keys -> Tiles \cup {NoTile}], NEW V \in SUBSET Rows(t)
    PROVE  /\ SumBytes(Rows(WithoutRows(t, V)), BytesColumn(WithoutRows(t, V))) =
                SumBytes(Rows(t), BytesColumn(t)) - SumBytes(V, BytesColumn(t))
           /\ \A P \in SUBSET Keys : P \cap V = {} =>
                SumBytes(P, BytesColumn(WithoutRows(t, V))) = SumBytes(P, BytesColumn(t))
<1>1. \A k \in Keys \ V : BytesColumn(WithoutRows(t, V))[k] = BytesColumn(t)[k]
  BY DEF BytesColumn, WithoutRows
<1>2. \A P \in SUBSET Keys : P \cap V = {} =>
        SumBytes(P, BytesColumn(WithoutRows(t, V))) = SumBytes(P, BytesColumn(t))
  <2> SUFFICES ASSUME NEW P \in SUBSET Keys, P \cap V = {}
               PROVE  SumBytes(P, BytesColumn(WithoutRows(t, V))) = SumBytes(P, BytesColumn(t))
    OBVIOUS
  <2>1. \A k \in P : BytesColumn(WithoutRows(t, V))[k] = BytesColumn(t)[k]
    BY <1>1
  <2> QED BY <2>1, SumOfSame
<1>3. Rows(WithoutRows(t, V)) = Rows(t) \ V
  BY DEF Rows, WithoutRows
<1>4. Rows(t) \ V \in SUBSET Keys /\ (Rows(t) \ V) \cap V = {} /\ IsFiniteSet(Rows(t))
  <2>1. Rows(t) \in SUBSET Keys
    BY DEF Rows
  <2> QED BY <2>1, KeySumNat
<1>5. SumBytes(Rows(t) \ V, BytesColumn(WithoutRows(t, V))) = SumBytes(Rows(t) \ V, BytesColumn(t))
  BY <1>2, <1>4
<1>6. SumBytes(Rows(t) \ V, BytesColumn(t)) = SumBytes(Rows(t), BytesColumn(t)) - SumBytes(V, BytesColumn(t))
  BY <1>4, SumWithout
<1> QED BY <1>2, <1>3, <1>5, <1>6

\* Evictions remove rows that are there.
LEMMA EvictedRows ==
    ASSUME NEW t, NEW la, NEW p, NEW n, NEW cap,
           NEW V \in EvictionSets(t, la, p, n) \cup MakeRoomSets(t, la, p, n, cap)
    PROVE  V \in SUBSET Rows(t) /\ V \cap p = {}
BY DEF EvictionSets, MakeRoomSets, Unpinned

AccountInv == TableInv /\ AccountingExact

\* evict_to, a chunk of the sweep or of the clear.
LEMMA RemovalExact ==
    ASSUME AccountInv, NEW V \in SUBSET Rows(tile), V \cap pinned = {},
           tile' = WithoutRows(tile, V),
           total_bytes' = total_bytes - SumBytes(V, BytesColumn(tile)),
           UNCHANGED <<pinned, region_tiles, pinned_bytes, real_region_cache>>
    PROVE  AccountingExact'
<1>1. tile \in [Keys -> Tiles \cup {NoTile}] /\ pinned \in SUBSET Keys
  BY DEF AccountInv, TableInv, TypeOK, Rows
<1>2. total_bytes' = SumBytes(Rows(tile'), BytesColumn(tile'))
  BY <1>1, RemovedBytes DEF AccountInv, AccountingExact
<1>3. pinned_bytes' = SumBytes(pinned', BytesColumn(tile'))
  BY <1>1, RemovedBytes DEF AccountInv, AccountingExact
<1>4. RealRegionPinnedBytes(tile', pinned', region_tiles') = RealRegionPinnedBytes(tile, pinned, region_tiles)
  <2> DEFINE real == pinned \cap Joined(region_tiles, Regions \ PositionRegions)
  <2>1. real \in SUBSET Keys /\ real \cap V = {}
    BY <1>1
  <2>2. SumBytes(real, BytesColumn(tile')) = SumBytes(real, BytesColumn(tile))
    BY <1>1, <2>1, RemovedBytes
  <2> QED BY <2>2 DEF RealRegionPinnedBytes
<1> QED BY <1>2, <1>3, <1>4 DEF AccountInv, AccountingExact

LEMMA LiveRemovalExact ==
    ASSUME AccountInv, NEW cap, NEW cutoff, EvictTo(cap) \/ SweepAgedUnpinned(cutoff) \/ ClearUnpinned
    PROVE  AccountingExact'
<1>1. CASE EvictTo(cap)
  <2>1. PICK V \in EvictionSets(tile, last_access, pinned, total_bytes - eviction_target(cap)) :
          /\ tile' = WithoutRows(tile, V)
          /\ total_bytes' = total_bytes - SumBytes(V, BytesColumn(tile))
    BY <1>1 DEF EvictTo
  <2>2. V \in SUBSET Rows(tile) /\ V \cap pinned = {}
    BY <2>1 DEF EvictionSets, Unpinned
  <2> QED BY <1>1, <2>1, <2>2, RemovalExact DEF EvictTo
<1>2. CASE SweepAgedUnpinned(cutoff) \/ ClearUnpinned
  <2>1. PICK V \in AgedChunks(cutoff) \cup ScrollChunks : DeleteChunkOf(V)
    BY <1>2 DEF SweepAgedUnpinned, ClearUnpinned
  <2>2. V \in SUBSET Rows(tile) /\ V \cap pinned = {}
    BY <2>1 DEF AgedChunks, ScrollChunks, Unpinned
  <2> QED BY <2>1, <2>2, RemovalExact DEF DeleteChunkOf
<1> QED BY <1>1, <1>2

\* put replaces one row, and charges the pin when the key has one.
LEMMA PutExact ==
    ASSUME AccountInv, NEW k \in Keys, NEW t \in Tiles, NEW now, Put(k, t, now)
    PROVE  AccountingExact'
<1>1. tile \in [Keys -> Tiles \cup {NoTile}] /\ pinned \in SUBSET Keys /\ IsFiniteSet(pinned)
  <2>1. pinned \in SUBSET Keys
    BY DEF AccountInv, TableInv, TypeOK, Rows
  <2> QED BY <2>1, KeySumNat DEF AccountInv, TableInv, TypeOK
<1> DEFINE old == BytesColumn(tile)
           new == BytesColumn(tile')
<1>2. tile' = [tile EXCEPT ![k] = t] /\ tile' \in [Keys -> Tiles \cup {NoTile}]
  BY <1>1 DEF Put
<1>3. new[k] = t.bytes /\ \A x \in Keys \ {k} : new[x] = old[x]
  BY <1>1, <1>2, TileAssumption DEF BytesColumn
<1>4. old[k] \in 0 .. MaxTileBytes /\ new[k] \in 0 .. MaxTileBytes
  BY <1>1, <1>2, BytesColumnType
<1>5. /\ total_bytes' = total_bytes + t.bytes - old[k]
      /\ pinned_bytes' = IF k \in pinned THEN pinned_bytes + t.bytes - old[k] ELSE pinned_bytes
      /\ real_region_cache' = IF k \in pinned THEN Dirty ELSE real_region_cache
      /\ UNCHANGED <<pinned, region_tiles>>
  BY DEF Put
<1>6. /\ total_bytes = SumBytes(Keys, old) /\ pinned_bytes = SumBytes(pinned, old)
      /\ SumBytes(Rows(tile'), BytesColumn(tile')) = SumBytes(Keys, new)
  BY <1>1, <1>2, TotalOverKeys DEF AccountInv, AccountingExact
<1>7. real_region_cache # Dirty => real_region_cache = RealRegionPinnedBytes(tile, pinned, region_tiles)
  BY DEF AccountInv, AccountingExact
<1> HIDE DEF old, new
<1>8. total_bytes' = SumBytes(Keys, new)
  <2>1. SumBytes(Keys, new) = SumBytes(Keys, old) + new[k] - old[k]
    BY <1>3, <1>4, SumReplaced, TileAssumption
  <2> QED BY <1>3, <1>5, <1>6, <2>1
<1>9. pinned_bytes' = SumBytes(pinned, new)
  <2>1. CASE k \in pinned
    <3>1. SumBytes(pinned, new) = SumBytes(pinned, old) + new[k] - old[k]
      BY <1>1, <1>3, <1>4, <2>1, SumReplaced
    <3> QED BY <1>3, <1>5, <1>6, <2>1, <3>1
  <2>2. CASE k \notin pinned
    <3>1. \A x \in pinned : new[x] = old[x]
      BY <1>1, <1>3, <2>2
    <3> QED BY <1>5, <1>6, <2>2, <3>1, SumOfSame
  <2> QED BY <2>1, <2>2
<1>10. k \notin pinned =>
         RealRegionPinnedBytes(tile', pinned, region_tiles) = RealRegionPinnedBytes(tile, pinned, region_tiles)
  <2> SUFFICES ASSUME k \notin pinned
               PROVE  RealRegionPinnedBytes(tile', pinned, region_tiles) = RealRegionPinnedBytes(tile, pinned, region_tiles)
    OBVIOUS
  <2> DEFINE real == pinned \cap Joined(region_tiles, Regions \ PositionRegions)
  <2>1. \A x \in real : new[x] = old[x]
    BY <1>1, <1>3
  <2> HIDE DEF real
  <2>2. SumBytes(real, new) = SumBytes(real, old)
    BY <2>1, SumOfSame
  <2> QED BY <2>2 DEF RealRegionPinnedBytes, real, new, old
<1> QED BY <1>5, <1>6, <1>7, <1>8, <1>9, <1>10 DEF AccountingExact, new

\* A touch moves no byte; a read of the memo takes the sum it stands for.
LEMMA ReadsExact ==
    ASSUME AccountInv, NEW k, NEW now, Touch(k, now) \/ ReadRealRegionPinnedBytes
    PROVE  AccountingExact'
<1>1. UNCHANGED <<tile, pinned, region_tiles, total_bytes, pinned_bytes>>
  BY DEF Touch, ReadRealRegionPinnedBytes, tables, counters
<1>2. \/ real_region_cache' = real_region_cache
      \/ real_region_cache' = RealRegionPinnedBytes(tile, pinned, region_tiles)
  BY DEF Touch, ReadRealRegionPinnedBytes, counters
<1> QED BY <1>1, <1>2 DEF AccountInv, AccountingExact, RealRegionPinnedBytes

\* put_many_pinned: the totals move by the running sums, then by what the make-room pass took.
LEMMA PutManyExact ==
    ASSUME AccountInv, NEW batch \in Seq(BatchRows), NEW budget, NEW cap, NEW region, NEW now,
           PutManyPinned(batch, budget, cap, region, now)
    PROVE  AccountingExact'
<1> DEFINE n == StoredRows(batch, budget, cap, region)
           ks == BatchKeys(batch, n)
           t == Inserted(batch, n)
           la == [k \in Keys |-> IF k \in ks THEN now ELSE last_access[k]]
           newTotal == total_bytes + Added(batch, n)
<1>1. n \in 0 .. Len(batch)
  BY StoredRowsPrefix
<1>2. tile \in [Keys -> Tiles \cup {NoTile}] /\ pinned \in SUBSET Keys
  BY DEF AccountInv, TableInv, TypeOK, Rows
<1>3. ks \subseteq Keys /\ t \in [Keys -> Tiles \cup {NoTile}]
  BY <1>1, <1>2, InsertedFacts
<1>4. /\ pinned' = pinned \cup ks
      /\ pinned_bytes' = pinned_bytes + PinnedAdded(batch, n)
      /\ real_region_cache' = Dirty
  BY DEF PutManyPinned
<1>5. PICK V \in MakeRoomSets(t, la, pinned \cup ks, newTotal, cap) :
        /\ tile' = WithoutRows(t, V)
        /\ total_bytes' = newTotal - SumBytes(V, BytesColumn(t))
  BY DEF PutManyPinned
<1>6. SumBytes(Keys, BytesColumn(t)) = total_bytes + Added(batch, n)
  <2>1. Keys \cup ks = Keys
    BY <1>3
  <2>2. SumBytes(Keys \cup ks, BytesColumn(t)) = SumBytes(Keys, BytesColumn(tile)) + AddedTo(batch, n, Keys)
    BY <1>1, <1>2, BatchSum
  <2>3. total_bytes = SumBytes(Keys, BytesColumn(tile))
    BY <1>2, TotalOverKeys DEF AccountInv, AccountingExact
  <2>4. Added(batch, n) = AddedTo(batch, n, Keys)
    BY <1>1, RunningSums
  <2> QED BY <2>1, <2>2, <2>3, <2>4
<1>7. SumBytes(pinned \cup ks, BytesColumn(t)) = pinned_bytes + PinnedAdded(batch, n)
  <2>1. SumBytes(pinned \cup ks, BytesColumn(t)) = SumBytes(pinned, BytesColumn(tile)) + AddedTo(batch, n, pinned)
    BY <1>1, <1>2, BatchSum
  <2>2. PinnedAdded(batch, n) = AddedTo(batch, n, pinned)
    BY <1>1, RunningSums
  <2> QED BY <2>1, <2>2 DEF AccountInv, AccountingExact
<1> HIDE DEF n, ks, t, la, newTotal
<1>8. V \in SUBSET Rows(t) /\ V \cap (pinned \cup ks) = {}
  BY <1>5 DEF MakeRoomSets, EvictionSets, Unpinned
<1>9. total_bytes' = SumBytes(Rows(tile'), BytesColumn(tile'))
  BY <1>3, <1>5, <1>6, <1>8, RemovedBytes, TotalOverKeys DEF newTotal
<1>10. pinned_bytes' = SumBytes(pinned', BytesColumn(tile'))
  <2>1. pinned \cup ks \in SUBSET Keys
    BY <1>2, <1>3
  <2>2. SumBytes(pinned \cup ks, BytesColumn(tile')) = SumBytes(pinned \cup ks, BytesColumn(t))
    BY <1>3, <1>5, <1>8, <2>1, RemovedBytes
  <2> QED BY <1>4, <1>7, <2>2
<1> QED BY <1>4, <1>9, <1>10 DEF AccountingExact

\* A pin of a fresh row charges it once.
LEMMA PinExact ==
    ASSUME AccountInv, NEW k \in Keys, NEW budget, NEW cap, NEW region, PinIfFreshCapped(k, budget, cap, region)
    PROVE  AccountingExact'
<1>1. /\ pinned' = pinned \cup {k} /\ real_region_cache' = Dirty
      /\ pinned_bytes' = IF k \in pinned THEN pinned_bytes ELSE pinned_bytes + BytesColumn(tile)[k]
      /\ UNCHANGED <<tile, total_bytes>>
  BY DEF PinIfFreshCapped
<1>2. /\ IsFiniteSet(pinned) /\ BytesColumn(tile)[k] \in 0 .. MaxTileBytes
      /\ total_bytes = SumBytes(Rows(tile), BytesColumn(tile)) /\ pinned_bytes = SumBytes(pinned, BytesColumn(tile))
  <2>1. pinned \in SUBSET Keys /\ tile \in [Keys -> Tiles \cup {NoTile}]
    BY DEF AccountInv, TableInv, TypeOK, Rows
  <2> QED BY <2>1, KeySumNat, BytesColumnType DEF AccountInv, AccountingExact
<1>3. pinned_bytes' = SumBytes(pinned', BytesColumn(tile))
  <2>1. CASE k \in pinned
    <3>1. pinned \cup {k} = pinned
      BY <2>1
    <3> QED BY <1>1, <1>2, <2>1, <3>1
  <2>2. CASE k \notin pinned
    BY <1>1, <1>2, <2>2, SumWith
  <2> QED BY <2>1, <2>2
<1> QED BY <1>1, <1>2, <1>3 DEF AccountingExact

\* A delete and a promotion recompute the pinned sum.
LEMMA RecomputedExact ==
    ASSUME AccountInv, NEW region, NEW repl, NEW rb, NEW pb, NEW cap,
           DeleteRegion(region) \/ PromoteStagedRegions(repl, rb, pb, cap)
    PROVE  AccountingExact'
<1>1. /\ pinned_bytes' = SumBytes(pinned', BytesColumn(tile)) /\ real_region_cache' = Dirty
      /\ UNCHANGED <<tile, total_bytes>>
  BY DEF DeleteRegion, PromoteStagedRegions
<1> QED BY <1>1 DEF AccountInv, AccountingExact

\* A start reads the totals back, and then evicts.
LEMMA OpenExact ==
    ASSUME AccountInv, NEW cleanup \in BOOLEAN, NEW cap, Open(cleanup, cap)
    PROVE  AccountingExact'
<1> DEFINE rt == IF cleanup THEN {j \in region_tiles : j[1] \notin StagingRegions} ELSE region_tiles
           p == IF cleanup THEN pinned \cap Joined(rt, Regions) ELSE pinned
           total == SumBytes(Rows(tile), BytesColumn(tile))
<1>1. pinned' = p /\ pinned_bytes' = SumBytes(p, BytesColumn(tile)) /\ real_region_cache' = Dirty
  BY DEF Open
<1>2. PICK V \in MakeRoomSets(tile, last_access, p, total, cap) :
        tile' = WithoutRows(tile, V) /\ total_bytes' = total - SumBytes(V, BytesColumn(tile))
  BY DEF Open
<1>3. tile \in [Keys -> Tiles \cup {NoTile}] /\ p \in SUBSET Keys
  BY DEF AccountInv, TableInv, TypeOK, Rows
<1> HIDE DEF p, rt
<1>4. V \in SUBSET Rows(tile) /\ V \cap p = {}
  BY <1>2 DEF MakeRoomSets, EvictionSets, Unpinned
<1>5. total_bytes' = SumBytes(Rows(tile'), BytesColumn(tile'))
  BY <1>2, <1>3, <1>4, RemovedBytes
<1>6. SumBytes(p, BytesColumn(tile')) = SumBytes(p, BytesColumn(tile))
  BY <1>2, <1>3, <1>4, RemovedBytes
<1> QED BY <1>1, <1>5, <1>6 DEF AccountingExact

\* An empty table weighs nothing.
LEMMA EmptyExact ==
    ASSUME NEW t, t = [k \in Keys |-> NoTile]
    PROVE  Rows(t) = {} /\ SumBytes(Rows(t), BytesColumn(t)) = 0 /\ SumBytes({}, BytesColumn(t)) = 0
<1>1. Rows(t) = {}
  BY DEF Rows
<1> QED BY <1>1, SumOfNone

LEMMA SectionExact ==
    ASSUME AccountInv, CriticalSection
    PROVE  AccountInv'
<1>1. TableInv'
  BY SectionKeeps DEF AccountInv
<1>2. AccountingExact'
  BY PutExact, ReadsExact, LiveRemovalExact, PutManyExact, PinExact, RecomputedExact, OpenExact
     DEF CriticalSection, OtherSection, PinningSection
<1> QED BY <1>1, <1>2 DEF AccountInv

LEMMA IdleExact ==
    ASSUME AccountInv, UNCHANGED cacheVars
    PROVE  AccountInv'
<1>1. TableInv'
  BY IdleKeeps DEF AccountInv
<1> QED BY <1>1 DEF cacheVars, tables, counters, AccountInv, AccountingExact, RealRegionPinnedBytes

LEMMA NextExact ==
    ASSUME AccountInv, [Next]_cacheVars
    PROVE  AccountInv'
<1>1. CASE Recreate
  BY <1>1, RecreateKeeps, EmptyExact DEF Recreate, AccountInv, AccountingExact
<1> QED BY <1>1, NextIsSection, SectionExact, IdleExact DEF CriticalSection

(* Inner.total_bytes, Inner.pinned_bytes and the memo are exactly the sums *)
(* they stand for, after any sequence of critical sections: the deltas of  *)
(* put, put_many_pinned with repeated keys, pin_locked, evictions and      *)
(* chunked deletes, and the recomputations, never part from the tables.    *)
THEOREM TotalsAreExact == Spec => []AccountingExact
<1>1. Init => AccountInv
  BY EmptyTableInv, EmptyExact DEF Init, EmptyCache, AccountInv, AccountingExact
<1>2. AccountInv /\ [Next]_cacheVars => AccountInv'
  BY NextExact
<1>3. AccountInv => AccountingExact
  BY DEF AccountInv
<1> QED BY <1>1, <1>2, <1>3, PTL DEF Spec

-----------------------------------------------------------------------------
(* The gates                                                               *)

\* Every row a batch stores passed both gates.
LEMMA StoredFit ==
    ASSUME NEW batch \in Seq(BatchRows), NEW budget, NEW cap, NEW region,
           NEW i \in 1 .. StoredRows(batch, budget, cap, region)
    PROVE  i \in 1 .. Len(batch) /\ Fits(batch, i, budget, cap, region)
<1> DEFINE refused == {j \in 1 .. Len(batch) : ~Fits(batch, j, budget, cap, region)}
<1>1. Len(batch) \in Nat /\ i \in 1 .. Len(batch)
  BY StoredRowsPrefix
<1>2. CASE refused = {}
  BY <1>1, <1>2
<1>3. CASE refused # {}
  <2> DEFINE first == CHOOSE j \in refused : \A m \in refused : j <= m
  <2>1. refused \in SUBSET Nat
    BY <1>1
  <2>2. StoredRows(batch, budget, cap, region) = first - 1
    BY <1>3 DEF StoredRows
  <2> HIDE DEF refused
  <2>3. \E j \in refused : \A m \in refused : j <= m
    BY <1>3, <2>1, LeastNatural
  <2>4. first \in refused /\ \A m \in refused : first <= m
    BY <2>3
  <2> HIDE DEF first
  <2>5. i \notin refused
    BY <1>1, <2>1, <2>2, <2>4
  <2> USE DEF refused
  <2> QED BY <1>1, <2>5
<1> QED BY <1>2, <1>3

(* A gate that lets a row through only when the bytes so far and its own   *)
(* stay within the limit, or when it adds none, bounds what the whole      *)
(* batch adds: rows after the last growing one only make it lighter.       *)
LEMMA GateHolds ==
    ASSUME NEW batch \in Seq(BatchRows), NEW n \in 0 .. Len(batch), NEW P,
           NEW base \in Int, NEW limit \in Int, tile \in [Keys -> Tiles \cup {NoTile}],
           \A i \in 1 .. n : DeltaTo(batch, i, P) > 0 => base + AddedTo(batch, i, P) <= limit
    PROVE  AddedTo(batch, n, P) > 0 => base + AddedTo(batch, n, P) <= limit
<1> DEFINE Gated(i) == AddedTo(batch, i, P) > 0 => base + AddedTo(batch, i, P) <= limit
           bad == {i \in 0 .. n : ~Gated(i)}
<1>1. n \in Nat /\ Len(batch) \in Nat
  OBVIOUS
<1>2. Gated(0)
  BY AddedNone
<1>3. ASSUME NEW i \in 1 .. n, Gated(i - 1) PROVE Gated(i)
  <2>1. i \in 1 .. Len(batch)
    BY <1>1
  <2>2. /\ AddedTo(batch, i, P) = AddedTo(batch, i - 1, P) + DeltaTo(batch, i, P)
        /\ AddedTo(batch, i - 1, P) \in Int /\ DeltaTo(batch, i, P) \in Int
    BY <2>1, AddedStep
  <2>3. CASE DeltaTo(batch, i, P) > 0
    BY <2>3
  <2>4. CASE ~(DeltaTo(batch, i, P) > 0)
    BY <1>3, <2>2, <2>4
  <2> QED BY <2>3, <2>4
<1> HIDE DEF Gated
<1>4. bad \in SUBSET (0 .. n) /\ 0 \notin bad /\ \A i \in 1 .. n : i \in bad => i - 1 \in bad
  BY <1>1, <1>2, <1>3
<1>5. bad = {}
  <2> HIDE DEF bad
  <2> QED BY <1>1, <1>4, LeastFailure
<1>6. Gated(n)
  BY <1>1, <1>5
<1> QED BY <1>6 DEF Gated

\* A promotion pins nothing new: what its targets hold after it, a staging
\* region held before.
LEMMA PromotionPinsFewer ==
    ASSUME TableInv, NEW repl \in Replacements
    PROVE  PromotedPins(repl) \subseteq pinned
<1> DEFINE targets == {repl[s] : s \in DOMAIN repl}
<1>1. targets \subseteq Regions
  <2>1. PICK S \in SUBSET StagingRegions : repl \in [S -> SavedRegions]
    BY DEF Replacements
  <2> QED BY <2>1 DEF SavedRegions, Regions, PositionRegions
<1>2. Joined(PromotedJoins(repl), Regions) \subseteq Joined(region_tiles, Regions)
  <2> SUFFICES ASSUME NEW k \in Keys, NEW r \in Regions, <<r, k>> \in PromotedJoins(repl)
               PROVE  \E q \in Regions : <<q, k>> \in region_tiles
    BY DEF Joined
  <2>1. CASE <<r, k>> \in region_tiles
    BY <2>1
  <2>2. CASE \E i \in region_tiles : <<r, k>> = <<repl[i[1]], i[2]>>
    <3>1. PICK i \in region_tiles : <<r, k>> = <<repl[i[1]], i[2]>>
      BY <2>2
    <3>2. i = <<i[1], k>> /\ i[1] \in Regions
      BY <3>1 DEF TableInv, TypeOK
    <3> QED BY <3>2
  <2> QED BY <2>1, <2>2 DEF PromotedJoins
<1>3. Joined(PromotedJoins(repl), targets) \subseteq Joined(PromotedJoins(repl), Regions)
  BY <1>1 DEF Joined
<1> QED BY <1>2, <1>3 DEF PromotedPins, TableInv, JoinedIsPinned

\* Only a warm batch and a fresh pin pin new rows.
LEMMA OthersPinFewer ==
    ASSUME TableInv, OtherSection \/ Recreate \/ UNCHANGED cacheVars
    PROVE  pinned' \subseteq pinned
<1>1. CASE \E repl \in Replacements : \E rb, pb, cap : PromoteStagedRegions(repl, rb, pb, cap)
  BY <1>1, PromotionPinsFewer DEF PromoteStagedRegions
<1> QED BY <1>1 DEF OtherSection, Put, Touch, EvictTo, SweepAgedUnpinned, ClearUnpinned, DeleteChunkOf,
            ReadRealRegionPinnedBytes, DeleteRegion, Open, Recreate, cacheVars, tables

\* Both are gated by the cap they are given.
LEMMA PinningGated ==
    ASSUME TableInv, NEW cap \in Int, PinningSection(cap), pinned_bytes' > pinned_bytes
    PROVE  pinned_bytes' <= cap
<1>1. /\ pinned_bytes \in Int /\ tile \in [Keys -> Tiles \cup {NoTile}]
  BY DEF TableInv, TypeOK
<1>2. ASSUME NEW batch \in Seq(BatchRows), NEW region, NEW now, NEW budget,
             PutManyPinned(batch, budget, cap, region, now)
      PROVE  pinned_bytes' <= cap
  <2> DEFINE n == StoredRows(batch, budget, cap, region)
  <2>1. n \in 0 .. Len(batch)
    BY StoredRowsPrefix
  <2>2. pinned_bytes' = pinned_bytes + AddedTo(batch, n, pinned) /\ AddedTo(batch, n, pinned) \in Int
    <3>1. PinnedAdded(batch, n) = AddedTo(batch, n, pinned)
      BY <2>1, RunningSums
    <3>2. PinnedAdded(batch, n) \in Int
      BY <1>1, <2>1, InsertedFacts
    <3> QED BY <1>2, <3>1, <3>2 DEF PutManyPinned
  <2>3. ASSUME NEW i \in 1 .. n, DeltaTo(batch, i, pinned) > 0
        PROVE  pinned_bytes + AddedTo(batch, i, pinned) <= cap
    <3>1. i \in 1 .. Len(batch) /\ PhysicalFits(batch, i, cap)
      BY StoredFit DEF Fits
    <3>2. PinDelta(batch, i) = DeltaTo(batch, i, pinned) /\ PinnedAdded(batch, i) = AddedTo(batch, i, pinned)
      <4>1. i \in 0 .. Len(batch)
        BY <3>1
      <4> QED BY <3>1, <4>1, RunningSums
    <3> QED BY <2>3, <3>1, <3>2 DEF PhysicalFits
  <2> HIDE DEF n
  <2>4. AddedTo(batch, n, pinned) > 0 => pinned_bytes + AddedTo(batch, n, pinned) <= cap
    BY <1>1, <2>1, <2>3, GateHolds
  <2> QED BY <1>1, <2>2, <2>4
<1>3. ASSUME NEW k \in Keys, NEW region, NEW budget, PinIfFreshCapped(k, budget, cap, region)
      PROVE  pinned_bytes' <= cap
  <2>1. BytesColumn(tile)[k] \in Int
    BY <1>1, BytesColumnType
  <2> QED BY <1>1, <1>3, <2>1 DEF PinIfFreshCapped, PinAdmitted
<1> QED BY <1>2, <1>3 DEF PinningSection

(* The physical gate of cache.rs: a warm batch or a fresh pin that makes   *)
(* the pinned set heavier leaves it within the cap, whatever keys the      *)
(* batch repeats and whatever rows it shrinks.                             *)
THEOREM PinsStayWithinCap == Spec => PinGrowthGated
<1>1. TableInv /\ [Next]_cacheVars =>
        [pinned' \ pinned # {} /\ pinned_bytes' > pinned_bytes => pinned_bytes' <= Cap]_cacheVars
  BY NextIsSection, OthersPinFewer, PinningGated, BoundAssumption
<1> QED BY <1>1, TableInvariant, PTL DEF Spec, PinGrowthGated

\* The eviction target is a number no larger than the cap.
LEMMA TargetWithinCap ==
    ASSUME NEW cap \in Int
    PROVE  eviction_target(cap) \in Int /\ eviction_target(cap) <= cap
BY DEF eviction_target, EVICTION_HYSTERESIS_BYTES

\* The make-room pass leaves the total within the cap or nothing to evict.
LEMMA RoomIsMade ==
    ASSUME NEW t \in [Keys -> Tiles \cup {NoTile}], NEW la, NEW p, NEW newTotal \in Int, NEW cap \in Int,
           NEW V \in MakeRoomSets(t, la, p, newTotal, cap)
    PROVE  newTotal - SumBytes(V, BytesColumn(t)) <= cap \/ Unpinned(WithoutRows(t, V), p) = {}
<1>1. V \in SUBSET Keys /\ SumBytes(V, BytesColumn(t)) \in Nat
  <2>1. V \in SUBSET Keys
    BY EvictedUnpinned
  <2> QED BY <2>1, KeySumNat
<1>2. CASE newTotal <= cap
  BY <1>1, <1>2
<1>3. CASE newTotal > cap /\ V = Unpinned(t, p)
  BY <1>3 DEF Unpinned, Rows, WithoutRows
<1>4. CASE newTotal > cap /\ V # Unpinned(t, p)
  <2>1. SumBytes(V, BytesColumn(t)) >= newTotal - eviction_target(cap)
    BY <1>4 DEF MakeRoomSets, EvictionSets
  <2> QED BY <1>1, <2>1, TargetWithinCap
<1> QED BY <1>2, <1>3, <1>4

\* Only a warm batch brings new rows and new pins in one step.
LEMMA SectionMakesRoom ==
    ASSUME TableInv, NEW cap \in Int, OtherSection \/ PinningSection(cap) \/ Recreate \/ UNCHANGED cacheVars,
           Rows(tile') \ Rows(tile) # {}, pinned' # pinned
    PROVE  total_bytes' <= cap \/ Unpinned(tile', pinned') = {}
<1>1. total_bytes \in Int /\ tile \in [Keys -> Tiles \cup {NoTile}]
  BY DEF TableInv, TypeOK
<1>2. ASSUME NEW batch \in Seq(BatchRows), NEW region, NEW budget, NEW now,
             PutManyPinned(batch, budget, cap, region, now)
      PROVE  total_bytes' <= cap \/ Unpinned(tile', pinned') = {}
  <2> DEFINE n == StoredRows(batch, budget, cap, region)
             ks == BatchKeys(batch, n)
             t == Inserted(batch, n)
             la == [k \in Keys |-> IF k \in ks THEN now ELSE last_access[k]]
             newTotal == total_bytes + Added(batch, n)
  <2>1. t \in [Keys -> Tiles \cup {NoTile}] /\ newTotal \in Int
    <3>1. n \in 0 .. Len(batch)
      BY StoredRowsPrefix
    <3> QED BY <1>1, <3>1, InsertedFacts
  <2>2. PICK V \in MakeRoomSets(t, la, pinned \cup ks, newTotal, cap) :
          tile' = WithoutRows(t, V) /\ total_bytes' = newTotal - SumBytes(V, BytesColumn(t))
    BY <1>2 DEF PutManyPinned
  <2>3. pinned' = pinned \cup ks
    BY <1>2 DEF PutManyPinned
  <2> HIDE DEF t, la, newTotal, ks
  <2> QED BY <2>1, <2>2, <2>3, RoomIsMade
<1>3. ASSUME NEW t, NEW V, tile' = WithoutRows(t, V), Rows(t) \subseteq Rows(tile)
      PROVE  FALSE
  BY <1>3 DEF WithoutRows, Rows
<1>4. CASE OtherSection \/ Recreate \/ UNCHANGED cacheVars
  <2>1. \/ tile' = tile \/ tile' = [k \in Keys |-> NoTile] \/ pinned' = pinned
        \/ \E V : tile' = WithoutRows(tile, V)
    BY <1>4 DEF OtherSection, Put, Touch, EvictTo, SweepAgedUnpinned, ClearUnpinned, DeleteChunkOf,
                ReadRealRegionPinnedBytes, DeleteRegion, PromoteStagedRegions, Open, Recreate, cacheVars, tables
  <2>2. CASE tile' = tile \/ tile' = [k \in Keys |-> NoTile]
    BY <2>2 DEF Rows
  <2> QED BY <1>3, <2>1, <2>2
<1>5. CASE \E k \in Keys, region \in Regions \cup {NoRegion} : \E budget : PinIfFreshCapped(k, budget, cap, region)
  BY <1>5 DEF PinIfFreshCapped, Rows
<1> QED BY <1>2, <1>4, <1>5 DEF PinningSection

(* put_many_pinned never leaves the cache over its cap while an unpinned   *)
(* row is left to evict: the make-room pass of its own transaction, which  *)
(* runs after the inserts pinned their rows, frees enough.                 *)
THEOREM WarmsMakeRoom == Spec => WarmMakesRoom
<1>1. TableInv /\ [Next]_cacheVars =>
        [Rows(tile)' \ Rows(tile) # {} /\ pinned' # pinned =>
            total_bytes' <= Cap \/ Unpinned(tile, pinned)' = {}]_cacheVars
  <2> SUFFICES ASSUME TableInv, Next, Rows(tile') \ Rows(tile) # {}, pinned' # pinned
               PROVE  total_bytes' <= Cap \/ Unpinned(tile', pinned') = {}
    BY DEF Rows, Unpinned
  <2>1. Cap \in Int
    BY BoundAssumption
  <2> QED BY <2>1, NextIsSection, SectionMakesRoom
<1> QED BY <1>1, TableInvariant, PTL DEF Spec, WarmMakesRoom

\* The two budget categories; a warm's region is in the one it is gated by.
Categories == {PositionRegions, Regions \ PositionRegions}

LEMMA CategoryFacts ==
    ASSUME NEW cat \in Categories, NEW region \in cat
    PROVE  region # NoRegion /\ CategoryOf(region) = cat /\ BudgetOf(region) = BudgetFor(cat)
<1>1. region \in Regions
  BY DEF Categories, Regions
<1> QED BY <1>1, RegionAssumption DEF Categories, CategoryOf, BudgetOf, BudgetFor

\* What a category is charged is what the gate reads.
LEMMA ChargedIsGated ==
    ASSUME TableInv, NEW cat \in Categories, NEW region \in cat
    PROVE  CategoryBytes(tile, pinned, region_tiles, region) = ChargedTo(cat) /\ ChargedTo(cat) \in Nat
<1>1. Joined(region_tiles, cat) \in SUBSET Keys /\ tile \in [Keys -> Tiles \cup {NoTile}]
  BY DEF Joined, TableInv, TypeOK
<1> QED BY <1>1, CategoryFacts, AbsentWeighNothing, KeySumNat DEF CategoryBytes, CategoryKeys, ChargedTo

\* Rows stored under joins of cat: every growing row passed its gate, and
\* the make-room pass takes none of them.
LEMMA BatchCharged ==
    ASSUME TableInv, NEW batch \in Seq(BatchRows), NEW cat \in Categories, NEW region \in cat, NEW now,
           NEW budget \in Int, NEW cap, PutManyPinned(batch, budget, cap, region, now)
    PROVE  ChargedTo(cat)' > ChargedTo(cat) => ChargedTo(cat)' <= budget
<1> DEFINE n == StoredRows(batch, budget, cap, region)
           ks == BatchKeys(batch, n)
           t == Inserted(batch, n)
           la == [k \in Keys |-> IF k \in ks THEN now ELSE last_access[k]]
           newTotal == total_bytes + Added(batch, n)
           P == Joined(region_tiles, cat)
<1>1. /\ tile \in [Keys -> Tiles \cup {NoTile}] /\ P \in SUBSET Keys /\ P \subseteq pinned
      /\ pinned \subseteq Keys
  <2>1. cat \subseteq Regions
    BY DEF Categories, Regions
  <2>2. P \subseteq Joined(region_tiles, Regions)
    BY <2>1 DEF Joined
  <2>3. P \in SUBSET Keys /\ pinned \subseteq Keys /\ P \subseteq pinned
    BY <2>2 DEF TableInv, TypeOK, JoinedIsPinned, Joined, Rows
  <2> QED BY <2>3 DEF TableInv, TypeOK
<1>2. region # NoRegion /\ CategoryOf(region) = cat
  BY CategoryFacts
<1>3. n \in 0 .. Len(batch)
  BY StoredRowsPrefix
<1>4. ks \subseteq Keys /\ t \in [Keys -> Tiles \cup {NoTile}]
  BY <1>1, <1>3, InsertedFacts
<1>5. PICK V \in MakeRoomSets(t, la, pinned \cup ks, newTotal, cap) : tile' = WithoutRows(t, V)
  BY DEF PutManyPinned
<1>6. Joined(region_tiles', cat) = P \cup ks
  <2>1. region_tiles' = region_tiles \cup ({region} \X ks)
    BY <1>2 DEF PutManyPinned, JoinRows
  <2> HIDE DEF ks
  <2> QED BY <1>4, <2>1 DEF Joined
<1>7. ChargedTo(cat)' = SumBytes(P \cup ks, BytesColumn(tile'))
  BY <1>6 DEF ChargedTo
<1>8. SumBytes(P \cup ks, BytesColumn(t)) = ChargedTo(cat) + AddedTo(batch, n, P)
      /\ AddedTo(batch, n, P) \in Int /\ ChargedTo(cat) \in Nat
  BY <1>1, <1>3, BatchSum, ChargedIsGated DEF ChargedTo
<1>9. ASSUME NEW i \in 1 .. n, DeltaTo(batch, i, P) > 0
      PROVE  ChargedTo(cat) + AddedTo(batch, i, P) <= budget
  <2>1. i \in 1 .. Len(batch) /\ CategoryFits(batch, i, budget, region)
    BY StoredFit DEF Fits
  <2>2. CategoryDelta(batch, i, region) = DeltaTo(batch, i, P) /\ CategoryAdded(batch, i, region) = AddedTo(batch, i, P)
    <3>1. i \in 0 .. Len(batch)
      BY <2>1
    <3> QED BY <1>2, <2>1, <3>1, RunningSums
  <2>3. CategoryBytes(tile, pinned, region_tiles, region) = ChargedTo(cat)
    BY ChargedIsGated
  <2> QED BY <1>2, <1>9, <2>1, <2>2, <2>3 DEF CategoryFits
<1> HIDE DEF n, ks, t, la, newTotal, P
<1>10. V \in SUBSET Rows(t) /\ V \cap (P \cup ks) = {}
  BY <1>1, <1>5, EvictedRows
<1>11. SumBytes(P \cup ks, BytesColumn(tile')) = SumBytes(P \cup ks, BytesColumn(t))
  BY <1>1, <1>4, <1>5, <1>10, RemovedBytes
<1>12. AddedTo(batch, n, P) > 0 => ChargedTo(cat) + AddedTo(batch, n, P) <= budget
  BY <1>1, <1>3, <1>8, <1>9, GateHolds
<1> QED BY <1>7, <1>8, <1>11, <1>12

\* A fresh row pinned under a join of cat.
LEMMA PinCharged ==
    ASSUME TableInv, NEW k \in Keys, NEW cat \in Categories, NEW region \in cat,
           NEW budget \in Int, NEW cap, PinIfFreshCapped(k, budget, cap, region)
    PROVE  ChargedTo(cat)' > ChargedTo(cat) => ChargedTo(cat)' <= budget
<1> DEFINE P == Joined(region_tiles, cat)
           bytes == BytesColumn(tile)[k]
<1>1. region # NoRegion /\ CategoryOf(region) = cat
  BY CategoryFacts
<1>2. bytes \in 0 .. MaxTileBytes /\ bytes \in Nat
  BY BytesColumnType, TileAssumption DEF TableInv, TypeOK
<1>3. P \in SUBSET Keys /\ IsFiniteSet(P)
  <2>1. P \in SUBSET Keys
    BY DEF Joined
  <2> QED BY <2>1, KeySumNat
<1>4. ChargedTo(cat)' = SumBytes(P \cup {k}, BytesColumn(tile))
  <2>1. region_tiles' = region_tiles \cup ({region} \X {k}) /\ tile' = tile
    BY <1>1 DEF PinIfFreshCapped, JoinRows
  <2>2. Joined(region_tiles', cat) = P \cup {k}
    BY <2>1 DEF Joined
  <2> QED BY <2>1, <2>2 DEF ChargedTo
<1>5. ChargedTo(cat) \in Nat /\ ChargedTo(cat) = SumBytes(P, BytesColumn(tile))
      /\ CategoryBytes(tile, pinned, region_tiles, region) = ChargedTo(cat)
  BY ChargedIsGated DEF ChargedTo
<1>6. k \in P \/ bytes = 0 \/ ChargedTo(cat) + bytes <= budget
  BY <1>1, <1>5 DEF PinIfFreshCapped, PinAdmitted, InCategory
<1> HIDE DEF P
<1>7. CASE k \in P
  <2>1. P \cup {k} = P
    BY <1>7
  <2>2. ChargedTo(cat)' = ChargedTo(cat)
    BY <1>4, <1>5, <2>1
  <2> QED BY <1>5, <2>2
<1>8. CASE k \notin P
  <2>1. SumBytes(P \cup {k}, BytesColumn(tile)) = SumBytes(P, BytesColumn(tile)) + bytes
    BY <1>2, <1>3, <1>8, SumWith
  <2>2. ChargedTo(cat)' = ChargedTo(cat) + bytes
    BY <1>4, <1>5, <2>1
  <2> QED BY <1>2, <1>5, <1>6, <1>8, <2>2
<1> QED BY <1>7, <1>8

\* A promotion commits only when both categories fit.
LEMMA PromotionCharged ==
    ASSUME TableInv, NEW repl, NEW rb, NEW pb, NEW cap, PromoteStagedRegions(repl, rb, pb, cap),
           NEW cat \in Categories
    PROVE  ChargedTo(cat)' <= IF cat = PositionRegions THEN pb ELSE rb
<1> DEFINE P == Joined(PromotedJoins(repl), cat)
<1>1. ChargedTo(cat)' = SumBytes(P, BytesColumn(tile))
  BY DEF ChargedTo, PromoteStagedRegions
<1>2. SumBytes(P \cap Rows(tile), BytesColumn(tile)) <= IF cat = PositionRegions THEN pb ELSE rb
  <2>1. PositionRegions # Regions \ PositionRegions
    BY DEF PositionRegions
  <2> QED BY <2>1 DEF PromoteStagedRegions, PromotionFits, Categories
<1>3. P \in SUBSET Keys /\ tile \in [Keys -> Tiles \cup {NoTile}]
  BY DEF Joined, TableInv, TypeOK
<1> HIDE DEF P
<1>4. SumBytes(P \cap Rows(tile), BytesColumn(tile)) = SumBytes(P, BytesColumn(tile))
  BY <1>3, AbsentWeighNothing
<1> QED BY <1>1, <1>2, <1>4

LEMMA NextCategoriesGated ==
    ASSUME TableInv, Next, NEW cat \in Categories,
           \E j \in region_tiles' \ region_tiles : j[1] \in cat,
           ChargedTo(cat)' > ChargedTo(cat)
    PROVE  ChargedTo(cat)' <= BudgetFor(cat)
<1>1. ASSUME NEW region, NEW ks, region_tiles' = region_tiles \cup JoinRows(region, ks)
      PROVE  region \in cat
  BY <1>1 DEF JoinRows
<1>2. LiveNext => region_tiles' = region_tiles
  BY DEF LiveNext, Put, Touch, EvictTo, SweepAgedUnpinned, ClearUnpinned, DeleteChunkOf,
         ReadRealRegionPinnedBytes, tables
<1>3. ProcessNext \/ (\E region \in Regions : DeleteRegion(region)) => region_tiles' \subseteq region_tiles
  BY DEF ProcessNext, Open, Recreate, DeleteRegion
<1>4. \A region \in cat : BudgetOf(region) = BudgetFor(cat) /\ BudgetFor(cat) \in Int
  BY CategoryFacts, BoundAssumption DEF BudgetFor
<1>5. CASE \E batch \in Batches, region \in WarmRegions, now \in Times :
             PutManyPinned(batch, BudgetOf(region), Cap, region, now)
  <2>1. PICK batch \in Batches, region \in WarmRegions, now \in Times :
          PutManyPinned(batch, BudgetOf(region), Cap, region, now)
    BY <1>5
  <2>2. region \in cat
    BY <1>1, <2>1 DEF PutManyPinned
  <2> QED BY <1>4, <2>1, <2>2, BatchesAreRows, BatchCharged
<1>6. CASE \E k \in Keys, region \in WarmRegions : PinIfFreshCapped(k, BudgetOf(region), Cap, region)
  <2>1. PICK k \in Keys, region \in WarmRegions : PinIfFreshCapped(k, BudgetOf(region), Cap, region)
    BY <1>6
  <2>2. region \in cat
    BY <1>1, <2>1 DEF PinIfFreshCapped
  <2> QED BY <1>4, <2>1, <2>2, PinCharged
<1>7. CASE \E repl \in Replacements : PromoteStagedRegions(repl, RealBudget, PositionBudget, Cap)
  BY <1>7, PromotionCharged DEF BudgetFor
<1> QED BY <1>2, <1>3, <1>5, <1>6, <1>7 DEF Next, WarmNext

(* The category gates of cache.rs: a warm batch, a fresh pin or a          *)
(* promotion that adds joins of a category and makes it heavier leaves it  *)
(* within its budget, and neither category's budget is spent by the other. *)
THEOREM CategoriesStayWithinBudget == Spec => CategoryGrowthGated
<1>1. TableInv /\ [Next]_cacheVars =>
        [\A cat \in {PositionRegions, Regions \ PositionRegions} :
            /\ \E j \in region_tiles' \ region_tiles : j[1] \in cat
            /\ ChargedTo(cat)' > ChargedTo(cat)
            => ChargedTo(cat)' <= BudgetFor(cat)]_cacheVars
  BY NextCategoriesGated DEF Categories
<1> QED BY <1>1, TableInvariant, PTL DEF Spec, CategoryGrowthGated

=============================================================================

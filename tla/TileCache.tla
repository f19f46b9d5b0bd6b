----------------------------- MODULE TileCache -----------------------------
(***************************************************************************)
(* The disk tile cache of the container (container/tilecache/src/cache.rs).*)
(*                                                                         *)
(* SQLite holds two tables.  `tiles` has one row per key (source, z, x, y);*)
(* its columns are the functions `tile` (content, NoTile when there is no  *)
(* row) and `last_access` and the set `pinned`.  `region_tiles` is the     *)
(* reference-counting join: a set of <<region id, key>> pairs.  Beside the *)
(* database the process keeps two running totals and a memoized sum under  *)
(* one mutex; those are what every budget decision reads, and they are     *)
(* updated by deltas, so the point of this module is that the deltas and   *)
(* the tables never part.                                                  *)
(*                                                                         *)
(* One action is one critical section of that mutex.  A write that meets   *)
(* a full disk rolls back and reports Degraded or DISK_PRESSURE, which is a*)
(* stuttering step.  Row ids only break ties between rows of one           *)
(* last_access; the model leaves the tie open.                             *)
(***************************************************************************)
EXTENDS Integers, Sequences, FiniteSets

CONSTANTS
    Keys,             \* (source, z, x, y) of a tile, glyph range or sprite
    Tiles,            \* contents a row can hold: records with a field bytes
    NoTile,           \* no row under this key
    RealRegions,      \* saved regions and the basemap asset set
    BasemapAssets,    \* BASEMAP_ASSETS_REGION_ID, one of them
    PositionWarm,     \* POSITION_WARM_REGION_ID
    RealStaging,      \* __warm_staging__<job> and __warm_staging__assets-<job>
    PositionStaging,  \* __warm_staging__position-<job>
    NoRegion,         \* region_id = None
    Dirty,            \* the memo while regions_dirty is set
    MaxTileBytes,     \* Knobs::max_blob_bytes: no stored row is larger
    Times,            \* clock readings, in seconds
    Batches,          \* the batches a warm may hand to put_many_pinned
    DeleteChunk,      \* DELETE_CHUNK
    Cap,              \* live cap, and the two category budgets under it
    RealBudget,
    PositionBudget

PositionRegions == {PositionWarm} \cup PositionStaging
SavedRegions == RealRegions \cup {PositionWarm}
StagingRegions == RealStaging \cup PositionStaging
Regions == RealRegions \cup RealStaging \cup PositionRegions

ASSUME TileAssumption ==
    /\ IsFiniteSet(Keys)
    /\ MaxTileBytes \in Nat
    /\ \A t \in Tiles : t.bytes \in 0 .. MaxTileBytes
    /\ NoTile \notin Tiles

ASSUME RegionAssumption ==
    /\ NoRegion \notin Regions
    /\ BasemapAssets \in RealRegions
    /\ RealRegions \cap (StagingRegions \cup PositionRegions) = {}
    /\ RealStaging \cap PositionRegions = {}
    /\ PositionWarm \notin PositionStaging

ASSUME BoundAssumption ==
    /\ Times \subseteq Nat /\ 0 \in Times
    /\ Batches \subseteq Seq([key : Keys, tile : Tiles])
    /\ DeleteChunk \in Nat \ {0}
    /\ Cap \in Nat /\ RealBudget \in Nat /\ PositionBudget \in Nat
    /\ Dirty \notin Int

VARIABLES
    tile,               \* tiles: content by key, NoTile when absent
    last_access,        \* tiles.last_access
    pinned,             \* keys whose row has pinned = 1
    region_tiles,       \* the join table
    total_bytes,        \* Inner.total_bytes
    pinned_bytes,       \* Inner.pinned_bytes
    real_region_cache   \* Inner.real_region_cache, Dirty while regions_dirty

tables == <<tile, last_access, pinned, region_tiles>>
counters == <<total_bytes, pinned_bytes, real_region_cache>>
cacheVars == <<tables, counters>>

-----------------------------------------------------------------------------
(* Sums, row sets and categories                                           *)

(***************************************************************************)
(* SUM(f[e]) over a finite set S of a function with values in              *)
(* 0 .. MaxTileBytes, as the number of byte units it holds: no recursion,  *)
(* so the theorems on cardinalities apply to it.                           *)
(***************************************************************************)
SumBytes(S, f) == Cardinality({u \in S \X (1 .. MaxTileBytes) : u[2] <= f[u[1]]})

\* The bytes column of tables with content t; an absent row weighs nothing.
BytesColumn(t) == [k \in Keys |-> IF t[k] = NoTile THEN 0 ELSE t[k].bytes]

Rows(t) == {k \in Keys : t[k] # NoTile}

Unpinned(t, p) == Rows(t) \ p

\* The keys joined to one of the regions rs.
Joined(rt, rs) == {k \in Keys : \E r \in rs : <<r, k>> \in rt}

\* The two budget categories: position warm with its staging, and the rest.
CategoryOf(region) ==
    IF region \in PositionRegions THEN PositionRegions ELSE Regions \ PositionRegions

\* key_in_category: membership by a join of the category, or any pin when
\* the warm names no region.
InCategory(k, region) ==
    IF region = NoRegion
    THEN k \in pinned
    ELSE k \in Joined(region_tiles, CategoryOf(region))

\* category_bytes: each key of the category once, whatever joins it.
CategoryKeys(t, p, rt, region) ==
    IF region = NoRegion THEN p ELSE Joined(rt, CategoryOf(region)) \cap Rows(t)

CategoryBytes(t, p, rt, region) ==
    SumBytes(CategoryKeys(t, p, rt, region), BytesColumn(t))

\* The sum real_region_pinned_bytes computes when the memo is dirty.
RealRegionPinnedBytes(t, p, rt) ==
    SumBytes(p \cap Joined(rt, Regions \ PositionRegions), BytesColumn(t))

-----------------------------------------------------------------------------
(* Eviction                                                                *)

\* One percent of a cap of at least 128 MiB is below the resolution of the
\* small instances: their cap keeps the exact target, the code's other branch.
EVICTION_HYSTERESIS_BYTES == 64 * 1024 * 1024

eviction_target(cap) ==
    IF cap >= 2 * EVICTION_HYSTERESIS_BYTES
    THEN cap - (IF EVICTION_HYSTERESIS_BYTES <= cap \div 100
                THEN EVICTION_HYSTERESIS_BYTES ELSE cap \div 100)
    ELSE cap

(***************************************************************************)
(* What the windowed DELETE of evict_unpinned_within may remove: the       *)
(* unpinned rows, oldest first, whose running prior is under toFree.       *)
(***************************************************************************)
EvictionSets(t, la, p, toFree) ==
    LET scroll == Unpinned(t, p)
        weight == BytesColumn(t)
    IN  {V \in SUBSET scroll :
            /\ \A v \in V, w \in scroll \ V : la[v] <= la[w]
            /\ V # scroll => SumBytes(V, weight) >= toFree
            /\ V # {} => \E last \in V :
                            /\ \A v \in V : la[v] <= la[last]
                            /\ SumBytes(V \ {last}, weight) < toFree}

\* The tables with the rows of V gone.
WithoutRows(t, V) == [k \in Keys |-> IF k \in V THEN NoTile ELSE t[k]]
WithoutAccess(la, V) == [k \in Keys |-> IF k \in V THEN 0 ELSE la[k]]

\* evict_to: nothing below the cap; else the oldest unpinned rows go until
\* the total reaches the target or only pinned rows are left.
EvictTo(cap) ==
    /\ total_bytes > cap
    /\ \E V \in EvictionSets(tile, last_access, pinned, total_bytes - eviction_target(cap)) :
        /\ tile' = WithoutRows(tile, V)
        /\ last_access' = WithoutAccess(last_access, V)
        /\ total_bytes' = total_bytes - SumBytes(V, BytesColumn(tile))
    /\ UNCHANGED <<pinned, region_tiles, pinned_bytes, real_region_cache>>

(***************************************************************************)
(* One chunk of the age sweep and of the cache clear.  The mutex is        *)
(* released between chunks, so any other action may come between two.      *)
(***************************************************************************)
AgedChunks(cutoff) ==
    LET aged == {k \in Unpinned(tile, pinned) : last_access[k] < cutoff}
    IN  {V \in SUBSET aged :
            /\ Cardinality(V) = IF Cardinality(aged) < DeleteChunk
                                THEN Cardinality(aged) ELSE DeleteChunk
            /\ \A v \in V, w \in aged \ V : last_access[v] <= last_access[w]}

ScrollChunks ==
    LET scroll == Unpinned(tile, pinned)
    IN  {V \in SUBSET scroll :
            Cardinality(V) = IF Cardinality(scroll) < DeleteChunk
                             THEN Cardinality(scroll) ELSE DeleteChunk}

DeleteChunkOf(V) ==
    /\ V # {}
    /\ tile' = WithoutRows(tile, V)
    /\ last_access' = WithoutAccess(last_access, V)
    /\ total_bytes' = total_bytes - SumBytes(V, BytesColumn(tile))
    /\ UNCHANGED <<pinned, region_tiles, pinned_bytes, real_region_cache>>

SweepAgedUnpinned(cutoff) == \E V \in AgedChunks(cutoff) : DeleteChunkOf(V)

ClearUnpinned == \E V \in ScrollChunks : DeleteChunkOf(V)

-----------------------------------------------------------------------------
(* Live reads and writes                                                   *)

\* put with pinned = false, as every caller passes it: the row keeps a pin
\* it already has, and the live path is not gated on any budget.
Put(k, t, now) ==
    LET oldBytes == BytesColumn(tile)[k]
        effectivePinned == k \in pinned
    IN  /\ tile' = [tile EXCEPT ![k] = t]
        /\ last_access' = [last_access EXCEPT ![k] = now]
        /\ total_bytes' = total_bytes + t.bytes - oldBytes
        /\ pinned_bytes' = IF effectivePinned
                           THEN pinned_bytes + t.bytes - oldBytes ELSE pinned_bytes
        /\ real_region_cache' = IF effectivePinned THEN Dirty ELSE real_region_cache
        /\ UNCHANGED <<pinned, region_tiles>>

Touch(k, now) ==
    /\ tile[k] # NoTile
    /\ now > last_access[k]
    /\ last_access' = [last_access EXCEPT ![k] = now]
    /\ UNCHANGED <<tile, pinned, region_tiles, counters>>

\* /cache/stats reads the real-region sum and leaves it memoized.
ReadRealRegionPinnedBytes ==
    /\ real_region_cache = Dirty
    /\ real_region_cache' = RealRegionPinnedBytes(tile, pinned, region_tiles)
    /\ UNCHANGED <<tables, total_bytes, pinned_bytes>>

-----------------------------------------------------------------------------
(* Warm writes                                                             *)

(***************************************************************************)
(* The transaction of put_many_pinned.  Row i sees the rows before it, so  *)
(* a key that comes twice in a batch (two overlapping boxes) is weighed    *)
(* against its earlier row.  A row is inserted when it passes both gates;  *)
(* the first that does not ends the batch with capped = true.              *)
(***************************************************************************)
RepeatOf(batch, i) == {j \in 1 .. i - 1 : batch[j].key = batch[i].key}

\* Mutant: the previous row read outside the transaction.
OldBytes_Outside(batch, i) == BytesColumn(tile)[batch[i].key]

OldBytes(batch, i) ==
    IF RepeatOf(batch, i) = {}
    THEN BytesColumn(tile)[batch[i].key]
    ELSE batch[CHOOSE j \in RepeatOf(batch, i) : \A m \in RepeatOf(batch, i) : m <= j].tile.bytes

WasPinned(batch, i) == batch[i].key \in pinned \/ RepeatOf(batch, i) # {}

WasInCategory(batch, i, region) == InCategory(batch[i].key, region) \/ RepeatOf(batch, i) # {}

PinDelta(batch, i) ==
    batch[i].tile.bytes - (IF WasPinned(batch, i) THEN OldBytes(batch, i) ELSE 0)

CategoryDelta(batch, i, region) ==
    batch[i].tile.bytes - (IF WasInCategory(batch, i, region) THEN OldBytes(batch, i) ELSE 0)

\* The running sums of these deltas after n rows, each as the new bytes less
\* the old bytes the deltas take off.
NewBytesUpTo(batch, n) == SumBytes(1 .. n, [i \in 1 .. n |-> batch[i].tile.bytes])

OldBytesOf(batch, rows) == SumBytes(rows, [i \in rows |-> OldBytes(batch, i)])

Added(batch, n) == NewBytesUpTo(batch, n) - OldBytesOf(batch, 1 .. n)

PinnedAdded(batch, n) ==
    NewBytesUpTo(batch, n) - OldBytesOf(batch, {i \in 1 .. n : WasPinned(batch, i)})

CategoryAdded(batch, n, region) ==
    NewBytesUpTo(batch, n) - OldBytesOf(batch, {i \in 1 .. n : WasInCategory(batch, i, region)})

\* Mutant: a gate that weighs the row alone, not the rows before it.
PhysicalFits_RowAlone(batch, i, cap) ==
    PinDelta(batch, i) > 0 => pinned_bytes + PinDelta(batch, i) <= cap

\* Mutant: a row some other category pinned is taken to be in this one.
CategoryFits_AnyPin(batch, i, budget, region) ==
    PinDelta(batch, i) > 0 =>
        CategoryBytes(tile, pinned, region_tiles, region) + PinnedAdded(batch, i) <= budget

\* The physical gate and the category gate of row i, the rows before it stored.
PhysicalFits(batch, i, cap) ==
    PinDelta(batch, i) > 0 => pinned_bytes + PinnedAdded(batch, i) <= cap

CategoryFits(batch, i, budget, region) ==
    CategoryDelta(batch, i, region) > 0 =>
        CategoryBytes(tile, pinned, region_tiles, region) + CategoryAdded(batch, i, region) <= budget

Fits(batch, i, budget, cap, region) ==
    PhysicalFits(batch, i, cap) /\ CategoryFits(batch, i, budget, region)

\* PutManyOutcome.stored: the rows before the first that does not fit.
StoredRows(batch, budget, cap, region) ==
    LET refused == {i \in 1 .. Len(batch) : ~Fits(batch, i, budget, cap, region)}
    IN  IF refused = {} THEN Len(batch)
        ELSE (CHOOSE i \in refused : \A j \in refused : i <= j) - 1

BatchKeys(batch, n) == {batch[i].key : i \in 1 .. n}

\* INSERT OR REPLACE of the first n rows: the last row of a key wins.
Inserted(batch, n) ==
    [k \in Keys |-> IF k \in BatchKeys(batch, n)
                    THEN batch[CHOOSE i \in 1 .. n :
                                 /\ batch[i].key = k
                                 /\ \A j \in 1 .. n : batch[j].key = k => j <= i].tile
                    ELSE tile[k]]

JoinRows(region, ks) == IF region = NoRegion THEN {} ELSE {region} \X ks

\* Mutant: an off-by-one in the test that starts the make-room pass.
MakeRoomSets_OffByOne(t, la, p, newTotal, cap) ==
    IF newTotal > cap + 1 THEN EvictionSets(t, la, p, newTotal - eviction_target(cap)) ELSE {{}}

\* What the make-room pass of the same transaction removes, after the
\* inserts pinned their rows.
MakeRoomSets(t, la, p, newTotal, cap) ==
    IF newTotal > cap THEN EvictionSets(t, la, p, newTotal - eviction_target(cap)) ELSE {{}}

PutManyPinned(batch, budget, cap, region, now) ==
    LET n == StoredRows(batch, budget, cap, region)
        ks == BatchKeys(batch, n)
        t == Inserted(batch, n)
        la == [k \in Keys |-> IF k \in ks THEN now ELSE last_access[k]]
        newTotal == total_bytes + Added(batch, n)
    IN  /\ pinned' = pinned \cup ks
        /\ region_tiles' = region_tiles \cup JoinRows(region, ks)
        /\ \E V \in MakeRoomSets(t, la, pinned \cup ks, newTotal, cap) :
            /\ tile' = WithoutRows(t, V)
            /\ last_access' = WithoutAccess(la, V)
            /\ total_bytes' = newTotal - SumBytes(V, BytesColumn(t))
        /\ pinned_bytes' = pinned_bytes + PinnedAdded(batch, n)
        /\ real_region_cache' = Dirty

(***************************************************************************)
(* pin_if_fresh_capped on a fresh (or negative and in its TTL) row that    *)
(* both gates admit, then pin_locked.  Age is left open: any row may be    *)
(* fresh.  A missing, stale or capped row changes nothing.                 *)
(***************************************************************************)
PinAdmitted(k, categoryBudget, physicalBudget, region) ==
    LET bytes == BytesColumn(tile)[k]
    IN  /\ \/ InCategory(k, region) \/ bytes = 0
           \/ CategoryBytes(tile, pinned, region_tiles, region) + bytes <= categoryBudget
        /\ \/ k \in pinned \/ bytes = 0
           \/ pinned_bytes + bytes <= physicalBudget

PinIfFreshCapped(k, categoryBudget, physicalBudget, region) ==
    /\ tile[k] # NoTile
    /\ PinAdmitted(k, categoryBudget, physicalBudget, region)
    /\ pinned' = pinned \cup {k}
    /\ region_tiles' = region_tiles \cup JoinRows(region, {k})
    /\ pinned_bytes' = IF k \in pinned THEN pinned_bytes
                       ELSE pinned_bytes + BytesColumn(tile)[k]
    /\ real_region_cache' = Dirty
    /\ UNCHANGED <<tile, last_access, total_bytes>>

-----------------------------------------------------------------------------
(* Regions                                                                 *)

\* Mutant: every tile of the region is unpinned, shared or not.
DeleteRegion_UnpinsShared(region) ==
    LET p == pinned \ Joined(region_tiles, {region})
    IN  /\ region_tiles' = {j \in region_tiles : j[1] # region}
        /\ pinned' = p
        /\ pinned_bytes' = SumBytes(p, BytesColumn(tile))
        /\ real_region_cache' = Dirty
        /\ UNCHANGED <<tile, last_access, total_bytes>>

\* delete_region: the joins go, and every pin no join holds is cleared,
\* those of region-less warms included; the rows stay as scroll cache.
DeleteRegion(region) ==
    LET rt == {j \in region_tiles : j[1] # region}
        p == pinned \cap Joined(rt, Regions)
    IN  /\ region_tiles' = rt
        /\ pinned' = p
        /\ pinned_bytes' = SumBytes(p, BytesColumn(tile))
        /\ real_region_cache' = Dirty
        /\ UNCHANGED <<tile, last_access, total_bytes>>

(***************************************************************************)
(* promote_staged_regions for replacements repl, a function from staging   *)
(* ids to distinct targets: the targets lose their joins, the staging joins*)
(* take the target's name, and a row only the old targets held is demoted. *)
(***************************************************************************)
PromotedJoins(repl) ==
    LET targets == {repl[s] : s \in DOMAIN repl}
    IN  {j \in region_tiles : j[1] \notin targets \cup DOMAIN repl}
        \cup {<<repl[j[1]], j[2]>> : j \in {i \in region_tiles : i[1] \in DOMAIN repl}}

\* Mutant: the old target's rows are demoted and never pinned again.
PromotedPins_NoReassert(repl) ==
    pinned \ Joined(region_tiles, {repl[s] : s \in DOMAIN repl})

PromotedPins(repl) ==
    LET targets == {repl[s] : s \in DOMAIN repl}
        rt == PromotedJoins(repl)
    IN  (pinned \ (Joined(region_tiles, targets) \ Joined(rt, Regions)))
        \cup (Joined(rt, targets) \cap Rows(tile))

\* The validation that lets the transaction commit; without it, it rolls back.
PromotionFits(repl, realBudget, positionBudget, cap) ==
    LET p == PromotedPins(repl)
        rt == PromotedJoins(repl)
    IN  /\ SumBytes(p, BytesColumn(tile)) <= cap
        /\ SumBytes(Joined(rt, Regions \ PositionRegions) \cap Rows(tile), BytesColumn(tile)) <= realBudget
        /\ SumBytes(Joined(rt, PositionRegions) \cap Rows(tile), BytesColumn(tile)) <= positionBudget

PromoteStagedRegions(repl, realBudget, positionBudget, cap) ==
    /\ PromotionFits(repl, realBudget, positionBudget, cap)
    /\ region_tiles' = PromotedJoins(repl)
    /\ pinned' = PromotedPins(repl)
    /\ pinned_bytes' = SumBytes(PromotedPins(repl), BytesColumn(tile))
    /\ real_region_cache' = Dirty
    /\ UNCHANGED <<tile, last_access, total_bytes>>

-----------------------------------------------------------------------------
(* Opening the database                                                    *)

(***************************************************************************)
(* A process start: whatever an earlier process left staged is dropped,    *)
(* unless the one-time VACUUM was deferred for lack of space; the totals   *)
(* are read back from the tables; main then evicts to the cap.             *)
(***************************************************************************)
Open(cleanup, cap) ==
    LET rt == IF cleanup THEN {j \in region_tiles : j[1] \notin StagingRegions} ELSE region_tiles
        p == IF cleanup THEN pinned \cap Joined(rt, Regions) ELSE pinned
        total == SumBytes(Rows(tile), BytesColumn(tile))
    IN  /\ region_tiles' = rt
        /\ pinned' = p
        /\ pinned_bytes' = SumBytes(p, BytesColumn(tile))
        /\ real_region_cache' = Dirty
        /\ \E V \in MakeRoomSets(tile, last_access, p, total, cap) :
            /\ tile' = WithoutRows(tile, V)
            /\ last_access' = WithoutAccess(last_access, V)
            /\ total_bytes' = total - SumBytes(V, BytesColumn(tile))

EmptyCache ==
    /\ tile = [k \in Keys |-> NoTile]
    /\ last_access = [k \in Keys |-> 0]
    /\ pinned = {}
    /\ region_tiles = {}
    /\ total_bytes = 0
    /\ pinned_bytes = 0
    /\ real_region_cache = Dirty

\* open_or_recreate on a corrupt database: the file goes, a new one is opened.
Recreate ==
    /\ tile' = [k \in Keys |-> NoTile]
    /\ last_access' = [k \in Keys |-> 0]
    /\ pinned' = {}
    /\ region_tiles' = {}
    /\ total_bytes' = 0
    /\ pinned_bytes' = 0
    /\ real_region_cache' = Dirty

-----------------------------------------------------------------------------
(* The cache under every caller                                            *)

\* A warm names its job's staging region, or none; run() hands the budget of
\* the category the region is in.
WarmRegions == StagingRegions \cup {NoRegion}

BudgetOf(region) == IF region \in PositionRegions THEN PositionBudget ELSE RealBudget

\* The replacements run() builds: the job's staging set onto its target and,
\* for a vector basemap, the staged assets onto the asset set.
Replacements ==
    {r \in UNION {[S -> SavedRegions] : S \in SUBSET StagingRegions} :
        /\ DOMAIN r # {}
        /\ \A s \in DOMAIN r : s \in PositionStaging <=> r[s] = PositionWarm
        /\ \A s, u \in DOMAIN r : s # u => r[s] # r[u] /\ BasemapAssets \in {r[s], r[u]}}

Init == EmptyCache

LiveNext ==
    \/ \E k \in Keys, t \in Tiles, now \in Times : Put(k, t, now)
    \/ \E k \in Keys, now \in Times : Touch(k, now)
    \/ EvictTo(Cap)
    \/ \E cutoff \in Times : SweepAgedUnpinned(cutoff)
    \/ ClearUnpinned
    \/ ReadRealRegionPinnedBytes

WarmNext ==
    \/ \E batch \in Batches, region \in WarmRegions, now \in Times :
            PutManyPinned(batch, BudgetOf(region), Cap, region, now)
    \/ \E k \in Keys, region \in WarmRegions :
            PinIfFreshCapped(k, BudgetOf(region), Cap, region)
    \/ \E region \in Regions : DeleteRegion(region)
    \/ \E repl \in Replacements : PromoteStagedRegions(repl, RealBudget, PositionBudget, Cap)

ProcessNext ==
    \/ \E cleanup \in BOOLEAN : Open(cleanup, Cap)
    \/ Recreate

Next == LiveNext \/ WarmNext \/ ProcessNext

Spec == Init /\ [][Next]_cacheVars

-----------------------------------------------------------------------------
(* Properties                                                              *)

\* Every variable of the tables and counters keeps its type; in particular
\* a row without content has neither a pin nor an access time.
TypeOK ==
    /\ tile \in [Keys -> Tiles \cup {NoTile}]
    /\ last_access \in [Keys -> Times]
    /\ pinned \subseteq Rows(tile)
    /\ region_tiles \subseteq Regions \X Keys
    /\ total_bytes \in Int
    /\ pinned_bytes \in Int
    /\ real_region_cache \in Int \cup {Dirty}

(***************************************************************************)
(* A tile that any region, staged or saved, still references is a pinned   *)
(* row.  sweep_aged_unpinned and clear_unpinned delete unpinned rows       *)
(* without looking at region_tiles and rely on this to orphan no join; the *)
(* offline guarantee of a saved region is this and SavedTilesSurvive.      *)
(***************************************************************************)
JoinedIsPinned == Joined(region_tiles, Regions) \subseteq pinned

\* The running totals equal the sums over the table after any interleaving
\* of delta updates: put, put_many_pinned with repeated keys, pin_locked,
\* evictions, chunked deletes and recomputations.  The memo /cache/stats
\* serves is never stale: while regions_dirty is clear it equals the sum it
\* stands for, whatever ran since it was taken.
AccountingExact ==
    /\ total_bytes = SumBytes(Rows(tile), BytesColumn(tile))
    /\ pinned_bytes = SumBytes(pinned, BytesColumn(tile))
    /\ real_region_cache # Dirty =>
          real_region_cache = RealRegionPinnedBytes(tile, pinned, region_tiles)

\* No eviction, sweep, clear, warm, failed download, promotion or restart
\* deletes a row that a saved region references; only the recreation of a
\* corrupt database does.
SavedTilesSurvive ==
    [][Recreate \/ \A k \in Joined(region_tiles, SavedRegions) : tile'[k] # NoTile]_cacheVars

\* A step that pins more keys (a warm batch or a fresh pin) and makes the
\* pinned set heavier leaves it within the cap: a repeated key, a shrinking
\* row or an already pinned one never carries a batch past the gate.
PinGrowthGated ==
    [][pinned' \ pinned # {} /\ pinned_bytes' > pinned_bytes => pinned_bytes' <= Cap]_cacheVars

\* A warm batch that brings new rows leaves the total within the cap, or
\* nothing unpinned to evict: put_many_pinned's make-room pass, run after
\* the inserts, frees what the batch added and not a row less.
WarmMakesRoom ==
    [][Rows(tile)' \ Rows(tile) # {} /\ pinned' # pinned =>
          total_bytes' <= Cap \/ Unpinned(tile, pinned)' = {}]_cacheVars

\* The bytes charged to the category whose regions are cat, and its budget.
ChargedTo(cat) == SumBytes(Joined(region_tiles, cat), BytesColumn(tile))
BudgetFor(cat) == IF cat = PositionRegions THEN PositionBudget ELSE RealBudget

\* A step that adds join rows of a category and makes it heavier leaves that
\* category within its budget.
CategoryGrowthGated ==
    [][\A cat \in {PositionRegions, Regions \ PositionRegions} :
          /\ \E j \in region_tiles' \ region_tiles : j[1] \in cat
          /\ ChargedTo(cat)' > ChargedTo(cat)
          => ChargedTo(cat)' <= BudgetFor(cat)]_cacheVars
=============================================================================

---------------------------- MODULE SavedHistory ----------------------------
(***************************************************************************)
(* WarmEngine with one history variable: what each saved region got from   *)
(* its last promotion.  The container keeps no such record (the plugin's   *)
(* regions.json holds the sources of a region); the variable lets a        *)
(* property speak of what the owner was promised.                          *)
(***************************************************************************)
EXTENDS WarmEngine

VARIABLE saved    \* saved region -> its basemap styles and its usable tiles

Nothing == [styles |-> {}, usable |-> {}]

\* The job whose promotion this step is, for region r.
Promoting(r) ==
    {j \in Jobs : job[j].pc = "lock" /\ job'[j].pc = "finish" /\ job[j].target = r}

\* A region is recorded by its promotion and forgotten by its delete.
Recorded(r) ==
    CASE Promoting(r) # {} ->
            [styles |-> UNION {job[j].styles : j \in Promoting(r)},
             usable |-> {k \in UNION {job[j].kept : j \in Promoting(r)} : tile[k] \in GoodTiles}]
      [] Promoting(r) = {} /\ delete.pc = "delete" /\ delete.region = r -> Nothing
      [] OTHER -> saved[r]

HistoryInit == WarmInit /\ saved = [r \in SavedRegions |-> Nothing]

HistoryNext ==
    /\ WarmEngineNext
    /\ saved' = [r \in SavedRegions |-> Recorded(r)]

HistorySpec == HistoryInit /\ [][HistoryNext]_<<vars, saved>>

-----------------------------------------------------------------------------

\* README.md: "A region that includes a vector basemap also stores its glyphs
\* and sprites, so the basemap renders offline."  The assets of every saved
\* region's basemaps stay pinned; the promotion of another region's assets,
\* which replaces the one global asset set, must not unpin them.
BasemapsRenderOffline ==
    \A r \in SavedRegions : \A s \in saved[r].styles : AssetKeys[s] \subseteq pinned

\* docs/OPERATIONS.md: "Rejected, capped, cancelled, or failed replacements
\* therefore preserve the previous usable pins."  When no job works on a
\* region, the tiles that its last promotion left usable still are.
UsablePinsPreserved ==
    \A r \in SavedRegions :
        r \notin active_warm_regions => \A k \in saved[r].usable : tile[k] \in GoodTiles
=============================================================================

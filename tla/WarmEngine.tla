----------------------------- MODULE WarmEngine -----------------------------
(***************************************************************************)
(* The warm engine of the container (container/tilecache/src/warm.rs) with *)
(* what runs beside it on the same cache: the config route, the region     *)
(* delete route (routes.rs), the live stores of the tile proxy (fetcher.rs)*)
(* and process restarts (main.rs).                                         *)
(*                                                                         *)
(* A warm job downloads the tiles of a saved region into a staging region, *)
(* then the assets of its vector basemaps into another, and promotes both  *)
(* over their targets in one transaction.  Tasks fetch concurrently, the   *)
(* driver collects their results into batches, and everything a job does   *)
(* interleaves with the other job, a config push, a delete and live        *)
(* traffic.  The cache is the module TileCache; its actions are called here*)
(* with the cap and the budgets the caller loaded, which a push may have   *)
(* replaced before the call reaches the cache.                             *)
(***************************************************************************)
EXTENDS TileCache

CONSTANTS
    Jobs,            \* slots for concurrently known jobs
    NoJob,
    Targets,         \* region ids (or NoRegion) a /warm request may name
    Requests,        \* key sets a request may expand to
    Styles,          \* vector basemaps
    AssetKeys,       \* style -> keys of its glyph ranges and sprites
    StyleRequests,   \* the sets of styles a request may select
    GoodTiles,       \* contents of a 200 answer; the rest of Tiles are negative rows
    WarmBatch,       \* WARM_BATCH
    WarmConcurrency, \* permits of the warm semaphore
    MaxActiveJobs,   \* MAX_ACTIVE_WARM_JOBS
    Configs,         \* (cap, regions, position) triples a config push may carry
    BootConfig,      \* the one the environment gives at boot
    LiveKeys,        \* keys live traffic stores, a bound for TLC
    DeletedRegions,  \* regions the owner deletes, a bound for TLC
    MaxGeneration    \* bound on config_generation, for TLC

TileStaging(j) == <<"tiles", j>>
AssetStaging(j) == <<"assets", j>>
PosStaging(j) == <<"position", j>>

\* Config validation: 0 <= position <= regions <= cap and cap > 0.
ASSUME EngineAssumption ==
    /\ RealStaging = {TileStaging(j) : j \in Jobs} \cup {AssetStaging(j) : j \in Jobs}
    /\ PositionStaging = {PosStaging(j) : j \in Jobs}
    /\ NoJob \notin Jobs
    /\ Targets \subseteq (SavedRegions \ {BasemapAssets}) \cup {NoRegion}
    /\ Requests \subseteq (SUBSET Keys) \ {{}}
    /\ StyleRequests \subseteq SUBSET Styles
    /\ AssetKeys \in [Styles -> SUBSET Keys]
    /\ GoodTiles \subseteq Tiles
    /\ WarmBatch \in Nat \ {0} /\ WarmConcurrency \in Nat \ {0} /\ MaxActiveJobs \in Nat \ {0}
    /\ BootConfig \in Configs
    /\ Configs \subseteq [cap : Nat \ {0}, regions : Nat, position : Nat]
    /\ \A c \in Configs : c.position <= c.regions /\ c.regions <= c.cap
    /\ LiveKeys \subseteq Keys /\ DeletedRegions \subseteq RealRegions \ {BasemapAssets}
    /\ MaxGeneration \in Nat

VARIABLES
    job,                 \* the drivers, one record per slot
    active_warm_regions, \* regions some driver owns
    assets_warming,      \* the job in the asset stage, or NoJob
    config_generation,   \* incremented as a config push begins and as it ends
    live,                \* live_cap_bytes and the two live budgets
    config,              \* the config route, which holds config_update
    delete,              \* the region delete route
    fill,                \* cap enforcements nobody waits for any more
    shutdown_requested

engineVars == <<job, active_warm_regions, assets_warming, config_generation,
                live, config, delete, fill, shutdown_requested>>
vars == <<cacheVars, engineVars>>

IdleJob == [pc |-> "idle", target |-> NoRegion, gen |-> 0, cancel |-> FALSE,
            credit |-> 0, assetBudget |-> 0, request |-> {}, styles |-> {},
            todo |-> {}, tasks |-> {}, batch |-> <<>>, flush |-> {}, kept |-> {},
            errors |-> FALSE, staged |-> FALSE, final |-> "Done", leaked |-> FALSE]
IdleConfig == [pc |-> "idle", new |-> BootConfig]
IdleDelete == [pc |-> "idle", region |-> NoRegion, cap |-> 0, jobs |-> {}]

\* WarmState::Running, and the drivers that still own their region.
Running(j) == job[j].pc \notin {"idle", "release"}
Driving(j) == job[j].pc # "idle"

\* st.config_update is free: the config route holds it across its steps.
ConfigFree == config.pc = "idle"

-----------------------------------------------------------------------------
(* Budgets                                                                 *)

AtLeast0(n) == IF n < 0 THEN 0 ELSE n
AtMost(n, bound) == IF n > bound THEN bound ELSE n

\* What a caller may load from the three live values, one atomic after the
\* other: while a push stores them, some of the old and some of the new.
LoadedLimits ==
    IF config.pc = "publish"
    THEN [cap : {live.cap, config.new.cap}, regions : {live.regions, config.new.regions},
          position : {live.position, config.new.position}]
    ELSE {live}

\* effective_budget: P for position warm, R - P for the rest, within the cap.
EffectiveBudget(limits, target) ==
    AtLeast0(AtMost(IF target = PositionWarm THEN limits.position
                    ELSE limits.regions - limits.position, limits.cap))

\* replacement_budget: the bytes the promotion will release are credited.
ReplacementBudget(limits, target, credit) ==
    AtMost(EffectiveBudget(limits, target) + AtLeast0(credit), limits.cap)

RegionBytes(region) == SumBytes(Joined(region_tiles, {region}), BytesColumn(tile))

-----------------------------------------------------------------------------
(* Starting and cancelling jobs                                            *)

\* The cap check and the insert under the job table's write lock: too few jobs
\* run, and the driver of the new one is spawned.
EngineHasRoom == Cardinality({i \in Jobs : Running(i)}) < MaxActiveJobs

SpawnRun(j, target, request, styles) ==
    job' = [job EXCEPT ![j] = [IdleJob EXCEPT !.pc = "begin", !.target = target,
              !.gen = config_generation, !.request = request, !.styles = styles]]

\* Mutant: no reservation of the region.
StartWarm_NoBusyCheck(j, target, request, styles) ==
    /\ ConfigFree /\ ~shutdown_requested
    /\ job[j].pc = "idle" /\ ~job[j].leaked
    /\ EngineHasRoom
    /\ active_warm_regions' = active_warm_regions \cup ({target} \ {NoRegion})
    /\ SpawnRun(j, target, request, styles)
    /\ UNCHANGED <<cacheVars, assets_warming, config_generation, live, config, delete, fill,
                   shutdown_requested>>

\* start_warm under config_update.  A busy region, a full engine, a bad
\* request and a shutdown in progress are refused and change nothing.
StartWarm(j, target, request, styles) ==
    /\ ConfigFree /\ ~shutdown_requested
    /\ job[j].pc = "idle" /\ ~job[j].leaked       \* a job id is never reused
    /\ target \notin active_warm_regions
    /\ EngineHasRoom
    /\ active_warm_regions' = active_warm_regions \cup ({target} \ {NoRegion})
    /\ SpawnRun(j, target, request, styles)
    /\ UNCHANGED <<cacheVars, assets_warming, config_generation, live, config, delete, fill,
                   shutdown_requested>>

\* The handler of a /warm request is dropped with its client between the
\* reservation and the spawn: nobody gives the region back (warm.rs:232-272).
StartDropped(target) ==
    /\ ConfigFree /\ ~shutdown_requested
    /\ target \notin active_warm_regions \cup {NoRegion}
    /\ active_warm_regions' = active_warm_regions \cup {target}
    /\ UNCHANGED <<cacheVars, job, assets_warming, config_generation, live, config, delete, fill,
                   shutdown_requested>>

\* cancel_warm, on a job that has not finished.
CancelWarm(j) ==
    /\ Running(j) /\ ~job[j].cancel
    /\ job' = [job EXCEPT ![j].cancel = TRUE]
    /\ UNCHANGED <<cacheVars, active_warm_regions, assets_warming, config_generation, live,
                   config, delete, fill, shutdown_requested>>

\* cancel_all_warms, when the server begins its graceful shutdown.
Shutdown ==
    /\ ~shutdown_requested
    /\ shutdown_requested' = TRUE
    /\ job' = [j \in Jobs |-> IF Running(j) THEN [job[j] EXCEPT !.cancel = TRUE] ELSE job[j]]
    /\ UNCHANGED <<cacheVars, active_warm_regions, assets_warming, config_generation, live,
                   config, delete, fill>>

-----------------------------------------------------------------------------
(* The driver: tiles                                                       *)

\* A driver step: job j moves to record r, the rest of the engine is still.
Drive(j, r) ==
    /\ job' = [job EXCEPT ![j] = r]
    /\ UNCHANGED <<active_warm_regions, assets_warming, config_generation, live, config, delete,
                   fill, shutdown_requested>>

\* Mutant: a re-download writes into the region it replaces.
Storage_InPlace(j) == job[j].target

\* Where a job's tiles are stored until they are promoted.
Storage(j) ==
    CASE job[j].target = NoRegion -> NoRegion
      [] job[j].target = PositionWarm -> PosStaging(j)
      [] OTHER -> TileStaging(j)

\* expand_warm_sources fails on a style that cannot be learned, whose learned
\* state a push has cleared by then, or which names no tiles.
MayFailToExpand(j) == job[j].styles # {}

\* The first lines of run: a job started under an older configuration, or
\* whose sources do not expand, ends here; otherwise it takes its credit.
BeginRun(j) ==
    /\ job[j].pc = "begin"
    /\ \/ /\ job[j].gen # config_generation \/ MayFailToExpand(j)
          /\ Drive(j, [job[j] EXCEPT !.pc = "release", !.final = "Error"])
       \/ /\ job[j].gen = config_generation
          /\ Drive(j, [job[j] EXCEPT !.pc = "tiles", !.todo = job[j].request,
                         !.credit = RegionBytes(job[j].target)])
    /\ UNCHANGED cacheVars

Permits == Cardinality(UNION {{j} \X job[j].tasks : j \in Jobs})

\* A batch that must be flushed before the driver does anything else.
BatchFull(j) == Len(job[j].batch) >= WarmBatch

\* A task is the key it fetches and the limits it has loaded for the pin.
Task(k) == [key |-> k, limits |-> live]

\* One turn of the enumeration: the next tile gets a permit and a task.
SpawnTile(j, k) ==
    /\ job[j].pc = "tiles" /\ k \in job[j].todo /\ ~BatchFull(j)
    /\ job[j].gen = config_generation /\ ~job[j].cancel /\ ~shutdown_requested
    /\ Permits < WarmConcurrency
    /\ Drive(j, [job[j] EXCEPT !.todo = @ \ {k}, !.tasks = @ \cup {Task(k)}])
    /\ UNCHANGED cacheVars

\* The enumeration ends: every tile has a task, or a check before the next
\* tile stopped it.
SpawnEnds(j) ==
    LET Stop(final) == Drive(j, [job[j] EXCEPT !.pc = "join", !.final = final])
        current == job[j].gen = config_generation
    IN  /\ job[j].pc = "tiles" /\ ~BatchFull(j)
        /\ \/ job[j].todo = {} /\ Stop("Done")
           \/ job[j].todo # {} /\ ~current /\ Stop("Error")
           \/ job[j].todo # {} /\ current /\ job[j].cancel /\ Stop("Cancelled")
           \/ /\ job[j].todo # {} /\ current /\ shutdown_requested /\ ~job[j].cancel
              /\ Stop("Error")
        /\ UNCHANGED cacheVars

\* The two halves of a job's concurrent work share their tasks' steps: the
\* stage fixes where rows go and which budget gates them.
InTiles(j) == job[j].pc \in {"tiles", "join", "tail"}
InAssets(j) == job[j].pc \in {"assets", "assetJoin", "assetTail"}
StageRegion(j) == IF InTiles(j) THEN Storage(j) ELSE AssetStaging(j)
StageBudget(j, limits) ==
    IF InTiles(j) THEN ReplacementBudget(limits, job[j].target, job[j].credit)
    ELSE job[j].assetBudget

\* A limit met by a task or a flush: the job is capped, its tasks are told
\* to stop (tile stage only) and the driver goes on to join them.
Capped(r) ==
    IF r.pc \in {"tiles", "join", "tail"}
    THEN [r EXCEPT !.pc = "join", !.cancel = @ \/ r.pc # "tail",
                   !.final = IF @ = "Done" THEN "Capped" ELSE @]
    ELSE [r EXCEPT !.pc = "assetJoin", !.final = IF @ = "Done" THEN "Capped" ELSE @]

\* Mutant: a job that has failed no longer drains its tasks.
Collects_HealthyOnly(j) == (InTiles(j) \/ InAssets(j)) /\ ~BatchFull(j) /\ job[j].final = "Done"

\* The driver collects results except while a full batch is being flushed.
Collects(j) == (InTiles(j) \/ InAssets(j)) /\ (BatchFull(j) => job[j].final # "Done")

\* A task loads the limits again: the cap and the budget of its call are read
\* before the call is queued for the blocking pool, and once more for the
\* look it takes after the wait for the flight.
TaskLoads(j, t) ==
    /\ InTiles(j) \/ InAssets(j)
    /\ t \in job[j].tasks
    /\ \E limits \in LoadedLimits :
          /\ limits # t.limits
          /\ Drive(j, [job[j] EXCEPT !.tasks = (@ \ {t}) \cup {[t EXCEPT !.limits = limits]}])
    /\ UNCHANGED cacheVars

\* A task finds a fresh row: pinned for the staging region, or refused, by the
\* limits it has loaded.
TaskPins(j, t) ==
    LET budget == StageBudget(j, t.limits)
    IN  /\ InTiles(j) \/ InAssets(j)
        /\ t \in job[j].tasks
        /\ \/ /\ PinIfFreshCapped(t.key, budget, t.limits.cap, StageRegion(j))
              /\ Drive(j, [job[j] EXCEPT !.tasks = @ \ {t}, !.kept = @ \cup {t.key}])
           \/ /\ tile[t.key] # NoTile /\ Collects(j)
              /\ ~PinAdmitted(t.key, budget, t.limits.cap, StageRegion(j))
              /\ Drive(j, Capped([job[j] EXCEPT !.tasks = @ \ {t}]))
              /\ UNCHANGED cacheVars

\* A tile's fetch ends with content c, 200 or negative, and the driver
\* collects the row; once the job has failed it only drains its tasks.
TaskFetches(j, t, c) ==
    /\ InTiles(j) /\ Collects(j) /\ t \in job[j].tasks
    /\ LET r == [job[j] EXCEPT !.tasks = @ \ {t}]
       IN  Drive(j, IF r.final # "Done" THEN r
                    ELSE [r EXCEPT !.batch = Append(@, [key |-> t.key, tile |-> c])])
    /\ UNCHANGED cacheVars

\* A tile's fetch fails, or stops on a cancel it noticed while in flight.
TaskFails(j, t) ==
    /\ InTiles(j) /\ Collects(j) /\ t \in job[j].tasks
    /\ LET r == [job[j] EXCEPT !.tasks = @ \ {t}]
       IN  \/ r.final = "Done" /\ Drive(j, [r EXCEPT !.errors = TRUE])
           \/ /\ r.final = "Done" /\ (job[j].cancel \/ shutdown_requested)
              /\ Drive(j, [r EXCEPT !.pc = "join", !.cancel = TRUE, !.final = "Cancelled"])
           \/ r.final # "Done" /\ Drive(j, r)
    /\ UNCHANGED cacheVars

\* warm_one_asset ends: a good answer is a row, a missing asset is left out of
\* the staged set, and any failure, a cancel seen in flight included, ends the
\* stage.
AssetFetches(j, t, c) ==
    /\ InAssets(j) /\ Collects(j) /\ t \in job[j].tasks
    /\ LET r == [job[j] EXCEPT !.tasks = @ \ {t}]
       IN  Drive(j, IF r.final = "Done" /\ c \in GoodTiles
                    THEN [r EXCEPT !.batch = Append(@, [key |-> t.key, tile |-> c])] ELSE r)
    /\ UNCHANGED cacheVars

AssetFails(j, t) ==
    /\ InAssets(j) /\ Collects(j) /\ t \in job[j].tasks
    /\ Drive(j, [job[j] EXCEPT !.tasks = @ \ {t}, !.pc = "assetJoin",
                               !.final = IF @ = "Done" THEN "Error" ELSE @])
    /\ UNCHANGED cacheVars

-----------------------------------------------------------------------------
(* The driver: batches                                                     *)

\* A healthy job has rows it must store: a full batch, or the tail of a stage.
MustFlush(j) ==
    /\ job[j].final = "Done" /\ job[j].batch # <<>>
    /\ \/ BatchFull(j) /\ (InTiles(j) \/ InAssets(j))
       \/ job[j].pc = "tail" /\ ~job[j].errors
       \/ job[j].pc = "assetTail"

\* The driver loads the budget and the cap and hands its batch to the blocking
\* pool, where it may wait.
FlushLoads(j) ==
    /\ MustFlush(j) /\ job[j].flush = {}
    /\ \E limits \in LoadedLimits : Drive(j, [job[j] EXCEPT !.flush = {limits}])
    /\ UNCHANGED cacheVars

\* put_many_pinned runs with those limits.  A short outcome caps the job; a full
\* disk stores nothing and caps it too; of a failed write the two stages make
\* a different thing.
FlushBatch(j, failed) ==
    \E limits \in job[j].flush :
        LET batch == job[j].batch
            budget == StageBudget(j, limits)
            n == StoredRows(batch, budget, limits.cap, StageRegion(j))
            emptied == [job[j] EXCEPT !.batch = <<>>, !.flush = {}]
        IN  \/ /\ PutManyPinned(batch, budget, limits.cap, StageRegion(j), 0)
               /\ LET stored == [emptied EXCEPT !.kept = @ \cup BatchKeys(batch, n)]
                  IN  Drive(j, IF n < Len(batch) THEN Capped(stored) ELSE stored)
            \/ Drive(j, Capped(emptied)) /\ UNCHANGED cacheVars
            \/ Drive(j, [failed EXCEPT !.batch = <<>>, !.flush = {}]) /\ UNCHANGED cacheVars

\* flush: a failed write only counts an error.
FlushTiles(j) == InTiles(j) /\ FlushBatch(j, [job[j] EXCEPT !.errors = TRUE])

\* flush_pinned: a failed write fails the asset stage.
FlushAssets(j) ==
    InAssets(j) /\ FlushBatch(j, [job[j] EXCEPT !.pc = "assetJoin", !.final = "Error"])

\* accumulate and accept_asset flush a full batch while the job is healthy.
FlushFull(j) ==
    /\ BatchFull(j) /\ job[j].final = "Done"
    /\ FlushTiles(j) \/ FlushAssets(j)

\* The join loop notices a cancel at the top of a turn.
JoinSeesCancel(j) ==
    /\ job[j].pc = "join" /\ job[j].cancel /\ job[j].final = "Done" /\ ~BatchFull(j)
    /\ Drive(j, [job[j] EXCEPT !.final = "Cancelled"])
    /\ UNCHANGED cacheVars

\* Mutant: a job with failed tiles is taken for complete.
AfterTiles_IgnoresErrors(j) ==
    LET r == [job[j] EXCEPT !.batch = <<>>]
    IN  CASE r.final # "Done" -> [r EXCEPT !.pc = "cleanup"]
          [] r.final = "Done" /\ r.gen # config_generation ->
                [r EXCEPT !.pc = "cleanup", !.final = "Error"]
          [] OTHER -> [r EXCEPT !.pc = IF r.styles = {} THEN "lock" ELSE "flag"]

\* What the driver makes of its tiles once they are joined and flushed: any
\* error, an incomplete count or a newer configuration fails the job.
AfterTiles(j) ==
    LET r == [job[j] EXCEPT !.batch = <<>>]
        complete == ~r.errors /\ r.kept = r.request /\ r.gen = config_generation
    IN  CASE r.final # "Done" -> [r EXCEPT !.pc = "cleanup"]
          [] r.final = "Done" /\ ~complete -> [r EXCEPT !.pc = "cleanup", !.final = "Error"]
          [] OTHER -> [r EXCEPT !.pc = IF r.styles = {} THEN "lock" ELSE "flag"]

\* All tasks are in; a cancel is not looked at again until the asset stage.
JoinEnds(j) ==
    /\ job[j].pc = "join" /\ job[j].tasks = {} /\ Collects(j)
    /\ Drive(j, [job[j] EXCEPT !.pc = "tail"])
    /\ UNCHANGED cacheVars

\* The tail batch of a healthy job is flushed, then the outcome decided.
TilesTail(j) ==
    /\ job[j].pc = "tail"
    /\ IF job[j].final = "Done" /\ ~job[j].errors /\ job[j].batch # <<>>
       THEN FlushTiles(j)
       ELSE Drive(j, AfterTiles(j)) /\ UNCHANGED cacheVars

-----------------------------------------------------------------------------
(* The driver: basemap assets                                              *)

\* The asset stage fails: cancelled jobs say so, the rest count an error.
AssetStageFailed(r) ==
    [r EXCEPT !.pc = "cleanup", !.batch = <<>>, !.errors = @ \/ ~r.cancel,
              !.final = IF r.cancel THEN "Cancelled" ELSE "Error"]

\* The single-flight loop at the head of stage_basemap_assets.
TakeAssetFlag(j) ==
    /\ job[j].pc = "flag"
    /\ \/ /\ job[j].cancel \/ shutdown_requested
          /\ Drive(j, AssetStageFailed(job[j]))
       \/ /\ assets_warming = NoJob /\ ~job[j].cancel /\ ~shutdown_requested
          /\ assets_warming' = j
          /\ \E limits \in LoadedLimits :
                job' = [job EXCEPT ![j] =
                  [@ EXCEPT !.pc = "assets", !.todo = UNION {AssetKeys[s] : s \in job[j].styles},
                     !.assetBudget = ReplacementBudget(limits, BasemapAssets, RegionBytes(BasemapAssets))]]
          /\ UNCHANGED <<active_warm_regions, config_generation, live, config, delete, fill,
                         shutdown_requested>>
    /\ UNCHANGED cacheVars

SpawnAsset(j, k) ==
    /\ job[j].pc = "assets" /\ k \in job[j].todo /\ ~BatchFull(j)
    /\ ~job[j].cancel /\ ~shutdown_requested
    /\ Permits < WarmConcurrency
    /\ Drive(j, [job[j] EXCEPT !.todo = @ \ {k}, !.tasks = @ \cup {Task(k)}])
    /\ UNCHANGED cacheVars

SpawnAssetsEnds(j) ==
    /\ job[j].pc = "assets" /\ ~BatchFull(j)
    /\ \/ job[j].todo = {} /\ Drive(j, [job[j] EXCEPT !.pc = "assetJoin"])
       \/ /\ job[j].cancel \/ shutdown_requested
          /\ Drive(j, [job[j] EXCEPT !.pc = "assetJoin", !.final = "Error"])
    /\ UNCHANGED cacheVars

\* Mutant: the single-flight flag survives a failed stage.
ReleaseFlag_OnSuccessOnly(failed) ==
    assets_warming' = IF failed THEN assets_warming ELSE NoJob

\* The RAII guard clears the flag on every exit of the stage.
ReleaseFlag(failed) == assets_warming' = NoJob

\* All asset tasks are in; a cancel or shutdown by now fails the stage.
AssetJoinEnds(j) ==
    /\ job[j].pc = "assetJoin" /\ job[j].tasks = {} /\ Collects(j)
    /\ Drive(j, [job[j] EXCEPT !.pc = "assetTail",
          !.final = IF @ = "Done" /\ (job[j].cancel \/ shutdown_requested) THEN "Error" ELSE @])
    /\ UNCHANGED cacheVars

\* A staging region is dropped, or SQLite fails: that is at most logged and nothing
\* tries again before the next start of the process.
Leaked(r) == [r EXCEPT !.leaked = TRUE]
DropStaging(staging, r) == IF r.leaked THEN UNCHANGED cacheVars ELSE DeleteRegion(staging)

\* A healthy stage flushes its tail and is ready to promote; a stopped one
\* drops what it staged.  The flag is released either way, before promotion.
AssetTail(j) ==
    /\ job[j].pc = "assetTail"
    /\ \/ job[j].final = "Done" /\ job[j].batch # <<>> /\ FlushAssets(j)
       \/ /\ job[j].final = "Done" /\ job[j].batch = <<>>
          /\ job' = [job EXCEPT ![j].pc = "lock", ![j].staged = TRUE]
          /\ ReleaseFlag(FALSE)
          /\ UNCHANGED <<cacheVars, active_warm_regions, config_generation, live, config, delete,
                         fill, shutdown_requested>>
       \/ /\ job[j].final # "Done"
          /\ LET stopped == IF job[j].final = "Capped" /\ ~job[j].cancel
                            THEN [job[j] EXCEPT !.pc = "cleanup", !.batch = <<>>]
                            ELSE AssetStageFailed(job[j])
             IN  \E r \in {stopped, Leaked(stopped)} :
                    job' = [job EXCEPT ![j] = r] /\ DropStaging(AssetStaging(j), r)
          /\ ReleaseFlag(TRUE)
          /\ UNCHANGED <<active_warm_regions, config_generation, live, config, delete, fill,
                         shutdown_requested>>

-----------------------------------------------------------------------------
(* The driver: promotion and end                                           *)

\* The replacements a complete job promotes together.
ReplacementsOf(j) ==
    [s \in (IF job[j].target = NoRegion THEN {} ELSE {Storage(j)})
           \cup (IF job[j].staged THEN {AssetStaging(j)} ELSE {}) |->
        IF s = AssetStaging(j) THEN BasemapAssets ELSE job[j].target]

\* Mutant: the generation is read before the mutex is taken, and not again.
PromotionAllowed_NoRecheck(j) == ConfigFree

\* The mutex and the generation read under it: the promotion is of the
\* configuration the job was started with.
PromotionAllowed(j) == ConfigFree /\ job[j].gen = config_generation

\* The promotion, under config_update, or the reasons it does not happen.
Promote(j) ==
    /\ job[j].pc = "lock"
    /\ LET repl == ReplacementsOf(j)
           realBudget == live.regions - live.position
       IN  \/ /\ job[j].gen # config_generation
              /\ Drive(j, [job[j] EXCEPT !.pc = "cleanup", !.final = "Error"])
              /\ UNCHANGED cacheVars
           \/ /\ DOMAIN repl = {} /\ job[j].gen = config_generation
              /\ Drive(j, [job[j] EXCEPT !.pc = "finish"])
              /\ UNCHANGED cacheVars
           \/ /\ DOMAIN repl # {} /\ PromotionAllowed(j)
              /\ PromoteStagedRegions(repl, realBudget, live.position, live.cap)
              /\ Drive(j, [job[j] EXCEPT !.pc = "finish"])
           \/ /\ DOMAIN repl # {} /\ PromotionAllowed(j)
              /\ ~PromotionFits(repl, realBudget, live.position, live.cap)
              /\ Drive(j, [job[j] EXCEPT !.pc = "cleanup", !.final = "Capped"])
              /\ UNCHANGED cacheVars
           \/ /\ DOMAIN repl # {} /\ PromotionAllowed(j)   \* a SQLite error
              /\ Drive(j, [job[j] EXCEPT !.pc = "cleanup", !.final = "Error"])
              /\ UNCHANGED cacheVars

\* Mutant: a failed job forgets the assets it staged.
CleanupPc_TilesOnly(j) == "finish"

\* A failed job deletes its staging regions one after the other.
CleanupPc(j) == IF job[j].staged THEN "cleanupAssets" ELSE "finish"

CleanupTiles(j) ==
    /\ job[j].pc = "cleanup"
    /\ LET r == [job[j] EXCEPT !.pc = CleanupPc(j)]
       IN  \/ job[j].target = NoRegion /\ Drive(j, r) /\ UNCHANGED cacheVars
           \/ job[j].target # NoRegion /\ Drive(j, r) /\ DeleteRegion(Storage(j))
           \/ job[j].target # NoRegion /\ Drive(j, Leaked(r)) /\ UNCHANGED cacheVars

CleanupAssets(j) ==
    /\ job[j].pc = "cleanupAssets"
    /\ LET r == [job[j] EXCEPT !.pc = "finish"]
       IN  \/ Drive(j, r) /\ DeleteRegion(AssetStaging(j))
           \/ Drive(j, Leaked(r)) /\ UNCHANGED cacheVars

\* The final state is published, then the region is released.
Finish(j) ==
    /\ job[j].pc = "finish"
    /\ Drive(j, [job[j] EXCEPT !.pc = "release"])
    /\ UNCHANGED cacheVars

Release(j) ==
    /\ job[j].pc = "release"
    /\ job' = [job EXCEPT ![j] = [IdleJob EXCEPT !.leaked = job[j].leaked]]
    /\ active_warm_regions' = active_warm_regions \ {job[j].target}
    /\ delete' = [delete EXCEPT !.jobs = @ \ {j}]
    /\ UNCHANGED <<cacheVars, assets_warming, config_generation, live, config, fill,
                   shutdown_requested>>

JobStep(j) ==
    \/ BeginRun(j)
    \/ \E k \in Keys : SpawnTile(j, k) \/ SpawnAsset(j, k)
    \/ \E t \in job[j].tasks :
          \/ TaskLoads(j, t) \/ TaskPins(j, t) \/ TaskFails(j, t) \/ AssetFails(j, t)
          \/ \E c \in Tiles : TaskFetches(j, t, c) \/ AssetFetches(j, t, c)
    \/ SpawnEnds(j) \/ FlushLoads(j) \/ FlushFull(j) \/ JoinSeesCancel(j) \/ JoinEnds(j) \/ TilesTail(j)
    \/ TakeAssetFlag(j) \/ SpawnAssetsEnds(j) \/ AssetJoinEnds(j) \/ AssetTail(j)
    \/ Promote(j) \/ CleanupTiles(j) \/ CleanupAssets(j) \/ Finish(j) \/ Release(j)

-----------------------------------------------------------------------------
(* The config route                                                        *)

\* A valid push takes config_update and increments the generation.
ConfigBegin(c) ==
    /\ ConfigFree /\ config_generation + 2 <= MaxGeneration
    /\ config' = [pc |-> "check", new |-> c]
    /\ config_generation' = config_generation + 1
    /\ UNCHANGED <<cacheVars, job, active_warm_regions, assets_warming, live, delete, fill,
                   shutdown_requested>>

\* The push ends without publishing, or publishes, and increments it again.
ConfigEnd(published) ==
    /\ config' = IdleConfig
    /\ config_generation' = config_generation + 1
    /\ live' = IF published THEN config.new ELSE live
    /\ UNCHANGED <<job, active_warm_regions, assets_warming, delete, fill, shutdown_requested>>

\* capBelowPinnedBytes (409) and a failed SQLite call leave the old values.
ConfigCheckPins ==
    /\ config.pc = "check"
    /\ \/ /\ pinned_bytes <= config.new.cap
          /\ config' = [config EXCEPT !.pc = "evict"]
          /\ UNCHANGED <<job, active_warm_regions, assets_warming, config_generation, live, delete,
                         fill, shutdown_requested>>
       \/ pinned_bytes > config.new.cap /\ ConfigEnd(FALSE)
    /\ UNCHANGED cacheVars

ConfigEvict ==
    /\ config.pc = "evict"
    /\ \/ /\ EvictTo(config.new.cap) \/ (total_bytes <= config.new.cap /\ UNCHANGED cacheVars)
          /\ config' = [config EXCEPT !.pc = "publish"]
          /\ UNCHANGED <<job, active_warm_regions, assets_warming, config_generation, live, delete,
                         fill, shutdown_requested>>
       \/ ConfigEnd(FALSE) /\ UNCHANGED cacheVars

ConfigPublish == config.pc = "publish" /\ ConfigEnd(TRUE) /\ UNCHANGED cacheVars

\* The handler is dropped with its client at an await: config_update is free,
\* nothing is published and the second increment never comes.  The cap check
\* and the eviction it had queued run on all the same.
ConfigDropped ==
    /\ ~ConfigFree
    /\ config' = IdleConfig
    /\ fill' = fill \cup {[cap |-> config.new.cap, check |-> config.pc = "check", push |-> config_generation] :
                            q \in {"check", "evict"} \cap {config.pc}}
    /\ UNCHANGED <<cacheVars, job, active_warm_regions, assets_warming, config_generation, live,
                   delete, shutdown_requested>>

-----------------------------------------------------------------------------
(* The region delete route                                                 *)

\* cancel_region_warms marks every running job of the region, then waits.
DeleteBegin(region) ==
    /\ delete.pc = "idle"
    /\ LET mine == {j \in Jobs : Running(j) /\ job[j].target = region}
       IN  /\ delete' = [pc |-> "wait", region |-> region, cap |-> 0, jobs |-> mine]
           /\ job' = [j \in Jobs |-> IF j \in mine THEN [job[j] EXCEPT !.cancel = TRUE] ELSE job[j]]
    /\ UNCHANGED <<cacheVars, active_warm_regions, assets_warming, config_generation, live, config,
                   fill, shutdown_requested>>

\* Mutant: the wait ends once every job of the region has been told to stop.
DriverGone_Told(region) ==
    \A j \in Jobs : Running(j) /\ job[j].target = region => job[j].cancel

\* The wait ends when no driver owns the region any more.
DriverGone(region) == region \notin active_warm_regions

\* The driver is gone, or 120 polls have passed and the route answers 409.
DeleteWait ==
    /\ delete.pc = "wait"
    /\ \/ /\ DriverGone(delete.region)
          /\ \E limits \in LoadedLimits : delete' = [delete EXCEPT !.pc = "delete", !.cap = limits.cap]
       \/ ~DriverGone(delete.region) /\ delete' = IdleDelete
    /\ UNCHANGED <<cacheVars, job, active_warm_regions, assets_warming, config_generation, live,
                   config, fill, shutdown_requested>>

DeleteApply ==
    /\ delete.pc = "delete"
    /\ \/ DeleteRegion(delete.region) /\ delete' = [delete EXCEPT !.pc = "evict"]
       \/ UNCHANGED cacheVars /\ delete' = IdleDelete      \* SQLite failed: 500
    /\ UNCHANGED <<job, active_warm_regions, assets_warming, config_generation, live, config, fill,
                   shutdown_requested>>

DeleteEvict ==
    /\ delete.pc = "evict"
    /\ EvictTo(delete.cap) \/ (total_bytes <= delete.cap /\ UNCHANGED cacheVars)
    /\ delete' = IdleDelete
    /\ UNCHANGED <<job, active_warm_regions, assets_warming, config_generation, live, config, fill,
                   shutdown_requested>>

DeleteStep == DeleteWait \/ DeleteApply \/ DeleteEvict

-----------------------------------------------------------------------------
(* Live traffic and the process                                            *)

\* store_and_evict reads the cap, stores a fetched 200 and then evicts: two
\* critical sections of the cache.  One store is in progress at a time, and
\* none beside what a dropped push has left to do (a bound).
LiveStore(k, t) ==
    /\ fill = {}
    /\ Put(k, t, 0)
    /\ \E limits \in LoadedLimits : fill' = {[cap |-> limits.cap, check |-> FALSE, push |-> 0]}
    /\ UNCHANGED <<job, active_warm_regions, assets_warming, config_generation, live, config,
                   delete, shutdown_requested>>

\* What a dropped push queued: it evicts only when the pins fit its cap.
OrphanChecks ==
    /\ \E e \in fill :
          /\ e.check
          /\ fill' = (fill \ {e}) \cup IF pinned_bytes <= e.cap THEN {[e EXCEPT !.check = FALSE]} ELSE {}
    /\ UNCHANGED <<cacheVars, job, active_warm_regions, assets_warming, config_generation, live,
                   config, delete, shutdown_requested>>

LiveEvict ==
    /\ \E e \in fill :
          /\ ~e.check
          /\ EvictTo(e.cap) \/ (total_bytes <= e.cap /\ UNCHANGED cacheVars)
          /\ fill' = fill \ {e}
    /\ UNCHANGED <<job, active_warm_regions, assets_warming, config_generation, live, config,
                   delete, shutdown_requested>>

FillStep == OrphanChecks \/ LiveEvict

\* The owner clears the scroll cache; the age sweep removes the same rows.
ClearScroll == ClearUnpinned /\ UNCHANGED engineVars

EngineAtBoot ==
    /\ job = [j \in Jobs |-> IdleJob]
    /\ active_warm_regions = {}
    /\ assets_warming = NoJob
    /\ config_generation = 0
    /\ live = BootConfig
    /\ config = IdleConfig
    /\ delete = IdleDelete
    /\ fill = {}
    /\ shutdown_requested = FALSE

\* The process ends, gracefully or not, at any instant and starts again: all
\* but the database is lost, and open drops what was staged.
Restart ==
    /\ Open(TRUE, BootConfig.cap)
    /\ job' = [j \in Jobs |-> IdleJob]
    /\ active_warm_regions' = {}
    /\ assets_warming' = NoJob
    /\ config_generation' = 0
    /\ live' = BootConfig
    /\ config' = IdleConfig
    /\ delete' = IdleDelete
    /\ fill' = {}
    /\ shutdown_requested' = FALSE

-----------------------------------------------------------------------------
(* The specification                                                       *)

WarmInit == EmptyCache /\ EngineAtBoot

RouteNext ==
    \/ \E j \in Jobs, target \in Targets, request \in Requests, styles \in StyleRequests :
            StartWarm(j, target, request, styles)
    \/ \E target \in Targets : StartDropped(target)
    \/ \E j \in Jobs : CancelWarm(j)
    \/ (\E c \in Configs : ConfigBegin(c)) \/ ConfigDropped
    \/ \E region \in DeletedRegions : DeleteBegin(region)
    \/ \E k \in LiveKeys, t \in GoodTiles : LiveStore(k, t)
    \/ ClearScroll

ConfigStep == ConfigCheckPins \/ ConfigEvict \/ ConfigPublish

WarmEngineNext ==
    \/ RouteNext
    \/ \E j \in Jobs : JobStep(j)
    \/ ConfigStep \/ DeleteStep \/ FillStep
    \/ Shutdown \/ Restart

\* Fairness: tokio runs every ready task, an upstream fetch ends by its
\* timeout, config_update is a FIFO mutex; requests and cancels are not owed.
WarmSpec ==
    /\ WarmInit /\ [][WarmEngineNext]_vars
    /\ \A j \in Jobs : WF_vars(JobStep(j))
    /\ WF_vars(ConfigStep) /\ WF_vars(DeleteStep) /\ WF_vars(FillStep)

-----------------------------------------------------------------------------
(* Properties                                                              *)

\* Two drivers never work on one region at a time, from the start of a job
\* to the release of its region, whatever is cancelled, deleted or refused:
\* otherwise the later promotion would replace the earlier one's tiles.
RegionExclusive ==
    \A i, j \in Jobs : i # j /\ Driving(i) /\ Driving(j) /\ job[i].target # NoRegion
                        => job[i].target # job[j].target

\* A staging region holds joins only while its job is at work: no failure,
\* cancel, cap, newer configuration or restart leaves staged pins behind to
\* eat the budget, short of a failed cleanup, which nothing retries.
NoStrayStaging ==
    \A j \in Jobs : job[j].pc \in {"idle", "begin", "finish", "release"} /\ ~job[j].leaked =>
        Joined(region_tiles, {TileStaging(j), PosStaging(j), AssetStaging(j)}) = {}

\* A saved region is all or nothing: its tiles are exactly those of one
\* request, never a partial download, however jobs, deletes, pushes and
\* restarts interleave.
AllOrNothing ==
    \A r \in SavedRegions \ {BasemapAssets} : Joined(region_tiles, {r}) \in Requests \cup {{}}

\* A job never promotes under a configuration other than the one it started
\* with, nor while one is being applied, whether or not an abandoned push has
\* left the counter odd.
NoPromotionAcrossConfig ==
    [][\A j \in Jobs : job[j].pc = "lock" /\ job'[j].pc = "finish" =>
            job[j].gen = config_generation /\ ConfigFree]_vars

\* A saved region loses its tiles only to the delete route: a re-download
\* that fails, is cancelled or capped, or dies with the process, keeps them.
SavedRegionKept ==
    [][\A r \in SavedRegions \ {BasemapAssets} :
         Joined(region_tiles, {r}) # {} /\ Joined(region_tiles, {r})' = {}
         => delete.pc = "delete" /\ delete.region = r]_vars

\* By the time the delete route unpins a region, every job it cancelled has
\* stopped writing: none can stage, promote or clean up after it.
DeleteWaitsForDriver == delete.pc \in {"delete", "evict"} => delete.jobs = {}

\* Every job ends and frees its region, unless it waits while another job is
\* in its asset stage: no path of the driver is stuck on a task, the config
\* mutex, a full batch, a cancel or a shutdown.
JobsEnd ==
    \A j \in Jobs : Driving(j) ~> \/ ~Driving(j)
                                  \/ job[j].pc = "flag" /\ assets_warming # NoJob

\* The asset stage always ends and gives the single-flight flag back, so a
\* job that waits for it is not shut out by a stage that failed.
AssetFlagReturned == \A j \in Jobs : assets_warming = j ~> assets_warming # j

(* The engine implements RegionDownloads: what the saved regions hold in   *)
(* the cache, the requests of the drivers at work on one, and the region   *)
(* the delete route is about to unpin.  Staging, assets, fetches, batches, *)
(* budgets, pushes, cancels and full disks are invisible there.            *)
DownloadIds == SavedRegions \ {BasemapAssets}
Holds == [r \in DownloadIds |-> Joined(region_tiles, {r})]
Requested == {<<job[j].target, job[j].request>> :
            j \in {i \in Jobs : Driving(i) /\ job[i].target # NoRegion}}
Condemned == IF delete.pc = "delete" THEN {delete.region} ELSE {}
Downloads == INSTANCE RegionDownloads
             WITH Ids <- DownloadIds, Wanted <- Requests,
                  holds <- Holds, asked <- Requested, condemned <- Condemned
ImplementsDownloads == Downloads!DownloadsSpec
=============================================================================

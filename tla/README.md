# Chart Locker: a verification project in TLA+

Chart Locker is a Signal K plugin that lets every device on a boat share one
cache of chart tiles. It has two halves. A Rust container
(`src/container/tilecache`) fetches tiles from chart servers, caches them in
SQLite, and downloads ("warms") whole regions for offline use. A Node plugin
(`src/src`) runs in the Signal K server, manages the container, proxies its
routes, and keeps the owner's saved regions and settings in JSON files.

This directory holds TLA+ modules that model the core of both halves, TLC
configurations that check them on small instances, and TLAPS proofs for
instances of any size. `PROJECT.json` maps each definition to the source lines
it models and lists the runs, mutants, findings, hazards and theorems.

## 1. Inventory

### The container

| component | state | operations | what makes it hard | what makes it correct |
| --- | --- | --- | --- | --- |
| Tile cache (`cache.rs`) | tables `tiles` and `region_tiles`; running totals `total_bytes`, `pinned_bytes`; a memo of the real regions' sum, behind one mutex | `put`, `put_many_pinned`, `pin_if_fresh_capped`, `delete_region`, `promote_staged_regions`, evictions, sweep, clear, `open` | totals are kept by deltas in every critical section; batches may repeat a key; chunked deletes release the mutex; a crash between them | totals equal the tables; a referenced tile is pinned and never removed; pins grow only within budgets |
| Warm engine (`warm.rs`) | the jobs, `active_warm_regions`, the asset flag, `config_generation`, staging regions in the cache | start, cancel, fetch tasks, batch flush, asset stage, promotion, cleanup, shutdown | tasks, two jobs, a config push, a delete and live stores interleave; promotion replaces a saved region | a region is saved whole or not at all; one driver per region; failures keep the previous download; jobs end |
| Routes (`routes.rs`) | live cap and budgets | config push, region delete, read-only routes | the push invalidates running jobs, evicts and publishes in several steps; a delete has to wait for the drivers it cancels | no promotion across configurations |
| Live tile path (`fetcher.rs`) | in-flight fills and their count | `get_tile`, detached `fill`, drain | one flight per tile shared with warm and style routes; revalidation races the warm flush, which takes no flight; handlers dropped at any await | no duplicate fetch, honest freshness, windows kept, no lost wake-up |
| Shared state (`state.rs`) | in-flight map of weak mutexes, semaphores, knobs | `inflight_lock`, `inflight_finish`, permits | dead entries, cap on keys | refusals only at the real limit |
| Upstream health (`health.rs`) | per-source timeout streak | record timeout and success | raced by every fetch of the source | a slow source serves stale only inside the window |
| Learned styles (`style.rs`) | `style_state`, the table `learned_styles`, sub-resources cached under `style:{generation}:{source}` | learn, commit, persist, rehydrate, rewrite, sub-resource routes | a learner runs over several fetches while pushes replace the catalog; its store may outlive it; three separate judgements of one document | an entry in use is of the definition in force; what is learned comes back; what is served can be answered |
| Admission and egress (`routes.rs`, `state.rs`) | request, health and egress permits | admit, park, refuse, body guard | slow readers, disconnects at every await | bounded bodies, every request answered |
| Geocoder (`geocode.rs`) | last request, bounded cache, behind one mutex | reverse | waiters asleep or dropped between the stamp and the answer | no three requests leave for the provider within one interval; the cache keeps its limit |
| Sweeper (`sweep.rs`) | an enrolment with `configured_notify` | wait, sweep | a push between its check and its wait | it wakes once a TTL is configured |
| Start and shutdown (`main.rs`, `cache.rs`) | the data directory, schema version, tables | directory move, open, vacuum, rebuild, cleanup, recreate, drains | a death, a full disk or a bad page between any two statements | the container comes up in the end on a whole database, with the saved tiles |
| Sources, URL guard (`source.rs`, `ssrf.rs`, `upstream.rs`) | none | validation, address classes | prefix boundaries, IPv6 carriers, two rules for one URL | the guard is exact; what is accepted can be fetched |
| Geometry (`geom.rs`) | none | clips, ranges, counts | antimeridian, tile edges, overlapping boxes | every tile asked for, each once |
| Responses (`response.rs`) | none | header building | | not modelled |

### The plugin

| component | state | operations | what makes it hard | what makes it correct |
| --- | --- | --- | --- | --- |
| Region routes (`http/regions-routes.ts`) | `regionJobs`, `trackedRegions`, one polling loop | create, delete, status, re-download, start, stop | values read before an await are stale after it; answers lost; container restarts and forgets its jobs; the maps die with the plugin | ready means downloaded; deleted stays deleted; nothing stays downloading for ever |
| Regions store, JSON state (`runtime/regions-store.ts`, `runtime/json-state.ts`) | `regions.json`, a write queue, a backup | load, repair, migrate, atomic update | failing writes, malformed entries, crash between copy and rename | no valid region lost |
| Plugin lifecycle (`plugin/plugin.ts`) | start generation, timers, handles | start, stop, late completions | a stop during any await of start | nothing of a stopped generation acts |
| Host health monitor, config push and retention queue, position warmer | timers, pending value, backoff | poll, push, coalesce, retry | timeouts racing late answers | latest value wins; bounded retries |
| Control token, chart discovery and registry, mutual exclusion | token file, registry, overrides | create, rescan, hand-over | serialized rescans, provider conflicts | one provider per chart |
| Configuration panel, PMTiles routes, build scripts | | | UI and streaming I/O | not modelled |

The plugin calls the container over HTTP (`/config`, `/warm`, `/regions/...`,
tiles); the container never calls back. Inside the container the parts share the
cache's mutex, the in-flight map, `config_update`, `active_warm_regions` and
atomics; inside the plugin everything runs on one event loop, so the unit of
atomicity is the code between two awaits.

## 2. Modules and their correspondence to the code

`TileCache` is the store. Variables are table columns (`tile`, `last_access`,
`pinned`, `region_tiles`) and the fields of `Inner`; an action is one critical
section of the mutex, with every delta it applies. A key stands for
(source, z, x, y); a tile for its byte size and whether it is negative.

`WarmEngine` extends it with the drivers. A job is a record with a program
counter that follows `run`: begin, tiles, join, tail, flag, assets, promotion
under `config_update`, cleanup, finish, release. The config route, the delete
route and the eviction half of a live store are separate processes with their own
counters, because each has awaits between its steps. So has a driver's call of the
cache: the cap and the budgets are loaded (`TaskLoads`, `FlushLoads`) before the call
is queued for the blocking pool, and it runs with what was loaded, however many pushes
came between; a load beside the publication of a push may mix old and new values
(`LoadedLimits`; the loads of the cap within one call count as one). A config handler
dropped with its client at any await leaves the generation odd and `config_update`
free, and its cap enforcement runs on without it (`ConfigDropped`, `OrphanChecks`); a
`/warm` handler dropped between reservation and spawn leaves the region reserved
(`StartDropped`). `Restart` keeps the tables and resets the process, with the clean-up
of `open`. `RegionDownloads` is the
abstract specification behind it, what the plugin may rely on: a region holds
nothing or the tiles of one request; a request is taken up, saved in one step or not
at all, and closed; a delete is carried out after a moment without a driver. Under
the refinement mapping (at the end of `WarmEngine`) a region holds its joins, a
request is being worked on from `start_warm` to the release, whatever the driver is
at, and a region is condemned while the delete route stands between its last look at
the drivers and `delete_region`. Batches, failures, cancels, pushes, evictions and
live stores are stutters. `SavedHistory` adds one
history variable, what each region's last promotion gave it, that only properties
read.

`TileGeometry` is `geom.rs` as operators: which tiles a box means and how they are
counted. The map is a square of integer units, so that boxes begin and end on tile
edges and inside tiles; the Mercator projection is any monotone map onto it. Intervals
are merged in the order of their starts (`ByStart`), those of one start in any order.
`IsSource` is what `ChartSource::is_valid` leaves of a source's zooms and boxes;
`GeometryAssumption` says that powers of two are positive, which no prover knows.
`MCWarmEngine` states the properties of the boxes a running job may have been given, on
a map wide enough for them (`MapAssumption`).

`Fetcher` is the live path. Tasks (fills, warm tasks, style handlers) are slots
with a program counter: spawned, wait (holding the flight's `Arc`), acquired, fetch,
store, notify. Content is an upstream version number and a row carries the time that
vouches for it; a clock and upstream changes are the environment. Answers of the
upstream are a small set (200, 200 with an unacceptable body, 304, 404, 500,
none). A request reads the definition of its source (`GetBegins`) and, an await later,
the cache, and answers from it, spawns a fill or both; the fill has what the handler
read (`from`, the definition its URL is made of), gets the mutex (`FillAcquires`) and
reads the windows anew (`Windows`). The clock, the windows and the row of that second
look are read in one step, and a 200 is stamped in the step in which it is complete:
the code reads the clock first and stamps after the body, moments apart on a scale of
hours. `inflight_finish` and the drop of the guard and the `Arc` that follows it
are one step; the dead entry a slow drop could leave is the one `Dropped` leaves.
It keeps rows of its own rather than extending `TileCache`: bytes do not matter
here, and `Evict` stands for every removal and unpinning of that module.

`StyleCatalog` is an abstract specification: a catalog of style definitions and, for
each style, at most one learned definition, which is always the one in force; a
replacement first puts everything learned out of use. `Styles` is how the code does
it: a push in five steps between awaits, handlers that load a generation, wait for a
flight, learn, commit under `config_update` and persist, sub-resource handlers that
look up and fill the cache under a generation key, stores that outlive a dropped
handler, and restarts with or without the database. A definition is its own
signature; whether something is still fresh is a free choice, since time passes at
will. The refinement mapping says a style is known when its entry carries the current
generation. A push that its client gives up on is dropped at an await
(`PushAbandoned`); that step belongs to `AbandonSpec` only, so `StylesSpec` describes
pushes that run to their end.

`StyleDocument` says what `learn_style`, `valid_persisted_style`, the rewrite in
`style_doc` and `vector_tile` make of one document and its TileJSONs; `DocumentType`
and `TileJsonType` say what parses as one, and `DocumentAssumption` that the markers of
an absent field and of a refusal are not URLs. `SourceRules`
has the validation of a pushed source, the check of a style URL, and the address
guard over four octets or eight 16-bit segments. `MCStyles` ties both to `Styles`: a
definition is any source the validation accepts and an entry any document
`learn_style` accepts.

`Startup` is the way from process start to serving, over a data directory that
outlives the process: the move of the legacy directory, the open, the one-time
`VACUUM`, the schema rebuilt one autocommitted statement at a time, the cleanup of
staging, and the recreation of a corrupt file; the process may die at any step and
the runtime restarts it. `Service` extends it with what the process does while it
serves: admission with its body guard and the probes' reserve, egress permits, the
geocoder, the push's last steps and the sweeper's wait. Queues are sequences, because
tokio's semaphores and mutexes serve waiters in order; a client may stall on a
response for ever and disconnect at any await. A tile request stands for every read
that goes upstream by a spawned fill.

`RegionsRoutes` is the plugin's side of saved regions. A handler, the loop and
the start-up check are processes whose steps are the code between awaits; a
request is sent, served by the container (`Serve`) and answered, and may be lost
before or after it was served, or served after its caller gave up (`late`). A client
may call while the plugin stops: the handlers look at the store and the address, not at
`active`, and act on the abort of their fetch. The container is reduced to its jobs and which regions hold pins; that a job ends and
one driver owns a region is what `WarmEngine` checks.

The config route is modelled three times, each at the grain its module is about:
cap and budgets against jobs (`WarmEngine`), catalog and generation against learners
(`Styles`), TTL, flag and wake against the sweeper (`Service`).

The `MC` modules hold instance definitions and symmetry sets, the `Proofs` modules the
theorems. Operators with a suffix (`Finished_Always`) are mutated forms of the
definition that follows them: replacing the definition by one of them must break the
property named in `PROJECT.json`.

## 3. Runs

| run | shows |
| --- | --- |
| `cache_regions` | Pins, joins, the totals, the memo and the two budget categories stay exact under every order of puts, batches that repeat a key, pins, promotions, deletes, sweeps and restarts, with rows of two sizes; no operation removes a tile a region references; pinning respects the cap, and a batch frees exactly the room it needs. |
| `warm_config` | Two jobs of two tiles that want one region, against a cap-shrinking config push that may be abandoned half-way, calls queued with limits of before it, an abandoned start, the delete, cancel, full disk and restart: one driver per region, the delete unpins only after it has let go, all or nothing, never across a config, and a failed re-download keeps the saved region; all of it implements `RegionDownloads`. A job enumerates exactly the tiles of its boxes and counts each once. |
| `warm_liveness` | One job with an asset stage, for position warm or for no region, beside live stores and a push that ends or is abandoned: staging joins never outlive it; every job ends and the asset flag is returned. |
| `fetch_path` | Two fills, a warm task and a style handler on one tile and one sub-resource: single flight, honest fetch times, no content of a time-dynamic source older than its TTL, admission, drain. |
| `styles` | Document and sub-resource handlers, two pushes, drops, late stores and a restart over one style with two definitions: entries in use are of the catalog's definition, rows are signed with what they hold, nothing is served that was not in force during the request, cache keys keep definitions apart within one process, requests end, and all of it refines `StyleCatalog`. Over bounded documents, sources and addresses: what is learned is restored but for three named cases, the served document asks only for what the plugin answers, an accepted source passes the checks made where it is fetched, the guard is exact. |
| `service` | Starts from every disk earlier versions or interrupted starts leave, with three faults anywhere: the container comes up in the end, serves only whole databases, keeps saved tiles. Clients over the queues: bodies bounded, everyone answered, never three requests to the provider within one interval however late permits come, the sweeper woken. |
| `routes_store` | Two concurrent creates, deletes or re-downloads beside the loop, with failing writes of `regions.json`: a region is ready only after one of its own jobs completed; a deleted region never returns. |
| `routes_settle` | One request at a time, status included, with a lost or late request, a container restart and a stop or crash of the plugin: a tracked region always has a loop, and every region leaves the downloading state. |
| `saved_assets`, `saved_usable`, `routes_stuck`, `config_parity` | Four statements of the documentation or of a comment that the code does not keep (section 6). |

### Bounds and why they are enough

`cache_regions` uses two keys of one or two bytes against a cap of three and budgets
of two, so that every row may or may not fit, a batch may evict the other key, and two
regions share a tile. `Times` needs two values only for the order of evictions.
`DeleteChunk = 1` makes every delete of two rows release the mutex. In the engine runs
`LiveKeys`, `DeletedRegions` and `Targets` choose which actors take part;
`MaxGeneration = 2` is one config push, or one and its remains: a push that was dropped
leaves the generation at one.
Two jobs are what a conflict over a region needs; batches of one make every row a
flush. `warm_liveness` has one job with all its batches, assets and failures, live
stores beside it; its push changes no limit, since limits only decide whether a job is
capped, which a full disk may do at any flush, and a saved target differs from position
warm only in its budget and the name of its staging region. In `TileGeometry` the world is four units and zooms go to two, which
gives tiles of four, two and one unit; boxes take every pair of meridians, wrapped
ones included, and bands on, inside and beyond the edges.

In `fetch_path` the windows are one and two units with a clock up to two, so that a
tile can be fresh, stale and past its window; one key of the in-flight map is all it
takes to be full; two fills and a warm task are the smallest conflict of three on one
mutex; one version change tells old content from new. Four mutexes are enough for
four tasks: there is always one that nobody holds, which is what `LocksAssumption`
asks of any instance. `ExitBy = 0` lets the process begin to exit only before the clock
first moves, or not at all: tasks of every kind may then be at any stage, or still to
come, and the clock runs on while it drains. The theorems hold for any `ExitBy`.

`styles` has one style with two definitions, one document handler and one
sub-resource handler, two pushes and one restart: a definition can be replaced and put
back, a learner can be overtaken by one push or by two, and a late store can land in
any later configuration. Styles share nothing but the generation, and the theorems of
section 4 hold for any number of everything. Documents vary one source at a time beside
a plain one; addresses lie on both sides of every boundary, and the theorems cover all.

In `service` the parts meet only at the permits, so one run explores them in groups:
starts from every disk with three faults and no clients; two geocodes and a tile; a
push beside a geocode; two probes beside a tile and a push, with one fault. Two request
permits, one health and one egress permit, a cache of one place and an interval of one
unit make every limit reachable. What the process holds in memory does not outlive it,
so faults and clients need not be combined further. The groups are the initial states
of `MCService`; the theorems are about `ServiceSpec`, which starts on any disk with any
clients and faults.

In the routes runs one region with one or two jobs shows every stale read of a region's
own history; `MaxJobs`, `MaxFaults`, `MaxLate` and `MaxStops` bound the faults. They
are split over two runs: two handlers with re-downloads and failing writes in one, one
handler with status requests and faults in the other; all of it at once is beyond TLC's
time here. Different regions share only the set and the map, which are indexed by
region, and the theorems of section 4 hold for any number of both. `ReadyWasDownloaded` is
checked in the first of the two runs and proved under the faults of both.

Symmetry is used where no definition tells the elements apart (cache keys of equal
role, jobs, request handlers, fill slots), and never in a run with a liveness property.

Deadlock is checked in the cache and engine runs. It is not in `routes_store`,
`routes_settle` and `styles`, where the system may be at rest with every bounded fault or push spent;
in `fetch_path`, where the process ends after its drain; and in `service`, where a
container that was started without clients is at rest once it has swept.

### Fairness

`WarmSpec` gives weak fairness to each job's next step and to the config, delete and
eviction steps: the tokio runtime runs every ready task, a fetch ends by its
timeout, and `config_update` is a FIFO mutex. Requests, cancels, shutdown and
restarts are not owed. `StylesFairSpec` gives it to the push, and strong fairness to
each handler's steps: a handler waits for tokio mutexes, which are handed over in the
order of the waiters, while others take and release them again and again. `Service`
gives weak fairness to every step of a start, to the restart of a dead process, to each
handler's own steps (queues are explicit, so order needs no strong fairness), to the
timers and to the sweeper; clients owe neither a call nor the reading of a response.
`RoutesSpec` gives weak fairness to each handler, the loop, the start-up check, the
container's service of a request, the end of a job (which `JobsEnd` of `WarmEngine`
justifies) and the server's start of a plugin that is down. Faults are never fair, and
bounded. `FetchSpec` has no fairness: its properties are safety only.

## 4. Proofs

Every theorem holds for all values of the constants that satisfy the named
assumptions of its module, which TLC evaluates in every run. Below, the inductive
invariant of each component comes first and what follows from it after.

**The store.** `TileCacheProofs`, for every set of keys, regions and staging ids and
every content, budget and batch:

- `TableInvariant`: `Spec => []TableInv`, where `TableInv` is `TypeOK` and
  `JoinedIsPinned`. Neither part is inductive alone: a pinned key has a row because
  evictions take only unpinned keys, and that a joined key has a row only follows
  because joined keys are pinned. One lemma per critical section; evictions, sweeps
  and the clear share one about removing unpinned rows, and batches one about a
  sequence of insertions (`InsertedFacts`).
- `TypeCorrect`, `JoinedTilesPinned`: its two parts.
- `SavedTilesKept`: `Spec => SavedTilesSurvive`, no step but the recreation of a
  corrupt database removes a row that a saved region references
  (`SectionSparesSaved`).

The lemmas are about `CriticalSection`, any section with any arguments and any cap, so
that they serve `Spec` and the engine alike.

The second half of the module is about sums. A sum of bytes is defined as the number of byte
units in a set of rows, and so obeys the laws of finite cardinalities; a batch, whose
rows the code handles in a loop, is followed one row at a time (`InsertedStep`,
`BytesStep`, `AddedStep`), and instead of an induction over its rows each proof looks
at the first row at which its claim would fail (`LeastFailure`).

- `TotalsAreExact`: `Spec => []AccountingExact`. It needs `TableInv`: the delta of an
  eviction is right only because no evicted row is pinned.
- `PinsStayWithinCap`, `WarmsMakeRoom`, `CategoriesStayWithinBudget`: the action
  properties `PinGrowthGated`, `WarmMakesRoom` and `CategoryGrowthGated`. A gate
  compares the running totals, so each of the three needs `AccountingExact` first.

**The engine.** `WarmEngineProofs`, for any number of jobs, targets, keys, styles,
requests, batch sizes and configurations:

- `WarmInvariant`: `WarmSpec => []WarmInv`. `AllOrNothing` alone is not inductive: a
  promotion puts what a staging region holds in place of the saved one, so the
  invariant says what staging holds at each program counter (`JobInv`): what its
  driver kept while it fetches, the whole request once `AfterTiles` let it pass,
  nothing before and after, short of a failed cleanup. It also says whose region is
  whose (`OwnerInv`: every driver's target is in `active_warm_regions`, one driver
  each; an abandoned start may leave more in it), that a delete waits for drivers of its
  own region (`DeleteInv`), that no job is newer than the configuration and every job is
  older than a push under way (`GenInv`; the parity of the generation, which an
  abandoned push inverts, is not needed), and that one job at a time is in the asset
  stage (`FlagInv`).
- `OneDriverPerRegion`, `RegionsAreWhole`, `DeleteWaits`, `StagingIsCleaned`: the
  invariants `RegionExclusive`, `AllOrNothing`, `DeleteWaitsForDriver`,
  `NoStrayStaging`.
- `PromotionIsCurrent`, `SavedRegionsLast`: the action properties
  `NoPromotionAcrossConfig` and `SavedRegionKept`.
- The cache under the engine. A step of the engine is at most one critical section,
  and one that pins has the cap its job loaded (`EngineCalls`), so what was proved of the
  store alone holds of the composition: `EngineKeepsCacheExact` (`JoinedIsPinned` and
  `AccountingExact`) and `EngineSparesSavedTiles` (no step removes the row of a tile that
  a saved region references). The limits a call runs with may be stale. `LimitsInv` says
  of whom: what a job of the current generation holds are the live limits, because only
  a push changes them and every push outdates the jobs before it. So
  `EnginePinsWithinCap`: what makes the pinned set heavier leaves it within the live cap,
  or is of a job that a push has overtaken, which promotes nothing, and within the cap
  that job loaded; and `EngineMakesRoom`: a batch that adds rows and pins ends within the
  live cap or leaves no unpinned row, again but for an overtaken job and its cap.
- The category gates under the engine, where a re-download is credited with the bytes of
  the region it replaces. Nobody but a driver adds joins, by a batch, a fresh pin or its
  promotion (`DriversJoin`). `EngineCategoriesGated`: what joins tiles to a category and
  makes it heavier leaves it within the live budget, or is a pin of a job at work in
  that category and within the budget of its stage, by the live limits unless a push has
  overtaken the job. `EnginePromotesWithinBudget`: what
  adds tiles to a saved region leaves its category within the budget live at that step,
  so the credit is temporary. Both rest on `BatchCharged`, `PinCharged` and
  `PromotionCharged`, which say of one call, with any budget, what the category weighs
  after it.
- `EngineImplementsDownloads`: `WarmSpec => ImplementsDownloads`. `start_warm` is the
  abstract `Ask`, a promotion `Save`, the release `Close`, the delete route's last look
  `Condemn`, its `delete_region` `Forget` or, when that fails, `Spare`, a restart
  `Crash`; everything else stutters. That a driver's request does not change under way
  is `DriverStays`; that a promotion saves the whole of it is `JobInv`; that the route
  condemns only a region at rest is `OwnerInv`.

**The live path.** `FetcherProofs`, for any number of tiles, tasks and versions, any
windows and any cap on keys. `LocksAssumption` says what allocating a mutex gives: while
a task holds none, some mutex is held by nobody.

- `FetchInvariant`: `FetchSpec => []FetchInv`. `SingleFlight` needs that every task at
  work on a key holds the mutex of that key's map entry, although entries are purged and
  made again (`FlightInv`); `HonestFreshness` needs that every tile carried by a task, and
  not only those in rows, has a time at which its version was current (`HonestInv`).
  What a request has read of its source (`ReadInv`) goes along.
- `WindowsAreCurrent`: `FetchSpec => []WindowInv`: a source that was time-dynamic when a
  fill got its mutex is so now and was when the fill read its windows.
- `TilesStayInWindow`: `NeverPastWindow`, which speaks of the upstream's history and not
  of windows: what is given out of a source that was time-dynamic when the request read
  it (inline) or when the fill got the mutex was the upstream's content less than a TTL
  ago. It needs both: the windows are recent enough (`WindowInv`), and an age measured
  from a row's time measures from a moment its content was current (`HonestInv`).
- `FetchIsSingleFlight`, `FetchTimesAreHonest`, `DrainWakes`, `RefusalIsExact`: the
  properties `SingleFlight`, `HonestFreshness`, `NoLostWakeup`, `RefusedOnlyWhenFull`.

**Learned styles.** `StylesProofs`, for any styles, definitions and handlers, and any
number of pushes, restarts and late stores:

- `StylesInvariant`: `StylesSpec => []StylesInv`. `LearnedIsCurrent` alone is not
  inductive: a push swaps the catalog first and restores entries afterwards, and a
  learner may finish at any point between. The invariant adds that the generation is
  odd exactly while a push is under way (`PushInv`); that every entry was made under an
  even generation and, outside the window from swap to restore, has the catalog's
  definition (`EntryInv`); that rows and late stores are signed with what they hold
  (`HonestInv`); and that a learner's definition is the catalog's as long as the
  generation it loaded is the current one (`ReqInv`). One lemma per action; handler
  steps that leave the rest alone share `HandlerFrame`.
- `EntriesAreCurrent`, `RowsAreHonest`, `AnswersWereInForce`: the properties
  `LearnedIsCurrent`, `DurableIsHonest`, `ServedWasInForce` of the run. The type part is
  `StylesTypeCorrect`.
- `NoBleed`: `StylesSpec => []NoBleedInOneLife`, by a second invariant, `BleedInv`.
  Whatever pairs a generation of a style with a definition (entries, rows, rows kept by
  a push or on their way to disk, cached sub-resources, what handlers carry) is a copy
  of another such pair or was made by a commit, so no generation has two definitions
  (`OneMeaning`) and the one in force has the definition in force (`Meant`).
- `StylesImplementCatalog`: `StylesSpec => ImplementsCatalog`. While the generation is
  odd nothing is known (`NothingKnown`); a push's start is the abstract `Suspend`, its
  swap `Replace`, its end `Recall`, a commit `Learn`, and the rest stutters.

**Start and service.** `ServiceProofs`, for any set of disks a start may find, and any
number of clients, faults, permits and places:

- `BootInvariant`: `ServiceSpec => []BootInv`: what the open knows of its database at
  each statement of `ensure_schema` (`OpenInv`), that a stamped database is whole in
  both directories (`DiskInv`, what an interrupted rebuild must leave true for the next
  start), and where pins that must survive are (`OwedInv`). From it
  `ServesWholeDatabase` (`ServesWhole`) and `SavedSurviveStarts` (`SavedKept`).
- `ServiceInvariant`: `ServiceSpec => []ServiceInv`: each queue is a sequence without
  repetition of exactly the requests at that stage (`QueueInv`), permits are counted by
  stages (`BusyInv`), at most one request is behind the geocode mutex and its place is
  not cached (`GeoInv`). From it `AdmissionIsExact` (`AdmissionExact`).
- `SpacingInvariant`: `ServiceSpec => []SpaceInv`: a sleeper, which looks at the stamp only
  once, wakes no earlier than one interval after it, the last departure but one is older
  than the stamp, and so is the last one while a stamped request is not out yet. The last holds because the
  mutex is kept from the look to the answer, so that between two stamps at most one
  request leaves. From it `ProviderIsSpaced` (`ProviderSpaced`).

**Sources and documents.** `SourceRulesProofs`, for every address, source and document:

- `EveryV4` (`is_forbidden_ip` refuses exactly the special-purpose blocks, for all IPv4
  addresses: the code's masks are shown to be ranges) and `EveryV6` (no IPv6 address is
  let through unless it is ordinary global unicast and carries no refused IPv4 address).
- `EverySource`: a source that `is_valid` accepts passes the checks its own requests
  meet. What the shape check leaves of a URL is `AcceptedUrl`: https to a name, or http
  to a loopback host where that is allowed, never with user information.
- `EveryDocumentRestorable` and `EveryDocumentAnswerable`, for documents with any number
  of sources and tiles: what `learn_style` accepts passes `valid_persisted_style` unless
  it has one of the three differences of section 6, and every declared source of the
  served document is answered for the zooms it names.
- `SourcesAlwaysAgree`, `DocumentsAlwaysAgree`: hence the invariants `SourcesAgree` and
  `DocumentsAgree` of the run. The types `SourceType`, `TileJsonType` and `DocumentType`
  are the only hypotheses: what the JSON parser can hand over.

**Geometry.** `GeometryProofs`, for a map of any size, any source `IsSource` accepts, with
any number of boxes that may overlap, any request box and any zooms whose tiles are a
whole number of units wide (for any zooms there is such a map):

- `EveryDownload`: `DownloadsWhatIsAsked`. One coordinate at a time, the tiles between
  the tiles of two positions are those that hold a unit between them, and each borders
  on one (`TilesBetween`); the clips are what is asked, cell by cell, across the
  antimeridian and beyond the limits (`ClipsAreAsked`); cutting rectangles into slabs
  and merging intervals loses, invents and repeats no tile (`Merging`, `Disjoint`).
- `EveryCount`: `CountIsHonest`. Ranges that share no tile have sizes that add up to
  the tiles (`CountOfRanges`).
- `DownloadsAlwaysExact`: `WarmSpec => []DownloadIsExact`.

The code loops over intervals and ranges, and the model folds over them. Induction is out
of reach, so the proofs look at the smallest set or the first step at which a claim would
fail (`NoFailure`), and that a fold has a value at all is proved first (`FoldExists`).

**Region routes.** `RegionsRoutesProofs`, for any number of regions, handlers, jobs,
faults, late requests and stops:

- `StoreInvariant`: `RoutesSpec => []StoreShape` (every record's id was drawn, and
  the store's domain). It is inductive because every write to the store is one of
  four forms: unchanged, a patch of a present record, a removal, or a new record
  under an id not yet drawn (`PatchKeeps`, `RemovalKeeps`, `UnwrittenKeeps`).
- `DeletedForGood`: `RoutesSpec => DeletedStaysDeleted`, from the same four forms.
- `RoutesInvariant`: `RoutesSpec => []RoutesInv`. `ReadyWasDownloaded` rests on the job
  a stale snapshot belongs to: the invariant says that every job named by a handler, the
  loop, the map of jobs or an answer on its way was started for that very region, and
  that a snapshot which says done was taken of a job that completed. From it
  `ReadyIsDownloaded` and `TrackedHasLoop` (`TrackedIsWatched`).

Every safety property of the passing runs is proved. Only model-checked is liveness
(`JobsEnd`, `AssetFlagReturned`, `NeverStuck`, `RequestsEnd`, `StartsInTheEnd`,
`EveryoneIsAnswered`, `SweeperWakes`), which needs fairness and ENABLED, out of the
prover's reach. The four runs of section 6 are refutations and have no theorem.

## 5. What is not modelled

In the modelled parts: request parsing, the spelling of expanded URLs, headers and
logging; the throttled `last_access` touch of the live path; progress counters, the
job registry's reap and the time limits of the drains; the DNS resolver; reads that
change nothing. A failed read straight after a commit (the re-read of `SUM(bytes)` in
`delete_region` and `promote_staged_regions`) and panics are left out: SQLite errors come
before the commit.

`response.rs` builds headers and has no state. The plugin beyond its region routes is
not modelled: its lifecycle, host health monitor, push queue, position warmer, JSON
files, control token and chart registry act on the container by restarts, pushes and
warms, all of which the container's modules take from their environment in any order.
Panel, PMTiles streaming and build scripts carry no logic of the kind checked here.
`PROJECT.json` lists every part with its reason.

## 6. Findings

- `saved_assets`: assets are promoted over one global set, so saving a region with
  another vector basemap unpins the glyphs and sprites of the first.
- `saved_usable`: the batch flush writes rows shared with the saved region before
  the promotion, so a 404 met by a re-download that then fails leaves a usable
  tile overwritten.
- `routes_stuck`: a re-download answered while a reconciliation waits for the bytes
  is untracked with the old job, and its region stays downloading.
- `config_parity`: a push that is dropped while its cap task runs leaves the generation
  odd for good; later pushes publish odd generations, and style documents are refused
  and vector basemaps cannot be downloaded until the container restarts. With such
  drops `LearnedIsCurrent` can fail as well, so the theorems about `Styles` are about
  pushes that run to their end. Those about `WarmEngine` hold with abandoned pushes.

Seen while modelling and not kept as runs:

- Generations count from zero after a restart (`state.rs:300`) while sub-resources stay
  cached under `style:{generation}:{source}`: a definition pushed then can be answered
  with the bytes of an older one of the same number. `NoBleedInOneLife` says "one life"
  for this reason.
- Three things `learn_style` accepts and the restore does not: a control character in
  a fontstack, a validator longer than a URL, a raster source without tiles. Such a
  style is learned again, over the network, after every restart and push.
- A style URL whose parsed form is longer than 4096 bytes is accepted by the
  validation and refused by the check before its fetch.
- A document learned under one definition may be rewritten with the templates of a
  newer one, when a push and a learner come between its two reads of `style_state`.
- A refused push advances the generation by two without clearing `style_state`: every
  style is learned again.
- The geocoder stamps its interval before it waits for an egress permit, so two
  requests may reach the provider closer than the interval `geocode.rs:4` promises.
- A deferred `VACUUM` skips the cleanup of abandoned staging at that start.
- A revalidation answered 200 with a body that is not a tile gives Unavailable, though
  the stale tile is servable (`fetcher.rs:276`; the comment at `fetcher.rs:635`
  speaks of the other failures).
- Between the eviction of a config push and the publication of the new cap, a live
  store may leave the cache above the new cap until the next eviction; so may a flush or
  a fresh pin queued before the push with the limits of then (`warm.rs:1521`).
- A `/warm` handler dropped between the reservation and the spawn (`warm.rs:248-272`)
  leaves its region busy, and its delete answered 409, until the container restarts.
- A lookup that answered "gone" is applied after a re-download started a job: the
  region shows an error while the job runs.
- Start-up totals read before an await can mark a region that was reconciled
  meanwhile as needing a re-download.
- A delete that the container serves before a warm request already on its way
  leaves pins of a region the store no longer holds.
- Two long downloads with vector basemaps can keep a third out of the asset stage
  for ever: the flag is polled, not queued. A cancel that lands after a job's last
  look at it is ignored, and the job ends done.
- `negative_cache` of a live request may overwrite a 200 that a warm flush stored
  meanwhile; a request that finds no fill permit is unavailable even when a stale
  tile could be served.
- `pin_if_fresh_capped` counts a recent legacy row of an unsafe media type as
  fresh: it is pinned for a region and then never served.

## 7. Plan

Done: the modules of section 2, every safety property of the passing runs proved for all
instances, two refinements (`StyleCatalog`, `RegionDownloads`), the geometry and the
judgements of documents and sources for every input, and the gates of the cache under the
engine. What would add most from here:

1. `RegionsRoutes` over `RegionDownloads` in place of its own reduced container.
2. The plugin: lifecycle with the host health monitor, the push queue as an
   implementation of "the latest value is applied", the repair of `regions.json`,
   chart discovery.

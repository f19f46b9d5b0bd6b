-------------------------- MODULE WarmEngineProofs --------------------------
(***************************************************************************)
(* The warm engine for any number of jobs, regions, keys and styles, any   *)
(* batch size, budgets and configurations: one driver per region, staged   *)
(* joins that belong to a job at work, saved regions that are whole, and   *)
(* no promotion across a configuration change; then what was proved of the *)
(* cache alone, for the cache under the engine, and that the engine        *)
(* implements RegionDownloads.                                             *)
(***************************************************************************)
EXTENDS WarmEngine, TileCacheProofs

-----------------------------------------------------------------------------
(* Types                                                                   *)

JobPcs == {"idle", "begin", "tiles", "join", "tail", "flag", "assets", "assetJoin", "assetTail", "lock",
           "cleanup", "cleanupAssets", "finish", "release"}
TilePcs == {"tiles", "join", "tail"}
AssetPcs == {"assets", "assetJoin", "assetTail"}
Finals == {"Done", "Error", "Cancelled", "Capped"}
LimitRecs == [cap : Nat, regions : Nat, position : Nat]
TaskRecs == [key : Keys, limits : LimitRecs]
FillRecs == [cap : Nat, check : BOOLEAN, push : Nat]
JobRecs ==
    [pc : JobPcs, target : Targets \cup {NoRegion}, gen : Nat, cancel : BOOLEAN,
     credit : Nat, assetBudget : Int, request : SUBSET Keys, styles : SUBSET Styles,
     todo : SUBSET Keys, tasks : SUBSET TaskRecs, batch : Seq(BatchRows), flush : SUBSET LimitRecs,
     kept : SUBSET Keys, errors : BOOLEAN, staged : BOOLEAN, final : Finals, leaked : BOOLEAN]

EngineTypeOK ==
    /\ job \in [Jobs -> JobRecs]
    /\ config_generation \in Nat
    /\ live \in Configs /\ config \in [pc : {"idle", "check", "evict", "publish"}, new : Configs]
    /\ delete \in [pc : {"idle", "wait", "delete", "evict"}, region : DeletedRegions \cup {NoRegion},
                   cap : Nat, jobs : SUBSET Jobs]
    /\ fill \in SUBSET FillRecs

-----------------------------------------------------------------------------
(* Who owns what                                                           *)

\* active_warm_regions holds the regions of the drivers, one driver each, and
\* those a dropped /warm handler has left there.
OwnerInv ==
    /\ {job[j].target : j \in {i \in Jobs : Driving(i)}} \ {NoRegion} \subseteq active_warm_regions
    /\ RegionExclusive

\* The jobs a delete waits for are drivers of its region.
DeleteInv ==
    /\ DeleteWaitsForDriver
    /\ delete.pc # "idle" => delete.region \in DeletedRegions
    /\ \A j \in delete.jobs : Driving(j) /\ job[j].target = delete.region

\* No job is of a generation to come, nor, while a push is being applied, of
\* that push's: whatever parity an abandoned push has left.
GenInv ==
    /\ \A j \in Jobs : job[j].gen <= config_generation
    /\ ~ConfigFree => \A j \in Jobs : job[j].gen < config_generation

\* The asset stage is single flight.
FlagInv == \A j \in Jobs : job[j].pc \in AssetPcs <=> assets_warming = j

-----------------------------------------------------------------------------
(* What is staged                                                          *)

\* Where a job for a target stages its tiles, and the keys a region joins.
Home(j, target) ==
    CASE target = NoRegion -> NoRegion
      [] target = PositionWarm -> PosStaging(j)
      [] OTHER -> TileStaging(j)
Of(rt, r) == Joined(rt, {r})
JoinTables == SUBSET (Regions \X Keys)
WithJoins(rt, s, ks) == rt \cup JoinRows(s, ks)
WithoutJoins(rt, s) == {q \in rt : q[1] # s}
Stagings(j) == {TileStaging(j), PosStaging(j), AssetStaging(j)}

\* The staging regions of job j hold what its driver has kept, then what was
\* asked for, then nothing; short of a failed cleanup.
JobInv(j, r, rt) ==
    /\ r.pc # "idle" => r.target \in Targets /\ r.request \in Requests
    /\ r.pc = "begin" => r.kept = {}
    /\ r.pc \in {"idle", "begin", "flag"} \cup TilePcs \cup AssetPcs => ~r.staged
    /\ r.pc \in {"begin", "flag", "lock"} \cup TilePcs \cup AssetPcs => ~r.leaked
    /\ ~r.leaked =>
        /\ \A s \in {TileStaging(j), PosStaging(j)} :
              s # Home(j, r.target) \/ r.pc \in {"idle", "begin", "cleanupAssets", "finish", "release"}
              => Of(rt, s) = {}
        /\ (~r.staged /\ r.pc \notin AssetPcs) \/ r.pc \in {"finish", "release"} => Of(rt, AssetStaging(j)) = {}
    /\ r.target # NoRegion /\ r.pc \in TilePcs => Of(rt, Home(j, r.target)) = r.kept
    /\ r.target # NoRegion /\ r.pc \in {"flag", "lock"} \cup AssetPcs => Of(rt, Home(j, r.target)) = r.request

StagingInv == \A j \in Jobs : JobInv(j, job[j], region_tiles)

WarmInv ==
    /\ EngineTypeOK /\ region_tiles \in JoinTables
    /\ OwnerInv /\ DeleteInv /\ GenInv /\ FlagInv /\ StagingInv /\ AllOrNothing

-----------------------------------------------------------------------------
(* Names of staging regions                                                *)

LEMMA NameFacts ==
    ASSUME NEW j \in Jobs
    PROVE  /\ Stagings(j) \subseteq Regions /\ Stagings(j) \cap SavedRegions = {} /\ NoRegion \notin Stagings(j)
           /\ TileStaging(j) # PosStaging(j) /\ TileStaging(j) # AssetStaging(j)
           /\ PosStaging(j) # AssetStaging(j) /\ j # NoJob
           /\ \A i \in Jobs : i # j => Stagings(i) \cap Stagings(j) = {}
<1>1. TileStaging(j) \in RealStaging /\ AssetStaging(j) \in RealStaging /\ PosStaging(j) \in PositionStaging
  BY EngineAssumption DEF EngineAssumption
<1>2. Stagings(j) \subseteq Regions /\ Stagings(j) \cap SavedRegions = {} /\ NoRegion \notin Stagings(j)
  BY <1>1, RegionAssumption
     DEF RegionAssumption, Stagings, Regions, SavedRegions, PositionRegions, StagingRegions
<1>3. /\ TileStaging(j) # PosStaging(j) /\ TileStaging(j) # AssetStaging(j)
      /\ PosStaging(j) # AssetStaging(j) /\ j # NoJob
  BY EngineAssumption DEF TileStaging, PosStaging, AssetStaging, EngineAssumption
<1>4. \A i \in Jobs : i # j => Stagings(i) \cap Stagings(j) = {}
  BY DEF Stagings, TileStaging, PosStaging, AssetStaging
<1> QED BY <1>2, <1>3, <1>4

LEMMA HomeFacts ==
    ASSUME NEW j \in Jobs, NEW target
    PROVE  /\ target = NoRegion => Home(j, target) = NoRegion
           /\ target # NoRegion => Home(j, target) \in {TileStaging(j), PosStaging(j)} /\ Home(j, target) \in Regions
           /\ Home(j, target) # AssetStaging(j)
           /\ job[j].target = target => Storage(j) = Home(j, target)
<1>1. Home(j, target) \in {NoRegion, TileStaging(j), PosStaging(j)}
  BY DEF Home
<1>2. target # NoRegion => Home(j, target) \in {TileStaging(j), PosStaging(j)}
  BY DEF Home
<1>3. {TileStaging(j), PosStaging(j), AssetStaging(j)} \subseteq Regions /\ NoRegion \notin Stagings(j)
  BY NameFacts DEF Stagings
<1>4. Home(j, target) # AssetStaging(j)
  BY <1>1, <1>3, NameFacts DEF Stagings
<1>5. job[j].target = target => Storage(j) = Home(j, target)
  BY DEF Home, Storage
<1>6. target = NoRegion => Home(j, target) = NoRegion
  BY RegionAssumption DEF RegionAssumption, Regions, PositionRegions, Home
<1>7. target # NoRegion => Home(j, target) \in Regions
  BY <1>2, <1>3
<1> QED BY <1>2, <1>4, <1>5, <1>6, <1>7

-----------------------------------------------------------------------------
(* What the cache's transactions do to the joins                           *)

\* Rows of one region are added (put_many_pinned, pin_if_fresh_capped).
LEMMA JoinEffect ==
    ASSUME NEW rt \in JoinTables, NEW s \in Regions \cup {NoRegion}, NEW ks \in SUBSET Keys,
           NEW new, new = WithJoins(rt, s, ks)
    PROVE  /\ new \in JoinTables
           /\ s # NoRegion => Of(new, s) = Of(rt, s) \cup ks
           /\ \A r \in Regions : r # s => Of(new, r) = Of(rt, r)
BY DEF WithJoins, JoinRows, Of, Joined, JoinTables

\* The joins of one region go (delete_region).
LEMMA DropEffect ==
    ASSUME NEW rt \in JoinTables, NEW s, NEW new, new = WithoutJoins(rt, s)
    PROVE  /\ new \in JoinTables /\ Of(new, s) = {}
           /\ \A r \in Regions : r # s => Of(new, r) = Of(rt, r)
BY DEF WithoutJoins, Of, Joined, JoinTables

\* The joins of a staging region take the target's name.
LEMMA PromoteEffect ==
    ASSUME region_tiles \in JoinTables, NEW repl, NEW S \in SUBSET Regions,
           repl \in [S -> Regions], \A s, u \in S : repl[s] = repl[u] => s = u, \A s \in S : repl[s] \notin S
    PROVE  /\ PromotedJoins(repl) \in JoinTables
           /\ \A s \in S : Of(PromotedJoins(repl), s) = {} /\ Of(PromotedJoins(repl), repl[s]) = Of(region_tiles, s)
           /\ \A r \in Regions : r \notin S /\ (\A s \in S : repl[s] # r) =>
                Of(PromotedJoins(repl), r) = Of(region_tiles, r)
<1> DEFINE new == PromotedJoins(repl)
<1>1. ASSUME NEW r, NEW k
      PROVE  <<r, k>> \in new <=> \/ <<r, k>> \in region_tiles /\ r \notin S /\ \A s \in S : repl[s] # r
                                  \/ \E s \in S : <<s, k>> \in region_tiles /\ repl[s] = r
  <2>1. \A q \in region_tiles : q = <<q[1], q[2]>>
    BY DEF JoinTables
  <2>2. DOMAIN repl = S
    OBVIOUS
  <2>3. <<r, k>> \in {q \in region_tiles : q[1] \notin {repl[s] : s \in S} \cup S} <=>
          <<r, k>> \in region_tiles /\ r \notin S /\ \A s \in S : repl[s] # r
    OBVIOUS
  <2>4. <<r, k>> \in {<<repl[q[1]], q[2]>> : q \in {i \in region_tiles : i[1] \in S}} <=>
          \E s \in S : <<s, k>> \in region_tiles /\ repl[s] = r
    <3>1. ASSUME NEW q \in region_tiles, q[1] \in S, <<r, k>> = <<repl[q[1]], q[2]>>
          PROVE  \E s \in S : <<s, k>> \in region_tiles /\ repl[s] = r
      <4>1. q = <<q[1], k>> /\ repl[q[1]] = r
        BY <2>1, <3>1
      <4> QED BY <3>1, <4>1
    <3>2. ASSUME NEW s \in S, <<s, k>> \in region_tiles, repl[s] = r
          PROVE  \E q \in region_tiles : q[1] \in S /\ <<r, k>> = <<repl[q[1]], q[2]>>
      BY <3>2
    <3> QED BY <3>1, <3>2
  <2> QED BY ZenonT(30), <2>2, <2>3, <2>4 DEF PromotedJoins
<1>2. new \in JoinTables
  BY DEF PromotedJoins, JoinTables
<1> HIDE DEF new
<1>3. ASSUME NEW s \in S
      PROVE  Of(new, s) = {} /\ Of(new, repl[s]) = Of(region_tiles, s)
  <2>1. ASSUME NEW k \in Keys PROVE <<s, k>> \notin new
    <3>1. <<s, k>> \in new <=> \/ <<s, k>> \in region_tiles /\ s \notin S /\ \A u \in S : repl[u] # s
                               \/ \E u \in S : <<u, k>> \in region_tiles /\ repl[u] = s
      BY <1>1
    <3> QED BY <3>1
  <2>2. \A k \in Keys : <<repl[s], k>> \in new <=> <<s, k>> \in region_tiles
    BY <1>1
  <2> QED BY <2>1, <2>2 DEF Of, Joined
<1>4. ASSUME NEW r \in Regions, r \notin S, \A s \in S : repl[s] # r
      PROVE  Of(new, r) = Of(region_tiles, r)
  BY <1>1, <1>4 DEF Of, Joined
<1> QED BY <1>2, <1>3, <1>4 DEF new

\* An open drops what was staged.
LEMMA OpenEffect ==
    ASSUME NEW cap, Open(TRUE, cap), region_tiles \in JoinTables
    PROVE  /\ region_tiles' \in JoinTables
           /\ \A j \in Jobs : \A s \in Stagings(j) : Of(region_tiles', s) = {}
           /\ \A r \in SavedRegions : Of(region_tiles', r) = Of(region_tiles, r)
<1>1. region_tiles' = {q \in region_tiles : q[1] \notin StagingRegions}
  BY DEF Open
<1>2. \A j \in Jobs : Stagings(j) \subseteq StagingRegions
  BY EngineAssumption DEF EngineAssumption, Stagings, StagingRegions
<1>3. SavedRegions \cap StagingRegions = {}
  BY RegionAssumption DEF RegionAssumption, SavedRegions, StagingRegions, PositionRegions
<1> QED BY <1>1, <1>2, <1>3 DEF Of, Joined, JoinTables

-----------------------------------------------------------------------------
(* Frames                                                                  *)

LEMMA JobTypes ==
    ASSUME WarmInv, NEW j \in Jobs
    PROVE  /\ job \in [Jobs -> JobRecs] /\ job[j] \in JobRecs /\ JobInv(j, job[j], region_tiles)
           /\ region_tiles \in JoinTables
BY DEF WarmInv, EngineTypeOK, StagingInv

\* What a caller may load, while a push publishes and otherwise.
LEMMA LimitFacts ==
    ASSUME WarmInv
    PROVE  /\ live \in LimitRecs /\ live \in LoadedLimits /\ LoadedLimits \in SUBSET LimitRecs
           /\ ConfigFree => LoadedLimits = {live}
<1>1. live \in LimitRecs /\ config.new \in LimitRecs
  BY EngineAssumption DEF EngineAssumption, WarmInv, EngineTypeOK, LimitRecs
<1>2. [cap : {live.cap, config.new.cap}, regions : {live.regions, config.new.regions},
       position : {live.position, config.new.position}] \subseteq LimitRecs
  BY <1>1 DEF LimitRecs
<1>3. live \in [cap : {live.cap, config.new.cap}, regions : {live.regions, config.new.regions},
               position : {live.position, config.new.position}]
  BY <1>1 DEF LimitRecs
<1> QED BY <1>1, <1>2, <1>3 DEF LoadedLimits, ConfigFree

\* The joins of a job's staging regions are all its invariant looks at.
LEMMA SameJoins ==
    ASSUME NEW j \in Jobs, NEW r, NEW rt, NEW new, JobInv(j, r, rt), \A s \in Stagings(j) : Of(new, s) = Of(rt, s)
    PROVE  JobInv(j, r, new)
<1>1. r.target # NoRegion => Home(j, r.target) \in Stagings(j)
  BY HomeFacts DEF Stagings
<1> QED BY <1>1 DEF JobInv, Stagings

\* A driver moves on; its region stays its own.
LEMMA JobFrame ==
    ASSUME WarmInv, NEW j \in Jobs, NEW r \in JobRecs, job' = [job EXCEPT ![j] = r],
           job[j].pc # "idle", r.pc # "idle", r.target = job[j].target, r.gen = job[j].gen,
           JobInv(j, r, region_tiles'), region_tiles' \in JoinTables, AllOrNothing',
           \A i \in Jobs : i # j => \A s \in Stagings(i) : Of(region_tiles', s) = Of(region_tiles, s),
           r.pc \in AssetPcs <=> assets_warming' = j,
           assets_warming' = assets_warming \/ {assets_warming', assets_warming} \subseteq {j, NoJob},
           UNCHANGED <<active_warm_regions, config_generation, live, config, delete, fill>>
    PROVE  WarmInv'
<1>1. job'[j] = r /\ \A i \in Jobs : i # j => job'[i] = job[i]
  BY JobTypes
<1>2. EngineTypeOK'
  BY <1>1 DEF WarmInv, EngineTypeOK
<1>3. \A i \in Jobs : /\ job'[i].target = job[i].target /\ job'[i].gen = job[i].gen
                      /\ job'[i].pc # "idle" <=> job[i].pc # "idle"
  BY <1>1
<1>4. OwnerInv'
  <2>1. {job'[i].target : i \in {m \in Jobs : job'[m].pc # "idle"}} \subseteq {job[i].target : i \in {m \in Jobs : job[m].pc # "idle"}}
    BY <1>3
  <2>2. RegionExclusive'
    BY <1>3 DEF WarmInv, OwnerInv, RegionExclusive, Driving
  <2> QED BY <2>1, <2>2 DEF WarmInv, OwnerInv, Driving
<1>5. DeleteInv'
  BY <1>3 DEF WarmInv, EngineTypeOK, DeleteInv, DeleteWaitsForDriver, Driving
<1>6. GenInv'
  BY <1>3 DEF WarmInv, GenInv, ConfigFree
<1>7. FlagInv'
  BY <1>1, NameFacts DEF WarmInv, FlagInv
<1>8. StagingInv'
  BY <1>1, SameJoins DEF WarmInv, StagingInv
<1> QED BY <1>2, <1>4, <1>5, <1>6, <1>7, <1>8 DEF WarmInv

\* Cancels and routes that touch no job: every job is the same but for its
\* cancel flag.
SameJob(r, q) ==
    /\ r.pc = q.pc /\ r.target = q.target /\ r.gen = q.gen /\ r.request = q.request
    /\ r.kept = q.kept /\ r.staged = q.staged /\ r.leaked = q.leaked
    /\ r.tasks = q.tasks /\ r.flush = q.flush

LEMMA SameJobInv ==
    ASSUME NEW j, NEW r, NEW q, NEW rt, SameJob(r, q), JobInv(j, q, rt)
    PROVE  JobInv(j, r, rt)
BY DEF SameJob, JobInv

\* A step that leaves the joins alone and every job as it is, cancels aside.
LEMMA RouteFrame ==
    ASSUME WarmInv, UNCHANGED <<region_tiles, active_warm_regions, assets_warming>>,
           job' \in [Jobs -> JobRecs], \A j \in Jobs : SameJob(job'[j], job[j]),
           GenInv', DeleteInv', EngineTypeOK'
    PROVE  WarmInv'
<1>1. OwnerInv'
  <2>1. {job'[i].target : i \in {m \in Jobs : job'[m].pc # "idle"}} \subseteq {job[i].target : i \in {m \in Jobs : job[m].pc # "idle"}}
    BY DEF SameJob
  <2>2. RegionExclusive'
    BY DEF WarmInv, OwnerInv, RegionExclusive, Driving, SameJob
  <2> QED BY <2>1, <2>2 DEF WarmInv, OwnerInv, Driving
<1>2. FlagInv'
  BY DEF WarmInv, FlagInv, SameJob
<1>3. StagingInv'
  BY SameJobInv DEF WarmInv, StagingInv
<1>4. AllOrNothing'
  BY DEF WarmInv, AllOrNothing, Joined
<1> QED BY <1>1, <1>2, <1>3, <1>4 DEF WarmInv

LEMMA SameJobSelf == ASSUME NEW r PROVE SameJob(r, r)
BY DEF SameJob

LEMMA CancelFacts ==
    ASSUME NEW r \in JobRecs
    PROVE  [r EXCEPT !.cancel = TRUE] \in JobRecs /\ SameJob([r EXCEPT !.cancel = TRUE], r)
BY DEF JobRecs, SameJob

\* A driver within a stage: what it keeps and its region stay, the joins too.
Keeps(r, q) ==
    /\ r.target = q.target /\ r.gen = q.gen /\ r.request = q.request
    /\ r.kept = q.kept /\ r.staged = q.staged /\ r.leaked = q.leaked

LEMMA StageStep ==
    ASSUME WarmInv, NEW j \in Jobs, NEW r \in JobRecs, Drive(j, r), UNCHANGED region_tiles, Keeps(r, job[j]),
           \/ job[j].pc \in TilePcs /\ r.pc \in TilePcs
           \/ job[j].pc \in AssetPcs /\ r.pc \in AssetPcs
    PROVE  WarmInv'
<1>1. JobInv(j, r, region_tiles')
  <2>1. JobInv(j, job[j], region_tiles)
    BY JobTypes
  <2> QED BY <2>1 DEF JobInv, Keeps, TilePcs, AssetPcs
<1>2. job[j].pc # "idle" /\ r.pc # "idle" /\ (r.pc \in AssetPcs <=> job[j].pc \in AssetPcs)
  BY DEF TilePcs, AssetPcs
<1>3. /\ job' = [job EXCEPT ![j] = r] /\ r.target = job[j].target /\ r.gen = job[j].gen
      /\ UNCHANGED <<active_warm_regions, assets_warming, config_generation, live, config, delete, fill>>
  BY DEF Drive, Keeps
<1>4. AllOrNothing'
  BY DEF WarmInv, AllOrNothing, Joined
<1>5. r.pc \in AssetPcs <=> assets_warming' = j
  BY <1>2, <1>3 DEF WarmInv, FlagInv
<1> QED BY <1>1, <1>2, <1>3, <1>4, <1>5, JobTypes, JobFrame

\* A driver between stages: the joins are as they were.
LEMMA MoveStep ==
    ASSUME WarmInv, NEW j \in Jobs, NEW r \in JobRecs, Drive(j, r), UNCHANGED region_tiles,
           job[j].pc # "idle", r.pc # "idle", r.target = job[j].target, r.gen = job[j].gen,
           JobInv(j, r, region_tiles), r.pc \in AssetPcs <=> job[j].pc \in AssetPcs
    PROVE  WarmInv'
<1>1. /\ job' = [job EXCEPT ![j] = r]
      /\ UNCHANGED <<active_warm_regions, assets_warming, config_generation, live, config, delete, fill>>
  BY DEF Drive
<1>2. AllOrNothing' /\ JobInv(j, r, region_tiles')
  BY DEF WarmInv, AllOrNothing, Joined
<1>3. r.pc \in AssetPcs <=> assets_warming' = j
  BY <1>1 DEF WarmInv, FlagInv
<1> QED BY <1>1, <1>2, <1>3, JobTypes, JobFrame

LEMMA SetPc ==
    ASSUME NEW q \in JobRecs, NEW pc \in JobPcs, NEW final \in Finals
    PROVE  LET r == [q EXCEPT !.pc = pc, !.final = final]
           IN  r \in JobRecs /\ Keeps(r, q) /\ r.pc = pc
BY DEF JobRecs, Keeps

-----------------------------------------------------------------------------
(* The driver: starting and fetching                                       *)

LEMMA BytesNat == ASSUME NEW region PROVE RegionBytes(region) \in Nat
<1>1. Joined(region_tiles, {region}) \in SUBSET Keys
  BY DEF Joined
<1> QED BY <1>1, KeySumNat DEF RegionBytes

LEMMA BeginRunInv == ASSUME WarmInv, NEW j \in Jobs, BeginRun(j) PROVE WarmInv'
<1>1. job[j] \in JobRecs /\ JobInv(j, job[j], region_tiles) /\ job[j].pc = "begin" /\ UNCHANGED region_tiles
  BY JobTypes DEF BeginRun, cacheVars, tables
<1>2. CASE Drive(j, [job[j] EXCEPT !.pc = "release", !.final = "Error"])
  <2> DEFINE r == [job[j] EXCEPT !.pc = "release", !.final = "Error"]
  <2>1. r \in JobRecs /\ Keeps(r, job[j]) /\ r.pc = "release"
    BY <1>1 DEF JobRecs, JobPcs, Finals, Keeps
  <2> HIDE DEF r
  <2>2. JobInv(j, r, region_tiles)
    BY <1>1, <2>1 DEF JobInv, Keeps, TilePcs, AssetPcs
  <2> QED BY <1>1, <1>2, <2>1, <2>2, MoveStep DEF r, Keeps, AssetPcs
<1>3. CASE Drive(j, [job[j] EXCEPT !.pc = "tiles", !.todo = job[j].request, !.credit = RegionBytes(job[j].target)])
  <2> DEFINE r == [job[j] EXCEPT !.pc = "tiles", !.todo = job[j].request, !.credit = RegionBytes(job[j].target)]
  <2>1. r \in JobRecs /\ Keeps(r, job[j]) /\ r.pc = "tiles"
    BY <1>1, BytesNat DEF JobRecs, JobPcs, Keeps
  <2> HIDE DEF r
  <2>2. JobInv(j, r, region_tiles)
    <3>1. r.target # NoRegion => Home(j, r.target) \in {TileStaging(j), PosStaging(j)}
      BY HomeFacts
    <3> QED BY <1>1, <2>1, <3>1 DEF JobInv, Keeps, TilePcs, AssetPcs
  <2> QED BY <1>1, <1>3, <2>1, <2>2, MoveStep DEF r, Keeps, AssetPcs
<1> QED BY <1>2, <1>3 DEF BeginRun

LEMMA SpawnInv == ASSUME WarmInv, NEW j \in Jobs, NEW k \in Keys, SpawnTile(j, k) \/ SpawnAsset(j, k) PROVE WarmInv'
<1> DEFINE task == Task(k)
           r == [job[j] EXCEPT !.todo = @ \ {k}, !.tasks = @ \cup {task}]
<1>1. job[j].pc \in TilePcs \cup AssetPcs /\ Drive(j, r) /\ UNCHANGED region_tiles
  BY DEF SpawnTile, SpawnAsset, TilePcs, AssetPcs, cacheVars, tables
<1>2. r \in JobRecs /\ Keeps(r, job[j]) /\ r.pc = job[j].pc
  <2>1. task \in TaskRecs
    BY LimitFacts DEF Task, TaskRecs
  <2> HIDE DEF task
  <2> QED BY <2>1, JobTypes DEF JobRecs, Keeps
<1> HIDE DEF r
<1> QED BY <1>1, <1>2, StageStep

LEMMA LoadsInv ==
    ASSUME WarmInv, NEW j \in Jobs, FlushLoads(j) \/ \E t \in job[j].tasks : TaskLoads(j, t)
    PROVE  WarmInv'
<1>1. job[j] \in JobRecs /\ LoadedLimits \in SUBSET LimitRecs
  BY JobTypes, LimitFacts
<1>2. CASE FlushLoads(j)
  <2>1. PICK limits \in LoadedLimits : Drive(j, [job[j] EXCEPT !.flush = {limits}])
    BY <1>2 DEF FlushLoads
  <2> DEFINE r == [job[j] EXCEPT !.flush = {limits}]
  <2>2. r \in JobRecs /\ Keeps(r, job[j]) /\ r.pc = job[j].pc
    BY <1>1 DEF JobRecs, Keeps
  <2>3. job[j].pc \in TilePcs \cup AssetPcs /\ UNCHANGED region_tiles /\ Drive(j, r)
    BY <1>2, <2>1 DEF FlushLoads, MustFlush, InTiles, InAssets, TilePcs, AssetPcs, cacheVars, tables
  <2> HIDE DEF r
  <2> QED BY <2>2, <2>3, StageStep
<1>3. CASE \E t \in job[j].tasks : TaskLoads(j, t)
  <2>1. PICK t \in job[j].tasks, limits \in LoadedLimits :
          Drive(j, [job[j] EXCEPT !.tasks = (@ \ {t}) \cup {[t EXCEPT !.limits = limits]}])
    BY <1>3 DEF TaskLoads
  <2> DEFINE task == [t EXCEPT !.limits = limits]
             r == [job[j] EXCEPT !.tasks = (@ \ {t}) \cup {task}]
  <2>2. task \in TaskRecs
    BY <1>1 DEF JobRecs, TaskRecs
  <2>3. job[j].pc \in TilePcs \cup AssetPcs /\ UNCHANGED region_tiles /\ Drive(j, r)
    BY <1>3, <2>1 DEF TaskLoads, InTiles, InAssets, TilePcs, AssetPcs, cacheVars, tables
  <2> HIDE DEF task
  <2>4. r \in JobRecs /\ Keeps(r, job[j]) /\ r.pc = job[j].pc
    BY <1>1, <2>2 DEF JobRecs, Keeps
  <2> HIDE DEF r
  <2> QED BY <2>3, <2>4, StageStep
<1> QED BY <1>2, <1>3

LEMMA SpawnEndsInv == ASSUME WarmInv, NEW j \in Jobs, SpawnEnds(j) PROVE WarmInv'
<1>1. PICK final \in Finals : Drive(j, [job[j] EXCEPT !.pc = "join", !.final = final])
  BY DEF SpawnEnds, Finals
<1> DEFINE r == [job[j] EXCEPT !.pc = "join", !.final = final]
<1>2. r \in JobRecs /\ Keeps(r, job[j]) /\ r.pc = "join"
  <2>1. job[j] \in JobRecs /\ "join" \in JobPcs
    BY JobTypes DEF JobPcs
  <2> QED BY <2>1, SetPc
<1>3. job[j].pc = "tiles" /\ UNCHANGED region_tiles
  BY DEF SpawnEnds, cacheVars, tables
<1> HIDE DEF r
<1> QED BY <1>1, <1>2, <1>3, StageStep DEF r, TilePcs

LEMMA SpawnAssetsEndsInv == ASSUME WarmInv, NEW j \in Jobs, SpawnAssetsEnds(j) PROVE WarmInv'
<1>1. PICK final \in Finals : Drive(j, [job[j] EXCEPT !.pc = "assetJoin", !.final = final])
  <2>1. job[j].final \in Finals /\ [job[j] EXCEPT !.pc = "assetJoin"] = [job[j] EXCEPT !.pc = "assetJoin", !.final = job[j].final]
    BY JobTypes DEF JobRecs
  <2> QED BY <2>1 DEF SpawnAssetsEnds, Finals
<1> DEFINE r == [job[j] EXCEPT !.pc = "assetJoin", !.final = final]
<1>2. r \in JobRecs /\ Keeps(r, job[j]) /\ r.pc = "assetJoin"
  <2>1. job[j] \in JobRecs /\ "assetJoin" \in JobPcs
    BY JobTypes DEF JobPcs
  <2> QED BY <2>1, SetPc
<1>3. job[j].pc = "assets" /\ UNCHANGED region_tiles
  BY DEF SpawnAssetsEnds, cacheVars, tables
<1> HIDE DEF r
<1> QED BY <1>1, <1>2, <1>3, StageStep DEF r, AssetPcs

\* A task ends with a row for the batch or without one.
LEMMA TaskDone ==
    ASSUME WarmInv, NEW j \in Jobs, NEW t \in job[j].tasks, NEW c \in Tiles
    PROVE  LET r == [job[j] EXCEPT !.tasks = @ \ {t}]
               q == [r EXCEPT !.batch = Append(@, [key |-> t.key, tile |-> c])]
           IN  /\ r \in JobRecs /\ Keeps(r, job[j]) /\ r.pc = job[j].pc /\ r.final = job[j].final
               /\ q \in JobRecs /\ Keeps(q, job[j]) /\ q.pc = job[j].pc
<1> DEFINE r == [job[j] EXCEPT !.tasks = @ \ {t}]
           row == [key |-> t.key, tile |-> c]
           q == [r EXCEPT !.batch = Append(@, row)]
<1>1. r \in JobRecs /\ Keeps(r, job[j]) /\ r.pc = job[j].pc /\ r.final = job[j].final
  BY JobTypes DEF JobRecs, Keeps
<1> HIDE DEF r
<1>2. r.batch \in Seq(BatchRows)
  BY <1>1 DEF JobRecs
<1>3. Append(r.batch, row) \in Seq(BatchRows)
  <2>1. row \in BatchRows
    BY JobTypes DEF BatchRows, JobRecs, TaskRecs
  <2> HIDE DEF row
  <2> QED BY <1>2, <2>1
<1> HIDE DEF row
<1>4. q \in JobRecs /\ Keeps(q, r) /\ q.pc = r.pc
  BY <1>1, <1>3 DEF JobRecs, Keeps
<1>5. Keeps(q, job[j])
  BY <1>1, <1>4 DEF Keeps
<1> QED BY <1>1, <1>4, <1>5 DEF r, row

LEMMA FetchesInv ==
    ASSUME WarmInv, NEW j \in Jobs, NEW t \in job[j].tasks, NEW c \in Tiles,
           TaskFetches(j, t, c) \/ AssetFetches(j, t, c)
    PROVE  WarmInv'
<1> DEFINE r == [job[j] EXCEPT !.tasks = @ \ {t}]
           q == [r EXCEPT !.batch = Append(@, [key |-> t.key, tile |-> c])]
<1>1. job[j].pc \in TilePcs \cup AssetPcs /\ (Drive(j, r) \/ Drive(j, q)) /\ UNCHANGED region_tiles
  BY DEF TaskFetches, AssetFetches, InTiles, InAssets, TilePcs, AssetPcs, cacheVars, tables
<1>2. /\ r \in JobRecs /\ Keeps(r, job[j]) /\ r.pc = job[j].pc
      /\ q \in JobRecs /\ Keeps(q, job[j]) /\ q.pc = job[j].pc
  BY TaskDone
<1> HIDE DEF r, q
<1> QED BY <1>1, <1>2, StageStep

LEMMA FailsInv ==
    ASSUME WarmInv, NEW j \in Jobs, NEW t \in job[j].tasks, TaskFails(j, t) \/ AssetFails(j, t)
    PROVE  WarmInv'
<1>1. UNCHANGED region_tiles /\ job[j] \in JobRecs
  BY JobTypes DEF TaskFails, AssetFails, cacheVars, tables
<1>2. CASE TaskFails(j, t)
  <2> DEFINE r == [job[j] EXCEPT !.tasks = @ \ {t}]
             q1 == [r EXCEPT !.errors = TRUE]
             q2 == [r EXCEPT !.pc = "join", !.cancel = TRUE, !.final = "Cancelled"]
  <2>1. job[j].pc \in TilePcs /\ (Drive(j, r) \/ Drive(j, q1) \/ Drive(j, q2))
    BY <1>2 DEF TaskFails, InTiles, TilePcs
  <2>2. r \in JobRecs /\ Keeps(r, job[j]) /\ r.pc = job[j].pc
    BY <1>1 DEF JobRecs, Keeps
  <2> HIDE DEF r
  <2>3. q1 \in JobRecs /\ Keeps(q1, job[j]) /\ q1.pc = job[j].pc
    BY <2>2 DEF JobRecs, Keeps
  <2>4. q2 \in JobRecs /\ Keeps(q2, job[j]) /\ q2.pc = "join"
    BY <2>2 DEF JobRecs, JobPcs, Finals, Keeps
  <2> HIDE DEF q1, q2
  <2> QED BY <1>1, <2>1, <2>2, <2>3, <2>4, StageStep DEF TilePcs
<1>3. CASE AssetFails(j, t)
  <2> DEFINE r == [job[j] EXCEPT !.tasks = @ \ {t}, !.pc = "assetJoin", !.final = IF @ = "Done" THEN "Error" ELSE @]
  <2>1. job[j].pc \in AssetPcs /\ Drive(j, r)
    BY <1>3 DEF AssetFails, InAssets, AssetPcs
  <2>2. r \in JobRecs /\ Keeps(r, job[j]) /\ r.pc = "assetJoin"
    BY <1>1 DEF JobRecs, JobPcs, Finals, Keeps
  <2> HIDE DEF r
  <2> QED BY <1>1, <2>1, <2>2, StageStep DEF AssetPcs
<1> QED BY <1>2, <1>3

-----------------------------------------------------------------------------
(* The driver: pins and batches                                            *)

\* Rows that a task pins or a batch stores are kept under the staging region.
LEMMA StageWrites ==
    ASSUME WarmInv, NEW j \in Jobs, NEW r \in JobRecs, Drive(j, r), NEW ks \in SUBSET Keys,
           region_tiles' = WithJoins(region_tiles, StageRegion(j), ks),
           r.target = job[j].target, r.gen = job[j].gen, r.request = job[j].request,
           r.staged = job[j].staged, r.leaked = job[j].leaked, r.kept = job[j].kept \cup ks,
           \/ job[j].pc \in TilePcs /\ r.pc \in TilePcs
           \/ job[j].pc \in AssetPcs /\ r.pc \in AssetPcs
    PROVE  WarmInv'
<1> DEFINE home == Home(j, job[j].target)
           region == StageRegion(j)
<1>1. JobInv(j, job[j], region_tiles) /\ region_tiles \in JoinTables
  BY JobTypes
<1>2. /\ job[j].pc \in TilePcs => region = home
      /\ job[j].pc \in AssetPcs => region = AssetStaging(j)
  BY HomeFacts DEF StageRegion, InTiles, TilePcs, AssetPcs
<1>3. /\ job[j].target = NoRegion => home = NoRegion
      /\ job[j].target # NoRegion => home \in {TileStaging(j), PosStaging(j)} /\ home \in Regions
      /\ home # AssetStaging(j)
  BY HomeFacts
<1>4. region \in Stagings(j) \cup {NoRegion} /\ region \in Regions \cup {NoRegion}
  BY <1>2, <1>3, NameFacts DEF Stagings
<1> HIDE DEF home, region
<1>5. /\ region_tiles' \in JoinTables
      /\ region # NoRegion => Of(region_tiles', region) = Of(region_tiles, region) \cup ks
      /\ \A s \in Regions : s # region => Of(region_tiles', s) = Of(region_tiles, s)
  <2>1. region_tiles' = WithJoins(region_tiles, region, ks) /\ region_tiles \in JoinTables
    BY <1>1 DEF region
  <2> QED BY <1>4, <2>1, JoinEffect
<1>6. JobInv(j, r, region_tiles')
  <2>1. TileStaging(j) \in Regions /\ PosStaging(j) \in Regions /\ AssetStaging(j) \in Regions /\ NoRegion \notin Stagings(j)
    BY NameFacts DEF Stagings
  <2>2. CASE job[j].pc \in TilePcs
    BY <1>1, <1>2, <1>3, <1>5, <2>1, <2>2 DEF JobInv, TilePcs, AssetPcs, home, Stagings
  <2>3. CASE job[j].pc \in AssetPcs
    <3>1. /\ Of(region_tiles', TileStaging(j)) = Of(region_tiles, TileStaging(j))
          /\ Of(region_tiles', PosStaging(j)) = Of(region_tiles, PosStaging(j))
      BY <1>2, <1>5, <2>1, <2>3, NameFacts
    <3> QED BY <1>1, <1>3, <2>3, <3>1 DEF JobInv, TilePcs, AssetPcs, home
  <2> QED BY <2>2, <2>3
<1>7. AllOrNothing'
  <2>1. \A s \in SavedRegions : s \in Regions /\ s # region
    BY <1>4, NameFacts, RegionAssumption DEF RegionAssumption, SavedRegions, Regions, PositionRegions
  <2> QED BY <1>5, <2>1 DEF WarmInv, AllOrNothing, Of
<1>8. \A i \in Jobs : i # j => \A s \in Stagings(i) : Of(region_tiles', s) = Of(region_tiles, s)
  BY <1>4, <1>5, NameFacts
<1>9. /\ job' = [job EXCEPT ![j] = r]
      /\ UNCHANGED <<active_warm_regions, assets_warming, config_generation, live, config, delete, fill>>
  BY DEF Drive
<1>10. /\ job[j].pc # "idle" /\ r.pc # "idle"
       /\ r.pc \in AssetPcs <=> assets_warming' = j
  BY <1>9 DEF TilePcs, AssetPcs, WarmInv, FlagInv
<1> QED BY <1>5, <1>6, <1>7, <1>8, <1>9, <1>10, JobFrame

LEMMA CappedFacts ==
    ASSUME NEW q \in JobRecs, q.pc \in TilePcs \cup AssetPcs
    PROVE  /\ Capped(q) \in JobRecs /\ Keeps(Capped(q), q)
           /\ q.pc \in TilePcs => Capped(q).pc \in TilePcs
           /\ q.pc \in AssetPcs => Capped(q).pc \in AssetPcs
<1> DEFINE cancel == q.cancel \/ q.pc # "tail"
           final == IF q.final = "Done" THEN "Capped" ELSE q.final
<1>1. cancel \in BOOLEAN /\ final \in Finals
  BY DEF JobRecs, Finals
<1> HIDE DEF cancel, final
<1>2. CASE q.pc \in TilePcs
  <2>1. Capped(q) = [q EXCEPT !.pc = "join", !.cancel = cancel, !.final = final]
    BY <1>2 DEF Capped, TilePcs, cancel, final
  <2> QED BY <1>1, <1>2, <2>1 DEF JobRecs, JobPcs, Keeps, TilePcs, AssetPcs
<1>3. CASE q.pc \in AssetPcs
  <2>1. Capped(q) = [q EXCEPT !.pc = "assetJoin", !.final = final]
    BY <1>3 DEF Capped, AssetPcs, final
  <2> QED BY <1>1, <1>3, <2>1 DEF JobRecs, JobPcs, Keeps, TilePcs, AssetPcs
<1> QED BY <1>2, <1>3

LEMMA TaskPinsInv == ASSUME WarmInv, NEW j \in Jobs, NEW t \in job[j].tasks, TaskPins(j, t) PROVE WarmInv'
<1>1. job[j] \in JobRecs /\ job[j].pc \in TilePcs \cup AssetPcs /\ {t.key} \in SUBSET Keys
  BY JobTypes DEF TaskPins, InTiles, InAssets, TilePcs, AssetPcs, JobRecs, TaskRecs
<1>2. CASE \E budget, cap :
              /\ PinIfFreshCapped(t.key, budget, cap, StageRegion(j))
              /\ Drive(j, [job[j] EXCEPT !.tasks = @ \ {t}, !.kept = @ \cup {t.key}])
  <2> DEFINE ks == {t.key}
             r == [job[j] EXCEPT !.tasks = @ \ {t}, !.kept = @ \cup ks]
  <2>1. region_tiles' = WithJoins(region_tiles, StageRegion(j), ks) /\ Drive(j, r) /\ ks \in SUBSET Keys
    BY <1>1, <1>2 DEF PinIfFreshCapped, WithJoins
  <2> HIDE DEF ks
  <2>2. /\ r \in JobRecs /\ r.pc = job[j].pc /\ r.target = job[j].target /\ r.gen = job[j].gen
        /\ r.request = job[j].request /\ r.staged = job[j].staged /\ r.leaked = job[j].leaked
        /\ r.kept = job[j].kept \cup ks
    BY <1>1, <2>1 DEF JobRecs
  <2> HIDE DEF r
  <2> QED BY <1>1, <2>1, <2>2, StageWrites
<1>3. CASE Drive(j, Capped([job[j] EXCEPT !.tasks = @ \ {t}])) /\ UNCHANGED cacheVars
  <2> DEFINE q == [job[j] EXCEPT !.tasks = @ \ {t}]
  <2>1. q \in JobRecs /\ Keeps(q, job[j]) /\ q.pc = job[j].pc
    BY <1>1 DEF JobRecs, Keeps
  <2> HIDE DEF q
  <2>2. Capped(q) \in JobRecs /\ Keeps(Capped(q), job[j])
    BY <1>1, <2>1, CappedFacts DEF Keeps
  <2>3. /\ job[j].pc \in TilePcs => Capped(q).pc \in TilePcs
        /\ job[j].pc \in AssetPcs => Capped(q).pc \in AssetPcs
    BY <1>1, <2>1, CappedFacts
  <2> QED BY <1>1, <1>3, <2>2, <2>3, StageStep DEF q, cacheVars, tables
<1> QED BY <1>2, <1>3 DEF TaskPins

LEMMA BatchKeyTypes ==
    ASSUME NEW batch \in Seq(BatchRows), NEW budget, NEW cap, NEW region
    PROVE  BatchKeys(batch, StoredRows(batch, budget, cap, region)) \in SUBSET Keys
<1> DEFINE n == StoredRows(batch, budget, cap, region)
<1>1. n \in 0 .. Len(batch) /\ Len(batch) \in Nat
  BY StoredRowsPrefix
<1> HIDE DEF n
<1>2. \A i \in 1 .. n : batch[i] \in BatchRows
  BY <1>1
<1> QED BY <1>2 DEF BatchKeys, BatchRows, n

LEMMA EmptiedFacts ==
    ASSUME NEW q \in JobRecs
    PROVE  LET r == [q EXCEPT !.batch = <<>>]
           IN  r \in JobRecs /\ Keeps(r, q) /\ r.pc = q.pc /\ r.final = q.final /\ r.styles = q.styles
<1>1. <<>> \in Seq(BatchRows)
  OBVIOUS
<1> QED BY <1>1 DEF JobRecs, Keeps

LEMMA FlushedFacts ==
    ASSUME NEW q \in JobRecs
    PROVE  LET r == [q EXCEPT !.batch = <<>>, !.flush = {}]
           IN  r \in JobRecs /\ Keeps(r, q) /\ r.pc = q.pc /\ r.final = q.final
<1>1. <<>> \in Seq(BatchRows)
  OBVIOUS
<1> QED BY <1>1 DEF JobRecs, Keeps

\* A flush stores a prefix of the batch, or nothing.
LEMMA FlushBatchInv ==
    ASSUME WarmInv, NEW j \in Jobs, NEW failed \in JobRecs, Keeps(failed, job[j]), FlushBatch(j, failed),
           \/ job[j].pc \in TilePcs /\ failed.pc \in TilePcs
           \/ job[j].pc \in AssetPcs /\ failed.pc \in AssetPcs
    PROVE  WarmInv'
<1> PICK limits \in job[j].flush :
       LET batch == job[j].batch
           budget == StageBudget(j, limits)
           n == StoredRows(batch, budget, limits.cap, StageRegion(j))
           emptied == [job[j] EXCEPT !.batch = <<>>, !.flush = {}]
       IN  \/ /\ PutManyPinned(batch, budget, limits.cap, StageRegion(j), 0)
              /\ LET stored == [emptied EXCEPT !.kept = @ \cup BatchKeys(batch, n)]
                 IN  Drive(j, IF n < Len(batch) THEN Capped(stored) ELSE stored)
           \/ Drive(j, Capped(emptied)) /\ UNCHANGED cacheVars
           \/ Drive(j, [failed EXCEPT !.batch = <<>>, !.flush = {}]) /\ UNCHANGED cacheVars
  BY DEF FlushBatch
<1> DEFINE batch == job[j].batch
           n == StoredRows(batch, StageBudget(j, limits), limits.cap, StageRegion(j))
           ks == BatchKeys(batch, n)
           emptied == [job[j] EXCEPT !.batch = <<>>, !.flush = {}]
           stored == [emptied EXCEPT !.kept = @ \cup ks]
<1>1. job[j] \in JobRecs /\ batch \in Seq(BatchRows)
  BY JobTypes DEF JobRecs
<1>2. emptied \in JobRecs /\ Keeps(emptied, job[j]) /\ emptied.pc = job[j].pc
  BY <1>1, FlushedFacts
<1>3. ks \in SUBSET Keys
  BY <1>1, BatchKeyTypes
<1>4. \/ /\ region_tiles' = WithJoins(region_tiles, StageRegion(j), ks)
         /\ Drive(j, IF n < Len(batch) THEN Capped(stored) ELSE stored)
      \/ Drive(j, Capped(emptied)) /\ UNCHANGED cacheVars
      \/ Drive(j, [failed EXCEPT !.batch = <<>>, !.flush = {}]) /\ UNCHANGED cacheVars
  BY DEF PutManyPinned, WithJoins
<1> HIDE DEF batch, n, ks, emptied
<1>5. /\ stored \in JobRecs /\ stored.pc = job[j].pc /\ stored.target = job[j].target /\ stored.gen = job[j].gen
      /\ stored.request = job[j].request /\ stored.staged = job[j].staged /\ stored.leaked = job[j].leaked
      /\ stored.kept = job[j].kept \cup ks
  BY <1>2, <1>3 DEF JobRecs, Keeps
<1> HIDE DEF stored
<1>6. CASE /\ region_tiles' = WithJoins(region_tiles, StageRegion(j), ks)
           /\ Drive(j, IF n < Len(batch) THEN Capped(stored) ELSE stored)
  <2>1. PICK r \in {Capped(stored), stored} : Drive(j, r)
    BY <1>6
  <2>2. /\ r \in JobRecs /\ Keeps(r, stored)
        /\ job[j].pc \in TilePcs => r.pc \in TilePcs
        /\ job[j].pc \in AssetPcs => r.pc \in AssetPcs
    BY <1>5, <2>1, CappedFacts DEF Keeps
  <2>3. /\ r.target = job[j].target /\ r.gen = job[j].gen
        /\ r.request = job[j].request /\ r.staged = job[j].staged /\ r.leaked = job[j].leaked
        /\ r.kept = job[j].kept \cup ks
    BY <1>5, <2>2 DEF Keeps
  <2> QED BY <1>3, <1>6, <2>1, <2>2, <2>3, StageWrites
<1>7. CASE Drive(j, Capped(emptied)) /\ UNCHANGED cacheVars
  <2>1. /\ Capped(emptied) \in JobRecs /\ Keeps(Capped(emptied), job[j])
        /\ job[j].pc \in TilePcs => Capped(emptied).pc \in TilePcs
        /\ job[j].pc \in AssetPcs => Capped(emptied).pc \in AssetPcs
    BY <1>2, CappedFacts DEF Keeps
  <2> QED BY <1>7, <2>1, StageStep DEF cacheVars, tables
<1>8. CASE Drive(j, [failed EXCEPT !.batch = <<>>, !.flush = {}]) /\ UNCHANGED cacheVars
  <2> DEFINE r == [failed EXCEPT !.batch = <<>>, !.flush = {}]
  <2>1. r \in JobRecs /\ Keeps(r, failed) /\ r.pc = failed.pc
    BY FlushedFacts
  <2> HIDE DEF r
  <2>2. Keeps(r, job[j])
    BY <2>1 DEF Keeps
  <2> QED BY <1>8, <2>1, <2>2, StageStep DEF r, cacheVars, tables
<1> QED BY <1>4, <1>6, <1>7, <1>8

LEMMA FlushInv == ASSUME WarmInv, NEW j \in Jobs, FlushTiles(j) \/ FlushAssets(j) PROVE WarmInv'
<1>1. job[j] \in JobRecs
  BY JobTypes
<1>2. CASE FlushTiles(j)
  <2> DEFINE failed == [job[j] EXCEPT !.errors = TRUE]
  <2>1. failed \in JobRecs /\ Keeps(failed, job[j]) /\ failed.pc = job[j].pc
    BY <1>1 DEF JobRecs, Keeps
  <2>2. job[j].pc \in TilePcs /\ FlushBatch(j, failed)
    BY <1>2 DEF FlushTiles, InTiles, TilePcs
  <2> HIDE DEF failed
  <2> QED BY <2>1, <2>2, FlushBatchInv
<1>3. CASE FlushAssets(j)
  <2> DEFINE failed == [job[j] EXCEPT !.pc = "assetJoin", !.final = "Error"]
  <2>1. failed \in JobRecs /\ Keeps(failed, job[j]) /\ failed.pc = "assetJoin"
    BY <1>1, SetPc DEF JobPcs, Finals
  <2>2. job[j].pc \in AssetPcs /\ FlushBatch(j, failed)
    BY <1>3 DEF FlushAssets, InAssets, AssetPcs
  <2> HIDE DEF failed
  <2> QED BY <2>1, <2>2, FlushBatchInv DEF AssetPcs
<1> QED BY <1>2, <1>3

LEMMA FlushFullInv == ASSUME WarmInv, NEW j \in Jobs, FlushFull(j) PROVE WarmInv'
BY FlushInv DEF FlushFull

LEMMA JoinInv == ASSUME WarmInv, NEW j \in Jobs, JoinSeesCancel(j) \/ JoinEnds(j) PROVE WarmInv'
<1>1. job[j] \in JobRecs /\ job[j].pc = "join" /\ UNCHANGED region_tiles
  BY JobTypes DEF JoinSeesCancel, JoinEnds, cacheVars, tables
<1>2. CASE Drive(j, [job[j] EXCEPT !.final = "Cancelled"])
  <2>1. /\ [job[j] EXCEPT !.final = "Cancelled"] \in JobRecs /\ Keeps([job[j] EXCEPT !.final = "Cancelled"], job[j])
        /\ [job[j] EXCEPT !.final = "Cancelled"].pc = "join"
    BY <1>1 DEF JobRecs, Keeps, Finals
  <2> QED BY <1>1, <1>2, <2>1, StageStep DEF TilePcs
<1>3. CASE Drive(j, [job[j] EXCEPT !.pc = "tail"])
  <2>1. /\ [job[j] EXCEPT !.pc = "tail"] \in JobRecs /\ Keeps([job[j] EXCEPT !.pc = "tail"], job[j])
        /\ [job[j] EXCEPT !.pc = "tail"].pc = "tail"
    BY <1>1 DEF JobRecs, JobPcs, Keeps
  <2> QED BY <1>1, <1>3, <2>1, StageStep DEF TilePcs
<1> QED BY <1>2, <1>3 DEF JoinSeesCancel, JoinEnds

\* The tiles are complete and wait for promotion or for assets, or the job has
\* failed.
LEMMA TilesTailInv == ASSUME WarmInv, NEW j \in Jobs, TilesTail(j) PROVE WarmInv'
<1>1. job[j] \in JobRecs /\ job[j].pc = "tail" /\ JobInv(j, job[j], region_tiles)
  BY JobTypes DEF TilesTail
<1>2. CASE FlushTiles(j)
  BY <1>2, FlushInv
<1>3. CASE Drive(j, AfterTiles(j)) /\ UNCHANGED cacheVars
  <2> DEFINE e == [job[j] EXCEPT !.batch = <<>>]
             complete == ~e.errors /\ e.kept = e.request /\ e.gen = config_generation
             r == AfterTiles(j)
  <2>1. e \in JobRecs /\ Keeps(e, job[j]) /\ e.pc = "tail"
    BY <1>1, EmptiedFacts
  <2>2. \/ r = [e EXCEPT !.pc = "cleanup"]
        \/ r = [e EXCEPT !.pc = "cleanup", !.final = "Error"]
        \/ e.kept = e.request /\ \E pc \in {"lock", "flag"} : r = [e EXCEPT !.pc = pc]
    <3> HIDE DEF e
    <3>1. r = CASE e.final # "Done" -> [e EXCEPT !.pc = "cleanup"]
                [] e.final = "Done" /\ ~complete -> [e EXCEPT !.pc = "cleanup", !.final = "Error"]
                [] OTHER -> [e EXCEPT !.pc = IF e.styles = {} THEN "lock" ELSE "flag"]
      BY DEF AfterTiles, e
    <3> QED BY <3>1
  <2> HIDE DEF e, r, complete
  <2>3. r \in JobRecs /\ Keeps(r, job[j])
    BY ZenonT(30), <2>1, <2>2 DEF JobRecs, JobPcs, Finals, Keeps
  <2>4. r.pc = "cleanup" \/ (r.pc \in {"lock", "flag"} /\ job[j].kept = job[j].request)
    BY <2>1, <2>2 DEF JobRecs, Keeps
  <2>5. JobInv(j, r, region_tiles)
    BY <1>1, <2>3, <2>4 DEF JobInv, Keeps, TilePcs, AssetPcs
  <2>6. Drive(j, r) /\ UNCHANGED region_tiles
    BY <1>3 DEF r, cacheVars, tables
  <2>7. r.pc # "idle" /\ (r.pc \in AssetPcs <=> job[j].pc \in AssetPcs)
    BY <1>1, <2>4 DEF AssetPcs
  <2> QED BY <1>1, <2>3, <2>5, <2>6, <2>7, MoveStep DEF Keeps
<1> QED BY <1>2, <1>3 DEF TilesTail

-----------------------------------------------------------------------------
(* The driver: assets                                                      *)

LEMMA AssetStageFailedFacts ==
    ASSUME NEW q \in JobRecs
    PROVE  AssetStageFailed(q) \in JobRecs /\ Keeps(AssetStageFailed(q), q) /\ AssetStageFailed(q).pc = "cleanup"
<1> DEFINE errors == q.errors \/ ~q.cancel
           final == IF q.cancel THEN "Cancelled" ELSE "Error"
<1>1. errors \in BOOLEAN /\ final \in Finals /\ <<>> \in Seq(BatchRows)
  BY DEF JobRecs, Finals
<1>2. AssetStageFailed(q) = [q EXCEPT !.pc = "cleanup", !.batch = <<>>, !.errors = errors, !.final = final]
  BY DEF AssetStageFailed, JobRecs
<1> HIDE DEF errors, final
<1> QED BY ZenonT(30), <1>1, <1>2 DEF JobRecs, JobPcs, Keeps

LEMMA AssetBudgetInt ==
    ASSUME WarmInv, NEW limits \in LoadedLimits
    PROVE  ReplacementBudget(limits, BasemapAssets, RegionBytes(BasemapAssets)) \in Int
<1>1. limits.cap \in Nat /\ limits.regions \in Nat /\ limits.position \in Nat
  BY LimitFacts DEF LimitRecs
<1>2. RegionBytes(BasemapAssets) \in Nat
  BY BytesNat
<1> QED BY <1>1, <1>2 DEF ReplacementBudget, EffectiveBudget, AtLeast0, AtMost

LEMMA TakeAssetFlagInv == ASSUME WarmInv, NEW j \in Jobs, TakeAssetFlag(j) PROVE WarmInv'
<1>1. job[j] \in JobRecs /\ job[j].pc = "flag" /\ JobInv(j, job[j], region_tiles) /\ UNCHANGED region_tiles
  BY JobTypes DEF TakeAssetFlag, cacheVars, tables
<1>2. CASE Drive(j, AssetStageFailed(job[j]))
  <2> DEFINE r == AssetStageFailed(job[j])
  <2>1. r \in JobRecs /\ Keeps(r, job[j]) /\ r.pc = "cleanup"
    BY <1>1, AssetStageFailedFacts
  <2> HIDE DEF r
  <2>2. JobInv(j, r, region_tiles)
    BY <1>1, <2>1 DEF JobInv, Keeps, TilePcs, AssetPcs
  <2> QED BY <1>1, <1>2, <2>1, <2>2, MoveStep DEF r, Keeps, AssetPcs
<1>3. CASE /\ assets_warming = NoJob /\ assets_warming' = j
           /\ \E limits \in LoadedLimits :
                job' = [job EXCEPT ![j] =
                  [@ EXCEPT !.pc = "assets", !.todo = UNION {AssetKeys[s] : s \in job[j].styles},
                     !.assetBudget = ReplacementBudget(limits, BasemapAssets, RegionBytes(BasemapAssets))]]
           /\ UNCHANGED <<active_warm_regions, config_generation, live, config, delete, fill>>
  <2>0. PICK limits \in LoadedLimits :
           job' = [job EXCEPT ![j] =
             [@ EXCEPT !.pc = "assets", !.todo = UNION {AssetKeys[s] : s \in job[j].styles},
                !.assetBudget = ReplacementBudget(limits, BasemapAssets, RegionBytes(BasemapAssets))]]
    BY <1>3
  <2> DEFINE todo == UNION {AssetKeys[s] : s \in job[j].styles}
             budget == ReplacementBudget(limits, BasemapAssets, RegionBytes(BasemapAssets))
             r == [job[j] EXCEPT !.pc = "assets", !.todo = todo, !.assetBudget = budget]
  <2>1. todo \in SUBSET Keys
    <3>1. job[j].styles \subseteq Styles
      BY <1>1 DEF JobRecs
    <3> QED BY <3>1, EngineAssumption DEF EngineAssumption
  <2>2. budget \in Int
    BY AssetBudgetInt
  <2>3. job' = [job EXCEPT ![j] = r]
    BY <2>0, JobTypes
  <2> HIDE DEF todo, budget
  <2>4. r \in JobRecs /\ Keeps(r, job[j]) /\ r.pc = "assets"
    BY <1>1, <2>1, <2>2 DEF JobRecs, JobPcs, Keeps
  <2> HIDE DEF r
  <2>5. JobInv(j, r, region_tiles')
    BY <1>1, <2>4 DEF JobInv, Keeps, TilePcs, AssetPcs
  <2>6. AllOrNothing'
    BY <1>1 DEF WarmInv, AllOrNothing, Joined
  <2>7. r.pc \in AssetPcs /\ {assets_warming', assets_warming} \subseteq {j, NoJob}
    BY <1>3, <2>4 DEF AssetPcs
  <2>8. r.target = job[j].target /\ r.gen = job[j].gen /\ region_tiles' \in JoinTables
    BY <1>1, <2>4, JobTypes DEF Keeps
  <2> QED BY <1>1, <1>3, <2>3, <2>4, <2>5, <2>6, <2>7, <2>8, JobFrame
<1> QED BY <1>2, <1>3 DEF TakeAssetFlag

LEMMA AssetJoinEndsInv == ASSUME WarmInv, NEW j \in Jobs, AssetJoinEnds(j) PROVE WarmInv'
<1> DEFINE final == IF job[j].final = "Done" /\ (job[j].cancel \/ shutdown_requested) THEN "Error" ELSE job[j].final
           r == [job[j] EXCEPT !.pc = "assetTail", !.final = final]
<1>1. job[j] \in JobRecs /\ job[j].pc = "assetJoin" /\ UNCHANGED region_tiles
  BY JobTypes DEF AssetJoinEnds, cacheVars, tables
<1>2. Drive(j, r)
  <2>1. r = [job[j] EXCEPT !.pc = "assetTail",
              !.final = IF @ = "Done" /\ (job[j].cancel \/ shutdown_requested) THEN "Error" ELSE @]
    BY <1>1 DEF JobRecs
  <2> QED BY <2>1 DEF AssetJoinEnds
<1>3. final \in Finals
  BY <1>1 DEF JobRecs, Finals
<1> HIDE DEF final
<1>4. r \in JobRecs /\ Keeps(r, job[j]) /\ r.pc = "assetTail"
  BY <1>1, <1>3, SetPc DEF JobPcs
<1> HIDE DEF r
<1> QED BY <1>1, <1>2, <1>4, StageStep DEF AssetPcs

\* A driver drops one of its own staging regions: nobody else's joins change.
LEMMA DropOwn ==
    ASSUME WarmInv, NEW j \in Jobs, NEW s \in Stagings(j), DeleteRegion(s)
    PROVE  /\ region_tiles' \in JoinTables /\ Of(region_tiles', s) = {} /\ AllOrNothing'
           /\ \A r \in Regions : r # s => Of(region_tiles', r) = Of(region_tiles, r)
           /\ \A i \in Jobs : i # j => \A u \in Stagings(i) : Of(region_tiles', u) = Of(region_tiles, u)
<1>1. region_tiles' = WithoutJoins(region_tiles, s) /\ region_tiles \in JoinTables
  BY JobTypes DEF DeleteRegion, WithoutJoins
<1>2. /\ region_tiles' \in JoinTables /\ Of(region_tiles', s) = {}
      /\ \A r \in Regions : r # s => Of(region_tiles', r) = Of(region_tiles, r)
  BY <1>1, DropEffect
<1>3. AllOrNothing'
  <2>1. \A r \in SavedRegions : r \in Regions /\ r # s
    BY NameFacts, RegionAssumption DEF RegionAssumption, SavedRegions, Regions, PositionRegions
  <2> QED BY <1>2, <2>1 DEF WarmInv, AllOrNothing, Of
<1>4. \A i \in Jobs : i # j => \A u \in Stagings(i) : Of(region_tiles', u) = Of(region_tiles, u)
  BY <1>2, NameFacts
<1> QED BY <1>2, <1>3, <1>4

LEMMA LeakedFacts ==
    ASSUME NEW q \in JobRecs
    PROVE  /\ Leaked(q) \in JobRecs /\ Leaked(q).leaked /\ Leaked(q).pc = q.pc /\ Leaked(q).target = q.target
           /\ Leaked(q).gen = q.gen /\ Leaked(q).request = q.request /\ Leaked(q).staged = q.staged
           /\ Leaked(q).kept = q.kept
BY DEF Leaked, JobRecs

LEMMA AssetTailInv == ASSUME WarmInv, NEW j \in Jobs, AssetTail(j) PROVE WarmInv'
<1>1. job[j] \in JobRecs /\ job[j].pc = "assetTail" /\ JobInv(j, job[j], region_tiles) /\ job \in [Jobs -> JobRecs]
  BY JobTypes DEF AssetTail
<1>2. assets_warming = j /\ job[j].pc \in AssetPcs
  BY <1>1 DEF WarmInv, FlagInv, AssetPcs
<1>3. CASE FlushAssets(j)
  BY <1>3, FlushInv
<1>4. CASE /\ job' = [job EXCEPT ![j].pc = "lock", ![j].staged = TRUE] /\ ReleaseFlag(FALSE)
           /\ UNCHANGED <<cacheVars, active_warm_regions, config_generation, live, config, delete, fill>>
  <2> DEFINE r == [job[j] EXCEPT !.pc = "lock", !.staged = TRUE]
  <2>1. job' = [job EXCEPT ![j] = r] /\ assets_warming' = NoJob /\ UNCHANGED region_tiles
    BY <1>1, <1>4 DEF ReleaseFlag, cacheVars, tables
  <2>2. /\ r \in JobRecs /\ r.pc = "lock" /\ r.staged /\ r.target = job[j].target /\ r.gen = job[j].gen
        /\ r.request = job[j].request /\ r.leaked = job[j].leaked
    BY <1>1 DEF JobRecs, JobPcs
  <2> HIDE DEF r
  <2>3. JobInv(j, r, region_tiles')
    BY <1>1, <2>1, <2>2 DEF JobInv, TilePcs, AssetPcs
  <2>4. AllOrNothing' /\ region_tiles' \in JoinTables
    BY <2>1, JobTypes DEF WarmInv, AllOrNothing, Joined
  <2>5. r.pc \notin AssetPcs /\ assets_warming' # j /\ {assets_warming', assets_warming} \subseteq {j, NoJob}
    BY <1>2, <2>1, <2>2, NameFacts DEF AssetPcs
  <2>6. \A i \in Jobs : i # j => \A s \in Stagings(i) : Of(region_tiles', s) = Of(region_tiles, s)
    BY <2>1
  <2> QED BY <1>1, <1>4, <2>1, <2>2, <2>3, <2>4, <2>5, <2>6, JobFrame
<1>5. CASE /\ \E r \in {IF job[j].final = "Capped" /\ ~job[j].cancel
                        THEN [job[j] EXCEPT !.pc = "cleanup", !.batch = <<>>] ELSE AssetStageFailed(job[j]),
                        Leaked(IF job[j].final = "Capped" /\ ~job[j].cancel
                        THEN [job[j] EXCEPT !.pc = "cleanup", !.batch = <<>>] ELSE AssetStageFailed(job[j]))} :
                   job' = [job EXCEPT ![j] = r] /\ DropStaging(AssetStaging(j), r)
           /\ ReleaseFlag(TRUE)
           /\ UNCHANGED <<active_warm_regions, config_generation, live, config, delete, fill>>
  <2> DEFINE capped == [job[j] EXCEPT !.pc = "cleanup", !.batch = <<>>]
             failed == AssetStageFailed(job[j])
  <2>1. capped \in JobRecs /\ Keeps(capped, job[j]) /\ capped.pc = "cleanup"
    <3>1. <<>> \in Seq(BatchRows)
      OBVIOUS
    <3> QED BY <1>1, <3>1 DEF JobRecs, JobPcs, Keeps
  <2>2. failed \in JobRecs /\ Keeps(failed, job[j]) /\ failed.pc = "cleanup"
    BY <1>1, AssetStageFailedFacts
  <2>3. \E q \in {capped, failed} : \E r \in {q, Leaked(q)} : job' = [job EXCEPT ![j] = r] /\ DropStaging(AssetStaging(j), r)
    BY <1>5
  <2> HIDE DEF capped, failed
  <2>4. PICK q \in {capped, failed} : \E r \in {q, Leaked(q)} : job' = [job EXCEPT ![j] = r] /\ DropStaging(AssetStaging(j), r)
    BY <2>3
  <2>5. q \in JobRecs /\ Keeps(q, job[j]) /\ q.pc = "cleanup"
    BY <2>1, <2>2, <2>4
  <2>6. PICK r \in {q, Leaked(q)} : job' = [job EXCEPT ![j] = r] /\ DropStaging(AssetStaging(j), r)
    BY <2>4
  <2>7. /\ r \in JobRecs /\ r.pc = "cleanup" /\ r.target = job[j].target /\ r.gen = job[j].gen
        /\ r.request = job[j].request /\ r.staged = job[j].staged /\ r.kept = job[j].kept
    BY <2>5, <2>6, LeakedFacts DEF Keeps
  <2>8. ~job[j].leaked /\ ~job[j].staged
    BY <1>1, <1>2 DEF JobInv
  <2>9. /\ region_tiles' \in JoinTables /\ AllOrNothing' /\ (~r.leaked => Of(region_tiles', AssetStaging(j)) = {})
        /\ \A s \in Regions : s # AssetStaging(j) => Of(region_tiles', s) = Of(region_tiles, s)
        /\ \A i \in Jobs : i # j => \A s \in Stagings(i) : Of(region_tiles', s) = Of(region_tiles, s)
    <3>1. CASE r.leaked
      <4>1. UNCHANGED region_tiles
        BY <2>6, <3>1 DEF DropStaging, cacheVars, tables
      <4> QED BY <3>1, <4>1, JobTypes DEF WarmInv, AllOrNothing, Joined
    <3>2. CASE ~r.leaked
      <4>1. DeleteRegion(AssetStaging(j)) /\ AssetStaging(j) \in Stagings(j)
        BY <2>6, <3>2 DEF DropStaging, Stagings
      <4> QED BY <4>1, DropOwn
    <3> QED BY <3>1, <3>2
  <2>10. JobInv(j, r, region_tiles')
    <3>1. /\ Of(region_tiles', TileStaging(j)) = Of(region_tiles, TileStaging(j))
          /\ Of(region_tiles', PosStaging(j)) = Of(region_tiles, PosStaging(j))
      BY <2>9, NameFacts DEF Stagings
    <3>2. \A s \in {TileStaging(j), PosStaging(j)} : s # Home(j, job[j].target) => Of(region_tiles, s) = {}
      BY <1>1, <2>8 DEF JobInv
    <3>3. r.target \in Targets /\ r.request \in Requests
      BY <1>1, <2>7 DEF JobInv
    <3> QED BY <2>7, <2>8, <2>9, <3>1, <3>2, <3>3 DEF JobInv, TilePcs, AssetPcs
  <2>11. r.pc \notin AssetPcs /\ assets_warming' # j /\ {assets_warming', assets_warming} \subseteq {j, NoJob}
    BY <1>2, <1>5, <2>7, NameFacts DEF AssetPcs, ReleaseFlag
  <2> QED BY <1>1, <1>5, <2>6, <2>7, <2>9, <2>10, <2>11, JobFrame
<1> QED BY <1>3, <1>4, <1>5 DEF AssetTail

-----------------------------------------------------------------------------
(* The driver: promotion and end                                           *)

LEMMA CleanupTilesInv == ASSUME WarmInv, NEW j \in Jobs, CleanupTiles(j) PROVE WarmInv'
<1> DEFINE r == [job[j] EXCEPT !.pc = CleanupPc(j)]
           home == Home(j, job[j].target)
<1>1. job[j] \in JobRecs /\ job[j].pc = "cleanup" /\ JobInv(j, job[j], region_tiles) /\ Storage(j) = home
  BY JobTypes, HomeFacts DEF CleanupTiles
<1>2. r \in JobRecs /\ Keeps(r, job[j]) /\ r.pc = CleanupPc(j)
  <2>1. CleanupPc(j) \in JobPcs
    BY DEF CleanupPc, JobPcs
  <2> QED BY <1>1, <2>1 DEF JobRecs, Keeps
<1>3. /\ r.pc \in {"cleanupAssets", "finish"} /\ (r.pc = "cleanupAssets" <=> job[j].staged)
      /\ r.pc \notin AssetPcs /\ job[j].pc \notin AssetPcs
  BY <1>1, <1>2 DEF CleanupPc, AssetPcs
<1>4. \/ job[j].target = NoRegion /\ Drive(j, r) /\ UNCHANGED cacheVars
      \/ job[j].target # NoRegion /\ Drive(j, r) /\ DeleteRegion(home)
      \/ job[j].target # NoRegion /\ Drive(j, Leaked(r)) /\ UNCHANGED cacheVars
  BY <1>1 DEF CleanupTiles
<1>5. job[j].target # NoRegion => home \in {TileStaging(j), PosStaging(j)}
  BY HomeFacts
<1> HIDE DEF r
<1>6. CASE job[j].target = NoRegion /\ Drive(j, r) /\ UNCHANGED cacheVars
  <2>1. home = NoRegion /\ NoRegion \notin {TileStaging(j), PosStaging(j)} /\ UNCHANGED region_tiles
    BY <1>6, HomeFacts, NameFacts DEF Stagings, cacheVars, tables
  <2>2. JobInv(j, r, region_tiles)
    BY <1>1, <1>2, <1>3, <1>6, <2>1 DEF JobInv, Keeps, TilePcs, AssetPcs
  <2> QED BY <1>1, <1>2, <1>3, <1>6, <2>1, <2>2, MoveStep DEF Keeps
<1>7. CASE job[j].target # NoRegion /\ Drive(j, r) /\ DeleteRegion(home)
  <2>1. home \in Stagings(j) /\ home # AssetStaging(j)
    BY <1>5, <1>7, NameFacts DEF Stagings
  <2> HIDE DEF home
  <2>2. /\ region_tiles' \in JoinTables /\ Of(region_tiles', home) = {} /\ AllOrNothing'
        /\ \A s \in Regions : s # home => Of(region_tiles', s) = Of(region_tiles, s)
        /\ \A i \in Jobs : i # j => \A u \in Stagings(i) : Of(region_tiles', u) = Of(region_tiles, u)
    BY <1>7, <2>1, DropOwn
  <2>3. JobInv(j, r, region_tiles')
    <3>1. TileStaging(j) \in Regions /\ PosStaging(j) \in Regions /\ AssetStaging(j) \in Regions
      BY NameFacts DEF Stagings
    <3>2. ~job[j].leaked => \A s \in {TileStaging(j), PosStaging(j)} : Of(region_tiles', s) = {}
      BY <1>1, <2>2, <3>1 DEF JobInv, home
    <3>3. ~job[j].leaked /\ ~job[j].staged => Of(region_tiles', AssetStaging(j)) = {}
      BY <1>1, <2>1, <2>2, <3>1 DEF JobInv, AssetPcs
    <3>4. r.target \in Targets /\ r.request \in Requests
      BY <1>1, <1>2 DEF JobInv, Keeps
    <3> QED BY <1>2, <1>3, <3>2, <3>3, <3>4 DEF JobInv, Keeps, TilePcs, AssetPcs
  <2>4. /\ job' = [job EXCEPT ![j] = r]
        /\ UNCHANGED <<active_warm_regions, assets_warming, config_generation, live, config, delete, fill>>
    BY <1>7 DEF Drive
  <2>5. r.pc \in AssetPcs <=> assets_warming' = j
    BY <1>3, <2>4 DEF WarmInv, FlagInv
  <2> QED BY <1>1, <1>2, <1>3, <2>2, <2>3, <2>4, <2>5, JobFrame DEF Keeps
<1>8. CASE Drive(j, Leaked(r)) /\ UNCHANGED cacheVars
  <2>1. JobInv(j, Leaked(r), region_tiles)
    BY <1>1, <1>2, <1>3, LeakedFacts DEF JobInv, Keeps, TilePcs, AssetPcs
  <2>2. UNCHANGED region_tiles
    BY <1>8 DEF cacheVars, tables
  <2> QED BY <1>1, <1>2, <1>3, <1>8, <2>1, <2>2, LeakedFacts, MoveStep DEF Keeps
<1> QED BY <1>4, <1>6, <1>7, <1>8

LEMMA CleanupAssetsInv == ASSUME WarmInv, NEW j \in Jobs, CleanupAssets(j) PROVE WarmInv'
<1> DEFINE r == [job[j] EXCEPT !.pc = "finish"]
           assets == AssetStaging(j)
<1>1. job[j] \in JobRecs /\ job[j].pc = "cleanupAssets" /\ JobInv(j, job[j], region_tiles)
  BY JobTypes DEF CleanupAssets
<1>2. r \in JobRecs /\ Keeps(r, job[j]) /\ r.pc = "finish"
  BY <1>1 DEF JobRecs, JobPcs, Keeps
<1>3. \/ Drive(j, r) /\ DeleteRegion(assets)
      \/ Drive(j, Leaked(r)) /\ UNCHANGED cacheVars
  BY DEF CleanupAssets
<1> HIDE DEF r
<1>4. CASE Drive(j, r) /\ DeleteRegion(assets)
  <2>1. /\ region_tiles' \in JoinTables /\ Of(region_tiles', assets) = {} /\ AllOrNothing'
        /\ \A s \in Regions : s # assets => Of(region_tiles', s) = Of(region_tiles, s)
        /\ \A i \in Jobs : i # j => \A u \in Stagings(i) : Of(region_tiles', u) = Of(region_tiles, u)
    <3>1. assets \in Stagings(j)
      BY DEF Stagings
    <3> HIDE DEF assets
    <3> QED BY <1>4, <3>1, DropOwn
  <2>2. JobInv(j, r, region_tiles')
    <3>1. /\ Of(region_tiles', TileStaging(j)) = Of(region_tiles, TileStaging(j))
          /\ Of(region_tiles', PosStaging(j)) = Of(region_tiles, PosStaging(j))
      BY <2>1, NameFacts DEF Stagings
    <3>2. ~job[j].leaked => \A s \in {TileStaging(j), PosStaging(j)} : Of(region_tiles, s) = {}
      BY <1>1 DEF JobInv
    <3>3. r.target \in Targets /\ r.request \in Requests
      BY <1>1, <1>2 DEF JobInv, Keeps
    <3> QED BY <1>2, <2>1, <3>1, <3>2, <3>3 DEF JobInv, Keeps, TilePcs, AssetPcs
  <2>3. /\ job' = [job EXCEPT ![j] = r]
        /\ UNCHANGED <<active_warm_regions, assets_warming, config_generation, live, config, delete, fill>>
    BY <1>4 DEF Drive
  <2>4. r.pc \in AssetPcs <=> assets_warming' = j
    BY <1>1, <1>2, <2>3 DEF WarmInv, FlagInv, AssetPcs
  <2> QED BY <1>1, <1>2, <2>1, <2>2, <2>3, <2>4, JobFrame DEF Keeps
<1>5. CASE Drive(j, Leaked(r)) /\ UNCHANGED cacheVars
  <2>1. JobInv(j, Leaked(r), region_tiles)
    BY <1>1, <1>2, LeakedFacts DEF JobInv, Keeps, TilePcs, AssetPcs
  <2>2. UNCHANGED region_tiles
    BY <1>5 DEF cacheVars, tables
  <2> QED BY <1>1, <1>2, <1>5, <2>1, <2>2, LeakedFacts, MoveStep DEF Keeps, AssetPcs
<1> QED BY <1>3, <1>4, <1>5

LEMMA FinishInv == ASSUME WarmInv, NEW j \in Jobs, Finish(j) PROVE WarmInv'
<1> DEFINE r == [job[j] EXCEPT !.pc = "release"]
<1>1. job[j] \in JobRecs /\ job[j].pc = "finish" /\ JobInv(j, job[j], region_tiles) /\ UNCHANGED region_tiles
  BY JobTypes DEF Finish, cacheVars, tables
<1>2. r \in JobRecs /\ Keeps(r, job[j]) /\ r.pc = "release" /\ Drive(j, r)
  BY <1>1 DEF JobRecs, JobPcs, Keeps, Finish
<1> HIDE DEF r
<1>3. JobInv(j, r, region_tiles)
  BY <1>1, <1>2 DEF JobInv, Keeps, TilePcs, AssetPcs
<1> QED BY <1>1, <1>2, <1>3, MoveStep DEF Keeps, AssetPcs

\* What a complete job promotes: its own staging regions, over distinct saved
\* regions.
LEMMA ReplacementFacts ==
    ASSUME NEW j \in Jobs, job[j] \in JobRecs
    PROVE  LET repl == ReplacementsOf(j)
               S == DOMAIN repl
               target == job[j].target
               home == Home(j, target)
           IN  /\ S \in SUBSET Regions /\ S \subseteq Stagings(j) /\ repl \in [S -> Regions]
               /\ target # NoRegion => home \in S /\ repl[home] = target
               /\ \A s \in {TileStaging(j), PosStaging(j)} : s # home => s \notin S
               /\ AssetStaging(j) \in S <=> job[j].staged
               /\ \A s, u \in S : repl[s] = repl[u] => s = u
               /\ \A s \in S : repl[s] \in SavedRegions
               /\ \A s \in S : repl[s] = BasemapAssets \/ (repl[s] = target /\ target # NoRegion)
<1> DEFINE repl == ReplacementsOf(j)
           target == job[j].target
           home == Home(j, target)
           S == (IF target = NoRegion THEN {} ELSE {home}) \cup (IF job[j].staged THEN {AssetStaging(j)} ELSE {})
<1>1. repl = [s \in S |-> IF s = AssetStaging(j) THEN BasemapAssets ELSE target]
  <2>1. Storage(j) = home
    BY HomeFacts
  <2> QED BY <2>1 DEF ReplacementsOf
<1>2. /\ target = NoRegion => home = NoRegion
      /\ target # NoRegion => home \in {TileStaging(j), PosStaging(j)} /\ home \in Regions
      /\ home # AssetStaging(j)
  BY HomeFacts
<1>3. /\ AssetStaging(j) \in Regions /\ AssetStaging(j) \in Stagings(j) /\ NoRegion \notin Stagings(j)
      /\ TileStaging(j) \in Stagings(j) /\ PosStaging(j) \in Stagings(j)
      /\ TileStaging(j) # AssetStaging(j) /\ PosStaging(j) # AssetStaging(j)
  BY NameFacts DEF Stagings
<1>4. /\ BasemapAssets \in SavedRegions /\ SavedRegions \subseteq Regions
      /\ target # NoRegion => target \in SavedRegions /\ target # BasemapAssets
  BY EngineAssumption, RegionAssumption
     DEF EngineAssumption, RegionAssumption, JobRecs, SavedRegions, Regions, PositionRegions
<1> HIDE DEF repl, target, home
<1>5. /\ S \in SUBSET Regions /\ S \subseteq Stagings(j) /\ DOMAIN repl = S /\ repl \in [S -> Regions]
  BY <1>1, <1>2, <1>3, <1>4
<1>6. /\ target # NoRegion => home \in S /\ repl[home] = target
      /\ \A s \in {TileStaging(j), PosStaging(j)} : s # home => s \notin S
      /\ AssetStaging(j) \in S <=> job[j].staged
  BY <1>1, <1>2, <1>3
<1>7. \A s \in S : \/ s = AssetStaging(j) /\ repl[s] = BasemapAssets
                   \/ s = home /\ repl[s] = target /\ target # NoRegion
  BY <1>1, <1>2
<1>8. /\ \A s, u \in S : repl[s] = repl[u] => s = u
      /\ \A s \in S : repl[s] \in SavedRegions
  BY <1>4, <1>7
<1> QED BY <1>5, <1>6, <1>7, <1>8 DEF repl, target, home

\* A promotion replaces the job's region by what was asked for and empties
\* the staging regions.
LEMMA PromotedInv ==
    ASSUME WarmInv, NEW j \in Jobs, NEW r \in JobRecs, job[j].pc = "lock", Drive(j, r), r.pc = "finish",
           Keeps(r, job[j]), region_tiles' = PromotedJoins(ReplacementsOf(j))
    PROVE  /\ WarmInv'
           /\ \A u \in SavedRegions \ {BasemapAssets} :
                Of(region_tiles', u) = IF u = job[j].target THEN job[j].request ELSE Of(region_tiles, u)
<1> DEFINE repl == ReplacementsOf(j)
           S == DOMAIN repl
           target == job[j].target
           home == Home(j, target)
<1>1. job[j] \in JobRecs /\ JobInv(j, job[j], region_tiles) /\ region_tiles \in JoinTables
  BY JobTypes
<1>2. /\ S \in SUBSET Regions /\ S \subseteq Stagings(j) /\ repl \in [S -> Regions]
      /\ target # NoRegion => home \in S /\ repl[home] = target
      /\ \A s \in {TileStaging(j), PosStaging(j)} : s # home => s \notin S
      /\ AssetStaging(j) \in S <=> job[j].staged
      /\ \A s, u \in S : repl[s] = repl[u] => s = u
      /\ \A s \in S : repl[s] \in SavedRegions
      /\ \A s \in S : repl[s] = BasemapAssets \/ (repl[s] = target /\ target # NoRegion)
  BY <1>1, ReplacementFacts
<1>3. Stagings(j) \cap SavedRegions = {}
  BY NameFacts
<1> HIDE DEF repl, S
<1>4. /\ region_tiles' \in JoinTables
      /\ \A s \in S : Of(region_tiles', s) = {} /\ Of(region_tiles', repl[s]) = Of(region_tiles, s)
      /\ \A u \in Regions : u \notin S /\ (\A s \in S : repl[s] # u) => Of(region_tiles', u) = Of(region_tiles, u)
  <2>1. \A s \in S : repl[s] \notin S
    BY <1>2, <1>3
  <2> QED BY <1>1, <1>2, <2>1, PromoteEffect DEF repl
<1>5. /\ ~job[j].leaked /\ target \in Targets /\ job[j].request \in Requests
      /\ target # NoRegion => Of(region_tiles, home) = job[j].request
      /\ \A s \in {TileStaging(j), PosStaging(j)} : s # home => Of(region_tiles, s) = {}
      /\ ~job[j].staged => Of(region_tiles, AssetStaging(j)) = {}
  BY <1>1 DEF JobInv, TilePcs, AssetPcs
<1>6. \A u \in SavedRegions \ {BasemapAssets} :
         Of(region_tiles', u) = IF u = target THEN job[j].request ELSE Of(region_tiles, u)
  <2>1. SavedRegions \subseteq Regions /\ NoRegion \notin SavedRegions
    BY RegionAssumption DEF RegionAssumption, SavedRegions, Regions, PositionRegions
  <2>2. ASSUME NEW u \in SavedRegions \ {BasemapAssets}, u = target PROVE Of(region_tiles', u) = job[j].request
    <3>1. home \in S /\ repl[home] = u /\ Of(region_tiles, home) = job[j].request
      BY <1>2, <1>5, <2>1, <2>2
    <3> QED BY <1>4, <3>1
  <2>3. ASSUME NEW u \in SavedRegions \ {BasemapAssets}, u # target PROVE Of(region_tiles', u) = Of(region_tiles, u)
    <3>1. u \in Regions /\ u \notin S /\ \A s \in S : repl[s] # u
      BY <1>2, <1>3, <2>1, <2>3
    <3> QED BY <1>4, <3>1
  <2> QED BY <2>2, <2>3
<1>7. JobInv(j, r, region_tiles')
  <2>1. \A s \in Stagings(j) : Of(region_tiles', s) = {}
    <3>1. ASSUME NEW s \in Stagings(j), s \notin S PROVE Of(region_tiles', s) = {}
      <4>1. s \in Regions /\ \A u \in S : repl[u] # s
        BY <1>2, <1>3, NameFacts
      <4>2. Of(region_tiles', s) = Of(region_tiles, s)
        BY <1>4, <3>1, <4>1
      <4>3. s # home
        BY <1>2, <3>1, HomeFacts, NameFacts
      <4>4. s \in {TileStaging(j), PosStaging(j), AssetStaging(j)}
        BY DEF Stagings
      <4> QED BY <1>2, <1>5, <3>1, <4>2, <4>3, <4>4
    <3> QED BY <1>4, <3>1
  <2>2. r.target \in Targets /\ r.request \in Requests
    BY <1>5 DEF Keeps
  <2> QED BY <2>1, <2>2 DEF JobInv, TilePcs, AssetPcs, Stagings
<1>8. AllOrNothing'
  BY <1>5, <1>6 DEF WarmInv, AllOrNothing, Of
<1>9. \A i \in Jobs : i # j => \A s \in Stagings(i) : Of(region_tiles', s) = Of(region_tiles, s)
  <2>1. ASSUME NEW i \in Jobs, i # j, NEW s \in Stagings(i) PROVE Of(region_tiles', s) = Of(region_tiles, s)
    <3>1. s \in Regions /\ s \notin Stagings(j) /\ s \notin SavedRegions
      BY <2>1, NameFacts
    <3> QED BY <1>2, <1>4, <3>1
  <2> QED BY <2>1
<1>10. /\ job' = [job EXCEPT ![j] = r]
       /\ UNCHANGED <<active_warm_regions, assets_warming, config_generation, live, config, delete, fill>>
  BY DEF Drive
<1>11. r.pc \in AssetPcs <=> assets_warming' = j
  BY <1>10 DEF WarmInv, FlagInv, AssetPcs
<1>12. WarmInv'
  BY <1>4, <1>7, <1>8, <1>9, <1>10, <1>11, JobFrame DEF Keeps
<1> QED BY <1>6, <1>12

LEMMA PromoteInv == ASSUME WarmInv, NEW j \in Jobs, Promote(j) PROVE WarmInv'
<1>1. job[j] \in JobRecs /\ job[j].pc = "lock" /\ JobInv(j, job[j], region_tiles)
  BY JobTypes DEF Promote
<1>2. ASSUME NEW final \in Finals, Drive(j, [job[j] EXCEPT !.pc = "cleanup", !.final = final]), UNCHANGED cacheVars
      PROVE  WarmInv'
  <2> DEFINE r == [job[j] EXCEPT !.pc = "cleanup", !.final = final]
  <2>1. r \in JobRecs /\ Keeps(r, job[j]) /\ r.pc = "cleanup"
    BY <1>1, SetPc DEF JobPcs
  <2>2. Drive(j, r) /\ UNCHANGED region_tiles
    BY <1>2 DEF cacheVars, tables
  <2> HIDE DEF r
  <2>3. JobInv(j, r, region_tiles)
    BY <1>1, <2>1 DEF JobInv, Keeps, TilePcs, AssetPcs
  <2> QED BY <1>1, <2>1, <2>2, <2>3, MoveStep DEF Keeps, AssetPcs
<1> DEFINE done == [job[j] EXCEPT !.pc = "finish"]
<1>3. done \in JobRecs /\ Keeps(done, job[j]) /\ done.pc = "finish"
  BY <1>1 DEF JobRecs, JobPcs, Keeps
<1>4. CASE DOMAIN ReplacementsOf(j) = {} /\ Drive(j, done) /\ UNCHANGED cacheVars
  <2> HIDE DEF done
  <2>1. job[j].target = NoRegion /\ ~job[j].staged /\ UNCHANGED region_tiles
    BY <1>1, <1>4, ReplacementFacts DEF cacheVars, tables
  <2>2. NoRegion \notin {TileStaging(j), PosStaging(j)} /\ Home(j, NoRegion) = NoRegion
    BY HomeFacts, NameFacts DEF Stagings
  <2>3. JobInv(j, done, region_tiles)
    BY <1>1, <1>3, <2>1, <2>2 DEF JobInv, Keeps, TilePcs, AssetPcs
  <2> QED BY <1>1, <1>3, <1>4, <2>1, <2>3, MoveStep DEF Keeps, AssetPcs
<1>5. CASE region_tiles' = PromotedJoins(ReplacementsOf(j)) /\ Drive(j, done)
  <2> HIDE DEF done
  <2> QED BY <1>1, <1>3, <1>5, PromotedInv
<1>6. "Error" \in Finals /\ "Capped" \in Finals
  BY DEF Finals
<1> QED BY <1>2, <1>4, <1>5, <1>6 DEF Promote, PromoteStagedRegions

LEMMA IdleFacts ==
    /\ IdleJob \in JobRecs /\ IdleJob.pc = "idle" /\ IdleJob.target = NoRegion /\ IdleJob.gen = 0
    /\ IdleJob.kept = {} /\ IdleJob.staged = FALSE /\ IdleJob.leaked = FALSE
    /\ IdleJob.tasks = {} /\ IdleJob.flush = {}
<1> DEFINE none == <<>>
           no == FALSE
<1>1. none \in Seq(BatchRows) /\ no \in BOOLEAN
  OBVIOUS
<1>2. IdleJob = [pc |-> "idle", target |-> NoRegion, gen |-> 0, cancel |-> no,
            credit |-> 0, assetBudget |-> 0, request |-> {}, styles |-> {},
            todo |-> {}, tasks |-> {}, batch |-> none, flush |-> {}, kept |-> {},
            errors |-> no, staged |-> no, final |-> "Done", leaked |-> no]
  BY DEF IdleJob
<1>3. /\ IdleJob.pc = "idle" /\ IdleJob.target = NoRegion /\ IdleJob.gen = 0
      /\ IdleJob.kept = {} /\ IdleJob.staged = no /\ IdleJob.leaked = no
      /\ IdleJob.tasks = {} /\ IdleJob.flush = {}
  <2> HIDE DEF none, no
  <2> QED BY <1>2
<1>4. IdleJob \in JobRecs
  <2> HIDE DEF none, no
  <2>1. "idle" \in JobPcs /\ "Done" \in Finals /\ 0 \in Nat /\ 0 \in Int
    BY DEF JobPcs, Finals
  <2> QED BY <1>1, <1>2, <2>1 DEF JobRecs
<1> QED BY <1>3, <1>4

LEMMA IdleRec ==
    ASSUME NEW leaked \in BOOLEAN
    PROVE  LET r == [IdleJob EXCEPT !.leaked = leaked]
           IN  /\ r \in JobRecs /\ r.pc = "idle" /\ r.target = NoRegion /\ r.gen = 0 /\ r.staged = FALSE
               /\ r.leaked = leaked
BY IdleFacts DEF JobRecs

LEMMA ReleaseInv == ASSUME WarmInv, NEW j \in Jobs, Release(j) PROVE WarmInv'
<1> DEFINE r == [IdleJob EXCEPT !.leaked = job[j].leaked]
           target == job[j].target
<1>1. /\ job[j] \in JobRecs /\ job[j].pc = "release" /\ JobInv(j, job[j], region_tiles) /\ UNCHANGED region_tiles
      /\ job \in [Jobs -> JobRecs]
  BY JobTypes DEF Release, cacheVars, tables
<1>2. r \in JobRecs /\ r.pc = "idle" /\ r.target = NoRegion /\ r.gen = 0 /\ r.staged = FALSE /\ r.leaked = job[j].leaked
  <2>1. job[j].leaked \in BOOLEAN
    BY <1>1 DEF JobRecs
  <2> QED BY <2>1, IdleRec
<1>3. /\ job' = [job EXCEPT ![j] = r] /\ active_warm_regions' = active_warm_regions \ {target}
      /\ delete' = [delete EXCEPT !.jobs = @ \ {j}]
      /\ UNCHANGED <<assets_warming, config_generation, live, config, fill>>
  BY DEF Release
<1> HIDE DEF r
<1>4. job'[j] = r /\ \A i \in Jobs : i # j => job'[i] = job[i]
  BY <1>1, <1>3
<1>5. /\ delete \in [pc : {"idle", "wait", "delete", "evict"}, region : DeletedRegions \cup {NoRegion}, cap : Nat, jobs : SUBSET Jobs]
      /\ delete'.pc = delete.pc /\ delete'.region = delete.region /\ delete'.cap = delete.cap
      /\ delete'.jobs = delete.jobs \ {j}
  BY <1>3 DEF WarmInv, EngineTypeOK
<1>6. EngineTypeOK'
  <2>1. delete' \in [pc : {"idle", "wait", "delete", "evict"}, region : DeletedRegions \cup {NoRegion}, cap : Nat, jobs : SUBSET Jobs]
    BY <1>3, <1>5
  <2>2. job' \in [Jobs -> JobRecs]
    BY <1>1, <1>2, <1>3
  <2> QED BY <1>3, <2>1, <2>2 DEF WarmInv, EngineTypeOK
<1>7. OwnerInv'
  <2>1. RegionExclusive'
    BY <1>2, <1>4 DEF WarmInv, OwnerInv, RegionExclusive, Driving
  <2>2. \A i \in Jobs : i # j /\ job[i].pc # "idle" => job[i].target # target \/ target = NoRegion
    BY <1>1 DEF WarmInv, OwnerInv, RegionExclusive, Driving
  <2>3. ASSUME NEW i \in Jobs, job'[i].pc # "idle", job'[i].target # NoRegion
        PROVE  job'[i].target \in active_warm_regions'
    <3>1. i # j /\ job'[i] = job[i]
      BY <1>2, <1>4, <2>3
    <3>2. job[i].target \in active_warm_regions
      BY <2>3, <3>1 DEF WarmInv, OwnerInv, Driving
    <3> QED BY <1>3, <2>2, <2>3, <3>1, <3>2
  <2> QED BY <2>1, <2>3 DEF OwnerInv, Driving
<1>8. DeleteInv'
  BY <1>4, <1>5 DEF WarmInv, DeleteInv, DeleteWaitsForDriver, Driving
<1>9. GenInv'
  <2>1. job[j].gen \in Nat /\ config_generation \in Nat /\ GenInv /\ UNCHANGED <<config_generation, config>>
    BY <1>1, <1>3 DEF JobRecs, WarmInv, EngineTypeOK
  <2>2. /\ 0 <= config_generation
        /\ ~ConfigFree => 0 < config_generation
    BY <2>1 DEF GenInv
  <2> QED BY <1>2, <1>4, <2>1, <2>2 DEF GenInv, ConfigFree
<1>10. FlagInv'
  <2>1. job[j].pc \notin AssetPcs /\ job'[j].pc \notin AssetPcs /\ assets_warming' = assets_warming
    BY <1>1, <1>2, <1>3, <1>4 DEF AssetPcs
  <2>2. \A i \in Jobs : job'[i].pc \in AssetPcs <=> job[i].pc \in AssetPcs
    BY <1>4, <2>1
  <2> QED BY <2>1, <2>2 DEF WarmInv, FlagInv
<1>11. StagingInv'
  <2>1. JobInv(j, r, region_tiles)
    BY <1>1, <1>2 DEF JobInv, TilePcs, AssetPcs
  <2> QED BY <1>1, <1>4, <2>1 DEF WarmInv, StagingInv
<1>12. AllOrNothing' /\ region_tiles' \in JoinTables
  BY <1>1, JobTypes DEF WarmInv, AllOrNothing, Joined
<1> QED BY <1>6, <1>7, <1>8, <1>9, <1>10, <1>11, <1>12 DEF WarmInv

-----------------------------------------------------------------------------
(* Requests                                                                *)

LEMMA StartWarmInv ==
    ASSUME WarmInv, NEW j \in Jobs, NEW target \in Targets, NEW request \in Requests, NEW styles \in StyleRequests,
           StartWarm(j, target, request, styles)
    PROVE  WarmInv'
<1> DEFINE r == [IdleJob EXCEPT !.pc = "begin", !.target = target, !.gen = config_generation,
                                !.request = request, !.styles = styles]
<1>1. /\ job[j] \in JobRecs /\ job[j].pc = "idle" /\ ~job[j].leaked /\ JobInv(j, job[j], region_tiles)
      /\ UNCHANGED region_tiles /\ job \in [Jobs -> JobRecs]
  BY JobTypes DEF StartWarm, cacheVars, tables
<1>2. config_generation \in Nat /\ ConfigFree
  BY DEF StartWarm, WarmInv, EngineTypeOK
<1>3. /\ r \in JobRecs /\ r.pc = "begin" /\ r.target = target /\ r.gen = config_generation /\ r.request = request
      /\ r.kept = {} /\ r.staged = FALSE /\ r.leaked = FALSE
  <2>1. request \in SUBSET Keys /\ styles \in SUBSET Styles /\ "begin" \in JobPcs
    BY EngineAssumption DEF EngineAssumption, JobPcs
  <2> QED BY <1>2, <2>1, IdleFacts DEF JobRecs
<1>4. /\ job' = [job EXCEPT ![j] = r] /\ active_warm_regions' = active_warm_regions \cup ({target} \ {NoRegion})
      /\ target \notin active_warm_regions
      /\ UNCHANGED <<assets_warming, config_generation, live, config, delete, fill>>
  BY DEF StartWarm, SpawnRun
<1> HIDE DEF r
<1>5. job'[j] = r /\ \A i \in Jobs : i # j => job'[i] = job[i]
  BY <1>1, <1>4
<1>6. EngineTypeOK'
  BY <1>1, <1>3, <1>4 DEF WarmInv, EngineTypeOK
<1>7. OwnerInv'
  <2>1. \A i \in Jobs : job[i].pc # "idle" /\ job[i].target # NoRegion => job[i].target \in active_warm_regions
    BY DEF WarmInv, OwnerInv, Driving
  <2>2. RegionExclusive'
    <3>1. \A i \in Jobs : job[i].pc # "idle" /\ target # NoRegion => job[i].target # target
      BY <1>4, <2>1
    <3> QED BY <1>3, <1>5, <3>1 DEF WarmInv, OwnerInv, RegionExclusive, Driving
  <2>3. \A i \in Jobs : job'[i].pc # "idle" /\ job'[i].target # NoRegion => job'[i].target \in active_warm_regions'
    BY <1>3, <1>4, <1>5, <2>1
  <2> QED BY <2>2, <2>3 DEF OwnerInv, Driving
<1>8. DeleteInv'
  BY <1>1, <1>4, <1>5 DEF WarmInv, DeleteInv, DeleteWaitsForDriver, Driving, EngineTypeOK
<1>9. GenInv'
  <2>1. ConfigFree'
    BY <1>2, <1>4 DEF ConfigFree
  <2> QED BY <1>2, <1>3, <1>4, <1>5, <2>1 DEF WarmInv, GenInv
<1>10. FlagInv'
  BY <1>1, <1>3, <1>4, <1>5 DEF WarmInv, FlagInv, AssetPcs
<1>11. StagingInv'
  <2>1. JobInv(j, r, region_tiles)
    <3>1. Of(region_tiles, TileStaging(j)) = {} /\ Of(region_tiles, PosStaging(j)) = {} /\ ~job[j].staged
      BY <1>1 DEF JobInv
    <3>2. Of(region_tiles, AssetStaging(j)) = {}
      BY <1>1, <3>1 DEF JobInv, AssetPcs
    <3> QED BY <1>3, <3>1, <3>2 DEF JobInv, TilePcs, AssetPcs
  <2> QED BY <1>1, <1>5, <2>1 DEF WarmInv, StagingInv
<1>12. AllOrNothing' /\ region_tiles' \in JoinTables
  BY <1>1, JobTypes DEF WarmInv, AllOrNothing, Joined
<1> QED BY <1>6, <1>7, <1>8, <1>9, <1>10, <1>11, <1>12 DEF WarmInv

LEMMA CancelWarmInv == ASSUME WarmInv, NEW j \in Jobs, CancelWarm(j) PROVE WarmInv'
<1> DEFINE r == [job[j] EXCEPT !.cancel = TRUE]
<1>1. /\ job \in [Jobs -> JobRecs] /\ job[j] \in JobRecs /\ job' = [job EXCEPT ![j] = r]
      /\ UNCHANGED <<region_tiles, active_warm_regions, assets_warming, config_generation, live, config, delete, fill>>
  BY JobTypes DEF CancelWarm, cacheVars, tables
<1>2. r \in JobRecs /\ SameJob(r, job[j])
  BY <1>1, CancelFacts
<1> HIDE DEF r
<1>3. job' \in [Jobs -> JobRecs] /\ \A i \in Jobs : SameJob(job'[i], job[i])
  BY <1>1, <1>2, SameJobSelf
<1>4. EngineTypeOK'
  BY <1>1, <1>3 DEF WarmInv, EngineTypeOK
<1>5. GenInv'
  BY <1>1, <1>3 DEF WarmInv, GenInv, ConfigFree, SameJob
<1>6. DeleteInv'
  BY <1>1, <1>3 DEF WarmInv, EngineTypeOK, DeleteInv, DeleteWaitsForDriver, Driving, SameJob
<1> QED BY <1>1, <1>3, <1>4, <1>5, <1>6, RouteFrame

LEMMA ShutdownInv == ASSUME WarmInv, Shutdown PROVE WarmInv'
<1>1. /\ job \in [Jobs -> JobRecs]
      /\ job' = [j \in Jobs |-> IF Running(j) THEN [job[j] EXCEPT !.cancel = TRUE] ELSE job[j]]
      /\ UNCHANGED <<region_tiles, active_warm_regions, assets_warming, config_generation, live, config, delete, fill>>
  BY DEF WarmInv, EngineTypeOK, Shutdown, cacheVars, tables
<1>2. ASSUME NEW j \in Jobs PROVE job'[j] \in JobRecs /\ SameJob(job'[j], job[j])
  <2>1. job[j] \in JobRecs /\ job'[j] \in {[job[j] EXCEPT !.cancel = TRUE], job[j]}
    BY <1>1
  <2> QED BY <2>1, CancelFacts, SameJobSelf
<1>3. job' \in [Jobs -> JobRecs] /\ \A i \in Jobs : SameJob(job'[i], job[i])
  BY <1>1, <1>2
<1>4. EngineTypeOK'
  BY <1>1, <1>3 DEF WarmInv, EngineTypeOK
<1>5. GenInv'
  BY <1>1, <1>3 DEF WarmInv, GenInv, ConfigFree, SameJob
<1>6. DeleteInv'
  BY <1>1, <1>3 DEF WarmInv, EngineTypeOK, DeleteInv, DeleteWaitsForDriver, Driving, SameJob
<1> QED BY <1>1, <1>3, <1>4, <1>5, <1>6, RouteFrame

LEMMA DeleteBeginInv == ASSUME WarmInv, NEW region \in DeletedRegions, DeleteBegin(region) PROVE WarmInv'
<1> DEFINE mine == {j \in Jobs : Running(j) /\ job[j].target = region}
<1>1. /\ job \in [Jobs -> JobRecs]
      /\ job' = [j \in Jobs |-> IF j \in mine THEN [job[j] EXCEPT !.cancel = TRUE] ELSE job[j]]
      /\ delete' = [pc |-> "wait", region |-> region, cap |-> 0, jobs |-> mine]
      /\ UNCHANGED <<region_tiles, active_warm_regions, assets_warming, config_generation, live, config, fill>>
  BY DEF WarmInv, EngineTypeOK, DeleteBegin, cacheVars, tables
<1>2. mine \in SUBSET Jobs /\ \A j \in mine : job[j].pc # "idle" /\ job[j].target = region
  BY DEF Running
<1> HIDE DEF mine
<1>3. ASSUME NEW j \in Jobs PROVE job'[j] \in JobRecs /\ SameJob(job'[j], job[j])
  <2>1. job[j] \in JobRecs /\ job'[j] \in {[job[j] EXCEPT !.cancel = TRUE], job[j]}
    BY <1>1
  <2> QED BY <2>1, CancelFacts, SameJobSelf
<1>4. job' \in [Jobs -> JobRecs] /\ \A i \in Jobs : SameJob(job'[i], job[i])
  BY <1>1, <1>3
<1>5. EngineTypeOK'
  BY <1>1, <1>2, <1>4 DEF WarmInv, EngineTypeOK
<1>6. GenInv'
  BY <1>1, <1>4 DEF WarmInv, GenInv, ConfigFree, SameJob
<1>7. DeleteInv'
  BY <1>1, <1>2, <1>4 DEF DeleteInv, DeleteWaitsForDriver, Driving, SameJob
<1> QED BY <1>1, <1>4, <1>5, <1>6, <1>7, RouteFrame

\* Nothing but the routes' own state changes.
LEMMA StillJobs ==
    ASSUME WarmInv, UNCHANGED <<job, region_tiles, active_warm_regions, assets_warming>>,
           GenInv', DeleteInv', EngineTypeOK'
    PROVE  WarmInv'
BY SameJobSelf, RouteFrame DEF WarmInv, EngineTypeOK

\* A region left reserved keeps its would-be drivers out, nothing else.
LEMMA StartDroppedInv == ASSUME WarmInv, NEW target \in Targets, StartDropped(target) PROVE WarmInv'
<1>1. /\ UNCHANGED <<job, region_tiles, assets_warming, config_generation, live, config, delete, fill>>
      /\ active_warm_regions' = active_warm_regions \cup {target}
  BY DEF StartDropped, cacheVars, tables
<1>2. OwnerInv'
  BY <1>1 DEF WarmInv, OwnerInv, RegionExclusive, Driving
<1>3. EngineTypeOK' /\ DeleteInv' /\ GenInv'
  BY <1>1 DEF WarmInv, EngineTypeOK, DeleteInv, DeleteWaitsForDriver, Driving, GenInv, ConfigFree
<1>4. FlagInv' /\ StagingInv' /\ AllOrNothing' /\ (region_tiles \in JoinTables)'
  BY <1>1 DEF WarmInv, FlagInv, StagingInv, AllOrNothing, Joined
<1> QED BY <1>2, <1>3, <1>4 DEF WarmInv

-----------------------------------------------------------------------------
(* The config route                                                        *)

LEMMA ConfigSame ==
    ASSUME WarmInv, UNCHANGED <<job, delete>>
    PROVE  DeleteInv'
BY DEF WarmInv, DeleteInv, DeleteWaitsForDriver, Driving

LEMMA ConfigEndInv ==
    ASSUME WarmInv, NEW published \in BOOLEAN, config.pc # "idle", ConfigEnd(published), UNCHANGED region_tiles
    PROVE  WarmInv'
<1>1. /\ config' = IdleConfig /\ config_generation' = config_generation + 1 /\ live' \in {config.new, live}
      /\ UNCHANGED <<job, active_warm_regions, assets_warming, delete, fill>>
  BY DEF ConfigEnd
<1>2. EngineTypeOK'
  <2>1. config'.pc = "idle" /\ config' \in [pc : {"idle", "check", "evict", "publish"}, new : Configs]
    BY <1>1, EngineAssumption DEF IdleConfig, EngineAssumption
  <2>2. live' \in Configs
    BY <1>1 DEF WarmInv, EngineTypeOK
  <2> QED BY <1>1, <2>1, <2>2 DEF WarmInv, EngineTypeOK
<1>3. GenInv'
  <2>1. config_generation \in Nat /\ config'.pc = "idle" /\ \A j \in Jobs : job[j].gen \in Nat
    BY <1>1 DEF WarmInv, EngineTypeOK, IdleConfig, JobRecs
  <2> QED BY <1>1, <2>1 DEF WarmInv, GenInv, ConfigFree
<1> QED BY <1>1, <1>2, <1>3, ConfigSame, StillJobs

LEMMA ConfigBeginInv == ASSUME WarmInv, NEW c \in Configs, ConfigBegin(c) PROVE WarmInv'
<1>1. /\ config' = [pc |-> "check", new |-> c] /\ config_generation' = config_generation + 1
      /\ UNCHANGED <<job, region_tiles, active_warm_regions, assets_warming, live, delete, fill>>
  BY DEF ConfigBegin, cacheVars, tables
<1>2. EngineTypeOK'
  BY <1>1 DEF WarmInv, EngineTypeOK
<1>3. GenInv'
  <2>1. config_generation \in Nat /\ \A j \in Jobs : job[j].gen \in Nat
    BY DEF WarmInv, EngineTypeOK, JobRecs
  <2> QED BY <1>1, <2>1 DEF WarmInv, GenInv, ConfigFree
<1> QED BY <1>1, <1>2, <1>3, ConfigSame, StillJobs

LEMMA ConfigStepInv == ASSUME WarmInv, ConfigStep PROVE WarmInv'
<1>1. config.pc # "idle" /\ UNCHANGED region_tiles
  BY DEF ConfigStep, ConfigCheckPins, ConfigEvict, ConfigPublish, EvictTo, cacheVars, tables
<1>2. ASSUME NEW pc \in {"evict", "publish"}, config' = [config EXCEPT !.pc = pc],
             UNCHANGED <<job, active_warm_regions, assets_warming, config_generation, live, delete, fill>>
      PROVE  WarmInv'
  <2>1. EngineTypeOK' /\ config'.pc # "idle"
    BY <1>2 DEF WarmInv, EngineTypeOK
  <2>2. GenInv'
    BY <1>1, <1>2, <2>1 DEF WarmInv, GenInv, ConfigFree
  <2> QED BY <1>1, <1>2, <2>1, <2>2, ConfigSame, StillJobs
<1>3. ASSUME NEW published \in BOOLEAN, ConfigEnd(published) PROVE WarmInv'
  BY <1>1, <1>3, ConfigEndInv
<1> QED BY <1>2, <1>3 DEF ConfigStep, ConfigCheckPins, ConfigEvict, ConfigPublish

\* An abandoned push frees the mutex and leaves the generation where it was.
LEMMA ConfigDroppedInv == ASSUME WarmInv, ConfigDropped PROVE WarmInv'
<1> DEFINE left == [cap |-> config.new.cap, check |-> config.pc = "check", push |-> config_generation]
<1>1. /\ config' = IdleConfig /\ config.pc # "idle" /\ fill' \subseteq fill \cup {left}
      /\ UNCHANGED <<job, region_tiles, active_warm_regions, assets_warming, config_generation, live, delete>>
  BY DEF ConfigDropped, ConfigFree, cacheVars, tables
<1>2. left \in FillRecs
  <2>1. config.new.cap \in Nat /\ config_generation \in Nat /\ (config.pc = "check") \in BOOLEAN
    BY EngineAssumption DEF EngineAssumption, WarmInv, EngineTypeOK
  <2> QED BY <2>1 DEF FillRecs
<1> HIDE DEF left
<1>3. EngineTypeOK'
  <2>1. config' \in [pc : {"idle", "check", "evict", "publish"}, new : Configs]
    BY <1>1, EngineAssumption DEF IdleConfig, EngineAssumption
  <2> QED BY <1>1, <1>2, <2>1 DEF WarmInv, EngineTypeOK
<1>4. GenInv'
  BY <1>1 DEF WarmInv, GenInv, ConfigFree, IdleConfig
<1> QED BY <1>1, <1>3, <1>4, ConfigSame, StillJobs


-----------------------------------------------------------------------------
(* The delete route                                                        *)

LEMMA IdleDeleteFacts ==
    /\ IdleDelete \in [pc : {"idle", "wait", "delete", "evict"}, region : DeletedRegions \cup {NoRegion},
                       cap : Nat, jobs : SUBSET Jobs]
    /\ IdleDelete.pc = "idle" /\ IdleDelete.jobs = {}
BY DEF IdleDelete

LEMMA DeleteEnds ==
    ASSUME WarmInv, delete' = IdleDelete,
           UNCHANGED <<job, region_tiles, active_warm_regions, assets_warming, config_generation, live, config, fill>>
    PROVE  WarmInv'
<1>1. EngineTypeOK'
  BY IdleDeleteFacts DEF WarmInv, EngineTypeOK
<1>2. DeleteInv'
  BY IdleDeleteFacts DEF DeleteInv, DeleteWaitsForDriver
<1>3. GenInv'
  BY DEF WarmInv, GenInv, ConfigFree
<1> QED BY <1>1, <1>2, <1>3, StillJobs

\* With the region free, no job the route cancelled is left.
LEMMA DeleteWaitInv == ASSUME WarmInv, DeleteWait PROVE WarmInv'
<1>1. UNCHANGED <<job, region_tiles, active_warm_regions, assets_warming, config_generation, live, config, fill>>
  BY DEF DeleteWait, cacheVars, tables
<1>2. CASE delete' = IdleDelete
  BY <1>1, <1>2, DeleteEnds
<1>3. CASE DriverGone(delete.region) /\ \E limits \in LoadedLimits : delete' = [delete EXCEPT !.pc = "delete", !.cap = limits.cap]
  <2>1. PICK cap \in Nat : delete' = [delete EXCEPT !.pc = "delete", !.cap = cap]
    BY <1>3, LimitFacts DEF LimitRecs
  <2>2. /\ delete' \in [pc : {"idle", "wait", "delete", "evict"}, region : DeletedRegions \cup {NoRegion},
                        cap : Nat, jobs : SUBSET Jobs]
        /\ delete'.pc = "delete" /\ delete'.region = delete.region /\ delete'.jobs = delete.jobs
    BY <1>3, <2>1 DEF WarmInv, EngineTypeOK
  <2>3. EngineTypeOK'
    BY <1>1, <2>2 DEF WarmInv, EngineTypeOK
  <2>4. delete.region \in DeletedRegions /\ delete.region # NoRegion
    BY EngineAssumption, RegionAssumption
       DEF EngineAssumption, RegionAssumption, Regions, WarmInv, DeleteInv, DeleteWait
  <2>5. delete.jobs = {}
    <3>1. \A i \in delete.jobs : i \in Jobs /\ job[i].pc # "idle" /\ job[i].target = delete.region
      BY DEF WarmInv, DeleteInv, EngineTypeOK, Driving
    <3>2. delete.region \notin active_warm_regions
      BY <1>3 DEF DriverGone
    <3> QED BY <2>4, <3>1, <3>2 DEF WarmInv, OwnerInv, Driving
  <2>6. DeleteInv'
    BY <2>2, <2>4, <2>5 DEF DeleteInv, DeleteWaitsForDriver
  <2>7. GenInv'
    BY <1>1 DEF WarmInv, GenInv, ConfigFree
  <2> QED BY <1>1, <2>3, <2>6, <2>7, StillJobs
<1> QED BY <1>2, <1>3 DEF DeleteWait

LEMMA DeleteApplyInv ==
    ASSUME WarmInv, DeleteApply
    PROVE  /\ WarmInv'
           /\ \A u \in SavedRegions : u # delete.region => Of(region_tiles', u) = Of(region_tiles, u)
<1>1. delete.pc = "delete" /\ UNCHANGED <<job, active_warm_regions, assets_warming, config_generation, live, config, fill>>
  BY DEF DeleteApply
<1>2. CASE UNCHANGED cacheVars /\ delete' = IdleDelete
  <2>1. UNCHANGED region_tiles
    BY <1>2 DEF cacheVars, tables
  <2> QED BY <1>1, <1>2, <2>1, DeleteEnds
<1>3. CASE DeleteRegion(delete.region) /\ delete' = [delete EXCEPT !.pc = "evict"]
  <2> DEFINE region == delete.region
  <2>1. region \in RealRegions
    BY <1>1, EngineAssumption DEF EngineAssumption, WarmInv, DeleteInv
  <2>2. region_tiles' = WithoutJoins(region_tiles, region) /\ region_tiles \in JoinTables
    BY <1>3 DEF DeleteRegion, WithoutJoins, WarmInv
  <2> HIDE DEF region
  <2>3. /\ region_tiles' \in JoinTables /\ Of(region_tiles', region) = {}
        /\ \A u \in Regions : u # region => Of(region_tiles', u) = Of(region_tiles, u)
    BY <2>2, DropEffect
  <2>4. SavedRegions \subseteq Regions /\ region \in SavedRegions
    BY <2>1 DEF SavedRegions, Regions, PositionRegions
  <2>5. \A j \in Jobs : \A s \in Stagings(j) : Of(region_tiles', s) = Of(region_tiles, s)
    BY <2>3, <2>4, NameFacts
  <2>6. StagingInv'
    BY <1>1, <2>5, SameJoins DEF WarmInv, StagingInv
  <2>7. AllOrNothing'
    BY <2>3, <2>4 DEF WarmInv, AllOrNothing, Of
  <2>8. /\ delete' \in [pc : {"idle", "wait", "delete", "evict"}, region : DeletedRegions \cup {NoRegion},
                        cap : Nat, jobs : SUBSET Jobs]
        /\ delete'.pc = "evict" /\ delete'.region = delete.region /\ delete'.jobs = delete.jobs
    BY <1>3 DEF WarmInv, EngineTypeOK
  <2>9. EngineTypeOK'
    BY <1>1, <2>8 DEF WarmInv, EngineTypeOK
  <2>10. DeleteInv'
    BY <1>1, <2>8 DEF WarmInv, DeleteInv, DeleteWaitsForDriver
  <2>11. OwnerInv' /\ GenInv' /\ FlagInv'
    BY <1>1 DEF WarmInv, OwnerInv, RegionExclusive, Driving, GenInv, ConfigFree, FlagInv
  <2> QED BY <2>3, <2>4, <2>6, <2>7, <2>9, <2>10, <2>11 DEF WarmInv, region
<1> QED BY <1>2, <1>3 DEF DeleteApply

LEMMA DeleteEvictInv == ASSUME WarmInv, DeleteEvict PROVE WarmInv' /\ UNCHANGED region_tiles
<1>1. /\ delete' = IdleDelete
      /\ UNCHANGED <<job, region_tiles, active_warm_regions, assets_warming, config_generation, live, config, fill>>
  BY DEF DeleteEvict, EvictTo, cacheVars, tables
<1> QED BY <1>1, DeleteEnds

-----------------------------------------------------------------------------
(* Live traffic and the process                                            *)

\* What live traffic does never reaches the joins.
LEMMA LiveInv ==
    ASSUME WarmInv,
           \/ FillStep \/ ClearScroll \/ UNCHANGED vars
           \/ \E k \in LiveKeys, t \in GoodTiles : LiveStore(k, t)
    PROVE  WarmInv' /\ UNCHANGED <<job, region_tiles, delete, live, config_generation>>
<1> DEFINE Still == UNCHANGED <<job, region_tiles, active_warm_regions, assets_warming, config_generation, live, config, delete>>
<1>0. fill \in SUBSET FillRecs
  BY DEF WarmInv, EngineTypeOK
<1>1. Still /\ fill' \in SUBSET FillRecs
  <2>1. CASE LiveEvict
    BY <1>0, <2>1 DEF LiveEvict, EvictTo, cacheVars, tables
  <2>2. CASE ClearScroll
    BY <1>0, <2>2 DEF ClearScroll, ClearUnpinned, DeleteChunkOf, engineVars
  <2>3. CASE UNCHANGED vars
    BY <1>0, <2>3 DEF vars, engineVars, cacheVars, tables
  <2>4. CASE \E k \in LiveKeys, t \in GoodTiles : LiveStore(k, t)
    <3>1. PICK limits \in LoadedLimits : fill' = {[cap |-> limits.cap, check |-> FALSE, push |-> 0]}
      BY <2>4 DEF LiveStore
    <3>2. fill' \in SUBSET FillRecs
      BY <3>1, LimitFacts DEF LimitRecs, FillRecs
    <3>3. Still
      BY <2>4 DEF LiveStore, Put
    <3> QED BY <3>2, <3>3
  <2>5. CASE OrphanChecks
    <3>1. PICK e \in fill : fill' \subseteq fill \cup {[e EXCEPT !.check = FALSE]}
      BY <2>5 DEF OrphanChecks
    <3>2. [e EXCEPT !.check = FALSE] \in FillRecs
      BY <1>0 DEF FillRecs
    <3>3. Still
      BY <2>5 DEF OrphanChecks, cacheVars, tables
    <3> QED BY <1>0, <3>1, <3>2, <3>3
  <2> QED BY <2>1, <2>2, <2>3, <2>4, <2>5 DEF FillStep
<1>3. EngineTypeOK'
  BY <1>1 DEF WarmInv, EngineTypeOK
<1>4. GenInv' /\ DeleteInv'
  BY <1>1 DEF WarmInv, GenInv, ConfigFree, DeleteInv, DeleteWaitsForDriver, Driving
<1> QED BY <1>1, <1>3, <1>4, StillJobs

\* The engine of a process that has just started, on a database without staged
\* joins.
LEMMA BootInv ==
    ASSUME EngineAtBoot, region_tiles \in JoinTables, \A j \in Jobs : \A s \in Stagings(j) : Of(region_tiles, s) = {},
           AllOrNothing
    PROVE  WarmInv
<1>1. \A j \in Jobs : /\ job[j] = IdleJob /\ job[j] \in JobRecs /\ job[j].pc = "idle" /\ job[j].target = NoRegion
                      /\ job[j].gen = 0 /\ job[j].staged = FALSE
  BY IdleFacts DEF EngineAtBoot
<1>2. EngineTypeOK
  <2>1. job \in [Jobs -> JobRecs]
    BY <1>1 DEF EngineAtBoot
  <2>2. config \in [pc : {"idle", "check", "evict", "publish"}, new : Configs]
    BY EngineAssumption DEF EngineAssumption, EngineAtBoot, IdleConfig
  <2>3. live \in Configs
    BY EngineAssumption DEF EngineAssumption, EngineAtBoot
  <2> QED BY <2>1, <2>2, <2>3, IdleDeleteFacts DEF EngineAtBoot, EngineTypeOK
<1>3. OwnerInv
  <2>1. \A j \in Jobs : ~Driving(j)
    BY <1>1 DEF Driving
  <2> QED BY <2>1 DEF EngineAtBoot, OwnerInv, RegionExclusive
<1>4. DeleteInv
  BY IdleDeleteFacts DEF EngineAtBoot, DeleteInv, DeleteWaitsForDriver
<1>5. GenInv
  BY <1>1 DEF EngineAtBoot, GenInv, ConfigFree, IdleConfig
<1>6. FlagInv
  BY <1>1, NameFacts DEF EngineAtBoot, FlagInv, AssetPcs
<1>7. StagingInv
  <2>1. ASSUME NEW j \in Jobs PROVE JobInv(j, job[j], region_tiles)
    BY <1>1 DEF JobInv, TilePcs, AssetPcs, Stagings
  <2> QED BY <2>1 DEF StagingInv
<1> QED BY <1>2, <1>3, <1>4, <1>5, <1>6, <1>7 DEF WarmInv

LEMMA InitInv == WarmInit => WarmInv
<1> SUFFICES ASSUME WarmInit PROVE WarmInv
  OBVIOUS
<1>1. region_tiles = {} /\ EngineAtBoot
  BY DEF WarmInit, EmptyCache
<1>2. region_tiles \in JoinTables /\ \A r : Of(region_tiles, r) = {}
  BY <1>1 DEF Of, Joined, JoinTables
<1>3. AllOrNothing
  BY <1>2 DEF AllOrNothing, Of
<1> QED BY <1>1, <1>2, <1>3, BootInv

\* Whatever was under way when the process died, the next one starts clean
\* and with every saved region as it was.
LEMMA RestartInv ==
    ASSUME WarmInv, Restart
    PROVE  /\ WarmInv' /\ \A u \in SavedRegions : Of(region_tiles', u) = Of(region_tiles, u)
           /\ \A j \in Jobs : job'[j].pc = "idle"
<1>1. /\ region_tiles' \in JoinTables
      /\ \A j \in Jobs : \A s \in Stagings(j) : Of(region_tiles', s) = {}
      /\ \A u \in SavedRegions : Of(region_tiles', u) = Of(region_tiles, u)
  BY OpenEffect DEF Restart, WarmInv
<1>2. EngineAtBoot'
  BY DEF Restart, EngineAtBoot, IdleJob, IdleConfig, IdleDelete
<1>3. AllOrNothing'
  BY <1>1 DEF WarmInv, AllOrNothing, Of
<1>4. WarmInv'
  <2>1. EngineAtBoot' /\ (region_tiles \in JoinTables)' /\ AllOrNothing'
    BY <1>1, <1>2, <1>3
  <2>2. (\A j \in Jobs : \A s \in Stagings(j) : Of(region_tiles, s) = {})'
    BY <1>1 DEF Of, Joined, Stagings, TileStaging, PosStaging, AssetStaging
  <2> QED BY <2>1, <2>2, BootInv, PTL
<1>5. \A j \in Jobs : job'[j].pc = "idle"
  BY IdleFacts DEF Restart
<1> QED BY <1>1, <1>4, <1>5

-----------------------------------------------------------------------------
(* The invariant                                                           *)

LEMMA JobStepInv == ASSUME WarmInv, NEW j \in Jobs, JobStep(j) PROVE WarmInv'
<1>0. CASE (\E k \in Keys : SpawnTile(j, k) \/ SpawnAsset(j, k)) \/ FlushLoads(j)
  BY <1>0, SpawnInv, LoadsInv
<1>1. CASE \E t \in job[j].tasks : TaskLoads(j, t) \/ TaskPins(j, t) \/ TaskFails(j, t) \/ AssetFails(j, t)
  BY <1>1, LoadsInv, TaskPinsInv, FailsInv
<1>2. CASE \E t \in job[j].tasks, c \in Tiles : TaskFetches(j, t, c) \/ AssetFetches(j, t, c)
  BY <1>2, FetchesInv
<1>3. CASE BeginRun(j) \/ SpawnEnds(j) \/ FlushFull(j) \/ JoinSeesCancel(j) \/ JoinEnds(j) \/ TilesTail(j)
  BY <1>3, BeginRunInv, SpawnEndsInv, FlushFullInv, JoinInv, TilesTailInv
<1>4. CASE TakeAssetFlag(j) \/ SpawnAssetsEnds(j) \/ AssetJoinEnds(j) \/ AssetTail(j)
  BY <1>4, TakeAssetFlagInv, SpawnAssetsEndsInv, AssetJoinEndsInv, AssetTailInv
<1>5. CASE Promote(j) \/ CleanupTiles(j) \/ CleanupAssets(j) \/ Finish(j) \/ Release(j)
  BY <1>5, PromoteInv, CleanupTilesInv, CleanupAssetsInv, FinishInv, ReleaseInv
<1> QED BY <1>0, <1>1, <1>2, <1>3, <1>4, <1>5 DEF JobStep

LEMMA WarmNextInv == WarmInv /\ [WarmEngineNext]_vars => WarmInv'
<1> SUFFICES ASSUME WarmInv, [WarmEngineNext]_vars PROVE WarmInv'
  OBVIOUS
<1>1. CASE \E j \in Jobs, target \in Targets, request \in Requests, styles \in StyleRequests :
              StartWarm(j, target, request, styles)
  BY <1>1, StartWarmInv
<1>2. CASE (\E j \in Jobs : CancelWarm(j)) \/ \E target \in Targets : StartDropped(target)
  BY <1>2, CancelWarmInv, StartDroppedInv
<1>3. CASE (\E c \in Configs : ConfigBegin(c)) \/ ConfigDropped \/ ConfigStep
  BY <1>3, ConfigBeginInv, ConfigDroppedInv, ConfigStepInv
<1>4. CASE (\E region \in DeletedRegions : DeleteBegin(region)) \/ DeleteStep
  BY <1>4, DeleteBeginInv, DeleteWaitInv, DeleteApplyInv, DeleteEvictInv DEF DeleteStep
<1>5. CASE \/ FillStep \/ ClearScroll \/ UNCHANGED vars
           \/ \E k \in LiveKeys, t \in GoodTiles : LiveStore(k, t)
  BY <1>5, LiveInv
<1>6. CASE \E j \in Jobs : JobStep(j)
  BY <1>6, JobStepInv
<1>7. CASE Shutdown \/ Restart
  BY <1>7, ShutdownInv, RestartInv
<1> QED BY <1>1, <1>2, <1>3, <1>4, <1>5, <1>6, <1>7 DEF WarmEngineNext, RouteNext

\* The inductive invariant of the warm engine beside the config route, the
\* delete route, live traffic, cancels, shutdowns and restarts: who owns which
\* region, what each staging region holds and that saved regions are whole.
THEOREM WarmInvariant == WarmSpec => []WarmInv
<1>1. WarmInit => WarmInv
  BY InitInv
<1>2. WarmInv /\ [WarmEngineNext]_vars => WarmInv'
  BY WarmNextInv
<1> QED BY <1>1, <1>2, PTL DEF WarmSpec

-----------------------------------------------------------------------------
(* What it gives                                                           *)

\* Two drivers never work on one region: the check and the insert of start_warm
\* against active_warm_regions reserve it until the driver's release.
THEOREM OneDriverPerRegion == WarmSpec => []RegionExclusive
<1>1. WarmInv => RegionExclusive
  BY DEF WarmInv, OwnerInv
<1> QED BY <1>1, WarmInvariant, PTL

\* A saved region joins exactly the tiles of one request or none, however many
\* jobs, cancels, pushes, deletes and restarts there are: run promotes a
\* complete staging region in one transaction or not at all.
THEOREM RegionsAreWhole == WarmSpec => []AllOrNothing
<1>1. WarmInv => AllOrNothing
  BY DEF WarmInv
<1> QED BY <1>1, WarmInvariant, PTL

\* By the time delete_region runs for the delete route, every job that the
\* route cancelled has released the region.
THEOREM DeleteWaits == WarmSpec => []DeleteWaitsForDriver
<1>1. WarmInv => DeleteWaitsForDriver
  BY DEF WarmInv, DeleteInv
<1> QED BY <1>1, WarmInvariant, PTL

\* Every path out of run gives its staging regions back, short of a cleanup
\* that SQLite failed: an idle or finished job has no joins staged.
THEOREM StagingIsCleaned == WarmSpec => []NoStrayStaging
<1>1. WarmInv => NoStrayStaging
  <2> SUFFICES ASSUME WarmInv, NEW j \in Jobs, job[j].pc \in {"idle", "begin", "finish", "release"}, ~job[j].leaked
               PROVE  Joined(region_tiles, {TileStaging(j), PosStaging(j), AssetStaging(j)}) = {}
    BY DEF NoStrayStaging
  <2>1. JobInv(j, job[j], region_tiles)
    BY JobTypes
  <2>2. Of(region_tiles, TileStaging(j)) = {} /\ Of(region_tiles, PosStaging(j)) = {}
    BY <2>1 DEF JobInv
  <2>3. Of(region_tiles, AssetStaging(j)) = {}
    BY <2>1 DEF JobInv, AssetPcs
  <2> QED BY <2>2, <2>3 DEF Of, Joined
<1> QED BY <1>1, WarmInvariant, PTL

-----------------------------------------------------------------------------
(* What a step may never do                                                *)

\* A step of one driver changes no other driver.
LEMMA OneMoves ==
    ASSUME NEW j \in Jobs, JobStep(j)
    PROVE  \E r : job' = [job EXCEPT ![j] = r]
<1>1. ASSUME NEW r, Drive(j, r) PROVE job' = [job EXCEPT ![j] = r]
  BY <1>1 DEF Drive
<1>2. CASE \/ \E k \in Keys : SpawnTile(j, k) \/ SpawnAsset(j, k)
           \/ \E t \in job[j].tasks : TaskLoads(j, t) \/ TaskPins(j, t) \/ TaskFails(j, t) \/ AssetFails(j, t)
           \/ FlushLoads(j)
  BY <1>1, <1>2 DEF SpawnTile, SpawnAsset, TaskLoads, TaskPins, TaskFails, AssetFails, FlushLoads
<1>3. CASE \E t \in job[j].tasks, c \in Tiles : TaskFetches(j, t, c) \/ AssetFetches(j, t, c)
  BY <1>1, <1>3 DEF TaskFetches, AssetFetches
<1>4. ASSUME NEW failed, FlushBatch(j, failed) PROVE \E r : Drive(j, r)
  BY <1>4 DEF FlushBatch
<1>5. CASE BeginRun(j) \/ SpawnEnds(j) \/ FlushFull(j) \/ JoinSeesCancel(j) \/ JoinEnds(j) \/ TilesTail(j)
  BY <1>1, <1>4, <1>5
     DEF BeginRun, SpawnEnds, FlushFull, FlushTiles, FlushAssets, JoinSeesCancel, JoinEnds, TilesTail
<1>6. CASE TakeAssetFlag(j) \/ SpawnAssetsEnds(j) \/ AssetJoinEnds(j)
  BY <1>1, <1>6 DEF TakeAssetFlag, SpawnAssetsEnds, AssetJoinEnds
<1>7. CASE AssetTail(j)
  <2>1. CASE FlushAssets(j)
    BY <1>1, <1>4, <2>1 DEF FlushAssets
  <2>2. CASE job' = [job EXCEPT ![j].pc = "lock", ![j].staged = TRUE]
    BY <2>2
  <2>3. CASE \E r : job' = [job EXCEPT ![j] = r]
    BY <2>3
  <2> QED BY <1>7, <2>1, <2>2, <2>3 DEF AssetTail
<1>8. CASE Promote(j) \/ CleanupTiles(j) \/ CleanupAssets(j) \/ Finish(j) \/ Release(j)
  BY <1>1, <1>8 DEF Promote, CleanupTiles, CleanupAssets, Finish, Release
<1> QED BY <1>2, <1>3, <1>5, <1>6, <1>7, <1>8 DEF JobStep

\* A driver that waits for config_update can only promote or give up.
LEMMA LockedPromotes == ASSUME NEW j \in Jobs, JobStep(j), job[j].pc = "lock" PROVE Promote(j)
<1>1. ~(InTiles(j) \/ InAssets(j))
  BY DEF InTiles, InAssets
<1>2. /\ ~\E k \in Keys : SpawnTile(j, k) \/ SpawnAsset(j, k)
      /\ ~\E t \in job[j].tasks : TaskLoads(j, t) \/ TaskPins(j, t) \/ TaskFails(j, t) \/ AssetFails(j, t)
      /\ ~FlushLoads(j)
  BY <1>1 DEF SpawnTile, SpawnAsset, TaskLoads, TaskPins, TaskFails, AssetFails, FlushLoads, MustFlush
<1>3. ~\E t \in job[j].tasks, c \in Tiles : TaskFetches(j, t, c) \/ AssetFetches(j, t, c)
  BY <1>1 DEF TaskFetches, AssetFetches
<1>4. ~(BeginRun(j) \/ SpawnEnds(j) \/ FlushFull(j) \/ JoinSeesCancel(j) \/ JoinEnds(j) \/ TilesTail(j))
  BY <1>1 DEF BeginRun, SpawnEnds, FlushFull, FlushTiles, FlushAssets, JoinSeesCancel, JoinEnds, TilesTail
<1>5. ~(TakeAssetFlag(j) \/ SpawnAssetsEnds(j) \/ AssetJoinEnds(j) \/ AssetTail(j))
  BY DEF TakeAssetFlag, SpawnAssetsEnds, AssetJoinEnds, AssetTail
<1>6. ~(CleanupTiles(j) \/ CleanupAssets(j) \/ Finish(j) \/ Release(j))
  BY DEF CleanupTiles, CleanupAssets, Finish, Release
<1> QED BY <1>2, <1>3, <1>4, <1>5, <1>6 DEF JobStep

LEMMA PromotesCurrent ==
    ASSUME WarmInv, NEW j \in Jobs, Promote(j), job'[j].pc = "finish"
    PROVE  job[j].gen = config_generation /\ ConfigFree
<1>1. ASSUME NEW final, Drive(j, [job[j] EXCEPT !.pc = "cleanup", !.final = final]) PROVE FALSE
  <2>1. job'[j].pc = "cleanup"
    BY <1>1, JobTypes DEF Drive, JobRecs
  <2> QED BY <2>1
<1>2. job[j].gen = config_generation
  BY <1>1 DEF Promote, PromotionAllowed
<1>3. job[j].gen \in Nat
  BY JobTypes DEF JobRecs
<1> QED BY <1>2, <1>3 DEF WarmInv, GenInv

\* The steps that are not a driver's leave every driver where it is, start it
\* or lose it with the process.
LEMMA OthersDoNotFinish ==
    ASSUME WarmInv, [WarmEngineNext]_vars, ~\E i \in Jobs : JobStep(i), NEW j \in Jobs, job'[j].pc = "finish"
    PROVE  job[j].pc = "finish"
<1>1. job \in [Jobs -> JobRecs] /\ job[j] \in JobRecs
  BY JobTypes
<1>2. CASE \E i \in Jobs, target \in Targets, request \in Requests, styles \in StyleRequests :
              StartWarm(i, target, request, styles)
  <2>1. PICK i \in Jobs : \E target \in Targets, request \in Requests, styles \in StyleRequests : SpawnRun(i, target, request, styles)
    BY <1>2 DEF StartWarm
  <2>2. PICK r : job' = [job EXCEPT ![i] = r] /\ r.pc = "begin"
    <3>1. PICK target, request, styles : SpawnRun(i, target, request, styles)
      BY <2>1
    <3> DEFINE r == [IdleJob EXCEPT !.pc = "begin", !.target = target, !.gen = config_generation,
                                    !.request = request, !.styles = styles]
    <3>2. r.pc = "begin"
      BY IdleFacts DEF JobRecs
    <3>3. job' = [job EXCEPT ![i] = r]
      BY <3>1 DEF SpawnRun
    <3> HIDE DEF r
    <3> QED BY <3>2, <3>3
  <2> QED BY <1>1, <2>2
<1>3. CASE \E i \in Jobs : CancelWarm(i)
  <2>1. PICK i \in Jobs : job' = [job EXCEPT ![i].cancel = TRUE]
    BY <1>3 DEF CancelWarm
  <2> QED BY <1>1, <2>1, CancelFacts DEF JobRecs
<1>4. CASE Shutdown \/ \E region \in DeletedRegions : DeleteBegin(region)
  <2>1. job'[j] \in {[job[j] EXCEPT !.cancel = TRUE], job[j]}
    BY <1>4 DEF Shutdown, DeleteBegin
  <2> QED BY <1>1, <2>1, CancelFacts DEF SameJob
<1>5. CASE \/ FillStep \/ ClearScroll \/ UNCHANGED vars
           \/ \E k \in LiveKeys, t \in GoodTiles : LiveStore(k, t)
  BY <1>5, LiveInv
<1>6. CASE Restart
  BY <1>6, RestartInv
<1>7. CASE \/ \E c \in Configs : ConfigBegin(c)
           \/ ConfigDropped \/ ConfigStep \/ \E target \in Targets : StartDropped(target)
  BY <1>7 DEF ConfigBegin, ConfigDropped, StartDropped, ConfigStep, ConfigCheckPins, ConfigEvict, ConfigPublish, ConfigEnd
<1>8. CASE DeleteStep
  BY <1>8 DEF DeleteStep, DeleteWait, DeleteApply, DeleteEvict
<1> QED BY <1>2, <1>3, <1>4, <1>5, <1>6, <1>7, <1>8 DEF WarmEngineNext, RouteNext

\* A promotion is of the configuration the job started with, and none is being
\* applied: run reads the generation again under config_update.
THEOREM PromotionIsCurrent == WarmSpec => NoPromotionAcrossConfig
<1>1. WarmInv /\ [WarmEngineNext]_vars =>
        [\A j \in Jobs : job[j].pc = "lock" /\ job'[j].pc = "finish" =>
            job[j].gen = config_generation /\ ConfigFree]_vars
  <2> SUFFICES ASSUME WarmInv, [WarmEngineNext]_vars, NEW j \in Jobs, job[j].pc = "lock", job'[j].pc = "finish"
               PROVE  job[j].gen = config_generation /\ ConfigFree
    OBVIOUS
  <2>1. PICK i \in Jobs : JobStep(i)
    BY OthersDoNotFinish
  <2>2. i = j
    <3>1. PICK r : job' = [job EXCEPT ![i] = r]
      BY <2>1, OneMoves
    <3> QED BY <3>1, JobTypes
  <2> QED BY <2>1, <2>2, LockedPromotes, PromotesCurrent
<1> QED BY <1>1, WarmInvariant, PTL DEF WarmSpec, NoPromotionAcrossConfig

\* What a driver does to the joins: it adds some to its staging region, drops
\* one of its staging regions or promotes.
LEMMA DriverJoins ==
    ASSUME WarmInv, NEW j \in Jobs, JobStep(j)
    PROVE  \/ \E ks \in SUBSET Keys : region_tiles' = WithJoins(region_tiles, StageRegion(j), ks)
           \/ \E s \in Stagings(j) : DeleteRegion(s)
           \/ /\ job[j].pc = "lock" /\ region_tiles' = PromotedJoins(ReplacementsOf(j))
              /\ Drive(j, [job[j] EXCEPT !.pc = "finish"])
<1> DEFINE Stages == \E ks \in SUBSET Keys : region_tiles' = WithJoins(region_tiles, StageRegion(j), ks)
<1>1. UNCHANGED cacheVars => Stages
  <2> SUFFICES ASSUME UNCHANGED cacheVars PROVE Stages
    OBVIOUS
  <2>1. region_tiles' = WithJoins(region_tiles, StageRegion(j), {})
    BY DEF cacheVars, tables, WithJoins, JoinRows
  <2> QED BY <2>1
<1>2. ASSUME NEW failed, FlushBatch(j, failed) PROVE Stages
  <2>1. job[j].batch \in Seq(BatchRows)
    BY JobTypes DEF JobRecs
  <2>2. CASE \E budget, cap : PutManyPinned(job[j].batch, budget, cap, StageRegion(j), 0)
    <3>1. PICK budget, cap : PutManyPinned(job[j].batch, budget, cap, StageRegion(j), 0)
      BY <2>2
    <3>2. BatchKeys(job[j].batch, StoredRows(job[j].batch, budget, cap, StageRegion(j))) \in SUBSET Keys
      BY <2>1, BatchKeyTypes
    <3> QED BY <3>1, <3>2 DEF PutManyPinned, WithJoins
  <2> QED BY <1>1, <1>2, <2>2 DEF FlushBatch
<1>3. CASE FlushTiles(j) \/ FlushAssets(j)
  BY <1>2, <1>3 DEF FlushTiles, FlushAssets
<1>4. CASE \E t \in job[j].tasks : TaskPins(j, t)
  <2>1. PICK t \in job[j].tasks : TaskPins(j, t)
    BY <1>4
  <2>2. CASE \E budget, cap : PinIfFreshCapped(t.key, budget, cap, StageRegion(j))
    <3>1. {t.key} \in SUBSET Keys /\ region_tiles' = WithJoins(region_tiles, StageRegion(j), {t.key})
      BY <2>2, JobTypes DEF PinIfFreshCapped, WithJoins, JobRecs, TaskRecs
    <3> QED BY <3>1
  <2> QED BY <1>1, <2>1, <2>2 DEF TaskPins
<1>5. CASE AssetTail(j)
  <2>1. AssetStaging(j) \in Stagings(j)
    BY DEF Stagings
  <2> QED BY <1>1, <1>3, <1>5, <2>1 DEF AssetTail, DropStaging
<1>6. CASE Promote(j)
  BY <1>1, <1>6 DEF Promote, PromoteStagedRegions
<1>7. CASE CleanupTiles(j)
  <2>1. job[j].target # NoRegion => Storage(j) \in Stagings(j)
    BY HomeFacts DEF Stagings
  <2> QED BY <1>1, <1>7, <2>1 DEF CleanupTiles
<1>8. CASE CleanupAssets(j)
  <2>1. AssetStaging(j) \in Stagings(j)
    BY DEF Stagings
  <2> QED BY <1>1, <1>8, <2>1 DEF CleanupAssets
<1>9. CASE \/ \E k \in Keys : SpawnTile(j, k) \/ SpawnAsset(j, k)
           \/ \E t \in job[j].tasks : TaskLoads(j, t) \/ TaskFails(j, t) \/ AssetFails(j, t)
           \/ FlushLoads(j)
  BY <1>1, <1>9 DEF SpawnTile, SpawnAsset, TaskLoads, TaskFails, AssetFails, FlushLoads
<1>10. CASE \E t \in job[j].tasks, c \in Tiles : TaskFetches(j, t, c) \/ AssetFetches(j, t, c)
  BY <1>1, <1>10 DEF TaskFetches, AssetFetches
<1>11. CASE \/ BeginRun(j) \/ SpawnEnds(j) \/ FlushFull(j) \/ JoinSeesCancel(j) \/ JoinEnds(j) \/ TilesTail(j)
            \/ TakeAssetFlag(j) \/ SpawnAssetsEnds(j) \/ AssetJoinEnds(j) \/ Finish(j) \/ Release(j)
  BY <1>1, <1>3, <1>11
     DEF BeginRun, SpawnEnds, FlushFull, JoinSeesCancel, JoinEnds, TilesTail, TakeAssetFlag, SpawnAssetsEnds,
         AssetJoinEnds, Finish, Release
<1> QED BY <1>4, <1>5, <1>6, <1>7, <1>8, <1>9, <1>10, <1>11 DEF JobStep

LEMMA DriverSparesSaved ==
    ASSUME WarmInv, NEW j \in Jobs, JobStep(j), NEW u \in SavedRegions \ {BasemapAssets}, Of(region_tiles, u) # {}
    PROVE  Of(region_tiles', u) # {}
<1>1. CASE \E ks \in SUBSET Keys : region_tiles' = WithJoins(region_tiles, StageRegion(j), ks)
  BY <1>1 DEF WithJoins, Of, Joined
<1>2. CASE \E s \in Stagings(j) : DeleteRegion(s)
  <2>1. PICK s \in Stagings(j) : DeleteRegion(s)
    BY <1>2
  <2>2. u \in Regions /\ u # s
    BY NameFacts, RegionAssumption DEF RegionAssumption, SavedRegions, Regions, PositionRegions
  <2> QED BY <2>1, <2>2, DropOwn
<1>3. CASE /\ job[j].pc = "lock" /\ region_tiles' = PromotedJoins(ReplacementsOf(j))
           /\ Drive(j, [job[j] EXCEPT !.pc = "finish"])
  <2> DEFINE r == [job[j] EXCEPT !.pc = "finish"]
  <2>1. job[j] \in JobRecs /\ JobInv(j, job[j], region_tiles)
    BY JobTypes
  <2>2. r \in JobRecs /\ Keeps(r, job[j]) /\ r.pc = "finish"
    BY <2>1 DEF JobRecs, JobPcs, Keeps
  <2> HIDE DEF r
  <2>3. Of(region_tiles', u) = IF u = job[j].target THEN job[j].request ELSE Of(region_tiles, u)
    BY <1>3, <2>2, PromotedInv DEF r
  <2>4. job[j].request # {}
    <3>1. job[j].request \in Requests
      BY <1>3, <2>1 DEF JobInv
    <3> QED BY <3>1, EngineAssumption DEF EngineAssumption
  <2> QED BY <2>3, <2>4
<1> QED BY <1>1, <1>2, <1>3, DriverJoins

\* A saved region loses its tiles to nothing but delete_region on the delete
\* route: no driver, cancel, push, eviction, shutdown or restart empties it.
THEOREM SavedRegionsLast == WarmSpec => SavedRegionKept
<1>1. WarmInv /\ [WarmEngineNext]_vars =>
        [\A r \in SavedRegions \ {BasemapAssets} :
           Joined(region_tiles, {r}) # {} /\ Joined(region_tiles, {r})' = {}
           => delete.pc = "delete" /\ delete.region = r]_vars
  <2> SUFFICES ASSUME WarmInv, [WarmEngineNext]_vars, NEW u \in SavedRegions \ {BasemapAssets},
                      Of(region_tiles, u) # {}, Of(region_tiles', u) = {}
               PROVE  delete.pc = "delete" /\ delete.region = u
    BY DEF Of, Joined
  <2>1. CASE UNCHANGED region_tiles
    BY <2>1
  <2>2. CASE \E j \in Jobs : JobStep(j)
    BY <2>2, DriverSparesSaved
  <2>3. CASE DeleteApply
    BY <2>3, DeleteApplyInv DEF DeleteApply
  <2>4. CASE Restart
    BY <2>4, RestartInv
  <2>5. CASE RouteNext
    <3>1. CASE (\E k \in LiveKeys, t \in GoodTiles : LiveStore(k, t)) \/ ClearScroll
      BY <2>1, <3>1, LiveInv
    <3>2. UNCHANGED cacheVars => UNCHANGED region_tiles
      BY DEF cacheVars, tables
    <3> QED BY <2>1, <2>5, <3>1, <3>2 DEF RouteNext, StartWarm, StartDropped, CancelWarm, ConfigBegin, ConfigDropped, DeleteBegin
  <2>6. CASE FillStep \/ UNCHANGED vars
    BY <2>1, <2>6, LiveInv
  <2>7. CASE ConfigStep \/ DeleteWait \/ DeleteEvict \/ Shutdown
    <3>1. UNCHANGED region_tiles
      BY <2>7 DEF ConfigStep, ConfigCheckPins, ConfigEvict, ConfigPublish, DeleteWait, DeleteEvict, Shutdown,
                  EvictTo, cacheVars, tables
    <3> QED BY <2>1, <3>1
  <2> QED BY <2>2, <2>3, <2>4, <2>5, <2>6, <2>7 DEF WarmEngineNext, DeleteStep
<1> QED BY <1>1, WarmInvariant, PTL DEF WarmSpec, SavedRegionKept

-----------------------------------------------------------------------------
(* What a driver keeps                                                     *)

\* A driver at work keeps its region, its request and its generation until it
\* releases them; the limits it and its tasks hold are those they held or load
\* now.
Stays(r, q) ==
    /\ r.pc # "idle" /\ r.target = q.target /\ r.request = q.request /\ r.gen = q.gen
    /\ r.flush \subseteq q.flush \cup LoadedLimits
    /\ \A t \in r.tasks : t \in q.tasks \/ t.limits \in LoadedLimits

\* What most steps do: nothing is loaded.
Retains(r, q) ==
    /\ r.pc # "idle" /\ r.target = q.target /\ r.request = q.request /\ r.gen = q.gen
    /\ r.flush \subseteq q.flush /\ r.tasks \subseteq q.tasks

LEMMA RetainsStays == ASSUME NEW r, NEW q, Retains(r, q) PROVE Stays(r, q)
BY DEF Retains, Stays

LEMMA RetainsTwice == ASSUME NEW r, NEW q, NEW p, Retains(r, q), Retains(q, p) PROVE Retains(r, p)
BY DEF Retains

Fields == {"pc", "target", "request", "gen", "flush", "tasks"}

LEMMA CappedRetains ==
    ASSUME NEW q, Fields \subseteq DOMAIN q, q.pc # "idle"
    PROVE  Retains(Capped(q), q)
<1>1. CASE q.pc \in {"tiles", "join", "tail"}
  BY <1>1 DEF Capped, Retains, Fields
<1>2. CASE q.pc \notin {"tiles", "join", "tail"}
  BY <1>2 DEF Capped, Retains, Fields
<1> QED BY <1>1, <1>2

LEMMA FlushRetains ==
    ASSUME NEW j \in Jobs, job[j] \in JobRecs, FlushTiles(j) \/ FlushAssets(j)
    PROVE  \E r : Drive(j, r) /\ Retains(r, job[j])
<1> DEFINE emptied == [job[j] EXCEPT !.batch = <<>>, !.flush = {}]
<1>1. job[j].pc # "idle" /\ Fields \subseteq DOMAIN job[j]
  BY DEF FlushTiles, FlushAssets, InTiles, InAssets, JobRecs, Fields
<1>2. emptied.pc # "idle" /\ Retains(emptied, job[j]) /\ Fields \subseteq DOMAIN emptied
  BY <1>1 DEF JobRecs, Retains, Fields
<1>3. ASSUME NEW failed, FlushBatch(j, failed)
      PROVE  \/ \E ks : LET stored == [emptied EXCEPT !.kept = @ \cup ks]
                         IN  Drive(j, stored) \/ Drive(j, Capped(stored))
             \/ Drive(j, Capped(emptied))
             \/ Drive(j, [failed EXCEPT !.batch = <<>>, !.flush = {}])
  <2>1. PICK n, ks : LET stored == [emptied EXCEPT !.kept = @ \cup ks]
                     IN  \/ Drive(j, IF n < Len(job[j].batch) THEN Capped(stored) ELSE stored)
                         \/ Drive(j, Capped(emptied))
                         \/ Drive(j, [failed EXCEPT !.batch = <<>>, !.flush = {}])
    BY <1>3 DEF FlushBatch
  <2> HIDE DEF emptied
  <2> QED BY <2>1
<1> HIDE DEF emptied
<1>4. ASSUME NEW ks
      PROVE  LET stored == [emptied EXCEPT !.kept = @ \cup ks]
             IN  Retains(stored, job[j]) /\ Retains(Capped(stored), job[j])
  <2> DEFINE stored == [emptied EXCEPT !.kept = @ \cup ks]
  <2>1. Retains(stored, emptied) /\ Fields \subseteq DOMAIN stored /\ stored.pc # "idle"
    BY <1>2 DEF Retains, Fields
  <2> HIDE DEF stored
  <2>2. Retains(Capped(stored), stored)
    BY <2>1, CappedRetains
  <2> QED BY <1>2, <2>1, <2>2, RetainsTwice DEF stored
<1>5. Retains(Capped(emptied), job[j])
  BY <1>2, CappedRetains, RetainsTwice
<1>6. ASSUME NEW failed, Retains(failed, job[j]), Fields \subseteq DOMAIN failed, FlushBatch(j, failed)
      PROVE  \E r : Drive(j, r) /\ Retains(r, job[j])
  <2>1. Retains([failed EXCEPT !.batch = <<>>, !.flush = {}], job[j])
    BY <1>6 DEF Retains, Fields
  <2> QED BY <1>4, <1>5, <1>6, <1>3, <2>1
<1>7. CASE FlushTiles(j)
  <2> DEFINE failed == [job[j] EXCEPT !.errors = TRUE]
  <2>1. Retains(failed, job[j]) /\ Fields \subseteq DOMAIN failed
    BY <1>1 DEF Fields, Retains
  <2>2. FlushBatch(j, failed)
    BY <1>7 DEF FlushTiles
  <2> HIDE DEF failed
  <2> QED BY <1>6, <2>1, <2>2
<1>8. CASE FlushAssets(j)
  <2> DEFINE failed == [job[j] EXCEPT !.pc = "assetJoin", !.final = "Error"]
  <2>1. Retains(failed, job[j]) /\ Fields \subseteq DOMAIN failed
    BY <1>1 DEF Fields, Retains
  <2>2. FlushBatch(j, failed)
    BY <1>8 DEF FlushAssets
  <2> HIDE DEF failed
  <2> QED BY <1>6, <2>1, <2>2
<1> QED BY <1>7, <1>8

LEMMA DriverStays ==
    ASSUME WarmInv, NEW j \in Jobs, JobStep(j), ~Release(j)
    PROVE  /\ \E r : job' = [job EXCEPT ![j] = r] /\ Stays(r, job[j])
           /\ UNCHANGED <<delete, live, config, config_generation>>
<1> DEFINE Still == UNCHANGED <<delete, live, config, config_generation>>
           Moved == (\E r : job' = [job EXCEPT ![j] = r] /\ Stays(r, job[j])) /\ Still
<1> SUFFICES Moved
  OBVIOUS
<1>a. job[j] \in JobRecs /\ live \in LoadedLimits
  BY JobTypes, LimitFacts
<1>0. ASSUME NEW r, job' = [job EXCEPT ![j] = r], Retains(r, job[j]), Still PROVE Moved
  BY <1>0, RetainsStays
<1>1. ASSUME NEW r, Drive(j, r), Stays(r, job[j]) PROVE Moved
  BY <1>1 DEF Drive
<1>2. ASSUME NEW r, Drive(j, r), Retains(r, job[j]) PROVE Moved
  BY <1>1, <1>2, RetainsStays
<1> HIDE DEF Moved
<1>3. CASE FlushTiles(j) \/ FlushAssets(j)
  BY <1>a, <1>2, <1>3, FlushRetains
<1>4. CASE BeginRun(j)
  BY <1>a, <1>2, <1>4 DEF BeginRun, JobRecs, Retains
<1>5. CASE \E k \in Keys : SpawnTile(j, k) \/ SpawnAsset(j, k)
  <2>1. PICK k \in Keys : SpawnTile(j, k) \/ SpawnAsset(j, k)
    BY <1>5
  <2> DEFINE task == Task(k)
             r == [job[j] EXCEPT !.todo = @ \ {k}, !.tasks = @ \cup {task}]
  <2>2. Drive(j, r) /\ job[j].pc # "idle"
    BY <2>1 DEF SpawnTile, SpawnAsset
  <2>3. task.limits \in LoadedLimits
    BY <1>a DEF Task
  <2> HIDE DEF task
  <2>4. Stays(r, job[j])
    BY <1>a, <2>2, <2>3 DEF JobRecs, Stays
  <2> HIDE DEF r
  <2> QED BY <1>1, <2>2, <2>4
<1>6. CASE FlushLoads(j)
  <2>1. PICK limits \in LoadedLimits : Drive(j, [job[j] EXCEPT !.flush = {limits}])
    BY <1>6 DEF FlushLoads
  <2>2. Stays([job[j] EXCEPT !.flush = {limits}], job[j])
    BY <1>a, <1>6 DEF FlushLoads, MustFlush, InTiles, InAssets, JobRecs, Stays
  <2> QED BY <1>1, <2>1, <2>2
<1>7. CASE \E t \in job[j].tasks : TaskLoads(j, t)
  <2>1. PICK t \in job[j].tasks, limits \in LoadedLimits :
          /\ Drive(j, [job[j] EXCEPT !.tasks = (@ \ {t}) \cup {[t EXCEPT !.limits = limits]}])
          /\ job[j].pc # "idle"
    BY <1>7 DEF TaskLoads, InTiles, InAssets
  <2> DEFINE task == [t EXCEPT !.limits = limits]
             r == [job[j] EXCEPT !.tasks = (@ \ {t}) \cup {task}]
  <2>2. task.limits \in LoadedLimits
    BY <1>a DEF JobRecs, TaskRecs
  <2>3. Drive(j, r)
    BY <2>1
  <2> HIDE DEF task
  <2>4. Stays(r, job[j])
    BY <1>a, <2>1, <2>2 DEF JobRecs, Stays
  <2> HIDE DEF r
  <2> QED BY <1>1, <2>3, <2>4
<1>8. CASE \E t \in job[j].tasks : TaskPins(j, t)
  <2>1. PICK t \in job[j].tasks : TaskPins(j, t)
    BY <1>8
  <2> DEFINE q == [job[j] EXCEPT !.tasks = @ \ {t}]
             r == [job[j] EXCEPT !.tasks = @ \ {t}, !.kept = @ \cup {t.key}]
  <2>2. (Drive(j, r) \/ Drive(j, Capped(q))) /\ job[j].pc # "idle"
    BY <2>1 DEF TaskPins, InTiles, InAssets
  <2>3. Retains(q, job[j]) /\ Retains(r, job[j]) /\ Fields \subseteq DOMAIN q /\ q.pc # "idle"
    BY <1>a, <2>2 DEF JobRecs, Retains, Fields
  <2> HIDE DEF q, r
  <2>4. Retains(Capped(q), job[j])
    BY <2>3, CappedRetains, RetainsTwice
  <2> QED BY <1>2, <2>2, <2>3, <2>4
<1>9. CASE \E t \in job[j].tasks : TaskFails(j, t) \/ AssetFails(j, t)
  <2>1. PICK t \in job[j].tasks : TaskFails(j, t) \/ AssetFails(j, t)
    BY <1>9
  <2> DEFINE q == [job[j] EXCEPT !.tasks = @ \ {t}]
             q1 == [q EXCEPT !.errors = TRUE]
             q2 == [q EXCEPT !.pc = "join", !.cancel = TRUE, !.final = "Cancelled"]
             q3 == [job[j] EXCEPT !.tasks = @ \ {t}, !.pc = "assetJoin", !.final = IF @ = "Done" THEN "Error" ELSE @]
  <2>2. /\ Drive(j, q) \/ Drive(j, q1) \/ Drive(j, q2) \/ Drive(j, q3)
        /\ job[j].pc # "idle"
    BY <2>1 DEF TaskFails, AssetFails, InTiles, InAssets
  <2>3. Retains(q, job[j]) /\ Retains(q3, job[j]) /\ Fields \subseteq DOMAIN q
    BY <1>a, <2>2 DEF JobRecs, Retains, Fields
  <2> HIDE DEF q, q3
  <2>4. Retains(q1, job[j]) /\ Retains(q2, job[j])
    BY <2>3 DEF Retains, Fields
  <2> QED BY <1>2, <2>2, <2>3, <2>4
<1>10. CASE \E t \in job[j].tasks, c \in Tiles : TaskFetches(j, t, c) \/ AssetFetches(j, t, c)
  <2>1. PICK t \in job[j].tasks, c \in Tiles : TaskFetches(j, t, c) \/ AssetFetches(j, t, c)
    BY <1>10
  <2> DEFINE q == [job[j] EXCEPT !.tasks = @ \ {t}]
             q1 == [q EXCEPT !.batch = Append(@, [key |-> t.key, tile |-> c])]
  <2>2. (Drive(j, q) \/ Drive(j, q1)) /\ job[j].pc # "idle"
    BY <2>1 DEF TaskFetches, AssetFetches, InTiles, InAssets
  <2>3. Retains(q, job[j]) /\ Fields \subseteq DOMAIN q
    BY <1>a, <2>2 DEF JobRecs, Retains, Fields
  <2> HIDE DEF q
  <2>4. Retains(q1, job[j])
    BY <2>3 DEF Retains, Fields
  <2> QED BY <1>2, <2>2, <2>3, <2>4
<1>11. CASE SpawnEnds(j) \/ JoinSeesCancel(j) \/ JoinEnds(j) \/ SpawnAssetsEnds(j) \/ AssetJoinEnds(j) \/ Finish(j)
  BY <1>a, <1>2, <1>11
     DEF SpawnEnds, JoinSeesCancel, JoinEnds, SpawnAssetsEnds, AssetJoinEnds, Finish, JobRecs, Retains
<1>12. CASE TilesTail(j)
  <2>1. CASE FlushTiles(j)
    BY <1>3, <2>1
  <2>2. CASE Drive(j, AfterTiles(j))
    <3> DEFINE q == [job[j] EXCEPT !.batch = <<>>]
    <3>1. Retains(q, job[j]) /\ Fields \subseteq DOMAIN q
      BY <1>a, <1>12 DEF TilesTail, JobRecs, Retains, Fields
    <3>2. AfterTiles(j) \in {[q EXCEPT !.pc = "cleanup"], [q EXCEPT !.pc = "cleanup", !.final = "Error"],
                             [q EXCEPT !.pc = "lock"], [q EXCEPT !.pc = "flag"]}
      BY DEF AfterTiles
    <3> HIDE DEF q
    <3>3. Retains(AfterTiles(j), job[j])
      BY <3>1, <3>2 DEF Retains, Fields
    <3> QED BY <1>2, <2>2, <3>3
  <2> QED BY <1>12, <2>1, <2>2 DEF TilesTail
<1>13. Fields \subseteq DOMAIN job[j] /\ Retains(AssetStageFailed(job[j]), job[j])
  BY <1>a DEF AssetStageFailed, JobRecs, Retains, Fields
<1>14. CASE TakeAssetFlag(j)
  <2>1. CASE Drive(j, AssetStageFailed(job[j]))
    BY <1>2, <1>13, <2>1
  <2>2. CASE /\ \E budget : job' = [job EXCEPT ![j] =
                   [@ EXCEPT !.pc = "assets", !.todo = UNION {AssetKeys[s] : s \in job[j].styles}, !.assetBudget = budget]]
             /\ Still
    <3>1. PICK budget : job' = [job EXCEPT ![j] =
                   [@ EXCEPT !.pc = "assets", !.todo = UNION {AssetKeys[s] : s \in job[j].styles}, !.assetBudget = budget]]
      BY <2>2
    <3> DEFINE r == [job[j] EXCEPT !.pc = "assets", !.todo = UNION {AssetKeys[s] : s \in job[j].styles},
                       !.assetBudget = budget]
    <3>2. job' = [job EXCEPT ![j] = r]
      BY <3>1, JobTypes
    <3>3. Retains(r, job[j])
      BY <1>13 DEF Retains, Fields
    <3> HIDE DEF r
    <3> QED BY <1>0, <2>2, <3>2, <3>3
  <2> QED BY <1>14, <2>1, <2>2 DEF TakeAssetFlag
<1>15. CASE AssetTail(j)
  <2>1. CASE FlushAssets(j)
    BY <1>3, <2>1
  <2>2. CASE job' = [job EXCEPT ![j].pc = "lock", ![j].staged = TRUE] /\ Still
    <3> DEFINE r == [job[j] EXCEPT !.pc = "lock", !.staged = TRUE]
    <3>1. job' = [job EXCEPT ![j] = r]
      BY <2>2
    <3>2. Retains(r, job[j])
      BY <1>13 DEF Retains, Fields
    <3> HIDE DEF r
    <3> QED BY <1>0, <2>2, <3>1, <3>2
  <2> DEFINE capped == [job[j] EXCEPT !.pc = "cleanup", !.batch = <<>>]
             failed == AssetStageFailed(job[j])
  <2>3. CASE (\E r \in {capped, Leaked(capped), failed, Leaked(failed)} : job' = [job EXCEPT ![j] = r]) /\ Still
    <3>1. Retains(failed, job[j]) /\ Fields \subseteq DOMAIN failed
      BY <1>13 DEF AssetStageFailed
    <3>2. Retains(capped, job[j]) /\ Fields \subseteq DOMAIN capped
      BY <1>13 DEF Retains, Fields
    <3> HIDE DEF failed, capped
    <3>3. Retains(Leaked(capped), job[j]) /\ Retains(Leaked(failed), job[j])
      BY <3>1, <3>2 DEF Leaked, Retains, Fields
    <3> QED BY <1>0, <2>3, <3>1, <3>2, <3>3
  <2> QED BY <1>15, <2>1, <2>2, <2>3 DEF AssetTail
<1>16. CASE Promote(j)
  BY <1>2, <1>13, <1>16 DEF Promote, Retains, Fields
<1>17. CASE CleanupTiles(j) \/ CleanupAssets(j)
  <2>1. \E pc \in {CleanupPc(j), "finish"} : LET r == [job[j] EXCEPT !.pc = pc] IN Drive(j, r) \/ Drive(j, Leaked(r))
    BY <1>17 DEF CleanupTiles, CleanupAssets
  <2>2. CleanupPc(j) \in {"cleanupAssets", "finish"}
    BY DEF CleanupPc
  <2>3. ASSUME NEW pc \in {"cleanupAssets", "finish"}
        PROVE  LET r == [job[j] EXCEPT !.pc = pc] IN Retains(r, job[j]) /\ Retains(Leaked(r), job[j])
    BY <1>13 DEF Retains, Fields, Leaked
  <2> QED BY <1>2, <2>1, <2>2, <2>3
<1>18. FlushFull(j) => FlushTiles(j) \/ FlushAssets(j)
  BY DEF FlushFull
<1> QED BY <1>3, <1>4, <1>5, <1>6, <1>7, <1>8, <1>9, <1>10, <1>11, <1>12, <1>14, <1>15, <1>16, <1>17, <1>18 DEF JobStep

-----------------------------------------------------------------------------
(* Whose limits                                                            *)

\* The limits a driver and its tasks hold between a load and its use.
LimitsOf(r) == r.flush \cup {t.limits : t \in r.tasks}

\* A job of the current configuration holds none but the live ones: what an
\* older configuration allowed is only in the hands of jobs that a push has
\* already failed.
LimitsInv == \A j \in Jobs : job[j].gen = config_generation => LimitsOf(job[j]) \subseteq {live}

LEMMA SameLimits ==
    ASSUME LimitsInv, UNCHANGED <<live, config_generation>>,
           \A j \in Jobs : /\ job'[j].gen = job[j].gen
                          /\ job'[j].tasks = job[j].tasks /\ job'[j].flush = job[j].flush
    PROVE  LimitsInv'
BY DEF LimitsInv, LimitsOf

\* A new generation makes every job an old one.
LEMMA NewGeneration ==
    ASSUME WarmInv, UNCHANGED job, config_generation' = config_generation + 1
    PROVE  LimitsInv'
<1>1. config_generation \in Nat /\ \A j \in Jobs : job[j].gen \in Nat
  BY DEF WarmInv, EngineTypeOK, JobRecs
<1> QED BY <1>1 DEF WarmInv, GenInv, LimitsInv

LEMMA DriverLimits == ASSUME WarmInv, LimitsInv, NEW j \in Jobs, JobStep(j) PROVE LimitsInv'
<1>1. job \in [Jobs -> JobRecs]
  BY JobTypes
<1>2. CASE Release(j)
  <2>1. job' = [job EXCEPT ![j] = [IdleJob EXCEPT !.leaked = job[j].leaked]] /\ UNCHANGED <<live, config_generation>>
    BY <1>2 DEF Release
  <2> DEFINE r == [IdleJob EXCEPT !.leaked = job[j].leaked]
  <2>2. r.tasks = {} /\ r.flush = {}
    BY IdleFacts DEF JobRecs
  <2> HIDE DEF r
  <2>3. job'[j] = r /\ \A i \in Jobs : i # j => job'[i] = job[i]
    BY <1>1, <2>1 DEF r
  <2>4. LimitsOf(job'[j]) = {}
    BY <2>2, <2>3 DEF LimitsOf
  <2> QED BY <2>1, <2>3, <2>4 DEF LimitsInv
<1>3. CASE ~Release(j)
  <2>1. PICK r : job' = [job EXCEPT ![j] = r] /\ Stays(r, job[j])
    BY <1>3, DriverStays
  <2>2. UNCHANGED <<live, config_generation>>
    BY <1>3, DriverStays
  <2>3. job'[j] = r /\ \A i \in Jobs : i # j => job'[i] = job[i]
    BY <1>1, <2>1
  <2>4. ASSUME r.gen = config_generation PROVE LimitsOf(r) \subseteq {live}
    <3>1. job[j].gen = config_generation
      BY <2>1, <2>4 DEF Stays
    <3>2. ConfigFree
      BY <3>1 DEF WarmInv, GenInv, EngineTypeOK
    <3>3. LoadedLimits = {live} /\ LimitsOf(job[j]) \subseteq {live}
      BY <3>1, <3>2, LimitFacts DEF LimitsInv
    <3> QED BY <2>1, <3>3 DEF Stays, LimitsOf
  <2> QED BY <2>2, <2>3, <2>4 DEF LimitsInv
<1> QED BY <1>2, <1>3

LEMMA StartLimits ==
    ASSUME WarmInv, LimitsInv, NEW j \in Jobs, NEW target, NEW request, NEW styles,
           StartWarm(j, target, request, styles)
    PROVE  LimitsInv'
<1> DEFINE r == [IdleJob EXCEPT !.pc = "begin", !.target = target, !.gen = config_generation,
                                !.request = request, !.styles = styles]
<1>1. job' = [job EXCEPT ![j] = r] /\ UNCHANGED <<live, config_generation>> /\ job \in [Jobs -> JobRecs]
  BY JobTypes DEF StartWarm, SpawnRun
<1>2. r.tasks = {} /\ r.flush = {}
  BY IdleFacts DEF JobRecs
<1> HIDE DEF r
<1>3. job'[j] = r /\ \A i \in Jobs : i # j => job'[i] = job[i]
  BY <1>1
<1>4. LimitsOf(job'[j]) = {}
  BY <1>2, <1>3 DEF LimitsOf
<1> QED BY <1>1, <1>3, <1>4 DEF LimitsInv

LEMMA LimitsNext == WarmInv /\ LimitsInv /\ [WarmEngineNext]_vars => LimitsInv'
<1> SUFFICES ASSUME WarmInv, LimitsInv, [WarmEngineNext]_vars PROVE LimitsInv'
  OBVIOUS
<1>0. job \in [Jobs -> JobRecs]
  BY DEF WarmInv, EngineTypeOK
<1>1. CASE \E j \in Jobs, target \in Targets, request \in Requests, styles \in StyleRequests :
              StartWarm(j, target, request, styles)
  BY <1>1, StartLimits
<1>2. CASE \E j \in Jobs : JobStep(j)
  BY <1>2, DriverLimits
<1>3. CASE Shutdown \/ (\E j \in Jobs : CancelWarm(j)) \/ \E region \in DeletedRegions : DeleteBegin(region)
  <2>1. UNCHANGED <<live, config_generation>>
    BY <1>3 DEF Shutdown, CancelWarm, DeleteBegin
  <2>2. \A i \in Jobs : job'[i] \in {[job[i] EXCEPT !.cancel = TRUE], job[i]}
    BY <1>0, <1>3 DEF Shutdown, CancelWarm, DeleteBegin
  <2>3. \A i \in Jobs : SameJob(job'[i], job[i])
    BY <1>0, <2>2, CancelFacts, SameJobSelf
  <2> QED BY <2>1, <2>3, SameLimits DEF SameJob
<1>4. CASE (\E c \in Configs : ConfigBegin(c)) \/ \E published \in BOOLEAN : ConfigEnd(published)
  BY <1>4, NewGeneration DEF ConfigBegin, ConfigEnd
<1>5. CASE UNCHANGED <<job, live, config_generation>>
  BY <1>5, SameLimits
<1>6. CASE ConfigStep
  BY <1>4, <1>5, <1>6 DEF ConfigStep, ConfigCheckPins, ConfigEvict, ConfigPublish
<1>7. CASE ConfigDropped \/ DeleteStep \/ \E target \in Targets : StartDropped(target)
  BY <1>5, <1>7 DEF ConfigDropped, StartDropped, DeleteStep, DeleteWait, DeleteApply, DeleteEvict
<1>8. CASE \/ FillStep \/ ClearScroll \/ UNCHANGED vars
           \/ \E k \in LiveKeys, t \in GoodTiles : LiveStore(k, t)
  BY <1>5, <1>8, LiveInv
<1>9. CASE Restart
  <2>1. \A j \in Jobs : job'[j] = IdleJob
    BY <1>9 DEF Restart
  <2> QED BY <2>1, IdleFacts DEF LimitsInv, LimitsOf
<1> QED BY <1>1, <1>2, <1>3, <1>4, <1>6, <1>7, <1>8, <1>9 DEF WarmEngineNext, RouteNext

-----------------------------------------------------------------------------
(* The cache under the engine                                              *)

(***************************************************************************)
(* A step of the engine is at most one critical section of the cache, with *)
(* arguments the lemmas on the cache allow and, for whatever pins, a cap   *)
(* some driver has loaded: the cache keeps its promises when budgets       *)
(* change under it and between a driver's load and its call.               *)
(***************************************************************************)
PinsWithin(j) == \E limits \in LimitsOf(job[j]) : PinningSection(limits.cap)
CacheStep == OtherSection \/ (\E j \in Jobs : PinsWithin(j)) \/ UNCHANGED cacheVars

LEMMA StageNames ==
    ASSUME NEW j \in Jobs
    PROVE  /\ AssetStaging(j) \in Regions /\ Storage(j) \in Regions \cup {NoRegion}
           /\ job[j].target # NoRegion => Storage(j) \in Regions
           /\ StageRegion(j) \in Regions \cup {NoRegion}
<1>1. AssetStaging(j) \in Regions
  BY NameFacts DEF Stagings
<1>2. /\ job[j].target = NoRegion => Storage(j) = NoRegion
      /\ job[j].target # NoRegion => Storage(j) \in Regions
  BY HomeFacts
<1> QED BY <1>1, <1>2 DEF StageRegion

\* The replacements of a complete job are legal ones.
LEMMA ReplacementsAreLegal ==
    ASSUME NEW j \in Jobs, job[j] \in JobRecs, DOMAIN ReplacementsOf(j) # {}
    PROVE  ReplacementsOf(j) \in Replacements
<1> DEFINE repl == ReplacementsOf(j)
           S == DOMAIN repl
           target == job[j].target
<1>1. /\ TileStaging(j) \in RealStaging /\ AssetStaging(j) \in RealStaging /\ PosStaging(j) \in PositionStaging
      /\ RealStaging \cap PositionStaging = {} /\ BasemapAssets # PositionWarm
  BY EngineAssumption, RegionAssumption DEF EngineAssumption, RegionAssumption, PositionRegions
<1>2. /\ S \subseteq Stagings(j) /\ repl \in [S -> Regions] /\ \A s \in S : repl[s] \in SavedRegions
      /\ \A s, u \in S : repl[s] = repl[u] => s = u
  BY ReplacementFacts
<1>3. repl = [s \in S |-> IF s = AssetStaging(j) THEN BasemapAssets ELSE target]
  BY DEF ReplacementsOf
<1>4. /\ S \subseteq {Storage(j), AssetStaging(j)}
      /\ target = NoRegion => S \subseteq {AssetStaging(j)}
      /\ Storage(j) = Home(j, target)
  BY HomeFacts DEF ReplacementsOf
<1> HIDE DEF repl, S
<1>5. \A s \in S : \/ s = AssetStaging(j) /\ repl[s] = BasemapAssets
                   \/ s = Home(j, target) /\ repl[s] = target /\ target # NoRegion
  BY <1>3, <1>4
<1>6. S \in SUBSET StagingRegions /\ repl \in [S -> SavedRegions]
  BY <1>1, <1>2 DEF Stagings, StagingRegions
<1>7. \A s \in S : s \in PositionStaging <=> repl[s] = PositionWarm
  BY <1>1, <1>5 DEF Home
<1>8. \A s, u \in S : s # u => repl[s] # repl[u] /\ BasemapAssets \in {repl[s], repl[u]}
  BY <1>2, <1>5
<1>9. repl \in UNION {[D -> SavedRegions] : D \in SUBSET StagingRegions} /\ S # {}
  BY <1>6 DEF repl, S
<1> QED BY <1>7, <1>8, <1>9 DEF Replacements, repl, S

LEMMA FlushCalls ==
    ASSUME WarmInv, NEW j \in Jobs, FlushTiles(j) \/ FlushAssets(j)
    PROVE  CacheStep
<1>1. job[j].batch \in Seq(BatchRows)
  BY JobTypes DEF JobRecs
<1>2. StageRegion(j) \in Regions \cup {NoRegion} /\ 0 \in Times
  BY StageNames, BoundAssumption DEF BoundAssumption
<1>3. ASSUME NEW failed, FlushBatch(j, failed) PROVE CacheStep
  <2>1. CASE \E limits \in job[j].flush : \E budget : PutManyPinned(job[j].batch, budget, limits.cap, StageRegion(j), 0)
    <3>1. PICK limits \in job[j].flush :
            \E budget : PutManyPinned(job[j].batch, budget, limits.cap, StageRegion(j), 0)
      BY <2>1
    <3>3. PICK budget : PutManyPinned(job[j].batch, budget, limits.cap, StageRegion(j), 0)
      BY <3>1
    <3>2. PinningSection(limits.cap) /\ limits \in LimitsOf(job[j])
      BY <1>1, <1>2, <3>3 DEF PinningSection, LimitsOf
    <3> QED BY <3>2 DEF CacheStep, PinsWithin
  <2>2. CASE UNCHANGED cacheVars
    BY <2>2 DEF CacheStep
  <2> QED BY <1>3, <2>1, <2>2 DEF FlushBatch
<1> QED BY <1>3 DEF FlushTiles, FlushAssets

\* What the driver asks of the cache, whatever the two stages share.
LEMMA DriverCalls ==
    ASSUME WarmInv, NEW j \in Jobs, JobStep(j)
    PROVE  CacheStep
<1>1. UNCHANGED cacheVars => CacheStep
  BY DEF CacheStep
<1>2. ASSUME NEW region \in Regions, DeleteRegion(region) PROVE CacheStep
  BY <1>2 DEF CacheStep, OtherSection
<1>3. CASE FlushTiles(j) \/ FlushAssets(j)
  BY <1>3, FlushCalls
<1>4. CASE \E t \in job[j].tasks : TaskPins(j, t)
  <2>1. PICK t \in job[j].tasks : TaskPins(j, t)
    BY <1>4
  <2>2. CASE \E budget : PinIfFreshCapped(t.key, budget, t.limits.cap, StageRegion(j))
    <3>1. StageRegion(j) \in Regions \cup {NoRegion} /\ t.key \in Keys /\ t.limits \in LimitsOf(job[j])
      BY StageNames, JobTypes DEF JobRecs, TaskRecs, LimitsOf
    <3>2. PinningSection(t.limits.cap)
      BY <2>2, <3>1 DEF PinningSection
    <3> QED BY <3>1, <3>2 DEF CacheStep, PinsWithin
  <2> QED BY <1>1, <2>1, <2>2 DEF TaskPins
<1>5. CASE AssetTail(j)
  BY <1>1, <1>2, <1>3, <1>5, StageNames DEF AssetTail, DropStaging
<1>6. CASE Promote(j)
  <2>1. CASE UNCHANGED cacheVars
    BY <1>1, <2>1
  <2>2. ASSUME DOMAIN ReplacementsOf(j) # {},
               NEW rb, NEW pb, PromoteStagedRegions(ReplacementsOf(j), rb, pb, live.cap)
        PROVE  CacheStep
    <3>1. ReplacementsOf(j) \in Replacements
      BY <2>2, JobTypes, ReplacementsAreLegal
    <3> QED BY <2>2, <3>1 DEF CacheStep, OtherSection
  <2> QED BY <1>6, <2>1, <2>2 DEF Promote
<1>7. CASE CleanupTiles(j) \/ CleanupAssets(j)
  BY <1>1, <1>2, <1>7, StageNames DEF CleanupTiles, CleanupAssets
<1>8. CASE (\E k \in Keys : SpawnTile(j, k) \/ SpawnAsset(j, k)) \/ FlushLoads(j)
           \/ \E t \in job[j].tasks : TaskLoads(j, t) \/ TaskFails(j, t) \/ AssetFails(j, t)
  BY <1>1, <1>8 DEF SpawnTile, SpawnAsset, TaskLoads, TaskFails, AssetFails, FlushLoads
<1>9. CASE \E t \in job[j].tasks, c \in Tiles : TaskFetches(j, t, c) \/ AssetFetches(j, t, c)
  BY <1>1, <1>9 DEF TaskFetches, AssetFetches
<1>10. CASE \/ BeginRun(j) \/ SpawnEnds(j) \/ FlushFull(j) \/ JoinSeesCancel(j) \/ JoinEnds(j) \/ TilesTail(j)
            \/ TakeAssetFlag(j) \/ SpawnAssetsEnds(j) \/ AssetJoinEnds(j) \/ Finish(j) \/ Release(j)
  BY <1>1, <1>3, <1>10
     DEF BeginRun, SpawnEnds, FlushFull, JoinSeesCancel, JoinEnds, TilesTail, TakeAssetFlag, SpawnAssetsEnds,
         AssetJoinEnds, Finish, Release
<1> QED BY <1>4, <1>5, <1>6, <1>7, <1>8, <1>9, <1>10 DEF JobStep

LEMMA EngineCalls ==
    ASSUME WarmInv, [WarmEngineNext]_vars
    PROVE  CacheStep
<1>1. UNCHANGED cacheVars => CacheStep
  BY DEF CacheStep
<1>2. ASSUME NEW cap, EvictTo(cap) PROVE CacheStep
  BY <1>2 DEF CacheStep, OtherSection
<1>3. CASE \E j \in Jobs : JobStep(j)
  BY <1>3, DriverCalls
<1>4. CASE \E k \in LiveKeys, t \in GoodTiles : LiveStore(k, t)
  <2>1. LiveKeys \subseteq Keys /\ GoodTiles \subseteq Tiles /\ 0 \in Times
    BY EngineAssumption, BoundAssumption DEF EngineAssumption, BoundAssumption
  <2> QED BY <1>4, <2>1 DEF LiveStore, CacheStep, OtherSection
<1>5. CASE ClearScroll
  BY <1>5 DEF ClearScroll, CacheStep, OtherSection
<1>6. CASE \/ \E j \in Jobs, target \in Targets, request \in Requests, styles \in StyleRequests :
                  StartWarm(j, target, request, styles)
           \/ \E j \in Jobs : CancelWarm(j)
           \/ \E target \in Targets : StartDropped(target)
           \/ (\E c \in Configs : ConfigBegin(c)) \/ ConfigDropped
           \/ \E region \in DeletedRegions : DeleteBegin(region)
           \/ Shutdown \/ UNCHANGED vars
  BY <1>1, <1>6 DEF StartWarm, StartDropped, CancelWarm, ConfigBegin, ConfigDropped, DeleteBegin, Shutdown, vars
<1>7. CASE ConfigStep \/ FillStep
  BY <1>1, <1>2, <1>7 DEF ConfigStep, ConfigCheckPins, ConfigEvict, ConfigPublish, FillStep, OrphanChecks, LiveEvict
<1>8. CASE DeleteStep
  <2>1. CASE DeleteApply
    <3>1. delete.region \in Regions
      <4>1. delete.region \in DeletedRegions
        BY <2>1 DEF DeleteApply, WarmInv, DeleteInv
      <4>2. DeletedRegions \subseteq RealRegions
        BY EngineAssumption DEF EngineAssumption
      <4> QED BY <4>1, <4>2 DEF Regions
    <3> QED BY <1>1, <2>1, <3>1 DEF DeleteApply, CacheStep, OtherSection
  <2>2. CASE DeleteWait \/ DeleteEvict
    BY <1>1, <1>2, <2>2 DEF DeleteWait, DeleteEvict
  <2> QED BY <1>8, <2>1, <2>2 DEF DeleteStep
<1>9. CASE Restart
  BY <1>9 DEF Restart, CacheStep, OtherSection
<1> QED BY <1>3, <1>4, <1>5, <1>6, <1>7, <1>8, <1>9 DEF WarmEngineNext, RouteNext

LEMMA EngineExact ==
    ASSUME WarmInv, AccountInv, [WarmEngineNext]_vars
    PROVE  AccountInv'
<1>1. CASE OtherSection
  BY <1>1, SectionExact DEF CriticalSection
<1>2. CASE \E j \in Jobs : PinsWithin(j)
  BY <1>2, SectionExact DEF CriticalSection, PinsWithin
<1>3. CASE UNCHANGED cacheVars
  BY <1>3, IdleExact
<1> QED BY <1>1, <1>2, <1>3, EngineCalls DEF CacheStep

\* The inductive invariant of the engine and the cache together.
EngineInv == WarmInv /\ AccountInv /\ LimitsInv

LEMMA EngineAccounts == WarmSpec => []EngineInv
<1>1. WarmInit => AccountInv /\ LimitsInv
  <2>1. WarmInit => AccountInv
    BY EmptyTableInv, EmptyExact DEF WarmInit, EmptyCache, AccountInv, AccountingExact
  <2>2. WarmInit => LimitsInv
    BY IdleFacts DEF WarmInit, EngineAtBoot, LimitsInv, LimitsOf
  <2> QED BY <2>1, <2>2
<1>2. WarmInv /\ AccountInv /\ LimitsInv /\ [WarmEngineNext]_vars => AccountInv' /\ LimitsInv'
  BY EngineExact, LimitsNext
<1> QED BY <1>1, <1>2, WarmInvariant, PTL DEF WarmSpec, EngineInv

(* Under concurrent jobs, config pushes, deletes, live stores and restarts *)
(* every tile a region joins stays a pinned row, and the totals and memo   *)
(* of cache.rs stay the sums they stand for: the budgets the engine reads  *)
(* between its steps are those of the tables.                              *)
THEOREM EngineKeepsCacheExact == WarmSpec => [](JoinedIsPinned /\ AccountingExact)
BY EngineAccounts, PTL DEF EngineInv, AccountInv, TableInv

(* The offline guarantee in the running engine, database recreation aside: *)
(* no job, push, delete, live store, eviction or restart removes the row   *)
(* of a tile while a saved region references it.                           *)
THEOREM EngineSparesSavedTiles ==
    WarmSpec => [][\A k \in Joined(region_tiles, SavedRegions) : tile'[k] # NoTile]_vars
<1>1. WarmInv /\ AccountInv /\ [WarmEngineNext]_vars =>
        [\A k \in Joined(region_tiles, SavedRegions) : tile'[k] # NoTile]_vars
  <2> SUFFICES ASSUME WarmInv, AccountInv, WarmEngineNext, NEW k \in Joined(region_tiles, SavedRegions)
               PROVE  tile'[k] # NoTile
    OBVIOUS
  <2>1. CacheStep
    BY EngineCalls
  <2>2. CASE OtherSection \/ \E j \in Jobs : PinsWithin(j)
    <3>1. CriticalSection
      BY <2>2 DEF CriticalSection, PinsWithin
    <3> QED BY <3>1, SectionSparesSaved DEF AccountInv
  <2>3. CASE UNCHANGED cacheVars
    <3>1. k \in pinned /\ pinned \subseteq Rows(tile)
      BY DEF AccountInv, TableInv, TypeOK, JoinedIsPinned, Joined, SavedRegions, Regions, PositionRegions
    <3> QED BY <2>3, <3>1 DEF cacheVars, tables, Rows
  <2> QED BY <2>1, <2>2, <2>3 DEF CacheStep
<1> QED BY <1>1, EngineAccounts, PTL DEF WarmSpec, EngineInv

\* The limits by which a job of the current configuration pins are the live
\* ones; a job a push has overtaken may still use those it holds.
LEMMA HeldLimits ==
    ASSUME WarmInv, LimitsInv, NEW j \in Jobs, NEW limits \in LimitsOf(job[j])
    PROVE  /\ limits \in LimitRecs
           /\ job[j].gen = config_generation => limits = live
<1>1. LimitsOf(job[j]) \subseteq LimitRecs
  BY JobTypes DEF JobRecs, TaskRecs, LimitsOf
<1> QED BY <1>1 DEF LimitsInv

(* The physical gate under a changing cap.  A driver loads the cap before  *)
(* its call waits for the blocking pool, so a push may come in between;    *)
(* still a batch or a fresh pin that makes the pinned set heavier leaves   *)
(* it within the live cap, unless it is of a job that a push has overtaken,*)
(* whose pins are never promoted, and then within the cap that job loaded. *)
THEOREM EnginePinsWithinCap ==
    WarmSpec => [][pinned' \ pinned # {} /\ pinned_bytes' > pinned_bytes
                   => \/ pinned_bytes' <= live.cap
                      \/ \E j \in Jobs : /\ job[j].gen # config_generation
                                         /\ \E limits \in LimitsOf(job[j]) : pinned_bytes' <= limits.cap]_vars
<1> DEFINE Within == \/ pinned_bytes' <= live.cap
                     \/ \E j \in Jobs : /\ job[j].gen # config_generation
                                        /\ \E limits \in LimitsOf(job[j]) : pinned_bytes' <= limits.cap
<1>1. EngineInv /\ [WarmEngineNext]_vars => [pinned' \ pinned # {} /\ pinned_bytes' > pinned_bytes => Within]_vars
  <2> SUFFICES ASSUME WarmInv, AccountInv, LimitsInv, WarmEngineNext,
                      pinned' \ pinned # {}, pinned_bytes' > pinned_bytes
               PROVE  Within
    BY DEF EngineInv
  <2>1. PICK j \in Jobs : PinsWithin(j)
    BY EngineCalls, OthersPinFewer DEF CacheStep, AccountInv
  <2>2. PICK limits \in LimitsOf(job[j]) : PinningSection(limits.cap)
    BY <2>1 DEF PinsWithin
  <2>3. limits.cap \in Int /\ (job[j].gen = config_generation => limits = live)
    BY HeldLimits DEF LimitRecs
  <2>4. pinned_bytes' <= limits.cap
    BY <2>2, <2>3, PinningGated DEF AccountInv
  <2> QED BY <2>3, <2>4
<1> QED BY <1>1, EngineAccounts, PTL DEF WarmSpec

(* The byte cap of a warm batch in the running engine: the step that adds  *)
(* rows and pins ends within the live cap or leaves no unpinned row to     *)
(* make room; only a batch of a job that a push has overtaken may stop at  *)
(* the older cap that job loaded, which the push's own eviction or the     *)
(* next store brings down.                                                 *)
THEOREM EngineMakesRoom ==
    WarmSpec => [][Rows(tile') \ Rows(tile) # {} /\ pinned' # pinned
                   => \/ total_bytes' <= live.cap \/ Unpinned(tile', pinned') = {}
                      \/ \E j \in Jobs : /\ job[j].gen # config_generation
                                         /\ \E limits \in LimitsOf(job[j]) : total_bytes' <= limits.cap]_vars
<1> DEFINE Within == \/ total_bytes' <= live.cap \/ Unpinned(tile', pinned') = {}
                     \/ \E j \in Jobs : /\ job[j].gen # config_generation
                                        /\ \E limits \in LimitsOf(job[j]) : total_bytes' <= limits.cap
<1>1. EngineInv /\ [WarmEngineNext]_vars => [Rows(tile') \ Rows(tile) # {} /\ pinned' # pinned => Within]_vars
  <2> SUFFICES ASSUME WarmInv, AccountInv, LimitsInv, WarmEngineNext, Rows(tile') \ Rows(tile) # {}, pinned' # pinned
               PROVE  Within
    BY DEF EngineInv
  <2>1. CASE OtherSection \/ UNCHANGED cacheVars
    <3>1. live.cap \in Int
      BY LimitFacts DEF LimitRecs
    <3> QED BY <2>1, <3>1, SectionMakesRoom DEF AccountInv
  <2>2. CASE \E j \in Jobs : PinsWithin(j)
    <3>0. PICK j \in Jobs : PinsWithin(j)
      BY <2>2
    <3>1. PICK limits \in LimitsOf(job[j]) : PinningSection(limits.cap)
      BY <3>0 DEF PinsWithin
    <3>2. limits.cap \in Int /\ (job[j].gen = config_generation => limits = live)
      BY HeldLimits DEF LimitRecs
    <3>3. total_bytes' <= limits.cap \/ Unpinned(tile', pinned') = {}
      BY <3>1, <3>2, SectionMakesRoom DEF AccountInv
    <3> QED BY <3>2, <3>3
  <2> QED BY <2>1, <2>2, EngineCalls DEF CacheStep
<1> QED BY <1>1, EngineAccounts, PTL DEF WarmSpec

\* What makes a job's joins: the batches and the fresh pins of its stage,
\* under the budget and the cap it has loaded, and its promotion.
PinsBy(j, limits) ==
    \/ \E batch \in Seq(BatchRows) : PutManyPinned(batch, StageBudget(j, limits), limits.cap, StageRegion(j), 0)
    \/ \E k \in Keys : PinIfFreshCapped(k, StageBudget(j, limits), limits.cap, StageRegion(j))
Pins(j) == \E limits \in LimitsOf(job[j]) : PinsBy(j, limits)
Promotes(j) ==
    PromoteStagedRegions(ReplacementsOf(j), live.regions - live.position, live.position, live.cap)

LEMMA FlushPins ==
    ASSUME WarmInv, NEW j \in Jobs, FlushTiles(j) \/ FlushAssets(j)
    PROVE  Pins(j) \/ UNCHANGED cacheVars
<1>1. job[j].batch \in Seq(BatchRows)
  BY JobTypes DEF JobRecs
<1>2. ASSUME NEW failed, FlushBatch(j, failed) PROVE Pins(j) \/ UNCHANGED cacheVars
  BY <1>1, <1>2 DEF FlushBatch, Pins, PinsBy, LimitsOf
<1> QED BY <1>2 DEF FlushTiles, FlushAssets

LEMMA DropsJoins == ASSUME NEW region, DeleteRegion(region) PROVE region_tiles' \subseteq region_tiles
BY DEF DeleteRegion

LEMMA DriverPins ==
    ASSUME WarmInv, NEW j \in Jobs, JobStep(j)
    PROVE  Pins(j) \/ Promotes(j) \/ region_tiles' \subseteq region_tiles
<1> DEFINE Goal == Pins(j) \/ Promotes(j) \/ region_tiles' \subseteq region_tiles
<1> SUFFICES Goal
  OBVIOUS
<1>1. UNCHANGED cacheVars => Goal
  BY DEF cacheVars, tables
<1>2. ASSUME NEW region, DeleteRegion(region) PROVE Goal
  BY <1>2, DropsJoins
<1>3. CASE FlushTiles(j) \/ FlushAssets(j)
  BY <1>1, <1>3, FlushPins
<1> HIDE DEF Goal
<1>4. CASE \E t \in job[j].tasks : TaskPins(j, t)
  <2>1. PICK t \in job[j].tasks : TaskPins(j, t)
    BY <1>4
  <2>2. PinIfFreshCapped(t.key, StageBudget(j, t.limits), t.limits.cap, StageRegion(j)) => Goal
    <3>1. t.key \in Keys /\ t.limits \in LimitsOf(job[j])
      BY JobTypes DEF JobRecs, TaskRecs, LimitsOf
    <3> QED BY <3>1 DEF Pins, PinsBy, Goal
  <2> QED BY <1>1, <2>1, <2>2 DEF TaskPins
<1>5. CASE AssetTail(j)
  BY <1>1, <1>2, <1>3, <1>5 DEF AssetTail, DropStaging
<1>6. CASE Promote(j)
  <2>1. Promotes(j) => Goal
    BY DEF Goal
  <2> QED BY <1>1, <1>6, <2>1 DEF Promote, Promotes
<1>7. CASE CleanupTiles(j) \/ CleanupAssets(j)
  BY <1>1, <1>2, <1>7 DEF CleanupTiles, CleanupAssets
<1>8. CASE (\E k \in Keys : SpawnTile(j, k) \/ SpawnAsset(j, k)) \/ FlushLoads(j)
           \/ \E t \in job[j].tasks : TaskLoads(j, t) \/ TaskFails(j, t) \/ AssetFails(j, t)
  BY <1>1, <1>8 DEF SpawnTile, SpawnAsset, TaskLoads, TaskFails, AssetFails, FlushLoads
<1>9. CASE \E t \in job[j].tasks, c \in Tiles : TaskFetches(j, t, c) \/ AssetFetches(j, t, c)
  BY <1>1, <1>9 DEF TaskFetches, AssetFetches
<1>10. CASE \/ BeginRun(j) \/ SpawnEnds(j) \/ FlushFull(j) \/ JoinSeesCancel(j) \/ JoinEnds(j) \/ TilesTail(j)
            \/ TakeAssetFlag(j) \/ SpawnAssetsEnds(j) \/ AssetJoinEnds(j) \/ Finish(j) \/ Release(j)
  BY <1>1, <1>3, <1>10
     DEF BeginRun, SpawnEnds, FlushFull, JoinSeesCancel, JoinEnds, TilesTail, TakeAssetFlag, SpawnAssetsEnds,
         AssetJoinEnds, Finish, Release
<1> QED BY <1>4, <1>5, <1>6, <1>7, <1>8, <1>9, <1>10 DEF JobStep

\* A step of a driver is that of a job at work.
LEMMA StepsAtWork == ASSUME NEW j \in Jobs, JobStep(j) PROVE Driving(j)
<1>1. FlushTiles(j) \/ FlushAssets(j) => Driving(j)
  BY DEF FlushTiles, FlushAssets, InTiles, InAssets, Driving
<1>2. CASE \/ (\E k \in Keys : SpawnTile(j, k) \/ SpawnAsset(j, k)) \/ FlushLoads(j)
           \/ \E t \in job[j].tasks : TaskLoads(j, t) \/ TaskFails(j, t) \/ AssetFails(j, t) \/ TaskPins(j, t)
  BY <1>2 DEF SpawnTile, SpawnAsset, FlushLoads, MustFlush, TaskLoads, TaskPins, TaskFails, AssetFails, InTiles, InAssets, Driving
<1>3. CASE \E t \in job[j].tasks, c \in Tiles : TaskFetches(j, t, c) \/ AssetFetches(j, t, c)
  BY <1>3 DEF TaskFetches, AssetFetches, InTiles, InAssets, Driving
<1>4. CASE \/ BeginRun(j) \/ SpawnEnds(j) \/ FlushFull(j) \/ JoinSeesCancel(j) \/ JoinEnds(j) \/ TilesTail(j)
           \/ TakeAssetFlag(j) \/ SpawnAssetsEnds(j) \/ AssetJoinEnds(j)
  BY <1>1, <1>4
     DEF BeginRun, SpawnEnds, FlushFull, JoinSeesCancel, JoinEnds, TilesTail, TakeAssetFlag, SpawnAssetsEnds,
         AssetJoinEnds, Driving
<1>5. CASE AssetTail(j) \/ Promote(j) \/ CleanupTiles(j) \/ CleanupAssets(j) \/ Finish(j) \/ Release(j)
  BY <1>5 DEF AssetTail, Promote, CleanupTiles, CleanupAssets, Finish, Release, Driving
<1> QED BY <1>2, <1>3, <1>4, <1>5 DEF JobStep

\* Nobody but a driver joins a tile to a region.
LEMMA DriversJoin ==
    ASSUME WarmInv, [WarmEngineNext]_vars, ~(region_tiles' \subseteq region_tiles)
    PROVE  \E j \in Jobs : JobStep(j) /\ Driving(j) /\ (Pins(j) \/ Promotes(j))
<1> DEFINE Fewer == region_tiles' \subseteq region_tiles
<1>1. UNCHANGED region_tiles => Fewer
  OBVIOUS
<1>2. UNCHANGED cacheVars => Fewer
  BY DEF cacheVars, tables
<1>3. CASE \E j \in Jobs : JobStep(j)
  <2>1. PICK j \in Jobs : JobStep(j)
    BY <1>3
  <2>2. Pins(j) \/ Promotes(j)
    BY <2>1, DriverPins
  <2> QED BY <2>1, <2>2, StepsAtWork
<1>4. CASE DeleteStep
  BY <1>2, <1>4, DropsJoins DEF DeleteStep, DeleteWait, DeleteApply, DeleteEvict, EvictTo, cacheVars, tables
<1>5. CASE Restart
  BY <1>5 DEF Restart, Open
<1>6. CASE RouteNext \/ FillStep \/ UNCHANGED vars
  <2>1. CASE (\E k \in LiveKeys, t \in GoodTiles : LiveStore(k, t)) \/ ClearScroll \/ FillStep \/ UNCHANGED vars
    BY <1>1, <2>1, LiveInv
  <2> QED BY <1>2, <1>6, <2>1 DEF RouteNext, StartWarm, StartDropped, CancelWarm, ConfigBegin, ConfigDropped, DeleteBegin
<1>7. CASE ConfigStep \/ Shutdown
  BY <1>7 DEF ConfigStep, ConfigCheckPins, ConfigEvict, ConfigPublish, Shutdown, EvictTo, cacheVars, tables
<1> QED BY <1>3, <1>4, <1>5, <1>6, <1>7 DEF WarmEngineNext

\* The budget of a category under the live configuration.
LiveBudget(cat) == IF cat = PositionRegions THEN live.position ELSE live.regions - live.position

\* The regions whose joins a step may add to.
LEMMA PinsStage ==
    ASSUME NEW j \in Jobs, Pins(j), NEW p \in region_tiles' \ region_tiles
    PROVE  p[1] = StageRegion(j)
<1>1. ASSUME NEW ks, region_tiles' = region_tiles \cup JoinRows(StageRegion(j), ks)
      PROVE  p[1] = StageRegion(j)
  BY <1>1 DEF JoinRows
<1> QED BY <1>1 DEF Pins, PinsBy, PutManyPinned, PinIfFreshCapped

LEMMA StageBudgetInt ==
    ASSUME WarmInv, NEW j \in Jobs, NEW limits \in LimitRecs
    PROVE  StageBudget(j, limits) \in Int
<1>1. limits.cap \in Int /\ limits.regions \in Int /\ limits.position \in Int
  BY DEF LimitRecs
<1>2. job[j].credit \in Int /\ job[j].assetBudget \in Int
  BY JobTypes DEF JobRecs
<1> QED BY <1>1, <1>2 DEF StageBudget, ReplacementBudget, EffectiveBudget, AtMost, AtLeast0

\* Within the budget of the stage of a job, by limits that are the live ones
\* while the job is of the current configuration.
StageGates(j, cat, bytes) ==
    /\ Driving(j) /\ StageRegion(j) \in cat
    /\ \E limits \in LimitsOf(job[j]) : /\ job[j].gen = config_generation => limits = live
                                       /\ bytes <= StageBudget(j, limits)

LEMMA DriverCharged ==
    ASSUME WarmInv, AccountInv, LimitsInv, NEW j \in Jobs, Driving(j), Pins(j) \/ Promotes(j), NEW cat \in Categories,
           NEW p \in region_tiles' \ region_tiles, p[1] \in cat, ChargedTo(cat)' > ChargedTo(cat)
    PROVE  ChargedTo(cat)' <= LiveBudget(cat) \/ StageGates(j, cat, ChargedTo(cat)')
<1>1. TableInv
  BY DEF AccountInv
<1>2. CASE Promotes(j)
  BY <1>1, <1>2, PromotionCharged DEF Promotes, LiveBudget
<1>3. CASE Pins(j)
  <2>1. StageRegion(j) \in cat
    BY <1>3, PinsStage
  <2>2. PICK limits \in LimitsOf(job[j]) : PinsBy(j, limits)
    BY <1>3 DEF Pins
  <2>3. StageBudget(j, limits) \in Int /\ (job[j].gen = config_generation => limits = live)
    BY HeldLimits, StageBudgetInt
  <2>4. ChargedTo(cat)' <= StageBudget(j, limits)
    BY <1>1, <2>1, <2>2, <2>3, BatchCharged, PinCharged DEF PinsBy
  <2> QED BY <2>1, <2>3, <2>4 DEF StageGates
<1> QED BY <1>2, <1>3

(* The category gates under changing budgets: a step that joins tiles to   *)
(* regions of a category and makes it heavier leaves it within the budget  *)
(* the live configuration gives it, or is a pin of a job at work in that   *)
(* category and within the budget of its stage by the limits it loaded:    *)
(* the live ones with the credit of the region it replaces, never above    *)
(* the cap (replacement_budget of warm.rs), or, for a job that a push has  *)
(* overtaken and that will promote nothing, perhaps those of before.  The  *)
(* asset stage is gated by the budget computed as it began.                *)
THEOREM EngineCategoriesGated ==
    WarmSpec => [][\A cat \in Categories :
                     (\E p \in region_tiles' \ region_tiles : p[1] \in cat) /\ ChargedTo(cat)' > ChargedTo(cat)
                     => \/ ChargedTo(cat)' <= LiveBudget(cat)
                        \/ \E j \in Jobs : StageGates(j, cat, ChargedTo(cat)')]_vars
<1>1. EngineInv /\ [WarmEngineNext]_vars =>
        [\A cat \in Categories :
           (\E p \in region_tiles' \ region_tiles : p[1] \in cat) /\ ChargedTo(cat)' > ChargedTo(cat)
           => \/ ChargedTo(cat)' <= LiveBudget(cat)
              \/ \E j \in Jobs : StageGates(j, cat, ChargedTo(cat)')]_vars
  <2> SUFFICES ASSUME WarmInv, AccountInv, LimitsInv, WarmEngineNext, NEW cat \in Categories,
                      NEW p \in region_tiles' \ region_tiles, p[1] \in cat, ChargedTo(cat)' > ChargedTo(cat)
               PROVE  \/ ChargedTo(cat)' <= LiveBudget(cat)
                      \/ \E j \in Jobs : StageGates(j, cat, ChargedTo(cat)')
    BY DEF EngineInv
  <2>1. PICK j \in Jobs : Driving(j) /\ (Pins(j) \/ Promotes(j))
    BY DriversJoin
  <2> QED BY <2>1, DriverCharged
<1> QED BY <1>1, EngineAccounts, PTL DEF WarmSpec

(* What becomes of the credit: only a promotion adds tiles to a saved      *)
(* region, and it leaves the category within the budget that is live at    *)
(* that step, so the overlap of a re-download never becomes permanent.     *)
THEOREM EnginePromotesWithinBudget ==
    WarmSpec => [][\A cat \in Categories :
                     (\E p \in region_tiles' \ region_tiles : p[1] \in cat \cap SavedRegions)
                     => ChargedTo(cat)' <= LiveBudget(cat)]_vars
<1>1. WarmInv /\ AccountInv /\ [WarmEngineNext]_vars =>
        [\A cat \in Categories :
           (\E p \in region_tiles' \ region_tiles : p[1] \in cat \cap SavedRegions)
           => ChargedTo(cat)' <= LiveBudget(cat)]_vars
  <2> SUFFICES ASSUME WarmInv, AccountInv, WarmEngineNext, NEW cat \in Categories,
                      NEW p \in region_tiles' \ region_tiles, p[1] \in cat \cap SavedRegions
               PROVE  ChargedTo(cat)' <= LiveBudget(cat)
    OBVIOUS
  <2>1. PICK j \in Jobs : Pins(j) \/ Promotes(j)
    BY DriversJoin
  <2>2. StageRegion(j) \notin SavedRegions
    <3>1. StageRegion(j) \in Stagings(j) \cup {NoRegion}
      BY HomeFacts DEF StageRegion, Stagings
    <3>2. NoRegion \notin SavedRegions
      BY RegionAssumption DEF SavedRegions, Regions, PositionRegions
    <3> QED BY <3>1, <3>2, NameFacts
  <2>3. Promotes(j)
    BY <2>1, <2>2, PinsStage
  <2> QED BY <2>3, PromotionCharged DEF AccountInv, Promotes, LiveBudget
<1> QED BY <1>1, EngineAccounts, PTL DEF WarmSpec, EngineInv

-----------------------------------------------------------------------------
(* The engine implements RegionDownloads                                   *)

\* A driver's step leaves every saved region alone, or is the promotion of its
\* own.
LEMMA DriverHolds ==
    ASSUME WarmInv, NEW j \in Jobs, JobStep(j), NEW u \in DownloadIds
    PROVE  \/ Of(region_tiles', u) = Of(region_tiles, u)
           \/ job[j].pc = "lock" /\ u = job[j].target /\ Of(region_tiles', u) = job[j].request
<1>1. u \in Regions /\ u # NoRegion /\ u \in SavedRegions \ {BasemapAssets}
  BY RegionAssumption DEF RegionAssumption, DownloadIds, SavedRegions, Regions, PositionRegions
<1>2. CASE \E ks \in SUBSET Keys : region_tiles' = WithJoins(region_tiles, StageRegion(j), ks)
  <2>1. StageRegion(j) \in Stagings(j) \cup {NoRegion} /\ StageRegion(j) \in Regions \cup {NoRegion}
    BY StageNames, HomeFacts DEF StageRegion, Stagings
  <2>2. u # StageRegion(j) /\ region_tiles \in JoinTables
    BY <1>1, <2>1, NameFacts, JobTypes
  <2> QED BY <1>1, <1>2, <2>1, <2>2, JoinEffect
<1>3. CASE \E s \in Stagings(j) : DeleteRegion(s)
  <2>1. PICK s \in Stagings(j) : DeleteRegion(s)
    BY <1>3
  <2>2. u # s
    BY <1>1, NameFacts
  <2> QED BY <1>1, <2>1, <2>2, DropOwn
<1>4. CASE /\ job[j].pc = "lock" /\ region_tiles' = PromotedJoins(ReplacementsOf(j))
           /\ Drive(j, [job[j] EXCEPT !.pc = "finish"])
  <2> DEFINE r == [job[j] EXCEPT !.pc = "finish"]
  <2>1. r \in JobRecs /\ Keeps(r, job[j]) /\ r.pc = "finish"
    <3>1. job[j] \in JobRecs
      BY JobTypes
    <3> QED BY <3>1 DEF JobRecs, JobPcs, Keeps
  <2> HIDE DEF r
  <2>2. Of(region_tiles', u) = IF u = job[j].target THEN job[j].request ELSE Of(region_tiles, u)
    BY <1>1, <1>4, <2>1, PromotedInv DEF r
  <2> QED BY <1>4, <2>2
<1> QED BY <1>2, <1>3, <1>4, DriverJoins

\* The requests at work do not change when no driver takes or drops one.
LEMMA SameRequests ==
    ASSUME \A j \in Jobs : (job[j].pc = "idle" <=> job'[j].pc = "idle")
                           /\ job'[j].target = job[j].target /\ job'[j].request = job[j].request
    PROVE  Requested' = Requested
BY DEF Requested, Driving

LEMMA SameHolds ==
    ASSUME \A u \in DownloadIds : Of(region_tiles', u) = Of(region_tiles, u)
    PROVE  Holds' = Holds
BY DEF Holds, Of

LEMMA DriverRefines ==
    ASSUME WarmInv, NEW j \in Jobs, JobStep(j)
    PROVE  Downloads!DownloadsNext \/ UNCHANGED <<Holds, Requested, Condemned>>
<1> DEFINE target == job[j].target
           request == job[j].request
<1>1. job \in [Jobs -> JobRecs] /\ job[j] \in JobRecs /\ JobInv(j, job[j], region_tiles)
  BY JobTypes
<1>2. target # NoRegion => target \in DownloadIds
  BY <1>1, EngineAssumption DEF EngineAssumption, JobRecs, DownloadIds
<1>3. CASE Release(j)
  <2>1. job[j].pc = "release" /\ UNCHANGED region_tiles /\ Condemned' = Condemned
    BY <1>3 DEF Release, cacheVars, tables, Condemned, WarmInv, EngineTypeOK
  <2>2. Holds' = Holds
    BY <2>1 DEF Holds
  <2>3. PICK r : job' = [job EXCEPT ![j] = r] /\ r.pc = "idle"
    <3> DEFINE r == [IdleJob EXCEPT !.leaked = job[j].leaked]
    <3>1. job' = [job EXCEPT ![j] = r]
      BY <1>3 DEF Release
    <3>2. r.pc = "idle"
      BY IdleFacts DEF JobRecs
    <3> HIDE DEF r
    <3> QED BY <3>1, <3>2
  <2>4. /\ job'[j].pc = "idle"
        /\ \A i \in Jobs : i # j => job'[i] = job[i]
    BY <1>1, <2>3
  <2>5. ASSUME NEW i \in Jobs, i # j, job[i].pc # "idle", job[i].target # NoRegion PROVE job[i].target # target
    BY <2>1, <2>5 DEF WarmInv, OwnerInv, RegionExclusive, Driving
  <2>6. Requested' = IF target = NoRegion THEN Requested ELSE {q \in Requested : q[1] # target}
    <3>1. Requested = {<<job[i].target, job[i].request>> : i \in {m \in Jobs : job[m].pc # "idle" /\ job[m].target # NoRegion}}
      BY DEF Requested, Driving
    <3>2. Requested' = {<<job'[i].target, job'[i].request>> :
                          i \in {m \in Jobs : job'[m].pc # "idle" /\ job'[m].target # NoRegion}}
      BY DEF Requested, Driving
    <3>3. CASE target = NoRegion
      <4>1. {m \in Jobs : job'[m].pc # "idle" /\ job'[m].target # NoRegion}
              = {m \in Jobs : job[m].pc # "idle" /\ job[m].target # NoRegion}
        BY <2>4, <3>3
      <4>2. \A i \in {m \in Jobs : job[m].pc # "idle" /\ job[m].target # NoRegion} : job'[i] = job[i]
        BY <2>4, <3>3
      <4> QED BY <3>1, <3>2, <3>3, <4>1, <4>2
    <3>4. CASE target # NoRegion
      <4>1. {m \in Jobs : job'[m].pc # "idle" /\ job'[m].target # NoRegion}
              = {m \in Jobs : job[m].pc # "idle" /\ job[m].target # NoRegion} \ {j}
        BY <2>4
      <4> DEFINE D == {m \in Jobs : job[m].pc # "idle" /\ job[m].target # NoRegion}
      <4>2. Requested' = {<<job[i].target, job[i].request>> : i \in D \ {j}}
        BY <2>4, <3>2, <4>1
      <4>3. \A i \in D : i # j <=> job[i].target # target
        BY <2>5
      <4>4. Requested = {<<job[i].target, job[i].request>> : i \in D}
        BY <3>1
      <4> HIDE DEF D
      <4>5. Requested' = {q \in Requested : q[1] # target}
        BY <4>2, <4>3, <4>4
      <4> QED BY <3>4, <4>5
    <3> QED BY <3>3, <3>4
  <2> QED BY <1>2, <2>1, <2>2, <2>6 DEF Downloads!DownloadsNext, Downloads!Close
<1>4. CASE ~Release(j)
  <2>1. PICK r : job' = [job EXCEPT ![j] = r] /\ Stays(r, job[j])
    BY <1>4, DriverStays
  <2>2. Condemned' = Condemned
    BY <1>4, DriverStays DEF Condemned
  <2>3. job[j].pc # "idle"
    BY StepsAtWork DEF Driving
  <2>4. Requested' = Requested
    BY <1>1, <2>1, <2>3, SameRequests DEF Stays
  <2>5. CASE \A u \in DownloadIds : Of(region_tiles', u) = Of(region_tiles, u)
    BY <2>2, <2>4, <2>5, SameHolds
  <2>6. CASE \E u \in DownloadIds : Of(region_tiles', u) # Of(region_tiles, u)
    <3>1. target \in DownloadIds /\ Of(region_tiles', target) = request /\ job[j].pc = "lock"
      BY <2>6, DriverHolds
    <3>2. \A u \in DownloadIds : u # target => Of(region_tiles', u) = Of(region_tiles, u)
      BY DriverHolds
    <3>3. Holds' = [Holds EXCEPT ![target] = request]
      BY <3>1, <3>2 DEF Holds, Of
    <3>4. <<target, request>> \in Requested /\ request \in Requests
      <4>1. target # NoRegion
        BY <3>1, RegionAssumption DEF RegionAssumption, DownloadIds, SavedRegions, Regions, PositionRegions
      <4> QED BY <1>1, <3>1, <4>1 DEF Requested, Driving, JobInv
    <3> QED BY <2>2, <2>4, <3>1, <3>3, <3>4 DEF Downloads!DownloadsNext, Downloads!Save
  <2> QED BY <2>5, <2>6
<1> QED BY <1>3, <1>4

\* Steps on which no driver takes, drops or changes a request.
LEMMA OthersKeepRequests ==
    ASSUME WarmInv,
           \/ \E i \in Jobs : CancelWarm(i)
           \/ (\E c \in Configs : ConfigBegin(c)) \/ ConfigDropped
           \/ \E target \in Targets : StartDropped(target)
           \/ \E region \in DeletedRegions : DeleteBegin(region)
           \/ \E k \in LiveKeys, t \in GoodTiles : LiveStore(k, t)
           \/ ClearScroll \/ ConfigStep \/ DeleteStep \/ FillStep \/ Shutdown \/ UNCHANGED vars
    PROVE  Requested' = Requested
<1>1. job \in [Jobs -> JobRecs]
  BY DEF WarmInv, EngineTypeOK
<1>2. CASE UNCHANGED job
  BY <1>2, SameRequests
<1>3. CASE \A i \in Jobs : job'[i] \in {[job[i] EXCEPT !.cancel = TRUE], job[i]}
  <2>1. \A i \in Jobs : SameJob(job'[i], job[i])
    BY <1>1, <1>3, CancelFacts, SameJobSelf
  <2> QED BY <2>1, SameRequests DEF SameJob
<1>4. CASE Shutdown \/ \E region \in DeletedRegions : DeleteBegin(region)
  BY <1>3, <1>4 DEF Shutdown, DeleteBegin
<1>5. CASE \E i \in Jobs : CancelWarm(i)
  BY <1>1, <1>3, <1>5 DEF CancelWarm
<1>6. CASE \/ (\E c \in Configs : ConfigBegin(c)) \/ ConfigDropped
           \/ \E target \in Targets : StartDropped(target)
           \/ \E k \in LiveKeys, t \in GoodTiles : LiveStore(k, t)
           \/ ClearScroll \/ ConfigStep \/ DeleteStep \/ FillStep \/ UNCHANGED vars
  BY <1>2, <1>6 DEF ConfigBegin, ConfigDropped, StartDropped, LiveStore, ClearScroll, ConfigStep, ConfigCheckPins, ConfigEvict, ConfigPublish,
                    ConfigEnd, DeleteStep, DeleteWait, DeleteApply, DeleteEvict, FillStep, OrphanChecks, LiveEvict, vars, engineVars
<1> QED BY <1>4, <1>5, <1>6

\* The owner's requests.
LEMMA StartRefines ==
    ASSUME WarmInv, NEW j \in Jobs, NEW target \in Targets, NEW request \in Requests, NEW styles \in StyleRequests,
           StartWarm(j, target, request, styles)
    PROVE  Downloads!DownloadsNext \/ UNCHANGED <<Holds, Requested, Condemned>>
<1>1. job \in [Jobs -> JobRecs] /\ job[j].pc = "idle" /\ UNCHANGED <<region_tiles, delete>>
  BY DEF WarmInv, EngineTypeOK, StartWarm, cacheVars, tables
<1>2. Holds' = Holds /\ Condemned' = Condemned
  BY <1>1 DEF Holds, Condemned
<1>3. PICK r : job' = [job EXCEPT ![j] = r] /\ r.pc = "begin" /\ r.target = target /\ r.request = request
  <2> DEFINE r == [IdleJob EXCEPT !.pc = "begin", !.target = target, !.gen = config_generation,
                                  !.request = request, !.styles = styles]
  <2>1. job' = [job EXCEPT ![j] = r]
    BY DEF StartWarm, SpawnRun
  <2>2. r.pc = "begin" /\ r.target = target /\ r.request = request
    BY IdleFacts DEF JobRecs
  <2> HIDE DEF r
  <2> QED BY <2>1, <2>2
<1>4. job'[j] = r /\ \A i \in Jobs : i # j => job'[i] = job[i]
  BY <1>1, <1>3
<1> DEFINE D == {m \in Jobs : job[m].pc # "idle" /\ job[m].target # NoRegion}
           E == {m \in Jobs : job'[m].pc # "idle" /\ job'[m].target # NoRegion}
<1>5. /\ Requested = {<<job[i].target, job[i].request>> : i \in D}
      /\ Requested' = {<<job'[i].target, job'[i].request>> : i \in E}
  BY DEF Requested, Driving
<1>6. E = (IF target = NoRegion THEN D ELSE D \cup {j}) /\ j \notin D /\ \A i \in D : job'[i] = job[i]
  BY <1>1, <1>3, <1>4
<1> HIDE DEF D, E
<1>7. CASE target = NoRegion
  <2>1. Requested' = Requested
    BY <1>5, <1>6, <1>7
  <2> QED BY <1>2, <2>1
<1>8. CASE target # NoRegion
  <2>1. Requested' = Requested \cup {<<target, request>>}
    BY <1>3, <1>4, <1>5, <1>6, <1>8
  <2>2. ~Downloads!Busy(target)
    <3>1. \A i \in D : job[i].target # target
      <4>1. target \notin active_warm_regions
        BY DEF StartWarm
      <4> QED BY <1>8, <4>1 DEF WarmInv, OwnerInv, Driving, D
    <3> QED BY <1>5, <3>1 DEF Downloads!Busy
  <2>3. target \in DownloadIds
    BY <1>8, EngineAssumption DEF EngineAssumption, DownloadIds
  <2> QED BY <1>2, <2>1, <2>2, <2>3 DEF Downloads!DownloadsNext, Downloads!Ask
<1> QED BY <1>7, <1>8

LEMMA DeleteRefines ==
    ASSUME WarmInv, DeleteStep
    PROVE  Downloads!DownloadsNext \/ UNCHANGED <<Holds, Requested, Condemned>>
<1>1. Requested' = Requested
  BY OthersKeepRequests
<1>2. delete.region \in DownloadIds
  <2>1. delete.region \in DeletedRegions
    BY DEF DeleteStep, DeleteWait, DeleteApply, DeleteEvict, WarmInv, DeleteInv
  <2> QED BY <2>1, EngineAssumption DEF EngineAssumption, DownloadIds, SavedRegions
<1>3. delete \in [pc : {"idle", "wait", "delete", "evict"}, region : DeletedRegions \cup {NoRegion}, cap : Nat, jobs : SUBSET Jobs]
  BY DEF WarmInv, EngineTypeOK
<1>4. CASE DeleteWait
  <2>1. Holds' = Holds /\ Condemned = {}
    BY <1>4 DEF DeleteWait, cacheVars, tables, Holds, Condemned
  <2>2. CASE ~DriverGone(delete.region)
    BY <1>1, <1>4, <2>1, <2>2, IdleDeleteFacts DEF DeleteWait, Condemned
  <2>3. CASE DriverGone(delete.region)
    <3>1. Condemned' = {delete.region}
      <4>1. \E cap : delete' = [delete EXCEPT !.pc = "delete", !.cap = cap]
        BY <1>4, <2>3 DEF DeleteWait
      <4> QED BY <1>3, <4>1 DEF Condemned
    <3>2. ~Downloads!Busy(delete.region)
      BY <2>3 DEF DriverGone, WarmInv, OwnerInv, Downloads!Busy, Requested
    <3> QED BY <1>1, <1>2, <2>1, <3>1, <3>2 DEF Downloads!DownloadsNext, Downloads!Condemn
  <2> QED BY <2>2, <2>3
<1>5. CASE DeleteApply
  <2>1. Condemned = {delete.region}
    BY <1>5 DEF DeleteApply, Condemned
  <2>2. CASE UNCHANGED cacheVars /\ delete' = IdleDelete
    <3>1. Holds' = Holds /\ Condemned' = {}
      BY <2>2, IdleDeleteFacts DEF cacheVars, tables, Holds, Condemned
    <3> QED BY <1>1, <3>1 DEF Downloads!DownloadsNext, Downloads!Spare
  <2>3. CASE DeleteRegion(delete.region) /\ delete' = [delete EXCEPT !.pc = "evict"]
    <3>1. Condemned' = {}
      BY <1>3, <2>3 DEF Condemned
    <3>2. /\ Of(region_tiles', delete.region) = {}
          /\ \A u \in DownloadIds : u # delete.region => Of(region_tiles', u) = Of(region_tiles, u)
      <4>1. region_tiles' = WithoutJoins(region_tiles, delete.region) /\ region_tiles \in JoinTables
        BY <2>3 DEF DeleteRegion, WithoutJoins, WarmInv
      <4>2. DownloadIds \subseteq Regions
        BY DEF DownloadIds, SavedRegions, Regions, PositionRegions
      <4> QED BY <4>1, <4>2, DropEffect
    <3>3. Holds' = [Holds EXCEPT ![delete.region] = {}]
      BY <3>2 DEF Holds, Of
    <3> QED BY <1>1, <1>2, <2>1, <3>1, <3>3 DEF Downloads!DownloadsNext, Downloads!Forget
  <2> QED BY <1>5, <2>2, <2>3 DEF DeleteApply
<1>6. CASE DeleteEvict
  <2>1. UNCHANGED region_tiles /\ delete' = IdleDelete /\ delete.pc = "evict"
    BY <1>6, DeleteEvictInv DEF DeleteEvict
  <2>2. Holds' = Holds /\ Condemned' = Condemned
    BY <2>1, IdleDeleteFacts DEF Holds, Condemned
  <2> QED BY <1>1, <2>2
<1> QED BY <1>4, <1>5, <1>6 DEF DeleteStep

LEMMA RestartRefines ==
    ASSUME WarmInv, Restart
    PROVE  Downloads!DownloadsNext
<1>1. Holds' = Holds
  <2>1. \A u \in DownloadIds : Of(region_tiles', u) = Of(region_tiles, u)
    BY RestartInv DEF DownloadIds
  <2> QED BY <2>1, SameHolds
<1>2. Requested' = {}
  BY RestartInv DEF Requested, Driving
<1>3. Condemned' = {}
  BY IdleDeleteFacts DEF Restart, Condemned
<1> QED BY <1>1, <1>2, <1>3 DEF Downloads!DownloadsNext, Downloads!Crash

\* The steps that neither promote, take up, drop nor delete anything: they are
\* stutters of the abstract specification.
LEMMA OthersStutter ==
    ASSUME WarmInv,
           \/ \E i \in Jobs : CancelWarm(i)
           \/ (\E c \in Configs : ConfigBegin(c)) \/ ConfigDropped
           \/ \E target \in Targets : StartDropped(target)
           \/ \E region \in DeletedRegions : DeleteBegin(region)
           \/ \E k \in LiveKeys, t \in GoodTiles : LiveStore(k, t)
           \/ ClearScroll \/ ConfigStep \/ FillStep \/ Shutdown \/ UNCHANGED vars
    PROVE  UNCHANGED <<Holds, Requested, Condemned>>
<1>1. Requested' = Requested
  BY OthersKeepRequests
<1>2. UNCHANGED region_tiles
  <2>1. CASE (\E k \in LiveKeys, t \in GoodTiles : LiveStore(k, t)) \/ ClearScroll \/ FillStep \/ UNCHANGED vars
    BY <2>1, LiveInv
  <2>2. CASE \/ \E i \in Jobs : CancelWarm(i)
             \/ (\E c \in Configs : ConfigBegin(c)) \/ ConfigDropped
             \/ \E target \in Targets : StartDropped(target)
             \/ \E region \in DeletedRegions : DeleteBegin(region)
             \/ Shutdown
    BY <2>2 DEF CancelWarm, ConfigBegin, ConfigDropped, StartDropped, DeleteBegin, Shutdown, cacheVars, tables
  <2>3. CASE ConfigStep
    BY <2>3 DEF ConfigStep, ConfigCheckPins, ConfigEvict, ConfigPublish, ConfigEnd, EvictTo, cacheVars, tables
  <2> QED BY <2>1, <2>2, <2>3
<1>3. Condemned' = Condemned
  <2>1. CASE \E region \in DeletedRegions : DeleteBegin(region)
    BY <2>1 DEF DeleteBegin, Condemned
  <2>2. CASE \/ \E i \in Jobs : CancelWarm(i)
             \/ (\E c \in Configs : ConfigBegin(c)) \/ ConfigDropped
             \/ \E target \in Targets : StartDropped(target)
             \/ Shutdown \/ UNCHANGED vars
    <3>1. UNCHANGED delete
      BY <2>2 DEF CancelWarm, ConfigBegin, ConfigDropped, StartDropped, Shutdown, vars, engineVars
    <3> QED BY <3>1 DEF Condemned
  <2>3. CASE (\E k \in LiveKeys, t \in GoodTiles : LiveStore(k, t)) \/ ClearScroll \/ FillStep
    <3>1. UNCHANGED delete
      BY <2>3 DEF LiveStore, ClearScroll, engineVars, FillStep, OrphanChecks, LiveEvict
    <3> QED BY <3>1 DEF Condemned
  <2>4. CASE ConfigStep
    <3>1. UNCHANGED delete
      BY <2>4 DEF ConfigStep, ConfigCheckPins, ConfigEvict, ConfigPublish, ConfigEnd
    <3> QED BY <3>1 DEF Condemned
  <2> QED BY <2>1, <2>2, <2>3, <2>4
<1> QED BY <1>1, <1>2, <1>3 DEF Holds

LEMMA EngineInitRefines == WarmInit => Downloads!DownloadsInit
<1> SUFFICES ASSUME WarmInit PROVE Downloads!DownloadsInit
  OBVIOUS
<1>1. region_tiles = {} /\ EngineAtBoot
  BY DEF WarmInit, EmptyCache
<1>2. Holds = [r \in DownloadIds |-> {}]
  BY <1>1 DEF Holds, Joined
<1>3. Requested = {}
  <2>1. \A j \in Jobs : job[j].pc = "idle"
    BY <1>1, IdleFacts DEF EngineAtBoot
  <2> QED BY <2>1 DEF Requested, Driving
<1>4. Condemned = {}
  BY <1>1, IdleDeleteFacts DEF EngineAtBoot, Condemned
<1> QED BY <1>2, <1>3, <1>4 DEF Downloads!DownloadsInit

LEMMA EngineStepRefines ==
    WarmInv /\ [WarmEngineNext]_vars => [Downloads!DownloadsNext]_<<Holds, Requested, Condemned>>
<1> SUFFICES ASSUME WarmInv, [WarmEngineNext]_vars
             PROVE  Downloads!DownloadsNext \/ UNCHANGED <<Holds, Requested, Condemned>>
  OBVIOUS
<1>1. CASE \E j \in Jobs, target \in Targets, request \in Requests, styles \in StyleRequests :
              StartWarm(j, target, request, styles)
  BY <1>1, StartRefines
<1>2. CASE \E j \in Jobs : JobStep(j)
  BY <1>2, DriverRefines
<1>3. CASE DeleteStep
  BY <1>3, DeleteRefines
<1>4. CASE Restart
  BY <1>4, RestartRefines
<1>5. CASE \/ \E i \in Jobs : CancelWarm(i)
           \/ (\E c \in Configs : ConfigBegin(c)) \/ ConfigDropped
           \/ \E target \in Targets : StartDropped(target)
           \/ \E region \in DeletedRegions : DeleteBegin(region)
           \/ \E k \in LiveKeys, t \in GoodTiles : LiveStore(k, t)
           \/ ClearScroll \/ ConfigStep \/ FillStep \/ Shutdown \/ UNCHANGED vars
  BY <1>5, OthersStutter
<1> QED BY <1>1, <1>2, <1>3, <1>4, <1>5 DEF WarmEngineNext, RouteNext

\* The engine implements RegionDownloads: through refused requests, failed and
\* cancelled downloads, deletes that wait for a driver, budget changes,
\* evictions, shutdowns and crashes, what a saved region holds changes only by
\* one save of the whole of a request under way, or by a delete that found the
\* region without a driver.
THEOREM EngineImplementsDownloads == WarmSpec => ImplementsDownloads
<1>1. WarmInit => Downloads!DownloadsInit
  BY EngineInitRefines
<1>2. WarmInv /\ [WarmEngineNext]_vars => [Downloads!DownloadsNext]_<<Holds, Requested, Condemned>>
  BY EngineStepRefines
<1> QED BY <1>1, <1>2, WarmInvariant, PTL DEF WarmSpec, ImplementsDownloads, Downloads!DownloadsSpec

=============================================================================

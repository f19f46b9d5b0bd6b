------------------------ MODULE RegionsRoutesProofs ------------------------
(***************************************************************************)
(* A deleted region stays deleted, a ready one was downloaded, and a       *)
(* tracked one has a loop, for every number of regions, handlers, jobs,    *)
(* faults and stops.                                                       *)
(*                                                                         *)
(* The first needs only the shape of the store. Every callback that writes *)
(* regions.json may have read the region long before. The argument is that *)
(* each write is one of four forms, and each form leaves an id alone that  *)
(* was drawn before and is absent now: a patch looks the id up again, a    *)
(* removal only removes, a new region has an id never drawn, and the       *)
(* start-up check maps the regions that are there. The other two need who  *)
(* names which job: RoutesInv.                                             *)
(***************************************************************************)
EXTENDS RegionsRoutes, WellFoundedInduction, TLAPS

\* The store is a map over the region ids, and so are the ids drawn.
StoreShape ==
    /\ store = [r \in RegionIds |-> store[r]]
    /\ used \subseteq RegionIds

\* What a step may do to the store.
StoreKept ==
    /\ store' = [r \in RegionIds |-> store'[r]]
    /\ \A r \in used : store[r] = NoRecord => store'[r] = NoRecord
    /\ used \subseteq used' /\ used' \subseteq RegionIds

-----------------------------------------------------------------------------
(* The forms of a write                                                    *)

\* A patch keeps an absent region absent: updateRegion finds no index.
LEMMA PatchKeeps ==
    ASSUME StoreShape, NEW r, NEW patch, NEW ok \in BOOLEAN,
           Write(UpdateRegion(r, patch), ok), UNCHANGED used
    PROVE  StoreKept
<1>1. CASE ok /\ Saved(r)
  <2>1. store' = [store EXCEPT ![r] = [f \in DOMAIN @ |-> IF f \in DOMAIN patch THEN patch[f] ELSE @[f]]]
    BY <1>1 DEF Write, UpdateRegion
  <2>2. \A s \in RegionIds : store[s] = NoRecord => store'[s] = NoRecord
    BY <1>1, <2>1 DEF StoreShape, Saved
  <2>3. store' = [s \in RegionIds |-> store'[s]]
    BY <2>1 DEF StoreShape
  <2> QED
    BY <2>2, <2>3 DEF StoreKept, StoreShape
<1>2. CASE ~(ok /\ Saved(r))
  BY <1>2 DEF Write, UpdateRegion, StoreShape, StoreKept
<1> QED
  BY <1>1, <1>2

\* A removal keeps an absent region absent.
LEMMA RemovalKeeps ==
    ASSUME StoreShape, NEW r, NEW ok \in BOOLEAN,
           Write(RemoveRegion(r), ok), UNCHANGED used
    PROVE  StoreKept
<1>1. CASE ok
  <2>1. store' = [store EXCEPT ![r] = NoRecord]
    BY <1>1 DEF Write, RemoveRegion
  <2>2. \A s \in RegionIds : store[s] = NoRecord => store'[s] = NoRecord
    BY <2>1 DEF StoreShape
  <2>3. store' = [s \in RegionIds |-> store'[s]]
    BY <2>1 DEF StoreShape
  <2> QED
    BY <2>2, <2>3 DEF StoreKept, StoreShape
<1>2. CASE ~ok
  BY <1>2 DEF Write, StoreShape, StoreKept
<1> QED
  BY <1>1, <1>2

\* A callback that writes nothing.
LEMMA UnwrittenKeeps ==
    ASSUME StoreShape, UNCHANGED <<store, used>>
    PROVE  StoreKept
BY DEF StoreShape, StoreKept

\* A lost job patches its region or writes nothing.
LEMMA LostJobKeeps ==
    ASSUME StoreShape, NEW r, NEW ok \in BOOLEAN, LostJob(r, ok), UNCHANGED used
    PROVE  StoreKept
<1>1. CASE Downloading(r)
  <2>1. Write(UpdateRegion(r, [status |-> "error"]), ok)
    BY <1>1 DEF LostJob
  <2> QED
    BY <2>1, PatchKeeps
<1>2. CASE ~Downloading(r)
  <2>1. UNCHANGED store
    BY <1>2 DEF LostJob, Write
  <2> QED
    BY <2>1, UnwrittenKeeps
<1> QED
  BY <1>1, <1>2

-----------------------------------------------------------------------------
(* The steps                                                               *)

\* Every outcome of a write is a truth value.
LEMMA OutcomeIsBoolean == WriteOutcomes \subseteq BOOLEAN
BY RoutesAssumption DEF RoutesAssumption

\* Requests on their way in draw a fresh id or write nothing.
LEMMA ClientKeeps ==
    ASSUME StoreShape, ClientNext
    PROVE  StoreKept
<1>1. PICK h \in Handlers, r \in RegionIds :
        PostRegion(h, r) \/ \E op \in Operations : RequestOnRegion(h, op, r)
  BY DEF ClientNext
<1>2. CASE PostRegion(h, r)
  <2>1. /\ r \notin used /\ used' = used \cup {r}
        /\ store' = [store EXCEPT ![r] = [status |-> "downloading", downloaded |-> FALSE, bytes |-> 0]]
    BY <1>2 DEF PostRegion
  <2>2. \A s \in used : store'[s] = store[s]
    BY <2>1 DEF StoreShape
  <2>3. store' = [s \in RegionIds |-> store'[s]]
    BY <2>1 DEF StoreShape
  <2> QED
    BY <2>1, <2>2, <2>3 DEF StoreKept, StoreShape
<1>3. CASE \E op \in Operations : RequestOnRegion(h, op, r)
  BY <1>3, UnwrittenKeeps DEF RequestOnRegion
<1> QED
  BY <1>1, <1>2, <1>3

\* What a handler does with an answer.
LEMMA HandlerKeeps ==
    ASSUME StoreShape, NEW h, HandlerStep(h)
    PROVE  StoreKept
<1>1. CASE CreateAnswered(h)
  <2>1. UNCHANGED used /\ (UNCHANGED store \/ \E ok \in WriteOutcomes : Write(RemoveRegion(proc[h].region), ok))
    BY <1>1 DEF CreateAnswered
  <2> QED
    BY <2>1, UnwrittenKeeps, RemovalKeeps, OutcomeIsBoolean
<1>2. CASE RedownloadAnswered(h)
  <2>1. UNCHANGED used /\ (UNCHANGED store \/ \E ok \in WriteOutcomes :
                Write(UpdateRegion(proc[h].region, [status |-> "downloading"]), ok))
    BY <1>2 DEF RedownloadAnswered
  <2> QED
    BY <2>1, UnwrittenKeeps, PatchKeeps, OutcomeIsBoolean
<1>3. CASE DeleteAnswered(h)
  <2>1. UNCHANGED used /\ (UNCHANGED store \/ \E ok \in WriteOutcomes : Write(RemoveRegion(proc[h].region), ok))
    BY <1>3 DEF DeleteAnswered
  <2> QED
    BY <2>1, UnwrittenKeeps, RemovalKeeps, OutcomeIsBoolean
<1>4. CASE StatusAnswered(h)
  <2>1. UNCHANGED used /\ (UNCHANGED store \/ \E ok \in WriteOutcomes : LostJob(proc[h].region, ok))
    BY <1>4 DEF StatusAnswered
  <2> QED
    BY <2>1, UnwrittenKeeps, LostJobKeeps, OutcomeIsBoolean
<1>5. CASE ReconcileEnds(h)
  <2>1. UNCHANGED used /\ \E ok \in WriteOutcomes :
            Write(UpdateRegion(proc[h].region,
                      ReconcilePatch(proc[h].seen, StatusFromSnapshot(proc[h].snap), proc[h].resp)), ok)
    BY <1>5 DEF ReconcileEnds
  <2> QED
    BY <2>1, PatchKeeps, OutcomeIsBoolean
<1> QED
  BY <1>1, <1>2, <1>3, <1>4, <1>5 DEF HandlerStep

\* What the reconciliation loop does.
LEMMA LoopKeeps ==
    ASSUME StoreShape, LoopStep
    PROVE  StoreKept
<1>1. CASE LoopWakes \/ LoopTurns \/ LoopLeaves \/ \E r \in RegionIds : LoopPolls(r)
  BY <1>1, UnwrittenKeeps DEF LoopWakes, LoopTurns, LoopLeaves, LoopPolls, plugin
<1>2. CASE LoopAnswered
  <2>1. UNCHANGED used /\ (UNCHANGED store \/ \E ok \in WriteOutcomes : LostJob(proc[Loop].region, ok))
    BY <1>2 DEF LoopAnswered
  <2> QED
    BY <2>1, UnwrittenKeeps, LostJobKeeps, OutcomeIsBoolean
<1>3. CASE ReconcileEnds(Loop)
  BY <1>3, HandlerKeeps DEF HandlerStep
<1> QED
  BY <1>1, <1>2, <1>3 DEF LoopStep

\* The start-up check maps what is saved and leaves the rest.
LEMMA TotalsKeep ==
    ASSUME StoreShape, TotalsAnswered
    PROVE  StoreKept
<1>1. UNCHANGED used
  BY DEF TotalsAnswered
<1>2. CASE UNCHANGED store
  BY <1>1, <1>2, UnwrittenKeeps
<1>3. CASE store' = [r \in RegionIds |-> CheckedTotals(r, proc[Boot].resp.held)]
  <2>1. \A r \in RegionIds : store[r] = NoRecord => store'[r] = NoRecord
    BY <1>3 DEF CheckedTotals, Saved
  <2>2. store' = [r \in RegionIds |-> store'[r]]
    BY <1>3
  <2> QED
    BY <1>1, <2>1, <2>2 DEF StoreKept, StoreShape
<1> QED
  BY <1>2, <1>3 DEF TotalsAnswered, Write

\* Every step of the specification.
LEMMA StepKeeps ==
    ASSUME StoreShape, RoutesNext
    PROVE  StoreKept
<1>1. CASE ContainerNext
  BY <1>1, UnwrittenKeeps DEF ContainerNext, JobEnds, Reap, ServeLate, ContainerRestarts, plugin
<1>2. CASE \E p \in Procs : Serve(p)
  BY <1>2, UnwrittenKeeps DEF Serve, plugin
<1>3. CASE Start \/ Stop \/ Stopped \/ Crash
  BY <1>3, UnwrittenKeeps DEF Start, Stop, Stopped, Crash
<1> QED
  BY <1>1, <1>2, <1>3, ClientKeeps, HandlerKeeps, LoopKeeps, TotalsKeep DEF RoutesNext

\* The store is a map over the region ids at every step.
THEOREM StoreInvariant == RoutesSpec => []StoreShape
<1>1. RoutesInit => StoreShape
  BY DEF RoutesInit, StoreShape
<1>2. StoreShape /\ [RoutesNext]_routesVars => StoreShape'
  <2>1. ASSUME StoreShape, RoutesNext PROVE StoreShape'
    BY <2>1, StepKeeps DEF StoreKept, StoreShape
  <2>2. ASSUME StoreShape, UNCHANGED routesVars PROVE StoreShape'
    BY <2>2 DEF StoreShape, routesVars, plugin
  <2> QED
    BY <2>1, <2>2
<1> QED
  BY <1>1, <1>2, PTL DEF RoutesSpec

\* A region the owner deleted never comes back, whatever a reconciliation, a
\* re-download, a status poll or a start-up check read before the delete.
THEOREM DeletedForGood == RoutesSpec => DeletedStaysDeleted
<1>1. StoreShape /\ [RoutesNext]_routesVars =>
        [\A r \in used : store[r] = NoRecord => store'[r] = NoRecord]_routesVars
  BY StepKeeps DEF StoreKept
<1>2. RoutesSpec => [][RoutesNext]_routesVars
  BY PTL DEF RoutesSpec
<1> QED
  BY <1>1, <1>2, StoreInvariant, PTL DEF DeletedStaysDeleted

-----------------------------------------------------------------------------
(* What is ready was downloaded, and what is tracked is watched: the       *)
(* invariant.  An answer, a map or a snapshot that names a job may be old, *)
(* but the job is one of its region's own, and a job that is done stays so.*)

JobStates == {"unused", "running", "done", "capped", "error", "cancelled"}
Statuses == {"downloading", "ready", "capped", "error", "needs-redownload"}
JobRecs == [region : RegionIds \cup {NoRegion}, state : JobStates, retained : BOOLEAN]
StoreRecs == [status : Statuses, downloaded : BOOLEAN, bytes : {0, 1}]
PlainAnswers == [kind : {"none", "unreachable", "gone", "refused", "deleted"}]
JobAnswers == [kind : {"job"}, job : JobIds, state : JobStates]
StartAnswers == [kind : {"started"}, job : JobIds]
ByteAnswers == [kind : {"bytes"}, bytes : {0, 1}]
TotalAnswers == [kind : {"totals"}, held : SUBSET RegionIds]
Answers == PlainAnswers \cup JobAnswers \cup StartAnswers \cup ByteAnswers \cup TotalAnswers
ProcRecs == [pc : {"idle", "sleep", "sweep", "leaving"} \cup RequestPcs,
             op : {"none", "create", "delete", "status", "redownload"},
             region : RegionIds \cup {NoRegion}, known : JobIds \cup {NoJob},
             snap : {"none"} \cup JobStates, seen : StoreRecs \cup {NoRecord},
             todo : SUBSET RegionIds, resp : Answers]
Wire == SUBSET ({"warm", "delete"} \X RegionIds)

Started(js, j, r) == j \in JobIds /\ js[j].region = r /\ js[j].state # "unused"
Finished(js, j) == js[j].state = "done"
Downloaded(js, r) == \E j \in JobIds : js[j].region = r /\ Finished(js, j)

\* What a process may rely on, however old what it read is.
ProcOK(js, rec) ==
    /\ rec.pc \in RequestPcs \ {"totals"} => rec.region \in RegionIds
    /\ rec.known # NoJob => Started(js, rec.known, rec.region)
    /\ rec.pc = "job" => rec.known # NoJob
    /\ rec.resp.kind = "job" =>
         /\ Started(js, rec.resp.job, rec.region)
         /\ rec.resp.state = "done" => Finished(js, rec.resp.job)
    /\ rec.resp.kind = "started" => Started(js, rec.resp.job, rec.region)
    /\ rec.pc = "bytes" => rec.seen \in StoreRecs /\ (rec.snap = "done" => Downloaded(js, rec.region))

StoreInv ==
    /\ store \in [RegionIds -> StoreRecs \cup {NoRecord}] /\ used \subseteq RegionIds
    /\ ReadyWasDownloaded
JobInv ==
    /\ jobs \in [JobIds -> JobRecs] /\ pins \subseteq RegionIds
    /\ \A j \in JobIds : /\ jobs[j].state # "unused" => jobs[j].region \in RegionIds
                         /\ jobs[j].retained => jobs[j].state # "unused"
MapInv ==
    /\ regionJobs \in [RegionIds -> JobIds \cup {NoJob}] /\ trackedRegions \subseteq RegionIds
    /\ \A r \in RegionIds : regionJobs[r] # NoJob => Started(jobs, regionJobs[r], r)
ProcInv == proc \in [Procs -> ProcRecs] /\ \A p \in Procs : ProcOK(jobs, proc[p])
LifeInv == life \in {"up", "stopping", "down"} /\ late \in Wire

RestInv == JobInv /\ MapInv /\ ProcInv /\ LifeInv /\ TrackedIsWatched
RoutesInv == StoreInv /\ RestInv

-----------------------------------------------------------------------------
(* The container's jobs                                                    *)

\* A job that has started keeps its region, and one that is done stays so.
JobsKept ==
    \A j \in JobIds : jobs[j].state # "unused" =>
        /\ jobs'[j].region = jobs[j].region /\ jobs'[j].state # "unused"
        /\ jobs[j].state = "done" => jobs'[j].state = "done"

LEMMA NewestFacts ==
    ASSUME NEW S \in SUBSET JobIds, S # {}
    PROVE  Newest(S) \in S /\ (CHOOSE j \in S : \A i \in S : j <= i) \in S
<1>1. MaxJobs \in Nat /\ S \subseteq Nat /\ \A j \in S : j <= MaxJobs
  BY RoutesAssumption DEF RoutesAssumption, JobIds
<1>2. ASSUME NEW T \in SUBSET Nat, T # {} PROVE \E m \in T : \A n \in T : m <= n
  <2>1. PICK m \in T : \A n \in T : ~(<<n, m>> \in OpToRel(<, Nat))
    BY <1>2, NatLessThanWellFounded, WFMin
  <2>2. \A n \in T : ~(n < m)
    BY <2>1 DEF OpToRel
  <2> QED BY <2>2
<1>3. \E m \in S : \A n \in S : n <= m
  <2> DEFINE T == {MaxJobs - j : j \in S}
  <2>1. T \in SUBSET Nat /\ T # {}
    <3>1. \A j \in S : MaxJobs - j \in Nat
      BY <1>1
    <3>2. PICK j \in S : TRUE
      OBVIOUS
    <3>3. MaxJobs - j \in T
      BY <3>2
    <3> QED BY <3>1, <3>3
  <2>2. PICK m \in T : \A n \in T : m <= n
    BY <1>2, <2>1
  <2>3. PICK k \in S : m = MaxJobs - k
    BY <2>2
  <2>4. \A j \in S : MaxJobs - k <= MaxJobs - j
    BY <2>2, <2>3
  <2>5. \A j \in S : j <= k
    BY <1>1, <2>4
  <2> QED BY <2>5
<1>4. \E m \in S : \A n \in S : m <= n
  BY <1>1, <1>2
<1> QED BY <1>3, <1>4 DEF Newest

LEMMA KeptFacts ==
    ASSUME JobsKept
    PROVE  /\ \A j, r : Started(jobs, j, r) => Started(jobs', j, r)
           /\ \A j \in JobIds : Finished(jobs, j) => Finished(jobs', j)
           /\ \A r : Downloaded(jobs, r) => Downloaded(jobs', r)
BY DEF JobsKept, Started, Finished, Downloaded

LEMMA ProcKept == ASSUME JobsKept, NEW rec, ProcOK(jobs, rec) PROVE ProcOK(jobs', rec)
<1>1. ASSUME NEW j, Started(jobs, j, rec.region) PROVE Started(jobs', j, rec.region)
  BY <1>1, KeptFacts
<1>2. ASSUME NEW j, Started(jobs, j, rec.region), Finished(jobs, j) PROVE Finished(jobs', j)
  BY <1>2, KeptFacts DEF Started
<1>3. Downloaded(jobs, rec.region) => Downloaded(jobs', rec.region)
  BY KeptFacts
<1> QED BY <1>1, <1>2, <1>3 DEF ProcOK

\* The maps and the store name the same jobs after a step of the container.
LEMMA JobsStep ==
    ASSUME StoreInv, MapInv, JobsKept, UNCHANGED plugin
    PROVE  StoreInv' /\ MapInv'
<1>1. UNCHANGED <<store, used, regionJobs, trackedRegions>>
  BY DEF plugin
<1>2. ReadyWasDownloaded'
  <2>1. \A r \in RegionIds : Saved(r)' <=> Saved(r)
    BY <1>1 DEF Saved
  <2>2. \A r : Downloaded(jobs, r) => Downloaded(jobs', r)
    BY KeptFacts
  <2> QED BY <1>1, <2>1, <2>2 DEF StoreInv, ReadyWasDownloaded, Downloaded, Finished
<1>3. \A r \in RegionIds : regionJobs'[r] # NoJob => Started(jobs', regionJobs'[r], r)
  BY <1>1, KeptFacts DEF MapInv
<1> QED BY <1>1, <1>2, <1>3 DEF StoreInv, MapInv

\* A download starts under an id that is free.
LEMMA WarmFacts ==
    ASSUME JobInv, NEW r \in RegionIds, WarmEffect(r)
    PROVE  /\ JobInv' /\ JobsKept
           /\ WarmAnswer(r) \in Answers
           /\ WarmAnswer(r).kind # "job"
           /\ WarmAnswer(r).kind = "started" => Started(jobs', WarmAnswer(r).job, r)
<1>1. CASE Busy(r) \/ FreeIds = {}
  <2>1. jobs' = jobs /\ pins' = pins
    BY <1>1 DEF WarmEffect
  <2>2. WarmAnswer(r) = [kind |-> "refused"]
    BY <1>1 DEF WarmAnswer
  <2>3. WarmAnswer(r) \in PlainAnswers
    BY <2>2 DEF PlainAnswers
  <2> QED BY <2>1, <2>2, <2>3 DEF JobInv, JobsKept, Answers
<1>2. CASE ~(Busy(r) \/ FreeIds = {})
  <2> DEFINE new == [region |-> r, state |-> "running", retained |-> TRUE]
  <2>1. NextId \in JobIds /\ jobs[NextId].state = "unused"
    <3>1. FreeIds \in SUBSET JobIds
      BY DEF FreeIds
    <3>2. NextId \in FreeIds
      BY <1>2, <3>1, NewestFacts DEF NextId
    <3> QED BY <3>2 DEF FreeIds
  <2>2. new \in JobRecs
    BY DEF JobRecs, JobStates
  <2>3. new.region = r /\ new.state = "running" /\ new.retained = TRUE
    OBVIOUS
  <2>4. jobs' = [jobs EXCEPT ![NextId] = new] /\ pins' = pins
    BY <1>2 DEF WarmEffect
  <2> HIDE DEF new
  <2>5. jobs'[NextId] = new /\ jobs' \in [JobIds -> JobRecs] /\ \A j \in JobIds : j # NextId => jobs'[j] = jobs[j]
    BY <2>1, <2>2, <2>4 DEF JobInv
  <2>6. JobInv'
    BY <2>3, <2>4, <2>5 DEF JobInv
  <2>7. JobsKept
    BY <2>1, <2>5 DEF JobsKept
  <2>8. WarmAnswer(r) = [kind |-> "started", job |-> NextId]
    BY <1>2 DEF WarmAnswer
  <2>9. WarmAnswer(r) \in StartAnswers /\ WarmAnswer(r).kind = "started" /\ WarmAnswer(r).job = NextId
    BY <2>1, <2>8 DEF StartAnswers
  <2>10. Started(jobs', NextId, r)
    BY <2>1, <2>3, <2>5 DEF Started
  <2> QED BY <2>6, <2>7, <2>9, <2>10 DEF Answers
<1> QED BY <1>1, <1>2

\* A delete cancels what runs and touches nothing that has ended.
LEMMA DeleteFacts == ASSUME JobInv, NEW r, DeleteEffect(r) PROVE JobInv' /\ JobsKept
<1> DEFINE new(j) == [jobs[j] EXCEPT !.state = "cancelled"]
<1>1. \A j \in JobIds : /\ new(j) \in JobRecs /\ new(j).state = "cancelled"
                        /\ new(j).region = jobs[j].region /\ new(j).retained = jobs[j].retained
  BY DEF JobInv, JobRecs, JobStates
<1>2. jobs' = [j \in JobIds |-> IF jobs[j].region = r /\ jobs[j].state = "running" THEN new(j) ELSE jobs[j]]
      /\ pins' = pins \ {r}
  BY DEF DeleteEffect
<1> HIDE DEF new
<1>3. \A j \in JobIds : jobs'[j] = jobs[j] \/ (jobs[j].state = "running" /\ jobs'[j] = new(j))
  BY <1>2
<1>4. jobs' \in [JobIds -> JobRecs]
  BY <1>1, <1>2 DEF JobInv
<1>5. JobInv'
  BY <1>1, <1>2, <1>3, <1>4 DEF JobInv
<1>6. JobsKept
  BY <1>1, <1>3 DEF JobsKept
<1> QED BY <1>5, <1>6

LEMMA JobsUnchanged == ASSUME JobInv, UNCHANGED container PROVE JobInv' /\ JobsKept
BY DEF container, JobInv, JobsKept

LEMMA EffectFacts ==
    ASSUME JobInv, NEW kind, NEW r, kind \in {"warm", "delete"} => r \in RegionIds, Effect(kind, r)
    PROVE  JobInv' /\ JobsKept
<1>1. CASE kind = "warm"
  <2>1. WarmEffect(r) /\ r \in RegionIds
    BY <1>1 DEF Effect
  <2> QED BY <2>1, WarmFacts
<1>2. CASE kind = "delete"
  <2>1. DeleteEffect(r)
    BY <1>2 DEF Effect
  <2> QED BY <2>1, DeleteFacts
<1>3. CASE kind # "warm" /\ kind # "delete"
  <2>1. UNCHANGED container
    BY <1>3 DEF Effect
  <2> QED BY <2>1, JobsUnchanged
<1> QED BY <1>1, <1>2, <1>3

\* What is in a process's record.
LEMMA ProcFacts ==
    ASSUME ProcInv, NEW p \in Procs
    PROVE  /\ proc[p] \in ProcRecs /\ ProcOK(jobs, proc[p])
           /\ proc[p].region \in RegionIds \cup {NoRegion} /\ proc[p].known \in JobIds \cup {NoJob}
           /\ proc[p].todo \in SUBSET RegionIds /\ proc[p].resp \in Answers
           /\ proc[p].seen \in StoreRecs \cup {NoRecord} /\ proc[p].snap \in {"none"} \cup JobStates
           /\ proc[p].pc \in {"idle", "sleep", "sweep", "leaving"} \cup RequestPcs
<1>1. proc[p] \in ProcRecs /\ ProcOK(jobs, proc[p])
  BY DEF ProcInv
<1> QED BY <1>1 DEF ProcRecs

\* What each kind of answer carries.
LEMMA AnswerFields ==
    ASSUME NEW a \in Answers
    PROVE  /\ a.kind \in {"none", "unreachable", "gone", "refused", "deleted", "job", "started", "bytes", "totals"}
           /\ a.kind = "job" => a.job \in JobIds /\ a.state \in JobStates
           /\ a.kind = "started" => a.job \in JobIds
           /\ a.kind = "bytes" => a.bytes \in {0, 1}
           /\ a.kind = "totals" => a.held \in SUBSET RegionIds
<1>1. CASE a \in PlainAnswers
  BY <1>1 DEF PlainAnswers
<1>2. CASE a \in JobAnswers
  BY <1>2 DEF JobAnswers
<1>3. CASE a \in StartAnswers
  BY <1>3 DEF StartAnswers
<1>4. CASE a \in ByteAnswers
  BY <1>4 DEF ByteAnswers
<1>5. CASE a \in TotalAnswers
  BY <1>5 DEF TotalAnswers
<1> QED BY <1>1, <1>2, <1>3, <1>4, <1>5 DEF Answers

LEMMA PlainFacts ==
    /\ NoAnswer \in Answers /\ NoAnswer.kind = "none"
    /\ Unreachable \in Answers /\ Unreachable.kind = "unreachable"
<1>1. NoAnswer \in PlainAnswers /\ Unreachable \in PlainAnswers
  BY DEF NoAnswer, Unreachable, PlainAnswers
<1>2. NoAnswer.kind = "none" /\ Unreachable.kind = "unreachable"
  BY DEF NoAnswer, Unreachable
<1> QED BY <1>1, <1>2 DEF Answers

\* A job answer about job j of region r.
LEMMA JobAnswerFacts ==
    ASSUME NEW r, NEW j \in JobIds, JobInv, jobs[j].region = r, jobs[j].state # "unused",
           NEW a, a = [kind |-> "job", job |-> j, state |-> jobs[j].state]
    PROVE  /\ a \in Answers /\ a.kind = "job" /\ Started(jobs, a.job, r)
           /\ a.state = "done" => Finished(jobs, a.job)
<1>1. jobs[j].state \in JobStates
  BY DEF JobInv, JobRecs
<1>2. a \in JobAnswers /\ a.kind = "job" /\ a.job = j /\ a.state = jobs[j].state
  BY <1>1 DEF JobAnswers
<1> QED BY <1>2 DEF Answers, Started, Finished

\* What the container may answer a request with, and what is then true.
AnswerOK(js, a, r) ==
    /\ a \in Answers
    /\ a.kind = "job" => Started(js, a.job, r) /\ (a.state = "done" => Finished(js, a.job))
    /\ a.kind = "started" => Started(js, a.job, r)

LEMMA GoneFacts == ASSUME NEW a, NEW js, NEW r, a \in PlainAnswers PROVE AnswerOK(js, a, r)
BY DEF PlainAnswers, Answers, AnswerOK

LEMMA ServedAnswer ==
    ASSUME JobInv, ProcInv, NEW p \in Procs, Outstanding(p), Effect(proc[p].pc, proc[p].region)
    PROVE  AnswerOK(jobs', Answer(p), proc[p].region)
<1> DEFINE r == proc[p].region
           pc == proc[p].pc
<1>1. pc \in RequestPcs /\ ProcOK(jobs, proc[p])
  BY ProcFacts DEF Outstanding
<1>2. pc # "warm" /\ pc # "delete" => jobs' = jobs /\ pins' = pins
  BY DEF Effect, container
<1>3. CASE pc = "lookup"
  <2>1. r \in RegionIds /\ Answer(p) = LookupAnswer(r)
    BY <1>1, <1>3 DEF ProcOK, Answer
  <2>2. CASE Retained(r) = {}
    <3>1. Answer(p) = [kind |-> "gone"]
      BY <2>1, <2>2 DEF LookupAnswer
    <3>2. Answer(p) \in PlainAnswers
      BY <3>1 DEF PlainAnswers
    <3> QED BY <3>2, GoneFacts
  <2>3. CASE Retained(r) # {}
    <3> DEFINE j == Newest(Retained(r))
    <3>1. j \in Retained(r)
      <4>1. Retained(r) \in SUBSET JobIds
        BY DEF Retained
      <4> QED BY <2>3, <4>1, NewestFacts
    <3>2. j \in JobIds /\ jobs[j].region = r /\ jobs[j].state # "unused"
      BY <3>1 DEF Retained, JobInv
    <3>3. Answer(p) = [kind |-> "job", job |-> j, state |-> jobs[j].state]
      BY <2>1, <2>3 DEF LookupAnswer
    <3> HIDE DEF j
    <3> QED BY <1>2, <1>3, <3>2, <3>3, JobAnswerFacts DEF AnswerOK
  <2> QED BY <2>2, <2>3
<1>4. CASE pc = "job"
  <2> DEFINE j == proc[p].known
  <2>1. Started(jobs, j, r)
    BY <1>1, <1>4 DEF ProcOK
  <2>2. j \in JobIds /\ jobs[j].region = r /\ jobs[j].state # "unused" /\ Answer(p) = JobAnswer(j)
    BY <1>4, <2>1 DEF Started, Answer
  <2>3. CASE jobs[j].retained
    <3>1. Answer(p) = [kind |-> "job", job |-> j, state |-> jobs[j].state]
      BY <2>2, <2>3 DEF JobAnswer
    <3> HIDE DEF j
    <3> QED BY <1>2, <1>4, <2>2, <3>1, JobAnswerFacts DEF AnswerOK
  <2>4. CASE ~jobs[j].retained
    <3>1. Answer(p) = [kind |-> "gone"]
      BY <2>2, <2>4 DEF JobAnswer
    <3>2. Answer(p) \in PlainAnswers
      BY <3>1 DEF PlainAnswers
    <3> QED BY <3>2, GoneFacts
  <2> QED BY <2>3, <2>4
<1>5. CASE pc = "bytes"
  <2>1. Answer(p) = [kind |-> "bytes", bytes |-> IF r \in pins THEN 1 ELSE 0]
    BY <1>5 DEF Answer
  <2>2. Answer(p) \in ByteAnswers /\ Answer(p).kind = "bytes"
    BY <2>1 DEF ByteAnswers
  <2> QED BY <2>2 DEF Answers, AnswerOK
<1>6. CASE pc = "warm"
  <2>1. r \in RegionIds /\ Answer(p) = WarmAnswer(r) /\ WarmEffect(r)
    BY <1>1, <1>6 DEF ProcOK, Answer, Effect
  <2> HIDE DEF r
  <2>2. /\ WarmAnswer(r) \in Answers /\ WarmAnswer(r).kind # "job"
        /\ WarmAnswer(r).kind = "started" => Started(jobs', WarmAnswer(r).job, r)
    BY <2>1, WarmFacts
  <2>3. AnswerOK(jobs', Answer(p), r)
    BY <2>1, <2>2 DEF AnswerOK
  <2> QED BY <2>3 DEF r
<1>7. CASE pc = "delete"
  <2>1. Answer(p) = [kind |-> "deleted"]
    BY <1>7 DEF Answer
  <2>2. Answer(p) \in PlainAnswers
    BY <2>1 DEF PlainAnswers
  <2> QED BY <2>2, GoneFacts
<1>8. CASE pc = "totals"
  <2>1. Answer(p) = [kind |-> "totals", held |-> pins]
    BY <1>8 DEF Answer
  <2>2. Answer(p) \in TotalAnswers /\ Answer(p).kind = "totals"
    BY <2>1 DEF TotalAnswers, JobInv
  <2> QED BY <2>2 DEF Answers, AnswerOK
<1> QED BY <1>1, <1>3, <1>4, <1>5, <1>6, <1>7, <1>8 DEF RequestPcs

-----------------------------------------------------------------------------
(* Steps of the container                                                  *)

\* A process with another answer.
LEMMA AnsweredRecord ==
    ASSUME NEW js, NEW rec \in ProcRecs, ProcOK(js, rec), NEW a, AnswerOK(js, a, rec.region)
    PROVE  /\ [rec EXCEPT !.resp = a] \in ProcRecs /\ ProcOK(js, [rec EXCEPT !.resp = a])
           /\ [rec EXCEPT !.resp = a].pc = rec.pc
<1> DEFINE new == [rec EXCEPT !.resp = a]
<1>1. new \in ProcRecs
  BY DEF ProcRecs, AnswerOK
<1>2. /\ new.pc = rec.pc /\ new.region = rec.region /\ new.known = rec.known /\ new.seen = rec.seen
      /\ new.snap = rec.snap /\ new.resp = a
  BY DEF ProcRecs
<1> HIDE DEF new
<1>3. ProcOK(js, new)
  BY <1>2 DEF ProcOK, AnswerOK
<1> QED BY <1>1, <1>2, <1>3 DEF new

LEMMA WithLateFacts ==
    ASSUME ProcInv, LifeInv, NEW callers \in SUBSET Procs
    PROVE  WithLate(callers) \in Wire
<1> DEFINE these == {q \in callers : Outstanding(q) /\ proc[q].pc \in {"warm", "delete"}}
           left == {<<proc[p].pc, proc[p].region>> : p \in these}
<1>1. \A p \in these : proc[p].pc \in {"warm", "delete"} /\ proc[p].region \in RegionIds
  <2> SUFFICES ASSUME NEW p \in these PROVE proc[p].pc \in {"warm", "delete"} /\ proc[p].region \in RegionIds
    OBVIOUS
  <2>1. ProcOK(jobs, proc[p]) /\ proc[p].pc \in {"warm", "delete"}
    BY DEF ProcInv
  <2>2. proc[p].pc \in RequestPcs \ {"totals"}
    BY <2>1 DEF RequestPcs
  <2> QED BY <2>1, <2>2 DEF ProcOK
<1>2. left \in Wire
  BY <1>1 DEF Wire
<1>3. WithLate(callers) = late \cup left \/ WithLate(callers) = late
  BY DEF WithLate
<1> QED BY <1>2, <1>3 DEF LifeInv, Wire

\* A step of the container that leaves the plugin alone.
LEMMA ContainerFrame ==
    ASSUME RoutesInv, JobInv', JobsKept, UNCHANGED <<plugin, proc>>, late' \in Wire
    PROVE  RoutesInv'
<1>1. StoreInv' /\ MapInv'
  BY JobsStep DEF RoutesInv, RestInv
<1>2. ProcInv'
  BY ProcKept DEF RoutesInv, RestInv, ProcInv
<1>3. LifeInv' /\ TrackedIsWatched'
  BY DEF plugin, RoutesInv, RestInv, LifeInv, TrackedIsWatched, Active
<1> QED BY <1>1, <1>2, <1>3 DEF RoutesInv, RestInv

LEMMA ServeInv == ASSUME RoutesInv, NEW p \in Procs, Serve(p) PROVE RoutesInv'
<1> DEFINE r == proc[p].region
<1>1. UNCHANGED plugin /\ Outstanding(p)
  BY DEF Serve
<1>2. proc[p] \in ProcRecs /\ ProcOK(jobs, proc[p])
  BY ProcFacts DEF RoutesInv, RestInv
<1>3. proc[p].pc \in {"warm", "delete"} => r \in RegionIds
  BY <1>2 DEF ProcOK, RequestPcs
<1>4. PICK a : proc' = [proc EXCEPT ![p].resp = a] /\ AnswerOK(jobs', a, r) /\ JobInv' /\ JobsKept /\ late' \in Wire
  <2>1. CASE Effect(proc[p].pc, r) /\ proc' = [proc EXCEPT ![p].resp = Answer(p)] /\ UNCHANGED late
    <3>1. AnswerOK(jobs', Answer(p), r)
      BY <1>1, <2>1, ServedAnswer DEF RoutesInv, RestInv
    <3>2. JobInv' /\ JobsKept
      BY <1>3, <2>1, EffectFacts DEF RoutesInv, RestInv
    <3> QED BY <2>1, <3>1, <3>2 DEF RoutesInv, RestInv, LifeInv
  <2>2. CASE /\ proc' = [proc EXCEPT ![p].resp = Unreachable]
             /\ \/ Effect(proc[p].pc, r) /\ UNCHANGED late
                \/ UNCHANGED container /\ late' = WithLate({p})
    <3>1. AnswerOK(jobs', Unreachable, r)
      BY PlainFacts DEF AnswerOK
    <3>2. JobInv' /\ JobsKept
      BY <1>3, <2>2, EffectFacts, JobsUnchanged DEF RoutesInv, RestInv
    <3>3. late' \in Wire
      BY <2>2, WithLateFacts DEF RoutesInv, RestInv, LifeInv
    <3> QED BY <2>2, <3>1, <3>2, <3>3
  <2> QED BY <2>1, <2>2 DEF Serve
<1> DEFINE new == [proc[p] EXCEPT !.resp = a]
<1>5. ProcOK(jobs', proc[p])
  BY <1>2, <1>4, ProcKept
<1>6. new \in ProcRecs /\ ProcOK(jobs', new) /\ new.pc = proc[p].pc
  BY <1>2, <1>4, <1>5, AnsweredRecord
<1>7. proc' = [proc EXCEPT ![p] = new]
  BY <1>4
<1> HIDE DEF new
<1>8. ProcInv' /\ \A q \in Procs : proc'[q].pc = proc[q].pc
  <2>1. proc' \in [Procs -> ProcRecs] /\ proc'[p] = new /\ \A q \in Procs : q # p => proc'[q] = proc[q]
    BY <1>6, <1>7 DEF RoutesInv, RestInv, ProcInv
  <2>2. \A q \in Procs : ProcOK(jobs', proc'[q])
    BY <1>4, <1>6, <2>1, ProcKept DEF RoutesInv, RestInv, ProcInv
  <2> QED BY <1>6, <2>1, <2>2 DEF ProcInv
<1>9. StoreInv' /\ MapInv'
  BY <1>1, <1>4, JobsStep DEF RoutesInv, RestInv
<1>10. LifeInv' /\ TrackedIsWatched'
  <2>1. Loop \in Procs
    BY DEF Procs
  <2> QED BY <1>1, <1>4, <1>8, <2>1 DEF plugin, RoutesInv, RestInv, LifeInv, TrackedIsWatched, Active
<1> QED BY <1>4, <1>8, <1>9, <1>10 DEF RoutesInv, RestInv

\* A late request, the end of a job, the registry's reaper and a restart.
LEMMA ContainerInv == ASSUME RoutesInv, ContainerNext PROVE RoutesInv'
<1>1. CASE ServeLate
  <2>1. PICK q \in late : late' = late \ {q} /\ (Effect(q[1], q[2]) \/ UNCHANGED container)
    BY <1>1 DEF ServeLate
  <2>2. q[2] \in RegionIds /\ late' \in Wire
    BY <2>1 DEF RoutesInv, RestInv, LifeInv, Wire
  <2>3. JobInv' /\ JobsKept
    BY <2>1, <2>2, EffectFacts, JobsUnchanged DEF RoutesInv, RestInv
  <2> QED BY <1>1, <2>2, <2>3, ContainerFrame DEF ServeLate
<1>2. ASSUME NEW j \in JobIds, JobEnds(j) PROVE RoutesInv'
  <2>1. PICK state \in {"done", "capped", "error"} :
          /\ jobs' = [jobs EXCEPT ![j].state = state]
          /\ pins' = IF state = "done" THEN pins \cup {jobs[j].region} ELSE pins
    BY <1>2 DEF JobEnds
  <2> DEFINE new == [jobs[j] EXCEPT !.state = state]
  <2>2. jobs[j] \in JobRecs /\ jobs[j].state = "running" /\ jobs[j].region \in RegionIds
    BY <1>2 DEF JobEnds, RoutesInv, RestInv, JobInv
  <2>3. new \in JobRecs /\ new.state = state /\ new.region = jobs[j].region /\ new.retained = jobs[j].retained
    BY <2>2 DEF JobRecs, JobStates
  <2>4. jobs' = [jobs EXCEPT ![j] = new]
    BY <2>1
  <2> HIDE DEF new
  <2>5. jobs'[j] = new /\ jobs' \in [JobIds -> JobRecs] /\ \A i \in JobIds : i # j => jobs'[i] = jobs[i]
    BY <2>3, <2>4 DEF RoutesInv, RestInv, JobInv
  <2>6. JobInv'
    BY <2>1, <2>2, <2>3, <2>5 DEF RoutesInv, RestInv, JobInv
  <2>7. JobsKept
    BY <2>2, <2>3, <2>5 DEF JobsKept
  <2> QED BY <1>2, <2>6, <2>7, ContainerFrame DEF JobEnds, RoutesInv, RestInv, LifeInv
<1>3. ASSUME NEW j \in JobIds, Reap(j) PROVE RoutesInv'
  <2> DEFINE new == [jobs[j] EXCEPT !.retained = FALSE]
  <2>1. jobs[j] \in JobRecs
    BY DEF RoutesInv, RestInv, JobInv
  <2>2. new \in JobRecs /\ new.state = jobs[j].state /\ new.region = jobs[j].region /\ new.retained = FALSE
    BY <2>1 DEF JobRecs
  <2>3. jobs' = [jobs EXCEPT ![j] = new] /\ pins' = pins
    BY <1>3 DEF Reap
  <2> HIDE DEF new
  <2>4. jobs'[j] = new /\ jobs' \in [JobIds -> JobRecs] /\ \A i \in JobIds : i # j => jobs'[i] = jobs[i]
    BY <2>2, <2>3 DEF RoutesInv, RestInv, JobInv
  <2>5. JobInv'
    BY <2>2, <2>3, <2>4 DEF RoutesInv, RestInv, JobInv
  <2>6. JobsKept
    BY <2>2, <2>4 DEF JobsKept
  <2> QED BY <1>3, <2>5, <2>6, ContainerFrame DEF Reap, RoutesInv, RestInv, LifeInv
<1>4. CASE ContainerRestarts
  <2> DEFINE new(j) == [jobs[j] EXCEPT !.retained = FALSE, !.state = IF @ = "running" THEN "error" ELSE @]
  <2>1. \A j \in JobIds : /\ new(j) \in JobRecs /\ new(j).region = jobs[j].region /\ new(j).retained = FALSE
                          /\ new(j).state = IF jobs[j].state = "running" THEN "error" ELSE jobs[j].state
    BY DEF RoutesInv, RestInv, JobInv, JobRecs, JobStates
  <2>2. jobs' = [j \in JobIds |-> new(j)] /\ pins' \in {pins, {}}
    BY <1>4 DEF ContainerRestarts
  <2> HIDE DEF new
  <2>3. jobs' \in [JobIds -> JobRecs] /\ \A j \in JobIds : jobs'[j] = new(j)
    BY <2>1, <2>2
  <2>4. JobInv'
    BY <2>1, <2>2, <2>3 DEF RoutesInv, RestInv, JobInv
  <2>5. JobsKept
    BY <2>1, <2>3 DEF JobsKept
  <2> QED BY <1>4, <2>4, <2>5, ContainerFrame DEF ContainerRestarts, RoutesInv, RestInv, LifeInv
<1> QED BY <1>1, <1>2, <1>3, <1>4 DEF ContainerNext

-----------------------------------------------------------------------------
(* What a callback leaves                                                  *)

\* A process with no request and no answer.
LEMMA RestingFacts ==
    ASSUME NEW pc \in {"idle", "sleep", "sweep", "leaving", "totals"}, NEW todo \in SUBSET RegionIds
    PROVE  LET rec == [IdleProc EXCEPT !.pc = pc, !.todo = todo]
           IN  rec \in ProcRecs /\ rec.pc = pc /\ rec.resp = NoAnswer /\ \A js : ProcOK(js, rec)
<1> DEFINE rec == [IdleProc EXCEPT !.pc = pc, !.todo = todo]
<1>1. rec \in ProcRecs
  <2>1. NoAnswer \in Answers
    BY PlainFacts
  <2> QED BY <2>1 DEF IdleProc, ProcRecs, RequestPcs
<1>2. rec.pc = pc /\ rec.resp = NoAnswer /\ rec.known = NoJob
  BY DEF IdleProc
<1> HIDE DEF rec
<1>3. ASSUME NEW js PROVE ProcOK(js, rec)
  BY <1>2, PlainFacts DEF ProcOK, RequestPcs
<1> QED BY <1>1, <1>2, <1>3 DEF rec

LEMMA IdleFacts == IdleProc \in ProcRecs /\ IdleProc.pc = "idle" /\ \A js : ProcOK(js, IdleProc)
<1>1. IdleProc \in ProcRecs
  <2>1. NoAnswer \in Answers
    BY PlainFacts
  <2> QED BY <2>1 DEF IdleProc, ProcRecs, RequestPcs
<1>2. IdleProc.pc = "idle" /\ IdleProc.resp = NoAnswer /\ IdleProc.known = NoJob
  BY DEF IdleProc
<1>3. ASSUME NEW js PROVE ProcOK(js, IdleProc)
  BY <1>2, PlainFacts DEF ProcOK, RequestPcs
<1> QED BY <1>1, <1>2, <1>3

\* A request on its way: the record knows the region and what it names.
LEMMA SentFacts ==
    ASSUME NEW rec \in ProcRecs, NEW kind \in {"lookup", "job", "bytes", "warm", "delete"}, rec.region \in RegionIds,
           rec.known # NoJob => Started(jobs, rec.known, rec.region),
           kind = "job" => rec.known # NoJob,
           kind = "bytes" => rec.seen \in StoreRecs /\ (rec.snap = "done" => Downloaded(jobs, rec.region))
    PROVE  Sent(rec, kind) \in ProcRecs /\ Sent(rec, kind).pc # "idle" /\ ProcOK(jobs, Sent(rec, kind))
<1> DEFINE a == IF Active THEN NoAnswer ELSE Unreachable
           new == [rec EXCEPT !.pc = kind, !.resp = a]
<1>1. a \in Answers /\ a.kind \in {"none", "unreachable"}
  BY PlainFacts
<1> HIDE DEF a
<1>2. new \in ProcRecs
  BY <1>1 DEF ProcRecs, RequestPcs
<1>3. /\ new.pc = kind /\ new.resp = a /\ new.region = rec.region /\ new.known = rec.known /\ new.seen = rec.seen
      /\ new.snap = rec.snap
  BY DEF ProcRecs
<1> HIDE DEF new
<1>4. ProcOK(jobs, new)
  BY <1>1, <1>3 DEF ProcOK
<1> QED BY <1>2, <1>3, <1>4 DEF new, Sent, a

\* One process moves; the loop, if it is the one, does not go idle.
LEMMA MoveInv ==
    ASSUME RoutesInv, UNCHANGED <<container, life, late>>, NEW p \in Procs, NEW rec \in ProcRecs, ProcOK(jobs, rec),
           p = Loop => rec.pc # "idle", proc' = [proc EXCEPT ![p] = rec], trackedRegions' \subseteq trackedRegions,
           NEW r \in RegionIds \cup {NoRegion}, NEW j,
           \/ regionJobs' = regionJobs
           \/ r \in RegionIds /\ regionJobs' = [regionJobs EXCEPT ![r] = j] /\ (j = NoJob \/ Started(jobs, j, r))
    PROVE  RestInv'
<1>1. jobs' = jobs /\ pins' = pins
  BY DEF container
<1>2. JobInv' /\ LifeInv'
  BY <1>1 DEF RoutesInv, RestInv, JobInv, LifeInv
<1>3. proc' \in [Procs -> ProcRecs] /\ proc'[p] = rec /\ \A q \in Procs : q # p => proc'[q] = proc[q]
  BY DEF RoutesInv, RestInv, ProcInv
<1>4. ProcInv'
  BY <1>1, <1>3 DEF RoutesInv, RestInv, ProcInv
<1>5. MapInv'
  <2>1. regionJobs' \in [RegionIds -> JobIds \cup {NoJob}]
    BY DEF RoutesInv, RestInv, MapInv, Started
  <2>2. \A s \in RegionIds : regionJobs'[s] # NoJob => Started(jobs, regionJobs'[s], s)
    BY DEF RoutesInv, RestInv, MapInv
  <2> QED BY <1>1, <2>1, <2>2 DEF RoutesInv, RestInv, MapInv
<1>6. TrackedIsWatched'
  BY <1>3 DEF RoutesInv, RestInv, TrackedIsWatched, Active, Procs
<1> QED BY <1>2, <1>4, <1>5, <1>6 DEF RestInv

LEMMA BecomesInv ==
    ASSUME RoutesInv, UNCHANGED <<container, life, late>>, NEW p \in Procs, NEW rec \in ProcRecs, ProcOK(jobs, rec),
           p = Loop => rec.pc # "idle", Becomes(p, rec)
    PROVE  RestInv'
BY MoveInv DEF Becomes

LEMMA UntrackInv ==
    ASSUME RoutesInv, UNCHANGED <<container, life, late>>, NEW p \in Procs, NEW rec \in ProcRecs, ProcOK(jobs, rec),
           p = Loop => rec.pc # "idle", NEW r \in RegionIds, UntrackAndBecome(p, r, rec)
    PROVE  RestInv'
BY MoveInv DEF UntrackAndBecome

\* The end of a callback that tracks a region: a loop is started unless one
\* runs.
LEMMA LoopStarts ==
    ASSUME NEW pr \in [Procs -> ProcRecs], \A q \in Procs : ProcOK(jobs, pr[q]), NEW tr
    PROVE  /\ WithLoop(pr, tr) \in [Procs -> ProcRecs] /\ \A q \in Procs : ProcOK(jobs, WithLoop(pr, tr)[q])
           /\ Active /\ tr # {} => WithLoop(pr, tr)[Loop].pc # "idle"
<1> DEFINE rec == [pr[Loop] EXCEPT !.pc = "sleep"]
<1>1. Loop \in Procs /\ pr[Loop] \in ProcRecs /\ ProcOK(jobs, pr[Loop])
  BY DEF Procs
<1>2. rec \in ProcRecs
  BY <1>1 DEF ProcRecs
<1>3. /\ rec.pc = "sleep" /\ rec.resp = pr[Loop].resp /\ rec.region = pr[Loop].region /\ rec.known = pr[Loop].known
  BY <1>1 DEF ProcRecs
<1> HIDE DEF rec
<1>4. ProcOK(jobs, rec)
  BY <1>1, <1>3 DEF ProcOK, RequestPcs
<1>5. CASE Active /\ pr[Loop].pc = "idle" /\ tr # {}
  <2>1. WithLoop(pr, tr) = [pr EXCEPT ![Loop] = rec]
    BY <1>5 DEF WithLoop, rec
  <2> QED BY <1>1, <1>2, <1>3, <1>4, <2>1
<1>6. CASE ~(Active /\ pr[Loop].pc = "idle" /\ tr # {})
  <2>1. WithLoop(pr, tr) = pr
    BY <1>6 DEF WithLoop
  <2> QED BY <1>6, <2>1
<1> QED BY <1>5, <1>6

LEMMA TrackInv ==
    ASSUME RoutesInv, UNCHANGED <<container, life, late>>, NEW p \in Procs, NEW rec \in ProcRecs, ProcOK(jobs, rec),
           NEW r \in RegionIds, NEW j, j = NoJob \/ Started(jobs, j, r), TrackAndBecome(p, r, j, rec)
    PROVE  RestInv'
<1> DEFINE pr == [proc EXCEPT ![p] = rec]
<1>1. jobs' = jobs /\ pins' = pins
  BY DEF container
<1>2. JobInv' /\ LifeInv'
  BY <1>1 DEF RoutesInv, RestInv, JobInv, LifeInv
<1>3. pr \in [Procs -> ProcRecs] /\ \A q \in Procs : ProcOK(jobs, pr[q])
  BY DEF RoutesInv, RestInv, ProcInv
<1>4. proc' = WithLoop(pr, trackedRegions')
  BY DEF TrackAndBecome
<1> HIDE DEF pr
<1>5. /\ proc' \in [Procs -> ProcRecs] /\ \A q \in Procs : ProcOK(jobs, proc'[q])
      /\ Active /\ trackedRegions' # {} => proc'[Loop].pc # "idle"
  BY <1>3, <1>4, LoopStarts
<1>6. ProcInv' /\ TrackedIsWatched'
  BY <1>1, <1>5 DEF ProcInv, TrackedIsWatched, Active
<1>7. MapInv'
  <2>1. regionJobs' = regionJobs \/ (regionJobs' = [regionJobs EXCEPT ![r] = j] /\ Started(jobs, j, r))
    BY DEF TrackAndBecome
  <2>2. regionJobs' \in [RegionIds -> JobIds \cup {NoJob}]
    BY <2>1 DEF RoutesInv, RestInv, MapInv, Started
  <2>3. \A s \in RegionIds : regionJobs'[s] # NoJob => Started(jobs, regionJobs'[s], s)
    BY <2>1 DEF RoutesInv, RestInv, MapInv
  <2>4. trackedRegions' \subseteq RegionIds
    BY DEF TrackAndBecome, RoutesInv, RestInv, MapInv
  <2> QED BY <1>1, <2>2, <2>3, <2>4 DEF MapInv
<1> QED BY <1>2, <1>6, <1>7 DEF RestInv

-----------------------------------------------------------------------------
(* What a callback writes                                                  *)

\* A patch that makes a region ready knows that one of its jobs is done.
PatchOK(r, patch) ==
    /\ "status" \in DOMAIN patch =>
         patch["status"] \in Statuses /\ (patch["status"] = "ready" => Downloaded(jobs, r))
    /\ "downloaded" \in DOMAIN patch => patch["downloaded"] \in BOOLEAN
    /\ "bytes" \in DOMAIN patch => patch["bytes"] \in {0, 1}

LEMMA StoreFrame == ASSUME RoutesInv, UNCHANGED <<store, used, container>> PROVE StoreInv'
<1>1. jobs' = jobs
  BY DEF container
<1> QED BY <1>1 DEF RoutesInv, StoreInv, ReadyWasDownloaded, Saved

LEMMA PatchInv ==
    ASSUME RoutesInv, NEW r \in RegionIds, NEW patch, PatchOK(r, patch), NEW ok, Write(UpdateRegion(r, patch), ok),
           UNCHANGED <<used, container>>
    PROVE  StoreInv'
<1>1. jobs' = jobs
  BY DEF container
<1>2. CASE ok /\ Saved(r)
  <2> DEFINE old == store[r]
             new == [f \in DOMAIN old |-> IF f \in DOMAIN patch THEN patch[f] ELSE old[f]]
  <2>1. old \in StoreRecs
    BY <1>2 DEF Saved, RoutesInv, StoreInv
  <2>2. store' = [store EXCEPT ![r] = new]
    BY <1>2 DEF Write, UpdateRegion
  <2> HIDE DEF old
  <2>3. /\ new.status = (IF "status" \in DOMAIN patch THEN patch["status"] ELSE old.status)
        /\ new \in StoreRecs
    BY <2>1 DEF StoreRecs, PatchOK
  <2> HIDE DEF new
  <2>4. new.status = "ready" => Downloaded(jobs, r)
    <3>1. old.status = "ready" => Downloaded(jobs, r)
      BY <1>2 DEF old, RoutesInv, StoreInv, ReadyWasDownloaded, Downloaded, Finished
    <3> QED BY <2>3, <3>1 DEF PatchOK
  <2>5. store' \in [RegionIds -> StoreRecs \cup {NoRecord}] /\ store'[r] = new
        /\ \A s \in RegionIds : s # r => store'[s] = store[s]
    BY <2>2, <2>3 DEF RoutesInv, StoreInv
  <2>6. ReadyWasDownloaded'
    BY <1>1, <2>4, <2>5 DEF RoutesInv, StoreInv, ReadyWasDownloaded, Saved, Downloaded, Finished
  <2> QED BY <2>5, <2>6 DEF RoutesInv, StoreInv
<1>3. CASE ~(ok /\ Saved(r))
  <2>1. store' = store
    BY <1>3 DEF Write, UpdateRegion
  <2> QED BY <2>1, StoreFrame
<1> QED BY <1>2, <1>3

LEMMA RemoveInv ==
    ASSUME RoutesInv, NEW r \in RegionIds, NEW ok, Write(RemoveRegion(r), ok), UNCHANGED <<used, container>>
    PROVE  StoreInv'
<1>1. jobs' = jobs
  BY DEF container
<1>2. store' = [store EXCEPT ![r] = NoRecord] \/ store' = store
  BY DEF Write, RemoveRegion
<1>3. store' \in [RegionIds -> StoreRecs \cup {NoRecord}]
      /\ \A s \in RegionIds : store'[s] = NoRecord \/ store'[s] = store[s]
  BY <1>2 DEF RoutesInv, StoreInv
<1> QED BY <1>1, <1>3 DEF RoutesInv, StoreInv, ReadyWasDownloaded, Saved

\* A callback settles a lost job as an error, or writes nothing.
LEMMA LostInv ==
    ASSUME RoutesInv, NEW r \in RegionIds, NEW ok, LostJob(r, ok), UNCHANGED <<used, container>>
    PROVE  StoreInv'
<1> DEFINE patch == [status |-> "error"]
<1>1. PatchOK(r, patch)
  BY DEF PatchOK, Statuses
<1>2. Write(UpdateRegion(r, patch), ok) \/ UNCHANGED store
  BY DEF LostJob, Write
<1> QED BY <1>1, <1>2, PatchInv, StoreFrame

\* What reconcile writes is what the snapshot it holds says.
LEMMA ReconcilePatchOK ==
    ASSUME NEW seen \in StoreRecs, NEW snap, NEW resp \in Answers, NEW r, snap = "done" => Downloaded(jobs, r)
    PROVE  PatchOK(r, ReconcilePatch(seen, StatusFromSnapshot(snap), resp))
<1> DEFINE status == StatusFromSnapshot(snap)
           statusPart == IF seen.status # status \/ ~seen.downloaded
                         THEN [status |-> status, downloaded |-> TRUE] ELSE <<>>
           bytesPart == IF resp.kind = "bytes" /\ resp.bytes # seen.bytes THEN [bytes |-> resp.bytes] ELSE <<>>
           patch == ReconcilePatch(seen, status, resp)
<1>1. status \in Statuses /\ (status = "ready" => snap = "done")
  BY DEF StatusFromSnapshot, Statuses
<1>2. resp.kind = "bytes" => resp.bytes \in {0, 1}
  BY AnswerFields
<1> HIDE DEF status
<1>3. /\ DOMAIN statusPart \subseteq {"status", "downloaded"}
      /\ "status" \in DOMAIN statusPart => statusPart["status"] = status
      /\ "downloaded" \in DOMAIN statusPart => statusPart["downloaded"] = TRUE
  OBVIOUS
<1>4. /\ DOMAIN bytesPart \subseteq {"bytes"}
      /\ "bytes" \in DOMAIN bytesPart => bytesPart["bytes"] \in {0, 1}
  BY <1>2
<1>5. patch = [f \in DOMAIN statusPart \cup DOMAIN bytesPart |->
                 IF f \in DOMAIN bytesPart THEN bytesPart[f] ELSE statusPart[f]]
  BY DEF ReconcilePatch
<1> HIDE DEF statusPart, bytesPart, patch
<1>6. /\ "status" \in DOMAIN patch => patch["status"] = status
      /\ "downloaded" \in DOMAIN patch => patch["downloaded"] = TRUE
      /\ "bytes" \in DOMAIN patch => patch["bytes"] \in {0, 1}
  BY <1>3, <1>4, <1>5
<1>7. PatchOK(r, patch)
  BY <1>1, <1>6 DEF PatchOK
<1> QED BY <1>7 DEF patch, status

-----------------------------------------------------------------------------
(* Callbacks                                                               *)

\* The loop between two requests, and the start-up check before its first.
LEMMA LoopRecords ==
    ASSUME NEW pc \in {"sleep", "sweep", "leaving", "totals"}
    PROVE  LET rec == [IdleProc EXCEPT !.pc = pc] IN rec \in ProcRecs /\ rec.pc = pc /\ \A js : ProcOK(js, rec)
<1> DEFINE rec == [IdleProc EXCEPT !.pc = pc]
<1>1. rec \in ProcRecs
  BY IdleFacts DEF ProcRecs, RequestPcs
<1>2. rec.pc = pc /\ rec.resp = NoAnswer /\ rec.known = NoJob
  BY DEF IdleProc
<1> HIDE DEF rec
<1>3. ASSUME NEW js PROVE ProcOK(js, rec)
  BY <1>2, PlainFacts DEF ProcOK, RequestPcs
<1> QED BY <1>1, <1>2, <1>3 DEF rec

LEMMA DoneFacts ==
    ASSUME ProcInv, NEW p \in Procs
    PROVE  Done(p) \in ProcRecs /\ ProcOK(jobs, Done(p)) /\ (p = Loop => Done(p).pc # "idle")
<1>1. CASE p = Loop
  <2> DEFINE rec == [IdleProc EXCEPT !.pc = "sweep", !.todo = proc[p].todo]
  <2>1. rec \in ProcRecs /\ rec.pc = "sweep" /\ \A js : ProcOK(js, rec)
    <3>1. proc[p].todo \in SUBSET RegionIds
      BY ProcFacts
    <3> QED BY <3>1, RestingFacts
  <2>2. Done(p) = rec
    BY <1>1 DEF Done
  <2> HIDE DEF rec
  <2> QED BY <2>1, <2>2
<1>2. CASE p # Loop
  BY <1>2, IdleFacts DEF Done
<1> QED BY <1>1, <1>2

\* A request that begins with what the map knows of its region.
LEMMA BeginFacts ==
    ASSUME MapInv, NEW h, NEW op \in {"create", "delete", "status", "redownload"}, NEW r \in RegionIds,
           NEW kind \in {"lookup", "job", "warm", "delete"},
           NEW rec \in {Begin(h, op, r), [Begin(h, op, r) EXCEPT !.known = regionJobs[r]]},
           kind = "job" => rec = [Begin(h, op, r) EXCEPT !.known = regionJobs[r]] /\ regionJobs[r] # NoJob
    PROVE  Sent(rec, kind) \in ProcRecs /\ Sent(rec, kind).pc # "idle" /\ ProcOK(jobs, Sent(rec, kind))
<1>1. regionJobs[r] \in JobIds \cup {NoJob} /\ (regionJobs[r] # NoJob => Started(jobs, regionJobs[r], r))
  BY DEF MapInv
<1>2. /\ rec \in ProcRecs /\ rec.region = r /\ rec.known \in {NoJob, regionJobs[r]}
      /\ rec = [Begin(h, op, r) EXCEPT !.known = regionJobs[r]] => rec.known = regionJobs[r]
  <2>1. NoAnswer \in Answers
    BY PlainFacts
  <2>2. /\ Begin(h, op, r) \in ProcRecs /\ Begin(h, op, r).region = r /\ Begin(h, op, r).known = NoJob
    BY <2>1 DEF Begin, IdleProc, ProcRecs, RequestPcs
  <2> DEFINE new == [Begin(h, op, r) EXCEPT !.known = regionJobs[r]]
  <2>3. new \in ProcRecs /\ new.region = r /\ new.known = regionJobs[r]
    BY <1>1, <2>2 DEF ProcRecs
  <2> HIDE DEF new
  <2>4. rec = Begin(h, op, r) \/ rec = new
    BY DEF new
  <2> QED BY <2>2, <2>3, <2>4 DEF new
<1> QED BY <1>1, <1>2, SentFacts

LEMMA ClientInv == ASSUME RoutesInv, ClientNext PROVE RoutesInv'
<1>1. PICK h \in Handlers, r \in RegionIds : PostRegion(h, r) \/ \E op \in Operations : RequestOnRegion(h, op, r)
  BY DEF ClientNext
<1>2. h \in Procs /\ h # Loop
  BY RoutesAssumption DEF RoutesAssumption, Procs
<1>3. CASE PostRegion(h, r)
  <2>1. UNCHANGED <<container, life, late>> /\ Becomes(h, Sent(Begin(h, "create", r), "warm"))
    BY <1>3 DEF PostRegion
  <2>2. Sent(Begin(h, "create", r), "warm") \in ProcRecs /\ ProcOK(jobs, Sent(Begin(h, "create", r), "warm"))
    BY BeginFacts DEF RoutesInv, RestInv
  <2>3. RestInv'
    BY <1>2, <2>1, <2>2, BecomesInv
  <2> DEFINE new == [status |-> "downloading", downloaded |-> FALSE, bytes |-> 0]
  <2>4. new \in StoreRecs /\ new.status # "ready"
    BY DEF StoreRecs, Statuses
  <2>5. store' = [store EXCEPT ![r] = new] /\ used' = used \cup {r} /\ jobs' = jobs
    BY <1>3 DEF PostRegion, container
  <2> HIDE DEF new
  <2>6. store' \in [RegionIds -> StoreRecs \cup {NoRecord}] /\ store'[r] = new
        /\ \A s \in RegionIds : s # r => store'[s] = store[s]
    BY <2>4, <2>5 DEF RoutesInv, StoreInv
  <2>7. StoreInv'
    BY <2>4, <2>5, <2>6 DEF RoutesInv, StoreInv, ReadyWasDownloaded, Saved
  <2> QED BY <2>3, <2>7 DEF RoutesInv
<1>4. ASSUME NEW op \in Operations, RequestOnRegion(h, op, r) PROVE RoutesInv'
  <2>1. UNCHANGED <<container, life, late, store, used>> /\ op \in {"delete", "redownload", "status"}
    BY <1>4, RoutesAssumption DEF RequestOnRegion, RoutesAssumption
  <2>2. StoreInv'
    BY <2>1, StoreFrame
  <2>3. CASE op = "delete"
    <3>1. Becomes(h, Sent(Begin(h, op, r), "delete"))
      BY <1>4, <2>3 DEF RequestOnRegion
    <3>2. Sent(Begin(h, op, r), "delete") \in ProcRecs /\ ProcOK(jobs, Sent(Begin(h, op, r), "delete"))
      BY <2>3, BeginFacts DEF RoutesInv, RestInv
    <3> QED BY <1>2, <2>1, <2>2, <3>1, <3>2, BecomesInv DEF RoutesInv
  <2>4. CASE op = "redownload"
    <3>1. Becomes(h, Sent(Begin(h, op, r), "warm"))
      BY <1>4, <2>4 DEF RequestOnRegion
    <3>2. Sent(Begin(h, op, r), "warm") \in ProcRecs /\ ProcOK(jobs, Sent(Begin(h, op, r), "warm"))
      BY <2>4, BeginFacts DEF RoutesInv, RestInv
    <3> QED BY <1>2, <2>1, <2>2, <3>1, <3>2, BecomesInv DEF RoutesInv
  <2>5. CASE op = "status"
    <3> DEFINE rec == [Begin(h, op, r) EXCEPT !.known = regionJobs[r]]
               kind == IF regionJobs[r] = NoJob THEN "lookup" ELSE "job"
    <3>1. Becomes(h, Sent(rec, kind))
      BY <1>4, <2>5 DEF RequestOnRegion
    <3>2. Sent(rec, kind) \in ProcRecs /\ ProcOK(jobs, Sent(rec, kind))
      BY <2>5, BeginFacts DEF RoutesInv, RestInv
    <3> HIDE DEF rec, kind
    <3> QED BY <1>2, <2>1, <2>2, <3>1, <3>2, BecomesInv DEF RoutesInv
  <2> QED BY <2>1, <2>3, <2>4, <2>5
<1> QED BY <1>1, <1>3, <1>4

\* A process that has an answer to act on.
LEMMA AnsweredFacts ==
    ASSUME RoutesInv, NEW p \in Procs, proc[p].pc \in {"lookup", "job", "bytes", "warm", "delete"}
    PROVE  /\ proc[p] \in ProcRecs /\ proc[p].region \in RegionIds /\ proc[p].resp \in Answers
           /\ proc[p].known # NoJob => Started(jobs, proc[p].known, proc[p].region)
           /\ proc[p].resp.kind = "job" =>
                /\ Started(jobs, proc[p].resp.job, proc[p].region) /\ proc[p].resp.state \in JobStates
                /\ proc[p].resp.state = "done" => Downloaded(jobs, proc[p].region)
           /\ proc[p].resp.kind = "started" => Started(jobs, proc[p].resp.job, proc[p].region)
           /\ proc[p].pc = "bytes" => /\ proc[p].seen \in StoreRecs
                                      /\ proc[p].snap = "done" => Downloaded(jobs, proc[p].region)
<1>1. proc[p] \in ProcRecs /\ ProcOK(jobs, proc[p]) /\ proc[p].resp \in Answers
  BY ProcFacts DEF RoutesInv, RestInv
<1>2. proc[p].region \in RegionIds
  BY <1>1 DEF ProcOK, RequestPcs
<1>3. ASSUME proc[p].resp.kind = "job", proc[p].resp.state = "done" PROVE Downloaded(jobs, proc[p].region)
  BY <1>1, <1>3 DEF ProcOK, Started, Downloaded
<1>4. proc[p].resp.kind = "job" => proc[p].resp.state \in JobStates
  BY <1>1, AnswerFields
<1> QED BY <1>1, <1>2, <1>3, <1>4 DEF ProcOK

LEMMA CreateInv == ASSUME RoutesInv, NEW h \in Handlers, CreateAnswered(h) PROVE RoutesInv'
<1> DEFINE r == proc[h].region
           resp == proc[h].resp
           j == IF resp.kind = "started" THEN resp.job ELSE NoJob
<1>1. h \in Procs /\ h # Loop
  BY RoutesAssumption DEF RoutesAssumption, Procs
<1>2. UNCHANGED <<container, life, late, used>> /\ proc[h].pc = "warm"
  BY DEF CreateAnswered
<1>3. r \in RegionIds /\ (resp.kind = "started" => Started(jobs, resp.job, r))
  BY <1>1, <1>2, AnsweredFacts
<1>4. CASE Becomes(h, IdleProc) /\ \E ok \in WriteOutcomes : Write(RemoveRegion(r), ok)
  <2>1. RestInv'
    BY <1>1, <1>2, <1>4, IdleFacts, BecomesInv
  <2>2. StoreInv'
    BY <1>2, <1>3, <1>4, RemoveInv
  <2> QED BY <2>1, <2>2 DEF RoutesInv
<1>5. CASE UNCHANGED store /\ TrackAndBecome(h, r, j, IdleProc)
  <2>1. j = NoJob \/ Started(jobs, j, r)
    BY <1>3
  <2> HIDE DEF r, j
  <2>2. RestInv'
    BY <1>1, <1>2, <1>3, <1>5, <2>1, IdleFacts, TrackInv
  <2>3. StoreInv'
    BY <1>2, <1>5, StoreFrame
  <2> QED BY <2>2, <2>3 DEF RoutesInv
<1> QED BY <1>4, <1>5 DEF CreateAnswered

LEMMA RedownloadInv == ASSUME RoutesInv, NEW h \in Handlers, RedownloadAnswered(h) PROVE RoutesInv'
<1> DEFINE r == proc[h].region
           resp == proc[h].resp
           j == IF resp.kind = "started" THEN resp.job ELSE NoJob
           patch == [status |-> "downloading"]
<1>1. h \in Procs /\ h # Loop
  BY RoutesAssumption DEF RoutesAssumption, Procs
<1>2. UNCHANGED <<container, life, late, used>> /\ proc[h].pc = "warm"
  BY DEF RedownloadAnswered
<1>3. r \in RegionIds /\ (resp.kind = "started" => Started(jobs, resp.job, r))
  BY <1>1, <1>2, AnsweredFacts
<1>4. CASE Becomes(h, IdleProc) /\ UNCHANGED store
  <2>1. RestInv'
    BY <1>1, <1>2, <1>4, IdleFacts, BecomesInv
  <2>2. StoreInv'
    BY <1>2, <1>4, StoreFrame
  <2> QED BY <2>1, <2>2 DEF RoutesInv
<1>5. CASE /\ \E ok \in WriteOutcomes : Write(UpdateRegion(r, patch), ok)
           /\ TrackAndBecome(h, r, j, IdleProc)
  <2>1. j = NoJob \/ Started(jobs, j, r)
    BY <1>3
  <2>2. PatchOK(r, patch)
    BY DEF PatchOK, Statuses
  <2>3. StoreInv'
    BY <1>2, <1>3, <1>5, <2>2, PatchInv
  <2> HIDE DEF r, j, patch
  <2>4. RestInv'
    BY <1>1, <1>2, <1>3, <1>5, <2>1, IdleFacts, TrackInv
  <2> QED BY <2>3, <2>4 DEF RoutesInv
<1> QED BY <1>4, <1>5 DEF RedownloadAnswered

LEMMA DeleteInv == ASSUME RoutesInv, NEW h \in Handlers, DeleteAnswered(h) PROVE RoutesInv'
<1> DEFINE r == proc[h].region
<1>1. h \in Procs /\ h # Loop
  BY RoutesAssumption DEF RoutesAssumption, Procs
<1>2. UNCHANGED <<container, life, late, used>> /\ proc[h].pc = "delete"
  BY DEF DeleteAnswered
<1>3. r \in RegionIds
  BY <1>1, <1>2, AnsweredFacts
<1>4. \/ Becomes(h, IdleProc) /\ UNCHANGED store
      \/ \E ok \in WriteOutcomes :
           Write(RemoveRegion(r), ok) /\ (UntrackAndBecome(h, r, IdleProc) \/ Becomes(h, IdleProc))
  BY DEF DeleteAnswered
<1>5. StoreInv'
  BY <1>2, <1>3, <1>4, RemoveInv, StoreFrame
<1> HIDE DEF r
<1>6. RestInv'
  BY <1>1, <1>2, <1>3, <1>4, IdleFacts, BecomesInv, UntrackInv
<1> QED BY <1>5, <1>6 DEF RoutesInv

\* The region a callback read before the await, and the snapshot with it.
LEMMA BeginReconcile ==
    ASSUME RoutesInv, NEW rec \in ProcRecs, rec.region \in RegionIds, Saved(rec.region),
           rec.known # NoJob => Started(jobs, rec.known, rec.region),
           NEW state \in JobStates, state = "done" => Downloaded(jobs, rec.region)
    PROVE  LET new == Sent([rec EXCEPT !.snap = state, !.seen = store[rec.region]], "bytes")
           IN  new \in ProcRecs /\ ProcOK(jobs, new) /\ new.pc # "idle"
<1> DEFINE old == store[rec.region]
           new == [rec EXCEPT !.snap = state, !.seen = old]
<1>1. old \in StoreRecs
  BY DEF Saved, RoutesInv, StoreInv
<1> HIDE DEF old
<1>2. new \in ProcRecs /\ new.region = rec.region /\ new.known = rec.known /\ new.snap = state /\ new.seen = old
  BY <1>1 DEF ProcRecs
<1> HIDE DEF new
<1>3. Sent(new, "bytes") \in ProcRecs /\ ProcOK(jobs, Sent(new, "bytes")) /\ Sent(new, "bytes").pc # "idle"
  BY <1>1, <1>2, SentFacts
<1> QED BY <1>3 DEF new, old

LEMMA StatusInv == ASSUME RoutesInv, NEW h \in Handlers, StatusAnswered(h) PROVE RoutesInv'
<1> DEFINE r == proc[h].region
           resp == proc[h].resp
           named == IF proc[h].pc = "lookup" THEN resp.job ELSE proc[h].known
           rec == [proc[h] EXCEPT !.known = named]
<1>1. h \in Procs /\ h # Loop
  BY RoutesAssumption DEF RoutesAssumption, Procs
<1>2. UNCHANGED <<container, life, late, used>> /\ proc[h].pc \in {"lookup", "job"}
  BY DEF StatusAnswered
<1>3. /\ proc[h] \in ProcRecs /\ r \in RegionIds
      /\ proc[h].known # NoJob => Started(jobs, proc[h].known, r)
      /\ resp.kind = "job" => /\ Started(jobs, resp.job, r) /\ resp.state \in JobStates
                              /\ resp.state = "done" => Downloaded(jobs, r)
  BY <1>1, <1>2, AnsweredFacts
<1>4. CASE Becomes(h, IdleProc) /\ UNCHANGED store
  <2>1. RestInv'
    BY <1>1, <1>2, <1>4, IdleFacts, BecomesInv
  <2>2. StoreInv'
    BY <1>2, <1>4, StoreFrame
  <2> QED BY <2>1, <2>2 DEF RoutesInv
<1>5. CASE Becomes(h, Sent(proc[h], "lookup")) /\ UNCHANGED store
  <2>1. Sent(proc[h], "lookup") \in ProcRecs /\ ProcOK(jobs, Sent(proc[h], "lookup"))
    BY <1>3, SentFacts
  <2>2. RestInv'
    BY <1>1, <1>2, <1>5, <2>1, BecomesInv
  <2>3. StoreInv'
    BY <1>2, <1>5, StoreFrame
  <2> QED BY <2>2, <2>3 DEF RoutesInv
<1>6. CASE Becomes(h, IdleProc) /\ \E ok \in WriteOutcomes : LostJob(r, ok)
  <2>1. RestInv'
    BY <1>1, <1>2, <1>6, IdleFacts, BecomesInv
  <2>2. StoreInv'
    BY <1>2, <1>3, <1>6, LostInv
  <2> QED BY <2>1, <2>2 DEF RoutesInv
<1>7. CASE /\ resp.kind = "job" /\ UNCHANGED <<store, trackedRegions>>
           /\ regionJobs' = IF proc[h].pc = "lookup" THEN [regionJobs EXCEPT ![r] = resp.job] ELSE regionJobs
           /\ \/ ReconcileBegins(h, rec, resp.state)
              \/ (resp.state = "running" \/ ~Saved(r)) /\ proc' = [proc EXCEPT ![h] = IdleProc]
  <2>1. Started(jobs, resp.job, r) /\ resp.state \in JobStates /\ (resp.state = "done" => Downloaded(jobs, r))
    BY <1>3, <1>7
  <2>2. named \in JobIds \cup {NoJob} /\ (named # NoJob => Started(jobs, named, r))
    BY <1>3, <2>1 DEF Started
  <2>3. StoreInv'
    BY <1>2, <1>7, StoreFrame
  <2>4. PICK new : new \in ProcRecs /\ ProcOK(jobs, new) /\ proc' = [proc EXCEPT ![h] = new]
    <3>1. CASE ReconcileBegins(h, rec, resp.state)
      <4> HIDE DEF named
      <4>1. rec \in ProcRecs /\ rec.region = r /\ rec.known = named
        BY <1>3, <2>2 DEF ProcRecs
      <4> HIDE DEF rec
      <4> DEFINE new == Sent([rec EXCEPT !.snap = resp.state, !.seen = store[rec.region]], "bytes")
      <4>2. Saved(rec.region) /\ proc' = [proc EXCEPT ![h] = new]
        BY <3>1 DEF ReconcileBegins
      <4>3. new \in ProcRecs /\ ProcOK(jobs, new)
        BY <1>3, <2>1, <2>2, <4>1, <4>2, BeginReconcile
      <4> QED BY <4>2, <4>3
    <3>2. CASE proc' = [proc EXCEPT ![h] = IdleProc]
      BY <3>2, IdleFacts
    <3> QED BY <1>7, <3>1, <3>2
  <2> HIDE DEF r, resp
  <2>5. \/ regionJobs' = regionJobs
        \/ r \in RegionIds /\ regionJobs' = [regionJobs EXCEPT ![r] = resp.job]
           /\ (resp.job = NoJob \/ Started(jobs, resp.job, r))
    BY <1>3, <1>7, <2>1
  <2>6. r \in RegionIds \cup {NoRegion} /\ trackedRegions' \subseteq trackedRegions
    BY <1>3, <1>7
  <2>7. RestInv'
    BY <1>1, <1>2, <2>4, <2>5, <2>6, MoveInv
  <2> QED BY <2>3, <2>7 DEF RoutesInv
<1> QED BY <1>4, <1>5, <1>6, <1>7 DEF StatusAnswered

LEMMA ReconcileInv ==
    ASSUME RoutesInv, NEW p \in Handlers \cup {Loop}, ReconcileEnds(p)
    PROVE  RoutesInv'
<1> DEFINE r == proc[p].region
           patch == ReconcilePatch(proc[p].seen, StatusFromSnapshot(proc[p].snap), proc[p].resp)
<1>1. p \in Procs
  BY DEF Procs
<1>2. UNCHANGED <<container, life, late, used>> /\ proc[p].pc = "bytes"
  BY DEF ReconcileEnds
<1>3. /\ r \in RegionIds /\ proc[p].resp \in Answers /\ proc[p].seen \in StoreRecs
      /\ proc[p].snap = "done" => Downloaded(jobs, r)
      /\ proc[p].known # NoJob => Started(jobs, proc[p].known, r)
  BY <1>1, <1>2, AnsweredFacts
<1>4. PatchOK(r, patch)
  BY <1>3, ReconcilePatchOK
<1>5. PICK ok \in WriteOutcomes :
        /\ Write(UpdateRegion(r, patch), ok)
        /\ \/ UntrackAndBecome(p, r, Done(p))
           \/ TrackAndBecome(p, r, proc[p].known, Done(p))
           \/ Becomes(p, Done(p))
  BY DEF ReconcileEnds
<1>6. StoreInv'
  BY <1>2, <1>3, <1>4, <1>5, PatchInv
<1>7. Done(p) \in ProcRecs /\ ProcOK(jobs, Done(p)) /\ (p = Loop => Done(p).pc # "idle")
  BY <1>1, DoneFacts DEF RoutesInv, RestInv
<1> HIDE DEF r
<1>8. proc[p].known = NoJob \/ Started(jobs, proc[p].known, r)
  BY <1>3
<1>9. RestInv'
  BY <1>1, <1>2, <1>3, <1>5, <1>7, <1>8, BecomesInv, UntrackInv, TrackInv
<1> QED BY <1>6, <1>9 DEF RoutesInv

LEMMA LoopAnsweredInv == ASSUME RoutesInv, LoopAnswered PROVE RoutesInv'
<1> DEFINE r == proc[Loop].region
           resp == proc[Loop].resp
           next == Done(Loop)
           rec == [proc[Loop] EXCEPT !.known = resp.job]
<1>1. Loop \in Procs
  BY DEF Procs
<1>2. UNCHANGED <<container, life, late, used>> /\ proc[Loop].pc \in {"lookup", "job"}
  BY DEF LoopAnswered
<1>3. /\ proc[Loop] \in ProcRecs /\ r \in RegionIds
      /\ resp.kind = "job" => /\ Started(jobs, resp.job, r) /\ resp.state \in JobStates
                              /\ resp.state = "done" => Downloaded(jobs, r)
  BY <1>1, <1>2, AnsweredFacts
<1>4. next \in ProcRecs /\ ProcOK(jobs, next) /\ next.pc # "idle"
  BY <1>1, DoneFacts DEF RoutesInv, RestInv
<1>5. resp.kind = "job" => rec \in ProcRecs /\ rec.region = r /\ rec.known = resp.job
  BY <1>3 DEF ProcRecs, Started
<1>6. StoreInv'
  <2>1. UNCHANGED store \/ \E ok \in WriteOutcomes : LostJob(r, ok)
    BY DEF LoopAnswered
  <2> QED BY <1>2, <1>3, <2>1, LostInv, StoreFrame
<1>7. CASE /\ regionJobs' = regionJobs \/ regionJobs' = [regionJobs EXCEPT ![r] = NoJob]
           /\ trackedRegions' = trackedRegions \/ trackedRegions' = trackedRegions \ {r}
           /\ proc' = [proc EXCEPT ![Loop] = next]
  <2> HIDE DEF r, next
  <2>1. r \in RegionIds \cup {NoRegion} /\ trackedRegions' \subseteq trackedRegions
    BY <1>3, <1>7
  <2>2. \/ regionJobs' = regionJobs
        \/ /\ r \in RegionIds /\ regionJobs' = [regionJobs EXCEPT ![r] = NoJob]
           /\ NoJob = NoJob \/ Started(jobs, NoJob, r)
    BY <1>3, <1>7
  <2>3. RestInv'
    BY <1>1, <1>2, <1>4, <1>7, <2>1, <2>2, MoveInv
  <2> QED BY <1>6, <2>3 DEF RoutesInv
<1>8. CASE /\ resp.kind = "job" /\ UNCHANGED trackedRegions
           /\ regionJobs' = regionJobs \/ regionJobs' = [regionJobs EXCEPT ![r] = resp.job]
           /\ proc' = [proc EXCEPT ![Loop] = Sent(rec, "job")] \/ ReconcileBegins(Loop, rec, resp.state)
  <2>1. /\ Started(jobs, resp.job, r) /\ resp.state \in JobStates /\ (resp.state = "done" => Downloaded(jobs, r))
        /\ rec \in ProcRecs /\ rec.region = r /\ rec.known = resp.job
    BY <1>3, <1>5, <1>8
  <2> HIDE DEF r, resp, rec
  <2>2. resp.job # NoJob
    BY <2>1, RoutesAssumption DEF RoutesAssumption, Started, JobIds
  <2>3. PICK new : new \in ProcRecs /\ ProcOK(jobs, new) /\ new.pc # "idle" /\ proc' = [proc EXCEPT ![Loop] = new]
    <3>1. CASE proc' = [proc EXCEPT ![Loop] = Sent(rec, "job")]
      <4>1. Sent(rec, "job") \in ProcRecs /\ Sent(rec, "job").pc # "idle" /\ ProcOK(jobs, Sent(rec, "job"))
        BY <1>3, <2>1, <2>2, SentFacts
      <4> QED BY <3>1, <4>1
    <3>2. CASE ReconcileBegins(Loop, rec, resp.state)
      <4> DEFINE new == Sent([rec EXCEPT !.snap = resp.state, !.seen = store[rec.region]], "bytes")
      <4>1. Saved(rec.region) /\ proc' = [proc EXCEPT ![Loop] = new]
        BY <3>2 DEF ReconcileBegins
      <4>2. new \in ProcRecs /\ ProcOK(jobs, new) /\ new.pc # "idle"
        BY <1>3, <2>1, <4>1, BeginReconcile
      <4> QED BY <4>1, <4>2
    <3> QED BY <1>8, <3>1, <3>2
  <2>4. \/ regionJobs' = regionJobs
        \/ /\ r \in RegionIds /\ regionJobs' = [regionJobs EXCEPT ![r] = resp.job]
           /\ resp.job = NoJob \/ Started(jobs, resp.job, r)
    BY <1>3, <1>8, <2>1
  <2>5. r \in RegionIds \cup {NoRegion} /\ trackedRegions' \subseteq trackedRegions
    BY <1>3, <1>8
  <2>6. RestInv'
    BY <1>1, <1>2, <2>3, <2>4, <2>5, MoveInv
  <2> QED BY <1>6, <2>6 DEF RoutesInv
<1>9. LoopAnswered
  OBVIOUS
<1> QED BY <1>7, <1>8, <1>9 DEF LoopAnswered, Becomes, UntrackAndBecome

LEMMA LoopInv == ASSUME RoutesInv, LoopStep PROVE RoutesInv'
<1>1. Loop \in Procs
  BY DEF Procs
<1>2. CASE LoopWakes
  <2> DEFINE rec == [IdleProc EXCEPT !.pc = "sweep", !.todo = trackedRegions]
  <2>1. rec \in ProcRecs /\ rec.pc = "sweep" /\ \A js : ProcOK(js, rec)
    <3>1. trackedRegions \in SUBSET RegionIds
      BY DEF RoutesInv, RestInv, MapInv
    <3> QED BY <3>1, RestingFacts
  <2>2. Becomes(Loop, rec) /\ UNCHANGED <<container, life, late, store, used>>
    BY <1>2 DEF LoopWakes
  <2> HIDE DEF rec
  <2>3. RestInv'
    BY <1>1, <2>1, <2>2, BecomesInv
  <2> QED BY <2>2, <2>3, StoreFrame DEF RoutesInv
<1>3. CASE LoopAnswered
  BY <1>3, LoopAnsweredInv
<1>4. CASE ReconcileEnds(Loop)
  BY <1>4, ReconcileInv
<1>5. CASE LoopTurns
  <2> DEFINE pc == IF Active /\ trackedRegions # {} THEN "sleep" ELSE "leaving"
             rec == [IdleProc EXCEPT !.pc = pc]
  <2>1. pc \in {"sleep", "leaving"} /\ Becomes(Loop, rec) /\ UNCHANGED <<container, life, late, store, used>>
    BY <1>5 DEF LoopTurns
  <2> HIDE DEF pc
  <2>2. rec \in ProcRecs /\ rec.pc = pc /\ \A js : ProcOK(js, rec)
    BY <2>1, LoopRecords
  <2> HIDE DEF rec
  <2>3. RestInv'
    BY <1>1, <2>1, <2>2, BecomesInv
  <2> QED BY <2>1, <2>3, StoreFrame DEF RoutesInv
<1>6. CASE LoopLeaves
  <2> DEFINE pr == [proc EXCEPT ![Loop] = IdleProc]
  <2>1. proc' = WithLoop(pr, trackedRegions) /\ UNCHANGED <<plugin, container, late>>
    BY <1>6 DEF LoopLeaves
  <2>2. pr \in [Procs -> ProcRecs] /\ \A q \in Procs : ProcOK(jobs, pr[q])
    BY IdleFacts DEF RoutesInv, RestInv, ProcInv
  <2> HIDE DEF pr
  <2>3. /\ proc' \in [Procs -> ProcRecs] /\ \A q \in Procs : ProcOK(jobs, proc'[q])
        /\ Active /\ trackedRegions # {} => proc'[Loop].pc # "idle"
    BY <2>1, <2>2, LoopStarts
  <2>4. UNCHANGED <<store, used, regionJobs, trackedRegions, life, jobs, pins>>
    BY <2>1 DEF plugin, container
  <2>5. ProcInv' /\ TrackedIsWatched'
    BY <2>3, <2>4 DEF ProcInv, TrackedIsWatched, Active
  <2>6. JobInv' /\ MapInv' /\ LifeInv'
    BY <2>1, <2>4 DEF RoutesInv, RestInv, JobInv, MapInv, LifeInv
  <2> QED BY <2>1, <2>4, <2>5, <2>6, StoreFrame DEF RoutesInv, RestInv
<1>7. ASSUME NEW r \in RegionIds, LoopPolls(r) PROVE RoutesInv'
  <2> DEFINE rec == [IdleProc EXCEPT !.region = r, !.known = regionJobs[r], !.todo = proc[Loop].todo \ {r}]
             kind == IF regionJobs[r] = NoJob THEN "lookup" ELSE "job"
  <2>1. Becomes(Loop, Sent(rec, kind)) /\ UNCHANGED <<container, life, late, store, used>>
    BY <1>7 DEF LoopPolls
  <2>2. regionJobs[r] \in JobIds \cup {NoJob} /\ (regionJobs[r] # NoJob => Started(jobs, regionJobs[r], r))
    BY DEF RoutesInv, RestInv, MapInv
  <2>3. proc[Loop].todo \ {r} \in SUBSET RegionIds
    BY <1>1, ProcFacts DEF RoutesInv, RestInv
  <2>4. rec \in ProcRecs /\ rec.region = r /\ rec.known = regionJobs[r]
    <3>1. IdleProc \in ProcRecs
      BY IdleFacts
    <3> QED BY <2>2, <2>3, <3>1 DEF ProcRecs
  <2>5. kind \in {"lookup", "job"} /\ (kind = "job" => regionJobs[r] # NoJob)
    OBVIOUS
  <2> HIDE DEF rec, kind
  <2>6. Sent(rec, kind) \in ProcRecs /\ Sent(rec, kind).pc # "idle" /\ ProcOK(jobs, Sent(rec, kind))
    BY <2>2, <2>4, <2>5, SentFacts
  <2>7. RestInv'
    BY <1>1, <2>1, <2>6, BecomesInv
  <2> QED BY <2>1, <2>7, StoreFrame DEF RoutesInv
<1> QED BY <1>2, <1>3, <1>4, <1>5, <1>6, <1>7 DEF LoopStep

\* The start-up check settles no region as ready that was not.
LEMMA TotalsInv == ASSUME RoutesInv, TotalsAnswered PROVE RoutesInv'
<1> DEFINE resp == proc[Boot].resp
           new == [r \in RegionIds |-> CheckedTotals(r, resp.held)]
<1>1. Boot \in Procs /\ Boot # Loop
  BY RoutesAssumption DEF RoutesAssumption, Procs
<1>2. UNCHANGED <<container, life, late, used>> /\ Becomes(Boot, IdleProc)
  BY DEF TotalsAnswered
<1>3. RestInv'
  BY <1>1, <1>2, IdleFacts, BecomesInv
<1>4. CASE store' = store
  BY <1>2, <1>3, <1>4, StoreFrame DEF RoutesInv
<1>5. CASE store' = new
  <2>1. ASSUME NEW r \in RegionIds
        PROVE  /\ CheckedTotals(r, resp.held) \in StoreRecs \cup {NoRecord}
               /\ CheckedTotals(r, resp.held) # NoRecord /\ CheckedTotals(r, resp.held).status = "ready" =>
                    Saved(r) /\ store[r].status = "ready"
    <3> DEFINE bytes == IF r \in resp.held THEN 1 ELSE 0
               old == store[r]
    <3>1. CASE CheckedTotals(r, resp.held) = old
      BY <3>1 DEF RoutesInv, StoreInv, Saved
    <3>2. CASE Saved(r) /\ CheckedTotals(r, resp.held) = [old EXCEPT !.status = "needs-redownload", !.bytes = 0]
      <4>1. old \in StoreRecs
        BY <3>2 DEF RoutesInv, StoreInv, Saved
      <4> HIDE DEF old
      <4> QED BY <3>2, <4>1 DEF StoreRecs, Statuses
    <3>3. CASE Saved(r) /\ CheckedTotals(r, resp.held) = [old EXCEPT !.bytes = bytes]
      <4>1. old \in StoreRecs
        BY <3>3 DEF RoutesInv, StoreInv, Saved
      <4> HIDE DEF old
      <4>2. [old EXCEPT !.bytes = bytes] \in StoreRecs /\ [old EXCEPT !.bytes = bytes].status = old.status
        BY <4>1 DEF StoreRecs
      <4> QED BY <3>3, <4>2 DEF old
    <3> QED BY <3>1, <3>2, <3>3 DEF CheckedTotals
  <2>2. store' \in [RegionIds -> StoreRecs \cup {NoRecord}]
        /\ \A r \in RegionIds : store'[r] = CheckedTotals(r, resp.held)
    BY <1>5, <2>1
  <2>3. jobs' = jobs
    BY <1>2 DEF container
  <2> HIDE DEF resp, new
  <2>4. ReadyWasDownloaded'
    <3> SUFFICES ASSUME NEW r \in RegionIds, store'[r] # NoRecord, store'[r].status = "ready"
                 PROVE  \E j \in JobIds : jobs'[j].region = r /\ jobs'[j].state = "done"
      BY DEF ReadyWasDownloaded, Saved
    <3>1. Saved(r) /\ store[r].status = "ready"
      BY <2>1, <2>2
    <3> QED BY <2>3, <3>1 DEF RoutesInv, StoreInv, ReadyWasDownloaded
  <2>5. StoreInv'
    BY <1>2, <2>2, <2>4 DEF RoutesInv, StoreInv
  <2> QED BY <1>3, <2>5 DEF RoutesInv
<1> QED BY <1>4, <1>5 DEF TotalsAnswered, Write

\* Start tracks what is downloading and starts the loop for it.
LEMMA StartInv == ASSUME RoutesInv, Start PROVE RoutesInv'
<1> DEFINE loop == IF trackedRegions' = {} THEN IdleProc ELSE [IdleProc EXCEPT !.pc = "sleep"]
           boot == [IdleProc EXCEPT !.pc = "totals"]
<1>1. Loop \in Procs /\ Boot \in Procs /\ Boot # Loop
  BY RoutesAssumption DEF RoutesAssumption, Procs
<1>2. /\ life' = "up" /\ trackedRegions' = trackedRegions \cup {r \in RegionIds : Downloading(r)}
      /\ proc' = [proc EXCEPT ![Loop] = loop, ![Boot] = boot]
      /\ UNCHANGED <<store, used, regionJobs, container, late>>
  BY DEF Start
<1>3. loop \in ProcRecs /\ (trackedRegions' # {} => loop.pc # "idle") /\ \A js : ProcOK(js, loop)
  <2>1. CASE trackedRegions' = {}
    BY <2>1, IdleFacts
  <2>2. CASE trackedRegions' # {}
    <3> DEFINE rec == [IdleProc EXCEPT !.pc = "sleep"]
    <3>1. rec \in ProcRecs /\ rec.pc = "sleep" /\ \A js : ProcOK(js, rec)
      BY LoopRecords
    <3>2. loop = rec
      BY <2>2
    <3> HIDE DEF rec, loop
    <3> QED BY <3>1, <3>2
  <2> QED BY <2>1, <2>2
<1>4. boot \in ProcRecs /\ \A js : ProcOK(js, boot)
  BY LoopRecords
<1> HIDE DEF loop, boot
<1>5. /\ proc' \in [Procs -> ProcRecs] /\ proc'[Loop] = loop /\ proc'[Boot] = boot
      /\ \A q \in Procs : q # Loop /\ q # Boot => proc'[q] = proc[q]
  BY <1>1, <1>2, <1>3, <1>4 DEF RoutesInv, RestInv, ProcInv
<1>6. jobs' = jobs /\ pins' = pins
  BY <1>2 DEF container
<1>7. ProcInv'
  BY <1>3, <1>4, <1>5, <1>6 DEF RoutesInv, RestInv, ProcInv
<1>8. JobInv' /\ MapInv' /\ LifeInv'
  BY <1>2, <1>6 DEF RoutesInv, RestInv, JobInv, MapInv, LifeInv
<1>9. TrackedIsWatched'
  BY <1>3, <1>5 DEF TrackedIsWatched
<1> QED BY <1>2, <1>7, <1>8, <1>9, StoreFrame DEF RoutesInv, RestInv

\* A stop aborts what is on the wire and leaves the loop to end by itself.
LEMMA StopInv == ASSUME RoutesInv, Stop PROVE RoutesInv'
<1> DEFINE new(p) == [proc[p] EXCEPT !.resp = Unreachable]
<1>1. life' = "stopping" /\ late' = WithLate(Handlers)
      /\ UNCHANGED <<store, used, regionJobs, trackedRegions, container>>
  BY DEF Stop
<1>2. proc' = [p \in Procs |-> CASE p = Boot -> IdleProc
                                 [] p # Boot /\ Outstanding(p) -> new(p)
                                 [] OTHER -> proc[p]]
  BY DEF Stop
<1>3. \A p \in Procs : new(p) \in ProcRecs /\ ProcOK(jobs, new(p))
  <2> SUFFICES ASSUME NEW p \in Procs PROVE new(p) \in ProcRecs /\ ProcOK(jobs, new(p))
    OBVIOUS
  <2>1. proc[p] \in ProcRecs /\ ProcOK(jobs, proc[p])
    BY DEF RoutesInv, RestInv, ProcInv
  <2>2. AnswerOK(jobs, Unreachable, proc[p].region)
    BY PlainFacts DEF AnswerOK
  <2> QED BY <2>1, <2>2, AnsweredRecord
<1> HIDE DEF new
<1>4. \A p \in Procs : proc'[p] \in {IdleProc, new(p), proc[p]}
  BY <1>2
<1>5. proc' \in [Procs -> ProcRecs] /\ \A p \in Procs : ProcOK(jobs, proc'[p])
  <2>1. \A p \in Procs : proc'[p] \in ProcRecs /\ ProcOK(jobs, proc'[p])
    BY <1>3, <1>4, IdleFacts DEF RoutesInv, RestInv, ProcInv
  <2> QED BY <1>2, <2>1
<1>6. jobs' = jobs /\ pins' = pins
  BY <1>1 DEF container
<1>7. ProcInv' /\ TrackedIsWatched'
  BY <1>1, <1>5, <1>6 DEF ProcInv, TrackedIsWatched, Active
<1>8. late' \in Wire
  <2>1. Handlers \in SUBSET Procs
    BY DEF Procs
  <2> QED BY <1>1, <2>1, WithLateFacts DEF RoutesInv, RestInv
<1>9. JobInv' /\ MapInv' /\ LifeInv'
  BY <1>1, <1>6, <1>8 DEF RoutesInv, RestInv, JobInv, MapInv, LifeInv
<1> QED BY <1>1, <1>7, <1>9, StoreFrame DEF RoutesInv, RestInv

\* What is left when the routes are down: the store and the container.
LEMMA DownInv ==
    ASSUME RoutesInv, life' = "down", trackedRegions' = {}, regionJobs' = [r \in RegionIds |-> NoJob],
           proc' = proc \/ proc' = [p \in Procs |-> IdleProc], late' \in Wire, UNCHANGED <<store, used, container>>
    PROVE  RoutesInv'
<1>1. jobs' = jobs /\ pins' = pins
  BY DEF container
<1>2. ProcInv'
  BY <1>1, IdleFacts DEF RoutesInv, RestInv, ProcInv
<1>3. MapInv' /\ JobInv' /\ LifeInv' /\ TrackedIsWatched'
  BY <1>1 DEF RoutesInv, RestInv, JobInv, MapInv, LifeInv, TrackedIsWatched
<1> QED BY <1>2, <1>3, StoreFrame DEF RoutesInv, RestInv

LEMMA RoutesStep == ASSUME RoutesInv, RoutesNext PROVE RoutesInv'
<1>1. ASSUME NEW h \in Handlers, HandlerStep(h) PROVE RoutesInv'
  BY <1>1, CreateInv, RedownloadInv, DeleteInv, StatusInv, ReconcileInv DEF HandlerStep
<1>2. CASE Stopped
  BY <1>2, DownInv DEF Stopped, RoutesInv, RestInv, LifeInv
<1>3. CASE Crash
  <2>1. late' \in Wire
    <3>1. Handlers \in SUBSET Procs
      BY DEF Procs
    <3> QED BY <1>3, <3>1, WithLateFacts DEF Crash, RoutesInv, RestInv
  <2> QED BY <1>3, <2>1, DownInv DEF Crash
<1> QED BY <1>1, <1>2, <1>3, ClientInv, ContainerInv, ServeInv, LoopInv, TotalsInv, StartInv, StopInv DEF RoutesNext

\* The inductive invariant of the routes: what a handler, the loop, a map or
\* an answer on its way names is a job of that very region, whatever deletes,
\* re-downloads, restarts, stops and crashes came between.
THEOREM RoutesInvariant == RoutesSpec => []RoutesInv
<1>1. RoutesInit => RoutesInv
  <2> SUFFICES ASSUME RoutesInit PROVE RoutesInv
    OBVIOUS
  <2>1. StoreInv
    BY DEF RoutesInit, StoreInv, ReadyWasDownloaded, Saved
  <2>2. UnusedJob \in JobRecs /\ UnusedJob.state = "unused" /\ UnusedJob.retained = FALSE
    BY DEF UnusedJob, JobRecs, JobStates
  <2>3. JobInv
    BY <2>2 DEF RoutesInit, JobInv
  <2>4. ProcInv
    BY IdleFacts DEF RoutesInit, ProcInv
  <2>5. MapInv /\ LifeInv /\ TrackedIsWatched
    BY DEF RoutesInit, MapInv, LifeInv, Wire, TrackedIsWatched
  <2> QED BY <2>1, <2>3, <2>4, <2>5 DEF RoutesInv, RestInv
<1>2. RoutesInv /\ [RoutesNext]_routesVars => RoutesInv'
  <2>1. ASSUME RoutesInv, UNCHANGED routesVars PROVE RoutesInv'
    <3>1. UNCHANGED <<store, used, regionJobs, trackedRegions, life, proc, jobs, pins, late>>
      BY <2>1 DEF routesVars, plugin, container
    <3>2. StoreInv'
      BY <2>1, <3>1 DEF RoutesInv, StoreInv, ReadyWasDownloaded, Saved
    <3>3. RestInv'
      BY <2>1, <3>1 DEF RoutesInv, RestInv, JobInv, MapInv, ProcInv, LifeInv, TrackedIsWatched, Active
    <3> QED BY <3>2, <3>3 DEF RoutesInv
  <2> QED BY <2>1, RoutesStep
<1> QED BY <1>1, <1>2, PTL DEF RoutesSpec

\* statusFromSnapshot is asked about a job of the region it is written to: a
\* region is ready only when a download of its own completed.
THEOREM ReadyIsDownloaded == RoutesSpec => []ReadyWasDownloaded
<1>1. RoutesInv => ReadyWasDownloaded
  BY DEF RoutesInv, StoreInv
<1> QED BY <1>1, RoutesInvariant, PTL

\* ensureReconciliationLoop: no tracked region is left without a loop, also
\* when it is tracked in the turn in which the loop leaves.
THEOREM TrackedHasLoop == RoutesSpec => []TrackedIsWatched
<1>1. RoutesInv => TrackedIsWatched
  BY DEF RoutesInv, RestInv
<1> QED BY <1>1, RoutesInvariant, PTL

=============================================================================

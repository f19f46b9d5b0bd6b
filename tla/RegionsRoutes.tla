--------------------------- MODULE RegionsRoutes ---------------------------
(***************************************************************************)
(* The saved-region routes of the plugin (src/http/regions-routes.ts) and  *)
(* the durable store behind them (src/runtime/regions-store.ts), with the  *)
(* start-up check of the byte totals (src/plugin/plugin.ts).               *)
(*                                                                         *)
(* The owner's regions live in regions.json.  The container knows them only*)
(* as warm jobs and pins, and forgets its jobs when it restarts.  Between  *)
(* the two stand the request handlers, a reconciliation loop that polls the*)
(* container for every tracked region, and two maps that are lost when the *)
(* plugin stops.  JavaScript runs one callback at a time, so an action is  *)
(* the code between two awaits; whatever a callback read before an await   *)
(* may be stale after it, and that is what this module is about.           *)
(*                                                                         *)
(* A request to the container is three steps: the caller sends it, the     *)
(* container serves it (Serve), and the caller resumes with the answer.    *)
(***************************************************************************)
EXTENDS Naturals, FiniteSets

CONSTANTS
    RegionIds,        \* the ids randomUUID draws
    Handlers,         \* slots for concurrent API requests
    Loop,             \* the reconciliation loop
    Boot,             \* the start-up check of the byte totals
    Operations,       \* the requests clients make
    NoRegion, NoJob, NoRecord,
    MaxSavedRegions,  \* MAX_SAVED_REGIONS
    MaxJobs,          \* bound on warm jobs ever started
    MaxFaults,        \* bound on lost requests and container restarts
    MaxLate,          \* bound on requests that outlive their caller
    MaxStops,         \* bound on stops and crashes of the plugin
    WriteOutcomes     \* {TRUE}, or BOOLEAN when writes of regions.json may fail

ASSUME RoutesAssumption ==
    /\ {NoRegion, NoRecord} \cap RegionIds = {}
    /\ Loop \notin Handlers /\ Boot \notin Handlers \cup {Loop}
    /\ Operations \subseteq {"create", "delete", "status", "redownload"}
    /\ MaxJobs \in Nat /\ MaxFaults \in Nat /\ MaxLate \in Nat
    /\ MaxStops \in Nat /\ MaxSavedRegions \in Nat
    /\ NoJob \notin 1 .. MaxJobs
    /\ TRUE \in WriteOutcomes /\ WriteOutcomes \subseteq BOOLEAN

JobIds == 1 .. MaxJobs
Procs == Handlers \cup {Loop, Boot}

VARIABLES
    store,          \* regions.json: id -> record, NoRecord when absent
    used,           \* ids drawn so far
    regionJobs,     \* the latest known job of a region
    trackedRegions, \* regions the loop polls
    life,           \* up (active), stopping, down
    proc,           \* handlers, loop and start-up check
    jobs,           \* the container's warm jobs
    pins,           \* regions the container holds tiles of
    late,           \* requests nobody waits for, still on their way
    faults, stops   \* counters of the two bounds

plugin == <<store, used, regionJobs, trackedRegions, life>>
container == <<jobs, pins>>
routesVars == <<plugin, proc, container, late, faults, stops>>

NoAnswer == [kind |-> "none"]
Unreachable == [kind |-> "unreachable"]
IdleProc == [pc |-> "idle", op |-> "none", region |-> NoRegion, known |-> NoJob,
             snap |-> "none", seen |-> NoRecord, todo |-> {}, resp |-> NoAnswer]
UnusedJob == [region |-> NoRegion, state |-> "unused", retained |-> FALSE]
RequestPcs == {"lookup", "job", "bytes", "warm", "delete", "totals"}

Active == life = "up"
Saved(r) == store[r] # NoRecord
Downloading(r) == Saved(r) /\ store[r].status = "downloading"

-----------------------------------------------------------------------------
(* The store                                                               *)

\* Mutant: a patch of a region that is gone writes it back.
UpdateRegion_Upserts(r, patch) ==
    LET base == IF Saved(r) THEN store[r]
                ELSE [status |-> "error", downloaded |-> FALSE, bytes |-> 0]
    IN  [store EXCEPT ![r] = [f \in DOMAIN base |-> IF f \in DOMAIN patch THEN patch[f] ELSE base[f]]]

\* updateRegion: one read-modify-write, a no-op when the id is absent.
UpdateRegion(r, patch) ==
    IF Saved(r)
    THEN [store EXCEPT ![r] = [f \in DOMAIN @ |-> IF f \in DOMAIN patch THEN patch[f] ELSE @[f]]]
    ELSE store

RemoveRegion(r) == [store EXCEPT ![r] = NoRecord]

\* A write of regions.json: atomic, or failed and without effect.
Write(new, ok) == store' = IF ok THEN new ELSE store

-----------------------------------------------------------------------------
(* The container, as its clients see it                                    *)

Retained(r) == {j \in JobIds : jobs[j].region = r /\ jobs[j].retained}
Busy(r) == \E j \in JobIds : jobs[j].region = r /\ jobs[j].state = "running"
FreeIds == {j \in JobIds : jobs[j].state = "unused"}
Newest(S) == CHOOSE j \in S : \A i \in S : i <= j
NextId == CHOOSE j \in FreeIds : \A i \in FreeIds : j <= i

\* GET /warm/region/:id and GET /warm/:id.
LookupAnswer(r) ==
    IF Retained(r) = {} THEN [kind |-> "gone"]
    ELSE [kind |-> "job", job |-> Newest(Retained(r)), state |-> jobs[Newest(Retained(r))].state]
JobAnswer(j) ==
    IF jobs[j].retained THEN [kind |-> "job", job |-> j, state |-> jobs[j].state]
    ELSE [kind |-> "gone"]

\* POST /warm: refused while a job of the region runs or the engine is full.
WarmEffect(r) ==
    /\ jobs' = IF Busy(r) \/ FreeIds = {} THEN jobs
               ELSE [jobs EXCEPT ![NextId] = [region |-> r, state |-> "running", retained |-> TRUE]]
    /\ UNCHANGED pins
WarmAnswer(r) ==
    IF Busy(r) \/ FreeIds = {} THEN [kind |-> "refused"] ELSE [kind |-> "started", job |-> NextId]

\* DELETE /cache/region/:id cancels and drains the region's job, then unpins.
DeleteEffect(r) ==
    /\ jobs' = [j \in JobIds |-> IF jobs[j].region = r /\ jobs[j].state = "running"
                                 THEN [jobs[j] EXCEPT !.state = "cancelled"] ELSE jobs[j]]
    /\ pins' = pins \ {r}

Effect(kind, r) ==
    CASE kind = "warm" -> WarmEffect(r)
      [] kind = "delete" -> DeleteEffect(r)
      [] OTHER -> UNCHANGED container

Answer(p) ==
    LET r == proc[p].region
    IN  CASE proc[p].pc = "lookup" -> LookupAnswer(r)
          [] proc[p].pc = "job" -> JobAnswer(proc[p].known)
          [] proc[p].pc = "bytes" -> [kind |-> "bytes", bytes |-> IF r \in pins THEN 1 ELSE 0]
          [] proc[p].pc = "warm" -> WarmAnswer(r)
          [] proc[p].pc = "delete" -> [kind |-> "deleted"]
          [] proc[p].pc = "totals" -> [kind |-> "totals", held |-> pins]

Outstanding(p) == proc[p].pc \in RequestPcs /\ proc[p].resp = NoAnswer

\* What callers that give up leave on the wire.
WithLate(callers) ==
    LET left == {<<proc[p].pc, proc[p].region>> :
                    p \in {q \in callers : Outstanding(q) /\ proc[q].pc \in {"warm", "delete"}}}
    IN  IF Cardinality(late \cup left) <= MaxLate THEN late \cup left ELSE late

\* The container serves a request; the answer may be lost on its way back,
\* and a request may outlive the caller's timeout.
Serve(p) ==
    /\ Outstanding(p)
    /\ \/ /\ Effect(proc[p].pc, proc[p].region)
          /\ proc' = [proc EXCEPT ![p].resp = Answer(p)]
          /\ UNCHANGED <<late, faults>>
       \/ /\ faults < MaxFaults
          /\ faults' = faults + 1
          /\ proc' = [proc EXCEPT ![p].resp = Unreachable]
          /\ \/ Effect(proc[p].pc, proc[p].region) /\ UNCHANGED late
             \/ /\ UNCHANGED container
                /\ late' = WithLate({p})
    /\ UNCHANGED <<plugin, stops>>

\* A request its caller gave up on is served late, or never.
ServeLate ==
    /\ \E q \in late : /\ late' = late \ {q}
                       /\ Effect(q[1], q[2]) \/ UNCHANGED container
    /\ UNCHANGED <<plugin, proc, faults, stops>>

\* A job ends; only one that is done has promoted its tiles.
JobEnds(j) ==
    /\ jobs[j].state = "running"
    /\ \E state \in {"done", "capped", "error"} :
        /\ jobs' = [jobs EXCEPT ![j].state = state]
        /\ pins' = IF state = "done" THEN pins \cup {jobs[j].region} ELSE pins
    /\ UNCHANGED <<plugin, proc, late, faults, stops>>

\* The registry drops finished jobs after WARM_JOB_TTL_SECS.
Reap(j) ==
    /\ jobs[j].retained /\ jobs[j].state # "running"
    /\ jobs' = [jobs EXCEPT ![j].retained = FALSE]
    /\ UNCHANGED <<plugin, proc, pins, late, faults, stops>>

\* A restart of the container forgets every job, and a corrupt database
\* takes the pins with it.
ContainerRestarts ==
    /\ faults < MaxFaults
    /\ faults' = faults + 1
    /\ jobs' = [j \in JobIds |-> [jobs[j] EXCEPT !.retained = FALSE,
                                   !.state = IF @ = "running" THEN "error" ELSE @]]
    /\ pins' \in {pins, {}}
    /\ UNCHANGED <<plugin, proc, late, stops>>

-----------------------------------------------------------------------------
(* Callbacks of the plugin                                                 *)

\* fetchImpl: once the routes are stopped every request is aborted at once.
Sent(rec, kind) ==
    [rec EXCEPT !.pc = kind, !.resp = IF Active THEN NoAnswer ELSE Unreachable]

\* ensureReconciliationLoop, at the end of a callback that leaves pr and tr.
WithLoop(pr, tr) ==
    IF Active /\ pr[Loop].pc = "idle" /\ tr # {} THEN [pr EXCEPT ![Loop].pc = "sleep"] ELSE pr

\* A process takes the record rec, with no change to what is tracked.
Becomes(p, rec) == proc' = [proc EXCEPT ![p] = rec] /\ UNCHANGED <<regionJobs, trackedRegions>>

\* trackRegionJob, then the process takes the record rec.
TrackAndBecome(p, r, j, rec) ==
    /\ regionJobs' = IF j = NoJob THEN regionJobs ELSE [regionJobs EXCEPT ![r] = j]
    /\ trackedRegions' = trackedRegions \cup {r}
    /\ proc' = WithLoop([proc EXCEPT ![p] = rec], trackedRegions')

UntrackAndBecome(p, r, rec) ==
    /\ regionJobs' = [regionJobs EXCEPT ![r] = NoJob]
    /\ trackedRegions' = trackedRegions \ {r}
    /\ proc' = [proc EXCEPT ![p] = rec]

\* Where a process goes when its work on a region is over.
Done(p) == IF p = Loop THEN [IdleProc EXCEPT !.pc = "sweep", !.todo = proc[p].todo] ELSE IdleProc

\* Mutant: a cancelled job counts as a completed one.
StatusFromSnapshot_Cancelled(state) == IF state = "capped" THEN "capped" ELSE
                                       IF state \in {"done", "cancelled"} THEN "ready" ELSE "error"

\* A job that is done has no errors: run ends it in Error otherwise.
StatusFromSnapshot(state) ==
    CASE state = "done" -> "ready" [] state = "capped" -> "capped" [] OTHER -> "error"

(***************************************************************************)
(* reconcile, in two callbacks.  The first reads the region and asks for   *)
(* its bytes; a running job or an unknown region needs nothing.  The second*)
(* writes the patch it makes from the region it read before the await.     *)
(***************************************************************************)
ReconcileBegins(p, rec, state) ==
    /\ state # "running" /\ Saved(rec.region)
    /\ proc' = [proc EXCEPT ![p] = Sent([rec EXCEPT !.snap = state, !.seen = store[rec.region]], "bytes")]

ReconcilePatch(seen, status, resp) ==
    LET statusPart == IF seen.status # status \/ ~seen.downloaded
                      THEN [status |-> status, downloaded |-> TRUE] ELSE <<>>
        bytesPart == IF resp.kind = "bytes" /\ resp.bytes # seen.bytes
                     THEN [bytes |-> resp.bytes] ELSE <<>>
    IN  [f \in DOMAIN statusPart \cup DOMAIN bytesPart |->
            IF f \in DOMAIN bytesPart THEN bytesPart[f] ELSE statusPart[f]]

\* The bytes answer.  A total that is not authoritative keeps the region
\* tracked (loop) or has it tracked (status route); a failed write changes
\* nothing.
ReconcileEnds(p) ==
    LET r == proc[p].region
        resp == proc[p].resp
        patch == ReconcilePatch(proc[p].seen, StatusFromSnapshot(proc[p].snap), resp)
    IN  /\ proc[p].pc = "bytes" /\ resp # NoAnswer
        /\ \E ok \in WriteOutcomes :
            /\ ok \/ DOMAIN patch # {}
            /\ Write(UpdateRegion(r, patch), ok)
            /\ \/ ok /\ p = Loop /\ resp.kind = "bytes" /\ UntrackAndBecome(p, r, Done(p))
               \/ ok /\ p # Loop /\ resp.kind # "bytes" /\ TrackAndBecome(p, r, proc[p].known, Done(p))
               \/ ok /\ (p = Loop) # (resp.kind = "bytes") /\ Becomes(p, Done(p))
               \/ ~ok /\ Becomes(p, Done(p))
        /\ UNCHANGED <<used, life, container, late, faults, stops>>

\* Mutant: a lost job leaves the region as it is.
LostJob_Kept(r, ok) == ok /\ UNCHANGED store

\* reconcileLostJob: a region whose job is gone must not stay downloading.
LostJob(r, ok) ==
    /\ ok \/ Downloading(r)
    /\ Write(IF Downloading(r) THEN UpdateRegion(r, [status |-> "error"]) ELSE store, ok)

-----------------------------------------------------------------------------
(* The request handlers                                                    *)

Begin(h, op, r) == [IdleProc EXCEPT !.op = op, !.region = r]

\* POST /api/regions, past its validation and the budget check.
PostRegion(h, r) ==
    /\ "create" \in Operations /\ Active /\ proc[h] = IdleProc /\ r \notin used
    /\ Cardinality({s \in RegionIds : Saved(s)}) < MaxSavedRegions
    /\ used' = used \cup {r}
    /\ store' = [store EXCEPT ![r] = [status |-> "downloading", downloaded |-> FALSE, bytes |-> 0]]
    /\ Becomes(h, Sent(Begin(h, "create", r), "warm"))
    /\ UNCHANGED <<life, container, late, faults, stops>>

\* DELETE /api/regions/:id, GET .../status and POST .../redownload check
\* that the region is saved and ask the container; while the plugin stops it
\* still has the container's address, though every fetch is aborted at once.
RequestOnRegion(h, op, r) ==
    /\ op \in Operations \ {"create"} /\ life # "down" /\ proc[h] = IdleProc /\ Saved(r)
    /\ Becomes(h, CASE op = "delete" -> Sent(Begin(h, op, r), "delete")
                    [] op = "redownload" -> Sent(Begin(h, op, r), "warm")
                    [] op = "status" ->
                        Sent([Begin(h, op, r) EXCEPT !.known = regionJobs[r]],
                             IF regionJobs[r] = NoJob THEN "lookup" ELSE "job"))
    /\ UNCHANGED <<store, used, life, container, late, faults, stops>>

\* The answer to POST /warm.  A lost one may have been accepted.
CreateAnswered(h) ==
    LET r == proc[h].region
        resp == proc[h].resp
    IN  /\ proc[h].pc = "warm" /\ proc[h].op = "create" /\ resp # NoAnswer
        /\ \/ /\ resp.kind = "refused" /\ Becomes(h, IdleProc)
              /\ \E ok \in WriteOutcomes : Write(RemoveRegion(r), ok)
           \/ /\ resp.kind # "refused" /\ UNCHANGED store
              /\ TrackAndBecome(h, r, IF resp.kind = "started" THEN resp.job ELSE NoJob, IdleProc)
        /\ UNCHANGED <<used, life, container, late, faults, stops>>

RedownloadAnswered(h) ==
    LET r == proc[h].region
        resp == proc[h].resp
    IN  /\ proc[h].pc = "warm" /\ proc[h].op = "redownload" /\ resp # NoAnswer
        /\ \/ resp.kind = "refused" /\ Becomes(h, IdleProc) /\ UNCHANGED store
           \/ /\ resp.kind # "refused"
              /\ \E ok \in WriteOutcomes : Write(UpdateRegion(r, [status |-> "downloading"]), ok)
              /\ TrackAndBecome(h, r, IF resp.kind = "started" THEN resp.job ELSE NoJob, IdleProc)
        /\ UNCHANGED <<used, life, container, late, faults, stops>>

\* The region leaves the store only after the container dropped its pins.
DeleteAnswered(h) ==
    LET r == proc[h].region
    IN  /\ proc[h].pc = "delete" /\ proc[h].resp # NoAnswer
        /\ \/ proc[h].resp.kind # "deleted" /\ Becomes(h, IdleProc) /\ UNCHANGED store
           \/ /\ proc[h].resp.kind = "deleted"
              /\ \E ok \in WriteOutcomes :
                    /\ Write(RemoveRegion(r), ok)
                    /\ IF ok THEN UntrackAndBecome(h, r, IdleProc) ELSE Becomes(h, IdleProc)
        /\ UNCHANGED <<used, life, container, late, faults, stops>>

\* The status route on a job answer or a lookup answer.
StatusAnswered(h) ==
    LET r == proc[h].region
        resp == proc[h].resp
        named == IF proc[h].pc = "lookup" THEN resp.job ELSE proc[h].known
    IN  /\ h \in Handlers /\ proc[h].pc \in {"lookup", "job"} /\ resp # NoAnswer
        /\ \/ /\ resp.kind = "unreachable" /\ Becomes(h, IdleProc) /\ UNCHANGED store
           \/ /\ resp.kind = "gone" /\ proc[h].pc = "job"
              /\ Becomes(h, Sent(proc[h], "lookup")) /\ UNCHANGED store
           \/ /\ resp.kind = "gone" /\ proc[h].pc = "lookup" /\ Becomes(h, IdleProc)
              /\ \E ok \in WriteOutcomes : LostJob(r, ok)
           \/ /\ resp.kind = "job" /\ UNCHANGED <<store, trackedRegions>>
              /\ regionJobs' = IF proc[h].pc = "lookup" THEN [regionJobs EXCEPT ![r] = resp.job] ELSE regionJobs
              /\ \/ ReconcileBegins(h, [proc[h] EXCEPT !.known = named], resp.state)
                 \/ (resp.state = "running" \/ ~Saved(r)) /\ proc' = [proc EXCEPT ![h] = IdleProc]
        /\ UNCHANGED <<used, life, container, late, faults, stops>>

-----------------------------------------------------------------------------
(* The reconciliation loop                                                 *)

\* The poll interval is over: the loop sweeps a copy of the tracked regions.
LoopWakes ==
    /\ proc[Loop].pc = "sleep"
    /\ Becomes(Loop, [IdleProc EXCEPT !.pc = "sweep", !.todo = trackedRegions])
    /\ UNCHANGED <<store, used, life, container, late, faults, stops>>

\* reconcileOne asks for the known job, or for the newest of the region.
LoopPolls(r) ==
    /\ proc[Loop].pc = "sweep" /\ Active /\ r \in proc[Loop].todo
    /\ LET rec == [IdleProc EXCEPT !.region = r, !.known = regionJobs[r], !.todo = proc[Loop].todo \ {r}]
       IN  Becomes(Loop, Sent(rec, IF regionJobs[r] = NoJob THEN "lookup" ELSE "job"))
    /\ UNCHANGED <<store, used, life, container, late, faults, stops>>

\* The loop on an answer: a terminal job is reconciled, a lost one settled,
\* an exact id that is gone is looked up by region at the next sweep.
LoopAnswered ==
    LET r == proc[Loop].region
        resp == proc[Loop].resp
        next == Done(Loop)
    IN  /\ proc[Loop].pc \in {"lookup", "job"} /\ resp # NoAnswer
        /\ \/ /\ resp.kind = "unreachable" /\ Becomes(Loop, next) /\ UNCHANGED store
           \/ /\ resp.kind = "gone" /\ proc[Loop].pc = "job" /\ UNCHANGED <<store, trackedRegions>>
              /\ regionJobs' = [regionJobs EXCEPT ![r] = NoJob]
              /\ proc' = [proc EXCEPT ![Loop] = next]
           \/ /\ resp.kind = "gone" /\ proc[Loop].pc = "lookup" /\ UNCHANGED regionJobs
              /\ \E ok \in WriteOutcomes :
                    /\ LostJob(r, ok)
                    /\ trackedRegions' = IF ok THEN trackedRegions \ {r} ELSE trackedRegions
              /\ proc' = [proc EXCEPT ![Loop] = next]
           \/ /\ resp.kind = "job" /\ resp.state = "running" /\ UNCHANGED <<store, trackedRegions>>
              /\ IF proc[Loop].pc = "lookup"
                 THEN /\ regionJobs' = [regionJobs EXCEPT ![r] = resp.job]
                      /\ proc' = [proc EXCEPT ![Loop] = Sent([@ EXCEPT !.known = resp.job], "job")]
                 ELSE UNCHANGED regionJobs /\ proc' = [proc EXCEPT ![Loop] = next]
           \/ /\ resp.kind = "job" /\ resp.state # "running" /\ UNCHANGED store
              /\ \/ /\ ReconcileBegins(Loop, [proc[Loop] EXCEPT !.known = resp.job], resp.state)
                    /\ regionJobs' = IF proc[Loop].pc = "lookup" THEN [regionJobs EXCEPT ![r] = resp.job] ELSE regionJobs
                    /\ UNCHANGED trackedRegions
                 \/ ~Saved(r) /\ UntrackAndBecome(Loop, r, next)
        /\ UNCHANGED <<used, life, container, late, faults, stops>>

\* A sweep is over, or the routes were stopped: sleep again or leave.
LoopTurns ==
    /\ proc[Loop].pc = "sweep" /\ (proc[Loop].todo = {} \/ ~Active)
    /\ Becomes(Loop, [IdleProc EXCEPT !.pc = IF Active /\ trackedRegions # {} THEN "sleep" ELSE "leaving"])
    /\ UNCHANGED <<store, used, life, container, late, faults, stops>>

\* Mutant: the loop leaves without looking at what was tracked meanwhile.
LoopLeaves_NoRecheck ==
    /\ proc[Loop].pc = "leaving"
    /\ Becomes(Loop, IdleProc)
    /\ UNCHANGED <<store, used, life, container, late, faults, stops>>

\* The loop's promise settles: a region tracked since its last look at the
\* set starts a new loop.
LoopLeaves ==
    /\ proc[Loop].pc = "leaving"
    /\ proc' = WithLoop([proc EXCEPT ![Loop] = IdleProc], trackedRegions)
    /\ UNCHANGED <<plugin, container, late, faults, stops>>

-----------------------------------------------------------------------------
(* Start, stop and crash of the plugin                                     *)

\* handle.start resumes the downloading regions; the byte totals are asked
\* for once the container is up.
Start ==
    /\ life = "down" /\ life' = "up"
    /\ trackedRegions' = trackedRegions \cup {r \in RegionIds : Downloading(r)}
    /\ proc' = [proc EXCEPT ![Loop] = IF trackedRegions' = {} THEN IdleProc ELSE [IdleProc EXCEPT !.pc = "sleep"],
                            ![Boot] = [IdleProc EXCEPT !.pc = "totals"]]
    /\ UNCHANGED <<store, used, regionJobs, container, late, faults, stops>>

\* A ready or capped region that had bytes and has none now needs a new
\* download; other settled regions take the container's total.
CheckedTotals(r, held) ==
    LET bytes == IF r \in held THEN 1 ELSE 0
    IN  IF ~Saved(r) \/ store[r].status \in {"downloading", "needs-redownload"} THEN store[r]
        ELSE IF store[r].status \in {"ready", "capped"} /\ store[r].bytes > 0 /\ bytes = 0
        THEN [store[r] EXCEPT !.status = "needs-redownload", !.bytes = 0]
        ELSE [store[r] EXCEPT !.bytes = bytes]

TotalsAnswered ==
    /\ proc[Boot].pc = "totals" /\ proc[Boot].resp # NoAnswer
    /\ \/ /\ proc[Boot].resp.kind = "totals"
          /\ \E ok \in WriteOutcomes :
                Write([r \in RegionIds |-> CheckedTotals(r, proc[Boot].resp.held)], ok)
       \/ proc[Boot].resp.kind = "unreachable" /\ UNCHANGED store
    /\ Becomes(Boot, IdleProc)
    /\ UNCHANGED <<used, life, container, late, faults, stops>>

\* handle.stop aborts every request, wakes the loop and waits for it ...
Stop ==
    /\ life = "up" /\ stops < MaxStops
    /\ life' = "stopping" /\ stops' = stops + 1
    /\ proc' = [p \in Procs |->
                    CASE p = Boot -> IdleProc
                      [] p # Boot /\ Outstanding(p) -> [proc[p] EXCEPT !.resp = Unreachable]
                      [] OTHER -> proc[p]]
    /\ late' = WithLate(Handlers)
    /\ UNCHANGED <<store, used, regionJobs, trackedRegions, container, faults>>

\* ... then clears both maps.
Stopped ==
    /\ life = "stopping" /\ proc[Loop] = IdleProc
    /\ life' = "down"
    /\ trackedRegions' = {}
    /\ regionJobs' = [r \in RegionIds |-> NoJob]
    /\ UNCHANGED <<store, used, proc, container, late, faults, stops>>

\* The server process dies: only regions.json is left.
Crash ==
    /\ stops < MaxStops
    /\ life' = "down" /\ stops' = stops + 1
    /\ trackedRegions' = {}
    /\ regionJobs' = [r \in RegionIds |-> NoJob]
    /\ proc' = [p \in Procs |-> IdleProc]
    /\ late' = WithLate(Handlers)
    /\ UNCHANGED <<store, used, container, faults>>

-----------------------------------------------------------------------------
(* The specification                                                       *)

RoutesInit ==
    /\ store = [r \in RegionIds |-> NoRecord]
    /\ used = {}
    /\ regionJobs = [r \in RegionIds |-> NoJob]
    /\ trackedRegions = {}
    /\ life = "down"
    /\ proc = [p \in Procs |-> IdleProc]
    /\ jobs = [j \in JobIds |-> UnusedJob]
    /\ pins = {} /\ late = {}
    /\ faults = 0 /\ stops = 0

HandlerStep(h) ==
    CreateAnswered(h) \/ RedownloadAnswered(h) \/ DeleteAnswered(h) \/ StatusAnswered(h) \/ ReconcileEnds(h)

LoopStep ==
    \/ LoopWakes \/ LoopAnswered \/ ReconcileEnds(Loop) \/ LoopTurns \/ LoopLeaves
    \/ \E r \in RegionIds : LoopPolls(r)

ClientNext ==
    \E h \in Handlers, r \in RegionIds :
        PostRegion(h, r) \/ \E op \in Operations : RequestOnRegion(h, op, r)

ContainerNext ==
    \/ \E j \in JobIds : JobEnds(j) \/ Reap(j)
    \/ ServeLate \/ ContainerRestarts

RoutesNext ==
    \/ ClientNext \/ ContainerNext
    \/ \E h \in Handlers : HandlerStep(h)
    \/ \E p \in Procs : Serve(p)
    \/ LoopStep \/ TotalsAnswered
    \/ Start \/ Stop \/ Stopped \/ Crash

\* Fairness: the event loop runs every ready callback, a request is answered
\* or times out, a warm job ends (WarmEngine), the server starts the plugin.
RoutesSpec ==
    /\ RoutesInit /\ [][RoutesNext]_routesVars
    /\ \A h \in Handlers : WF_routesVars(HandlerStep(h))
    /\ \A p \in Procs : WF_routesVars(Serve(p))
    /\ \A j \in JobIds : WF_routesVars(JobEnds(j))
    /\ WF_routesVars(LoopStep) /\ WF_routesVars(TotalsAnswered)
    /\ WF_routesVars(Start) /\ WF_routesVars(Stopped)

-----------------------------------------------------------------------------
(* Properties                                                              *)

\* A deleted region never comes back: a reconciliation, a re-download or a
\* start-up check that read it before the delete finds nothing to patch.
DeletedStaysDeleted ==
    [][\A r \in used : store[r] = NoRecord => store'[r] = NoRecord]_routesVars

\* No lost wake-up: while the routes are active and a region is tracked a
\* loop is running that will look at it, also when the region is tracked in
\* the turn in which the previous loop leaves.
TrackedIsWatched == Active /\ trackedRegions # {} => proc[Loop].pc # "idle"

\* A region shows ready only if one of its own jobs completed: neither a
\* lost answer, a cancelled or forgotten job, nor a restart makes it ready.
ReadyWasDownloaded ==
    \A r \in RegionIds : Saved(r) /\ store[r].status = "ready" =>
        \E j \in JobIds : jobs[j].region = r /\ jobs[j].state = "done"

\* README.md: "a region never stays stuck downloading".
NeverStuck == \A r \in RegionIds : Downloading(r) ~> ~Downloading(r)

=============================================================================

------------------------------ MODULE Fetcher ------------------------------
(***************************************************************************)
(* The live tile path of the container (fetcher.rs): read-through with     *)
(* revalidation, stale serving, negative caching and single flight, over   *)
(* the in-flight table of state.rs and the upstream health of health.rs,   *)
(* with the other two users of the flight (the warm tasks of warm.rs and   *)
(* the style routes) and the shutdown drain.                               *)
(*                                                                         *)
(* One chart source, its tiles and its upstream.  Upstream content is a    *)
(* version number; a row remembers the version it holds and the time of    *)
(* the fetch or revalidation that vouches for it, stamped in the step in   *)
(* which the answer is complete.  The windows of a source are read apart   *)
(* from the row they are applied to wherever the code awaits in between.   *)
(***************************************************************************)
EXTENDS Naturals, FiniteSets

CONSTANTS
    Keys,            \* tiles of the source
    StyleKeys,       \* style sub-resources, which share only the flight
    Fills, Warms, Styles,   \* task slots: fill permits, warm tasks, style handlers
    Handlers,        \* tile requests in progress
    Locks, NoLock, Dead,    \* single-flight mutexes, no map entry, a dead Weak
    NoRow, NoTask, NoRead, Never,
    MaxInflightKeys, \* MAX_INFLIGHT_KEYS
    FreshSecs, MaxStaleSecs, NegativeTtlSecs, TtlSecs, RecoverySecs,
    MaxTime,         \* bound on the clock
    ExitBy,          \* bound: the process begins to exit by then, or not at all
    MaxVersion       \* bound on upstream changes

ASSUME FetcherAssumption ==
    /\ {FreshSecs, MaxStaleSecs, NegativeTtlSecs, TtlSecs, RecoverySecs} \subseteq Nat \ {0}
    /\ MaxInflightKeys \in Nat /\ MaxTime \in Nat /\ ExitBy \in Nat /\ MaxVersion \in Nat
    /\ Keys \cap StyleKeys = {}
    /\ Fills \cap Warms = {} /\ Styles \cap (Fills \cup Warms) = {}
    /\ {NoLock, Dead} \cap Locks = {}

Tasks == Fills \cup Warms \cup Styles

\* A mutex is allocated for a new flight: while some task has none, there is
\* one that no other task holds.
ASSUME LocksAssumption ==
    \A held \in [Tasks -> Locks \cup {NoLock}] :
        (\E t \in Tasks : held[t] = NoLock) => \E l \in Locks : \A t \in Tasks : held[t] # l

\* Rows of the tiles table: a 200, a negative answer, a payload of a media
\* type that is no longer served.
TileRecs == [kind : {"ok", "negative", "unsafe"}, ver : Nat, at : Nat, pinned : BOOLEAN]
ASSUME RowAssumption == NoRow \notin TileRecs

AllKeys == Keys \cup StyleKeys
Times == 0 .. MaxTime
Versions == 0 .. MaxVersion

VARIABLES
    now, current,    \* the clock, the upstream's version
    superseded,      \* when a version stopped being current
    volatile,        \* whether the source declares a TTL
    row,             \* the tiles table
    read,            \* the key of a request and whether its source declared a TTL
    req,             \* the fill a request waits for
    task,            \* fills, warm tasks, style handlers
    inflight,        \* the map of the single-flight mutexes
    slowAt,          \* UpstreamHealth: the source's last timeout
    shutdown, drain  \* shutdown_requested and wait_for_fills

world == <<now, current, superseded, volatile>>
exit == <<shutdown, drain>>
fetchVars == <<world, row, read, req, task, inflight, slowAt, exit>>

IdleTask == [pc |-> "idle", key |-> NoRow, lock |-> NoLock, tile |-> NoRow,
             from |-> FALSE, under |-> FALSE, vol |-> FALSE,
             retried |-> FALSE, put |-> NoRow, out |-> "none"]

Tile(v) == [kind |-> "ok", ver |-> v, at |-> now, pinned |-> FALSE]
Negative == [kind |-> "negative", ver |-> 0, at |-> now, pinned |-> FALSE]
Legacy == [kind |-> "unsafe", ver |-> 0, at |-> 0, pinned |-> FALSE]

-----------------------------------------------------------------------------
(* Windows and health                                                      *)

ClampedToTtl(secs, vol) == IF vol /\ TtlSecs < secs THEN TtlSecs ELSE secs
IsSafe(tile) == tile # NoRow /\ tile.kind = "ok"
Age(tile) == now - tile.at
Fresh(tile, vol) ==
    \/ IsSafe(tile) /\ Age(tile) < ClampedToTtl(FreshSecs, vol)
    \/ tile # NoRow /\ tile.kind = "negative" /\ Age(tile) < NegativeTtlSecs

\* pin_if_fresh_capped looks at the status alone: a legacy payload counts.
FreshForPin(tile) ==
    /\ tile # NoRow
    /\ Age(tile) < IF tile.kind = "negative" THEN NegativeTtlSecs ELSE FreshSecs

IsSlow == slowAt # Never

\* may_serve_stale: within the window, or pinned and not time-dynamic.
MayServeStale(tile, k, vol) ==
    \/ Age(tile) < ClampedToTtl(MaxStaleSecs, vol)
    \/ ~vol /\ row[k] # NoRow /\ row[k].pinned

RecordTimeout == slowAt' = now
RecordSuccess == slowAt' = IF IsSlow /\ now - slowAt >= RecoverySecs THEN Never ELSE slowAt

-----------------------------------------------------------------------------
(* The single flight                                                       *)

Holders(l) == {t \in Tasks : task[t].lock = l}
LiveKeys == {k \in AllKeys : inflight[k] \in Locks}
UnusedLock == CHOOSE l \in Locks : Holders(l) = {}
Holding == {"acquired", "fetch", "store", "held"}
Locked(l) == \E t \in Holders(l) : task[t].pc \in Holding

\* Mutant: dead entries count against the key cap.
Purged_Never == inflight

Purged == [k \in AllKeys |-> IF inflight[k] = Dead THEN NoLock ELSE inflight[k]]
Occupied(map) == {k \in AllKeys : map[k] # NoLock}

\* inflight_lock: join the live flight, or purge the dead ones and start a
\* new one below the cap.
InflightLock(t, k, refused) ==
    LET waiting(l) == [IdleTask EXCEPT !.pc = "wait", !.key = k, !.lock = l, !.from = task[t].from]
        map == [Purged EXCEPT ![k] = NoLock]
    IN  \/ /\ inflight[k] \in Locks
           /\ task' = [task EXCEPT ![t] = waiting(inflight[k])]
           /\ UNCHANGED inflight
        \/ /\ inflight[k] \notin Locks /\ Cardinality(Occupied(map)) < MaxInflightKeys
           /\ task' = [task EXCEPT ![t] = waiting(UnusedLock)]
           /\ inflight' = [map EXCEPT ![k] = UnusedLock]
        \/ /\ inflight[k] \notin Locks /\ Cardinality(Occupied(map)) >= MaxInflightKeys
           /\ task' = [task EXCEPT ![t] = refused]
           /\ inflight' = map

\* Mutant: the entry goes although others wait on its mutex.
Finished_Always(t) ==
    IF inflight[task[t].key] = task[t].lock THEN [inflight EXCEPT ![task[t].key] = NoLock] ELSE inflight

\* inflight_finish: the last holder of the current mutex removes its entry.
Finished(t) ==
    IF inflight[task[t].key] = task[t].lock /\ Holders(task[t].lock) = {t}
    THEN [inflight EXCEPT ![task[t].key] = NoLock] ELSE inflight

\* A handler dropped before inflight_finish leaves a dead entry behind.
Dropped(t) ==
    IF task[t].lock \in Locks /\ inflight[task[t].key] = task[t].lock /\ Holders(task[t].lock) = {t}
    THEN [inflight EXCEPT ![task[t].key] = Dead] ELSE inflight

-----------------------------------------------------------------------------
(* Requests                                                                *)

FreeFill == {t \in Fills : task[t] = IdleTask}
\* spawn_fill: a permit is taken and the fill is counted.  Its FillSpec is
\* made from the definition the handler read.
Spawned(t, h) == [task EXCEPT ![t] = [IdleTask EXCEPT !.pc = "spawned", !.key = read[h].key, !.from = read[h].vol]]

\* get_tile resolves the source under one read guard, and looks at the
\* cache after an await.
GetBegins(h, k) ==
    /\ read[h] = NoRead /\ req[h] = NoTask /\ ~shutdown
    /\ read' = [read EXCEPT ![h] = [key |-> k, vol |-> volatile]]
    /\ UNCHANGED <<world, row, req, task, inflight, slowAt, exit>>

Asked(h) == row[read[h].key]
SlowAndServable(h) ==
    IsSafe(Asked(h)) /\ IsSlow /\ Age(Asked(h)) < ClampedToTtl(MaxStaleSecs, read[h].vol)

\* A fresh tile or negative is answered inline.
GetFresh(h) ==
    /\ read[h] # NoRead /\ Fresh(Asked(h), read[h].vol)
    /\ read' = [read EXCEPT ![h] = NoRead]
    /\ UNCHANGED <<world, row, req, task, inflight, slowAt, exit>>

\* A stale tile of a slow source is answered at once, with at most one
\* background fill.
GetStaleSlow(h) ==
    LET k == read[h].key
    IN  /\ read[h] # NoRead /\ ~Fresh(Asked(h), read[h].vol) /\ SlowAndServable(h)
        /\ read' = [read EXCEPT ![h] = NoRead]
        /\ inflight' = [inflight EXCEPT ![k] = IF @ = Dead THEN NoLock ELSE @]
        /\ \/ /\ inflight[k] \notin Locks
              /\ \E t \in FreeFill : task' = Spawned(t, h)
           \/ /\ inflight[k] \in Locks \/ FreeFill = {}
              /\ UNCHANGED task
        /\ UNCHANGED <<world, row, req, slowAt, exit>>

\* Any other answer needs the upstream: spawn a fill and wait for it.
\* Without a permit the request is unavailable.
GetAndAwait(h) ==
    /\ read[h] # NoRead /\ ~Fresh(Asked(h), read[h].vol) /\ ~SlowAndServable(h)
    /\ read' = [read EXCEPT ![h] = NoRead]
    /\ \/ \E t \in FreeFill : task' = Spawned(t, h) /\ req' = [req EXCEPT ![h] = t]
       \/ FreeFill = {} /\ UNCHANGED <<task, req>>
    /\ UNCHANGED <<world, row, inflight, slowAt, exit>>

\* The client disconnects: its fill goes on.
ClientGone(h) ==
    /\ req[h] # NoTask \/ read[h] # NoRead
    /\ req' = [req EXCEPT ![h] = NoTask] /\ read' = [read EXCEPT ![h] = NoRead]
    /\ UNCHANGED <<world, row, task, inflight, slowAt, exit>>

-----------------------------------------------------------------------------
(* Fills and warm tasks                                                    *)

\* The end of a fill after inflight_finish: the guard and the Arc go, the
\* waiting handler gets the outcome, the count goes down.
FillReturns(t) ==
    /\ task' = [task EXCEPT ![t] = [IdleTask EXCEPT !.pc = "notify"]]
    /\ req' = [h \in Handlers |-> IF req[h] = t THEN NoTask ELSE req[h]]

FillLocks(t) ==
    /\ t \in Fills /\ task[t].pc = "spawned"
    /\ InflightLock(t, task[t].key, [IdleTask EXCEPT !.pc = "notify"])
    /\ req' = [h \in Handlers |-> IF req[h] = t /\ task'[t].pc = "notify" THEN NoTask ELSE req[h]]
    /\ UNCHANGED <<world, row, read, slowAt, exit>>

\* A fill has the mutex.  `under` records what its source declares now.
FillAcquires(t) ==
    /\ t \in Fills /\ task[t].pc = "wait" /\ ~Locked(task[t].lock)
    /\ task' = [task EXCEPT ![t].pc = "acquired", ![t].under = volatile]
    /\ UNCHANGED <<world, row, read, req, inflight, slowAt, exit>>

\* Mutant: the windows are those of the definition the handler read.
Windows_OfSpec(t) == task[t].from

\* tile_windows_for, read again after the wait: whether the TTL clamps them.
Windows(t) == volatile

\* It reads the windows and the row again and coalesces onto a fresh one; what
\* the handler read is of no more use to the model.
FillRechecks(t) ==
    LET k == task[t].key
    IN  /\ t \in Fills /\ task[t].pc = "acquired"
        /\ \/ /\ Fresh(row[k], Windows(t))
              /\ inflight' = Finished(t)
              /\ FillReturns(t)
           \/ /\ ~Fresh(row[k], Windows(t))
              /\ task' = [task EXCEPT ![t].pc = "fetch", ![t].from = FALSE, ![t].vol = Windows(t),
                                      ![t].tile = IF IsSafe(row[k]) THEN [row[k] EXCEPT !.pinned = FALSE] ELSE NoRow]
              /\ UNCHANGED <<req, inflight>>
        /\ UNCHANGED <<world, row, read, slowAt, exit>>

\* pin_fresh_for_warm, which a full budget refuses.
PinFresh(k) ==
    /\ FreshForPin(row[k])
    /\ row' = [row EXCEPT ![k].pinned = TRUE] \/ UNCHANGED row

\* warm_one: a row that is fresh by the deployment's window is pinned, any
\* other is fetched in the flight, where freshness is looked at again.
WarmBegins(t, k) ==
    /\ t \in Warms /\ task[t] = IdleTask /\ ~shutdown /\ ~volatile
    /\ \/ PinFresh(k) /\ UNCHANGED <<task, inflight>>
       \/ ~FreshForPin(row[k]) /\ InflightLock(t, k, IdleTask) /\ UNCHANGED row
    /\ UNCHANGED <<world, read, req, slowAt, exit>>

WarmRechecks(t) ==
    LET k == task[t].key
    IN  /\ t \in Warms /\ task[t].pc = "wait" /\ ~Locked(task[t].lock)
        /\ \/ /\ PinFresh(k)
              /\ inflight' = Finished(t)
              /\ task' = [task EXCEPT ![t] = IdleTask]
           \/ /\ ~FreshForPin(row[k])
              /\ task' = [task EXCEPT ![t].pc = "fetch"]
              /\ UNCHANGED <<row, inflight>>
        /\ UNCHANGED <<world, read, req, slowAt, exit>>

\* fetch_upstream: a timeout escalates the source and is retried once.
FetchTimesOut(t) ==
    /\ task[t].pc = "fetch" /\ ~task[t].retried
    /\ RecordTimeout
    /\ task' = [task EXCEPT ![t].retried = TRUE]
    /\ UNCHANGED <<world, row, read, req, inflight, exit>>

\* Mutant: a revalidation refreshes whatever the row holds by now.
Refreshed_Rereads(t) ==
    IF row[task[t].key] # NoRow THEN [row[task[t].key] EXCEPT !.at = now] ELSE [task[t].tile EXCEPT !.at = now]

\* A 304 vouches for the tile whose validator was sent.
Refreshed(t) == [task[t].tile EXCEPT !.at = now]

\* What a fill does with an answer: [put, out] of the row to store and the
\* outcome.  A 200 of a bad type or size is neither stored nor served.
Unanswered(t) ==
    LET k == task[t].key
        tile == IF task[t].tile # NoRow THEN task[t].tile ELSE row[k]
    IN  [put |-> NoRow,
         out |-> IF IsSafe(tile) /\ MayServeStale(tile, k, task[t].vol) THEN "stale" ELSE "unavailable"]

Decision(t, answer) ==
    CASE answer = "200" -> [put |-> Tile(current), out |-> "fresh"]
      [] answer = "bad200" -> [put |-> NoRow, out |-> "unavailable"]
      [] answer = "304" -> [put |-> Refreshed(t), out |-> "fresh"]
      [] answer = "404" /\ task[t].tile = NoRow -> [put |-> Negative, out |-> "empty"]
      [] answer = "500" /\ task[t].tile = NoRow -> [put |-> NoRow, out |-> "unavailable"]
      [] OTHER -> Unanswered(t)

\* The upstream's answers.  A 304 needs a validator that is current; the
\* last timeout and a transport error are no answer.
Answers(t) ==
    {"200", "bad200", "404", "500", "none"}
        \cup (IF task[t].tile # NoRow /\ task[t].tile.ver = current THEN {"304"} ELSE {})

FetchHealth(answer) == IF answer = "none" THEN slowAt' \in {slowAt, now} ELSE RecordSuccess

FillAnswered(t) ==
    /\ t \in Fills /\ task[t].pc = "fetch"
    /\ \E answer \in Answers(t) :
        /\ FetchHealth(answer)
        /\ LET d == Decision(t, answer)
           IN  task' = [task EXCEPT ![t] = [IdleTask EXCEPT !.pc = "store", !.key = task[t].key, !.lock = task[t].lock,
                                                           !.put = d.put, !.out = d.out]]
    /\ UNCHANGED <<world, row, read, req, inflight, exit>>

\* A warm task keeps what it fetched for its batch and ends its flight; an
\* error, a bad 200 or a cancelled fetch leaves nothing.
WarmAnswered(t) ==
    /\ t \in Warms /\ task[t].pc = "fetch"
    /\ inflight' = Finished(t)
    /\ \E answer \in {"200", "404", "500", "none"} :
        /\ FetchHealth(answer)
        /\ task' = [task EXCEPT ![t] =
              IF answer \in {"500", "none"} THEN IdleTask
              ELSE [IdleTask EXCEPT !.pc = "batched", !.key = task[t].key,
                                    !.put = IF answer = "200" THEN Tile(current) ELSE Negative]]
    /\ UNCHANGED <<world, row, read, req, exit>>

\* put keeps the pin of the row it replaces.
Stored(k, tile) == [row EXCEPT ![k] = [tile EXCEPT !.pinned = row[k] # NoRow /\ row[k].pinned]]

\* The store of a fill (which a full disk may refuse), then its return.
FillStores(t) ==
    /\ t \in Fills /\ task[t].pc = "store"
    /\ \/ task[t].put # NoRow /\ row' = Stored(task[t].key, task[t].put)
       \/ UNCHANGED row
    /\ inflight' = Finished(t)
    /\ FillReturns(t)
    /\ UNCHANGED <<world, read, slowAt, exit>>

\* The batch flush, outside every flight; a refused batch is dropped.
WarmFlushes(t) ==
    /\ task[t].pc = "batched"
    /\ \/ row' = [row EXCEPT ![task[t].key] = [task[t].put EXCEPT !.pinned = TRUE]]
       \/ UNCHANGED row
    /\ task' = [task EXCEPT ![t] = IdleTask]
    /\ UNCHANGED <<world, read, req, inflight, slowAt, exit>>

\* Style sub-resource routes run in the request handler, so a disconnect
\* drops them wherever they are.
StyleStep(t) ==
    /\ t \in Styles
    /\ \/ /\ task[t] = IdleTask /\ ~shutdown
          /\ \E k \in StyleKeys : InflightLock(t, k, IdleTask)
       \/ /\ task[t].pc = "wait" /\ ~Locked(task[t].lock)
          /\ task' = [task EXCEPT ![t].pc = "held"]
          /\ UNCHANGED inflight
       \/ /\ task[t].pc = "held"
          /\ inflight' = Finished(t) /\ task' = [task EXCEPT ![t] = IdleTask]
       \/ /\ task[t].pc \in {"wait", "held"}
          /\ inflight' = Dropped(t) /\ task' = [task EXCEPT ![t] = IdleTask]
    /\ UNCHANGED <<world, row, read, req, slowAt, exit>>

-----------------------------------------------------------------------------
(* Shutdown                                                                *)

\* fill_task_count counts a fill until its guard is dropped.
Counted(t) == task[t].pc \notin {"idle", "notify"}
NoFills == \A t \in Fills : ~Counted(t)

\* FillTaskGuard::drop, after the count: notify_waiters wakes a registered
\* waiter and is lost on any other.
FillNotifies(t) ==
    /\ t \in Fills /\ task[t].pc = "notify"
    /\ task' = [task EXCEPT ![t] = IdleTask]
    /\ drain' = CASE drain = "armed" -> "woken" [] drain = "parked" -> "off" [] OTHER -> drain
    /\ UNCHANGED <<world, row, read, req, inflight, slowAt, shutdown>>

ShutdownRequested ==
    /\ ~shutdown /\ now <= ExitBy /\ shutdown' = TRUE
    /\ UNCHANGED <<world, row, read, req, task, inflight, slowAt, drain>>

\* Mutant: the count is looked at before the waiter is registered.
DrainStep_ChecksFirst ==
    /\ shutdown /\ \A h \in Handlers : req[h] = NoTask /\ read[h] = NoRead
    /\ drain' = CASE drain = "off" -> (IF NoFills THEN "done" ELSE "woken")
                  [] drain = "woken" -> "parked"
                  [] OTHER -> drain
    /\ drain' # drain
    /\ UNCHANGED <<world, row, read, req, task, inflight, slowAt, shutdown>>

\* wait_for_fills, once the server has finished its requests: register,
\* look at the count, wait.
DrainStep ==
    /\ shutdown /\ \A h \in Handlers : req[h] = NoTask /\ read[h] = NoRead
    /\ drain' = CASE drain = "off" -> "armed"
                  [] drain \in {"armed", "woken"} /\ NoFills -> "done"
                  [] drain = "armed" /\ ~NoFills -> "parked"
                  [] drain = "woken" /\ ~NoFills -> "off"
                  [] OTHER -> drain
    /\ drain' # drain
    /\ UNCHANGED <<world, row, read, req, task, inflight, slowAt, shutdown>>

-----------------------------------------------------------------------------
(* The world                                                               *)

\* Time passes; the upstream changes; a config push changes the source; an
\* eviction or sweep takes an unpinned row, a region delete unpins one.
Tick == now < MaxTime /\ now' = now + 1 /\ UNCHANGED <<current, superseded, volatile>>
UpstreamChanges ==
    /\ current < MaxVersion /\ current' = current + 1
    /\ superseded' = [superseded EXCEPT ![current] = now]
    /\ UNCHANGED <<now, volatile>>
ConfigPush == ~volatile /\ volatile' = TRUE /\ UNCHANGED <<now, current, superseded>>

WorldNext ==
    /\ Tick \/ UpstreamChanges \/ ConfigPush
    /\ UNCHANGED <<row, read, req, task, inflight, slowAt, exit>>

Evict(k) ==
    /\ row[k] # NoRow
    /\ row' = [row EXCEPT ![k] = IF @.pinned THEN [@ EXCEPT !.pinned = FALSE] ELSE NoRow]
    /\ UNCHANGED <<world, read, req, task, inflight, slowAt, exit>>

-----------------------------------------------------------------------------
(* The specification                                                       *)

FetchInit ==
    /\ now = 0 /\ current = 0 /\ superseded = [v \in Versions |-> 0]
    /\ volatile = FALSE
    /\ row \in [Keys -> {NoRow, Legacy}]
    /\ read = [h \in Handlers |-> NoRead]
    /\ req = [h \in Handlers |-> NoTask]
    /\ task = [t \in Tasks |-> IdleTask]
    /\ inflight = [k \in AllKeys |-> NoLock]
    /\ slowAt = Never
    /\ shutdown = FALSE /\ drain = "off"

TaskStep(t) ==
    \/ FillLocks(t) \/ FetchTimesOut(t)
    \/ FillAnswered(t) \/ FillStores(t) \/ FillNotifies(t)
    \/ WarmAnswered(t) \/ WarmFlushes(t)
Acquires(t) == FillAcquires(t) \/ FillRechecks(t) \/ WarmRechecks(t)

FetchNext ==
    \/ \E h \in Handlers, k \in Keys : GetBegins(h, k)
    \/ \E h \in Handlers : GetFresh(h) \/ GetStaleSlow(h) \/ GetAndAwait(h) \/ ClientGone(h)
    \/ \E t \in Tasks : TaskStep(t) \/ Acquires(t) \/ StyleStep(t)
    \/ \E t \in Warms, k \in Keys : WarmBegins(t, k)
    \/ \E k \in Keys : Evict(k)
    \/ WorldNext \/ ShutdownRequested \/ DrainStep

FetchSpec == FetchInit /\ [][FetchNext]_fetchVars

-----------------------------------------------------------------------------
(* Properties                                                              *)

\* Single flight: fills and warm tasks never fetch or store the same tile at
\* once, however joining, finishing and dropped holders of the mutex meet.
SingleFlight ==
    \A s, t \in Tasks : s # t /\ {task[s].pc, task[t].pc} \subseteq Holding => task[s].key # task[t].key

\* The last time a version was current.
LastCurrent(v) == IF v = current THEN now ELSE superseded[v]

\* A row's fetch time is honest: the upstream had exactly these bytes when
\* the row says they were fetched or confirmed, also after a 304 that raced
\* a warm flush or an eviction, so a tile served as fresh is fresh.
HonestFreshness ==
    \A k \in Keys : IsSafe(row[k]) => LastCurrent(row[k].ver) >= row[k].at

\* A tile is refused for want of in-flight keys only when that many flights
\* are alive: handlers that were dropped use up no admission.
RefusedOnlyWhenFull ==
    [][\A t \in Fills :
         task[t].pc = "spawned" /\ task'[t].pc = "notify" => Cardinality(LiveKeys) >= MaxInflightKeys]_fetchVars

\* The content was the upstream's less than a TTL ago.
WithinTtl(tile) == IsSafe(tile) => now - LastCurrent(tile.ver) < TtlSecs
\* The tile a failed fetch may fall back to.
Fallback(t) == IF task[t].tile # NoRow THEN task[t].tile ELSE row[task[t].key]

\* What a time-dynamic source gave out is never older than its TTL: inline,
\* when the source was one as the request read it; from a fill, when it was
\* one as the fill got the mutex, whatever the request had read before the
\* wait.  Fresh, coalesced, refreshed and stale answers, pinned or not.
NeverPastWindow ==
    [][/\ \A h \in Handlers :
            (GetFresh(h) \/ GetStaleSlow(h)) /\ read[h].vol => WithinTtl(Asked(h))
       /\ \A t \in Fills : task[t].under =>
            /\ task[t].pc = "acquired" /\ task'[t].pc = "notify" => WithinTtl(row[task[t].key])
            /\ task[t].pc = "fetch" /\ task'[t].pc = "store" =>
                 /\ task'[t].out = "fresh" => WithinTtl(task'[t].put)
                 /\ task'[t].out = "stale" => WithinTtl(Fallback(t))]_fetchVars

\* The shutdown drain misses no wake-up: it never sleeps on a count of zero
\* with no notification to come.
NoLostWakeup ==
    drain = "parked" /\ NoFills => \E t \in Fills : task[t].pc = "notify"

=============================================================================

--------------------------- MODULE FetcherProofs ---------------------------
(***************************************************************************)
(* The live tile path for any number of tiles, tasks, requests, versions   *)
(* and any windows: one flight per key, honest fetch times, no refusal     *)
(* below the cap, no wake-up lost by the drain.                            *)
(***************************************************************************)
EXTENDS Fetcher, TLAPS

-----------------------------------------------------------------------------
(* Types                                                                   *)

TaskPcs == {"idle", "spawned", "wait", "batched", "notify"} \cup Holding
TaskRecs ==
    [pc : TaskPcs, key : AllKeys \cup {NoRow}, lock : Locks \cup {NoLock},
     tile : TileRecs \cup {NoRow}, from : BOOLEAN, under : BOOLEAN, vol : BOOLEAN, retried : BOOLEAN,
     put : TileRecs \cup {NoRow}, out : {"none", "fresh", "empty", "stale", "unavailable"}]

FetchTypeOK ==
    /\ now \in Nat /\ current \in Nat /\ volatile \in BOOLEAN
    /\ superseded \in [Versions -> Nat]
    /\ row \in [Keys -> TileRecs \cup {NoRow}]
    /\ task \in [Tasks -> TaskRecs]
    /\ inflight \in [AllKeys -> Locks \cup {NoLock, Dead}]

\* Which steps the three kinds of task take, and on which keys.
KindOK(t, rec) ==
    /\ t \in Fills => /\ rec.pc \in {"idle", "spawned", "wait", "acquired", "fetch", "store", "notify"}
                      /\ rec.pc \notin {"idle", "notify"} => rec.key \in Keys
    /\ t \in Warms => /\ rec.pc \in {"idle", "wait", "fetch", "batched"}
                      /\ rec.pc # "idle" => rec.key \in Keys
                      /\ rec.pc = "batched" => rec.put \in TileRecs
    /\ t \in Styles => rec.pc \in {"idle", "wait", "held"}

KindInv == \A t \in Tasks : KindOK(t, task[t])

-----------------------------------------------------------------------------
(* The flight                                                              *)

\* A task has a mutex exactly while it waits for it or holds it, and it is
\* the one the map has for its key.
HolderInv ==
    \A t \in Tasks :
        /\ task[t].lock \in Locks <=> task[t].pc \in {"wait"} \cup Holding
        /\ task[t].lock \in Locks => task[t].key \in AllKeys /\ inflight[task[t].key] = task[t].lock

\* A live entry of the map has a task behind it.
EntryInv ==
    \A k \in AllKeys : inflight[k] \in Locks =>
        \E t \in Tasks : task[t].lock = inflight[k] /\ task[t].key = k

\* A mutex serves one key and admits one task.
MutexInv ==
    \A s, t \in Tasks : task[s].lock = task[t].lock /\ task[s].lock \in Locks =>
        /\ task[s].key = task[t].key
        /\ {task[s].pc, task[t].pc} \subseteq Holding => s = t

FlightInv == HolderInv /\ EntryInv /\ MutexInv

-----------------------------------------------------------------------------
(* Freshness                                                               *)

\* Tiles whose version the upstream had at the time they carry.
Honest ==
    {x \in TileRecs \cup {NoRow} :
        x \in TileRecs /\ x.kind = "ok" =>
            x.ver \in Versions /\ x.ver <= current /\ LastCurrent(x.ver) >= x.at}

HonestInv ==
    /\ current <= MaxVersion /\ \A v \in Versions : superseded[v] <= now
    /\ \A k \in Keys : row[k] \in Honest
    /\ \A t \in Tasks : task[t].tile \in Honest /\ task[t].put \in Honest

FetchInv == FetchTypeOK /\ KindInv /\ FlightInv /\ HonestInv /\ NoLostWakeup

\* What a request has read of its source.
ReadInv == read \in [Handlers -> [key : Keys, vol : BOOLEAN] \cup {NoRead}]

\* The windows of a fill are no older than its mutex: a source that was
\* time-dynamic then is so now, and was when the windows were read.
WindowOK(rec) == rec.under => volatile /\ (rec.pc = "fetch" => rec.vol)
WindowInv == \A t \in Fills : WindowOK(task[t])

-----------------------------------------------------------------------------
(* The three things a step does to the flight                              *)

LEMMA TypesOf ==
    ASSUME FetchTypeOK, NEW t \in Tasks
    PROVE  /\ task[t] \in TaskRecs /\ task[t].pc \in TaskPcs /\ task[t].lock \in Locks \cup {NoLock}
           /\ task[t].tile \in TileRecs \cup {NoRow} /\ task[t].put \in TileRecs \cup {NoRow}
           /\ NoLock \notin Locks /\ Dead \notin Locks
BY FetcherAssumption DEF FetchTypeOK, TaskRecs, FetcherAssumption

\* A task goes on with the mutex it has, or takes the one it waits for.
LEMMA LocalStep ==
    ASSUME FetchTypeOK, FlightInv, NEW t \in Tasks, NEW rec \in TaskRecs,
           task' = [task EXCEPT ![t] = rec],
           rec.lock = task[t].lock, rec.lock \in Locks => rec.key = task[t].key,
           rec.lock \in Locks <=> rec.pc \in {"wait"} \cup Holding,
           rec.pc \in Holding => task[t].pc \in Holding \/ ~Locked(task[t].lock),
           \A k \in AllKeys : inflight'[k] = inflight[k] \/ (inflight[k] = Dead /\ inflight'[k] = NoLock)
    PROVE  FlightInv'
<1>1. /\ task'[t] = rec /\ \A s \in Tasks : s # t => task'[s] = task[s]
      /\ Dead \notin Locks /\ NoLock \notin Locks
  BY TypesOf DEF FetchTypeOK
<1>2. \A s \in Tasks : task'[s].lock = task[s].lock /\ (task'[s].lock \in Locks => task'[s].key = task[s].key)
  BY <1>1
<1>3. \A k \in AllKeys : inflight'[k] \in Locks \/ inflight[k] \in Locks => inflight'[k] = inflight[k]
  BY <1>1
<1>4. HolderInv'
  BY <1>1, <1>2, <1>3 DEF FlightInv, HolderInv
<1>5. EntryInv'
  BY <1>2, <1>3 DEF FlightInv, EntryInv
<1>6. MutexInv'
  <2> SUFFICES ASSUME NEW s \in Tasks, NEW u \in Tasks, task'[s].lock = task'[u].lock, task'[s].lock \in Locks
               PROVE  /\ task'[s].key = task'[u].key
                      /\ {task'[s].pc, task'[u].pc} \subseteq Holding => s = u
    BY DEF MutexInv
  <2>1. task'[s].key = task'[u].key
    BY <1>2 DEF FlightInv, MutexInv
  <2>2. CASE task[t].pc \in Holding \/ rec.pc \notin Holding
    BY <1>1, <1>2, <2>2 DEF FlightInv, MutexInv
  <2>3. CASE ~Locked(task[t].lock)
    BY <1>1, <1>2, <2>3 DEF FlightInv, MutexInv, Locked, Holders, Holding
  <2> QED BY <2>1, <2>2, <2>3
<1> QED BY <1>4, <1>5, <1>6 DEF FlightInv

\* A mutex nobody holds is the map's entry for no key.
LEMMA UnusedLockFact ==
    ASSUME FetchTypeOK, FlightInv, NEW t \in Tasks, task[t].lock \notin Locks
    PROVE  /\ UnusedLock \in Locks /\ \A s \in Tasks : task[s].lock # UnusedLock
           /\ \A k \in AllKeys : inflight[k] # UnusedLock
<1> DEFINE held == [s \in Tasks |-> task[s].lock]
<1>1. held \in [Tasks -> Locks \cup {NoLock}] /\ held[t] = NoLock
  BY TypesOf
<1>2. \E l \in Locks : \A s \in Tasks : held[s] # l
  BY <1>1, LocksAssumption DEF LocksAssumption
<1>3. \E l \in Locks : Holders(l) = {}
  BY <1>2 DEF Holders
<1>4. UnusedLock \in Locks /\ Holders(UnusedLock) = {}
  BY <1>3 DEF UnusedLock
<1>5. \A s \in Tasks : task[s].lock # UnusedLock
  BY <1>4 DEF Holders
<1> QED BY <1>4, <1>5 DEF FlightInv, EntryInv

\* What a task without a mutex becomes: a waiter, or refused at the cap.
Joins(t, k, refused, rec) ==
    \/ rec = refused /\ Cardinality(LiveKeys) >= MaxInflightKeys
    \/ /\ rec.pc = "wait" /\ rec.key = k /\ rec.lock \in Locks
       /\ rec.tile = NoRow /\ rec.put = NoRow

\* A task without a mutex joins a flight, starts one or is refused.
LEMMA JoinStep ==
    ASSUME FetchTypeOK, FlightInv, NEW t \in Tasks, NEW k \in AllKeys, NEW refused \in TaskRecs,
           task[t].lock \notin Locks, InflightLock(t, k, refused),
           refused.lock = NoLock, refused.pc \notin {"wait"} \cup Holding
    PROVE  /\ FlightInv' /\ inflight' \in [AllKeys -> Locks \cup {NoLock, Dead}]
           /\ \E rec \in TaskRecs : task' = [task EXCEPT ![t] = rec] /\ Joins(t, k, refused, rec)
<1> DEFINE waiting(l) == [IdleTask EXCEPT !.pc = "wait", !.key = k, !.lock = l, !.from = task[t].from]
           map == [Purged EXCEPT ![k] = NoLock]
<1>1. /\ task \in [Tasks -> TaskRecs] /\ NoLock \notin Locks /\ Dead \notin Locks
      /\ inflight \in [AllKeys -> Locks \cup {NoLock, Dead}]
  BY TypesOf DEF FetchTypeOK
<1>2. ASSUME NEW l \in Locks
      PROVE  /\ waiting(l) \in TaskRecs /\ waiting(l).pc = "wait" /\ waiting(l).key = k /\ waiting(l).lock = l
             /\ waiting(l).tile = NoRow /\ waiting(l).put = NoRow
  BY <1>1 DEF IdleTask, TaskRecs, TaskPcs
<1>3. /\ map \in [AllKeys -> Locks \cup {NoLock}]
      /\ inflight[k] \notin Locks => \A q \in AllKeys : inflight[q] \in Locks => map[q] = inflight[q]
      /\ inflight[k] \notin Locks => \A q \in AllKeys : map[q] \in Locks => map[q] = inflight[q]
  BY <1>1 DEF Purged
<1>4. inflight[k] \notin Locks => Occupied(map) = LiveKeys
  BY <1>1, <1>3 DEF Occupied, LiveKeys
<1> HIDE DEF waiting, map
<1>5. CASE inflight[k] \in Locks
  <2>1. task' = [task EXCEPT ![t] = waiting(inflight[k])] /\ UNCHANGED inflight
    BY <1>5 DEF InflightLock, waiting
  <2>2. /\ task'[t] = waiting(inflight[k]) /\ \A s \in Tasks : s # t => task'[s] = task[s]
    BY <1>1, <2>1
  <2>3. \A s \in Tasks : task[s].lock = inflight[k] => task[s].key = k
    BY <1>5 DEF FlightInv, EntryInv, MutexInv
  <2>4. HolderInv' /\ EntryInv'
    BY <1>2, <1>5, <2>1, <2>2 DEF FlightInv, HolderInv, EntryInv, Holding
  <2>5. MutexInv'
    BY <1>2, <1>5, <2>2, <2>3 DEF FlightInv, MutexInv, Holding
  <2> QED BY <1>1, <1>2, <1>5, <2>1, <2>4, <2>5 DEF FlightInv, Joins
<1>6. CASE /\ inflight[k] \notin Locks /\ task' = [task EXCEPT ![t] = waiting(UnusedLock)]
           /\ inflight' = [map EXCEPT ![k] = UnusedLock]
  <2>1. PICK l \in Locks : /\ task' = [task EXCEPT ![t] = waiting(l)] /\ inflight' = [map EXCEPT ![k] = l]
                           /\ \A s \in Tasks : task[s].lock # l
                           /\ \A q \in AllKeys : inflight[q] # l
    BY <1>6, UnusedLockFact
  <2>2. /\ task'[t] = waiting(l) /\ \A s \in Tasks : s # t => task'[s] = task[s]
        /\ inflight'[k] = l /\ \A q \in AllKeys : q # k => inflight'[q] = map[q]
    BY <1>1, <1>3, <2>1
  <2>3. HolderInv'
    <3> SUFFICES ASSUME NEW s \in Tasks, s # t
                 PROVE  /\ task'[s].lock \in Locks <=> task'[s].pc \in {"wait"} \cup Holding
                        /\ task'[s].lock \in Locks => task'[s].key \in AllKeys /\ inflight'[task'[s].key] = task'[s].lock
      BY <1>2, <2>2 DEF HolderInv, Holding
    <3> QED BY <1>3, <1>6, <2>2 DEF FlightInv, HolderInv
  <2>4. EntryInv'
    BY <1>2, <1>3, <1>6, <2>1, <2>2 DEF FlightInv, EntryInv
  <2>5. MutexInv'
    BY <1>2, <2>1, <2>2 DEF FlightInv, MutexInv, Holding
  <2>6. inflight' \in [AllKeys -> Locks \cup {NoLock, Dead}]
    BY <1>3, <2>1
  <2> QED BY <1>2, <2>1, <2>3, <2>4, <2>5, <2>6 DEF FlightInv, Joins
<1>7. CASE /\ inflight[k] \notin Locks /\ task' = [task EXCEPT ![t] = refused] /\ inflight' = map
           /\ Cardinality(Occupied(map)) >= MaxInflightKeys
  <2>2. /\ task'[t] = refused /\ \A s \in Tasks : s # t => task'[s] = task[s]
    BY <1>1, <1>7
  <2>3. HolderInv'
    BY <1>1, <1>3, <1>7, <2>2 DEF FlightInv, HolderInv
  <2>4. EntryInv' /\ MutexInv'
    BY <1>1, <1>3, <1>7, <2>2 DEF FlightInv, EntryInv, MutexInv
  <2> QED BY <1>3, <1>4, <1>7, <2>3, <2>4 DEF FlightInv, Joins
<1> QED BY <1>5, <1>6, <1>7 DEF InflightLock, waiting, map

\* A task lets its mutex go; the entry stays while another task has it.
LEMMA LeaveStep ==
    ASSUME FetchTypeOK, FlightInv, NEW t \in Tasks, NEW rec \in TaskRecs, task[t].lock \in Locks,
           task' = [task EXCEPT ![t] = rec], rec.lock = NoLock, rec.pc \notin {"wait"} \cup Holding,
           inflight' = Finished(t) \/ inflight' = Dropped(t)
    PROVE  FlightInv' /\ inflight' \in [AllKeys -> Locks \cup {NoLock, Dead}]
<1>1. /\ task'[t] = rec /\ \A s \in Tasks : s # t => task'[s] = task[s]
      /\ Dead \notin Locks /\ NoLock \notin Locks
      /\ inflight \in [AllKeys -> Locks \cup {NoLock, Dead}]
      /\ task[t].key \in AllKeys /\ inflight[task[t].key] = task[t].lock
  BY TypesOf DEF FetchTypeOK, FlightInv, HolderInv
<1>2. CASE Holders(task[t].lock) = {t}
  <2>1. PICK gone \in {NoLock, Dead} : inflight' = [inflight EXCEPT ![task[t].key] = gone]
    BY <1>1, <1>2 DEF Finished, Dropped
  <2>2. \A s \in Tasks : s # t => task[s].lock # task[t].lock
    BY <1>2 DEF Holders
  <2>3. \A q \in AllKeys : q # task[t].key => inflight[q] # task[t].lock
    BY <1>1, <2>2 DEF FlightInv, EntryInv
  <2>4. HolderInv'
    BY <1>1, <2>1, <2>2 DEF FlightInv, HolderInv
  <2>5. EntryInv' /\ MutexInv'
    BY <1>1, <2>1, <2>2, <2>3 DEF FlightInv, EntryInv, MutexInv
  <2> QED BY <1>1, <2>1, <2>4, <2>5 DEF FlightInv
<1>3. CASE Holders(task[t].lock) # {t}
  <2>1. inflight' = inflight
    BY <1>3 DEF Finished, Dropped
  <2>2. PICK s \in Tasks : s # t /\ task[s].lock = task[t].lock
    BY <1>3 DEF Holders
  <2>3. task[s].key = task[t].key
    BY <2>2 DEF FlightInv, MutexInv
  <2>4. HolderInv' /\ MutexInv'
    BY <1>1, <2>1 DEF FlightInv, HolderInv, MutexInv
  <2>5. EntryInv'
    <3> SUFFICES ASSUME NEW q \in AllKeys, inflight[q] \in Locks
                 PROVE  \E u \in Tasks : task'[u].lock = inflight[q] /\ task'[u].key = q
      BY <2>1 DEF EntryInv
    <3>1. PICK u \in Tasks : task[u].lock = inflight[q] /\ task[u].key = q
      BY DEF FlightInv, EntryInv
    <3> QED BY <1>1, <2>2, <2>3, <3>1
  <2> QED BY <1>1, <2>1, <2>4, <2>5 DEF FlightInv
<1> QED BY <1>2, <1>3

-----------------------------------------------------------------------------
(* Frames                                                                  *)

LEMMA HonestSame == ASSUME UNCHANGED world PROVE Honest' = Honest
BY DEF world, Honest, LastCurrent

\* A step of one task that keeps the flight and stores honest tiles.
LEMMA TaskFrame ==
    ASSUME FetchInv, NEW t \in Tasks, NEW rec \in TaskRecs,
           task' = [task EXCEPT ![t] = rec], KindOK(t, rec), rec.tile \in Honest, rec.put \in Honest,
           UNCHANGED <<world, exit>>, FlightInv',
           row' \in [Keys -> TileRecs \cup {NoRow}], \A k \in Keys : row'[k] \in Honest,
           inflight' \in [AllKeys -> Locks \cup {NoLock, Dead}],
           t \in Fills => task[t].pc # "notify" /\ (rec.pc = "idle" => task[t].pc = "idle")
    PROVE  FetchInv'
<1>1. /\ task \in [Tasks -> TaskRecs] /\ task'[t] = rec /\ \A s \in Tasks : s # t => task'[s] = task[s]
      /\ Fills \subseteq Tasks
  BY DEF FetchInv, FetchTypeOK, Tasks
<1>2. FetchTypeOK'
  BY <1>1 DEF FetchInv, FetchTypeOK, world
<1>3. KindInv'
  BY <1>1 DEF FetchInv, KindInv, KindOK
<1>4. HonestInv'
  <2>1. \A s \in Tasks : task'[s].tile \in Honest' /\ task'[s].put \in Honest'
    BY <1>1, HonestSame DEF FetchInv, HonestInv
  <2>2. \A k \in Keys : row'[k] \in Honest'
    BY HonestSame
  <2> QED BY <2>1, <2>2 DEF FetchInv, HonestInv, world
<1>5. NoLostWakeup'
  BY <1>1 DEF FetchInv, NoLostWakeup, NoFills, Counted, exit
<1> QED BY <1>2, <1>3, <1>4, <1>5 DEF FetchInv

\* A step that leaves the tasks alone.
LEMMA OtherFrame ==
    ASSUME FetchInv, UNCHANGED <<world, task>>,
           row' \in [Keys -> TileRecs \cup {NoRow}], \A k \in Keys : row'[k] \in Honest,
           \A k \in AllKeys : inflight'[k] = inflight[k] \/ (inflight[k] = Dead /\ inflight'[k] = NoLock),
           inflight' \in [AllKeys -> Locks \cup {NoLock, Dead}],
           drain' = "parked" => drain = "parked" \/ ~NoFills
    PROVE  FetchInv'
<1>1. FetchTypeOK' /\ KindInv'
  BY DEF FetchInv, FetchTypeOK, KindInv, KindOK, world
<1>2. HonestInv'
  BY HonestSame DEF FetchInv, HonestInv, world
<1>3. FlightInv'
  <2>1. Dead \notin Locks /\ NoLock \notin Locks
    BY FetcherAssumption DEF FetcherAssumption
  <2> QED BY <2>1 DEF FetchInv, FlightInv, HolderInv, EntryInv, MutexInv
<1>4. NoLostWakeup'
  BY DEF FetchInv, NoLostWakeup, NoFills, Counted
<1> QED BY <1>1, <1>2, <1>3, <1>4 DEF FetchInv

\* A tile stays honest under another pin.
LEMMA HonestPin ==
    ASSUME NEW x \in TileRecs, x \in Honest, NEW b \in BOOLEAN
    PROVE  [x EXCEPT !.pinned = b] \in TileRecs /\ [x EXCEPT !.pinned = b] \in Honest
<1> DEFINE y == [x EXCEPT !.pinned = b]
<1>1. y \in TileRecs /\ y.kind = x.kind /\ y.ver = x.ver /\ y.at = x.at
  BY DEF TileRecs
<1> QED BY <1>1 DEF Honest

-----------------------------------------------------------------------------
(* Requests                                                                *)

LEMMA IdleFacts ==
    /\ IdleTask \in TaskRecs /\ IdleTask.pc = "idle" /\ IdleTask.lock = NoLock /\ IdleTask.tile = NoRow
    /\ IdleTask.put = NoRow /\ NoRow \in TileRecs \cup {NoRow}
BY DEF IdleTask, TaskRecs, TaskPcs

LEMMA RowFacts ==
    ASSUME FetchInv
    PROVE  /\ row \in [Keys -> TileRecs \cup {NoRow}] /\ \A k \in Keys : row[k] \in Honest
           /\ inflight \in [AllKeys -> Locks \cup {NoLock, Dead}]
           /\ FetchTypeOK /\ FlightInv /\ NoRow \in Honest
BY RowAssumption DEF FetchInv, HonestInv, FetchTypeOK, Honest, RowAssumption

LEMMA SpawnInv ==
    ASSUME FetchInv, ReadInv, NEW h \in Handlers, read[h] # NoRead, NEW t \in FreeFill, task' = Spawned(t, h),
           UNCHANGED <<world, row, exit>>,
           \A q \in AllKeys : inflight'[q] = inflight[q] \/ (inflight[q] = Dead /\ inflight'[q] = NoLock),
           inflight' \in [AllKeys -> Locks \cup {NoLock, Dead}]
    PROVE  FetchInv'
<1> DEFINE k == read[h].key
           rec == [IdleTask EXCEPT !.pc = "spawned", !.key = k, !.from = read[h].vol]
<1>k. k \in Keys /\ read[h].vol \in BOOLEAN
  BY DEF ReadInv
<1>1. t \in Tasks /\ t \in Fills /\ task[t] = IdleTask /\ t \notin Warms /\ t \notin Styles
  BY FetcherAssumption DEF FreeFill, Tasks, FetcherAssumption
<1>2. /\ rec \in TaskRecs /\ rec.pc = "spawned" /\ rec.key = k /\ rec.lock = NoLock /\ NoLock \notin Locks
      /\ rec.tile = NoRow /\ rec.put = NoRow
  BY <1>k, IdleFacts, FetcherAssumption DEF TaskRecs, TaskPcs, AllKeys, FetcherAssumption, IdleTask
<1>3. KindOK(t, rec)
  BY <1>k, <1>1, <1>2 DEF KindOK
<1>4. task' = [task EXCEPT ![t] = rec] /\ task[t].lock = NoLock /\ task[t].pc = "idle"
  BY <1>1, IdleFacts DEF Spawned
<1> HIDE DEF rec
<1>5. FlightInv'
  <2>1. /\ rec.pc \notin {"wait"} \cup Holding /\ rec.pc \notin Holding
        /\ rec.lock = task[t].lock /\ rec.lock \notin Locks
    BY <1>2, <1>4 DEF Holding
  <2>2. t \in Tasks /\ rec \in TaskRecs /\ task' = [task EXCEPT ![t] = rec] /\ FetchTypeOK /\ FlightInv
    BY <1>1, <1>2, <1>4, RowFacts
  <2> QED BY <2>1, <2>2, LocalStep
<1>6. NoRow \in Honest /\ row' \in [Keys -> TileRecs \cup {NoRow}] /\ \A q \in Keys : row'[q] \in Honest
  BY RowFacts
<1> QED BY <1>1, <1>2, <1>3, <1>4, <1>5, <1>6, TaskFrame

LEMMA GetStaleSlowInv ==
    ASSUME FetchInv, ReadInv, NEW h \in Handlers, GetStaleSlow(h) PROVE FetchInv'
<1>1. /\ \A q \in AllKeys : inflight'[q] = inflight[q] \/ (inflight[q] = Dead /\ inflight'[q] = NoLock)
      /\ inflight' \in [AllKeys -> Locks \cup {NoLock, Dead}]
  BY RowFacts DEF GetStaleSlow
<1>2. CASE \E t \in FreeFill : task' = Spawned(t, h)
  BY <1>1, <1>2, SpawnInv DEF GetStaleSlow
<1>3. CASE UNCHANGED task
  BY <1>1, <1>3, RowFacts, OtherFrame DEF GetStaleSlow, exit
<1> QED BY <1>2, <1>3 DEF GetStaleSlow

LEMMA GetAndAwaitInv ==
    ASSUME FetchInv, ReadInv, NEW h \in Handlers, GetAndAwait(h) PROVE FetchInv'
<1>1. CASE \E t \in FreeFill : task' = Spawned(t, h)
  BY <1>1, SpawnInv, RowFacts DEF GetAndAwait
<1>2. CASE UNCHANGED task
  BY <1>2, OtherFrame, RowFacts DEF GetAndAwait, exit
<1> QED BY <1>1, <1>2 DEF GetAndAwait

LEMMA GetBeginsInv == ASSUME FetchInv, NEW h \in Handlers, NEW k \in Keys, GetBegins(h, k) PROVE FetchInv'
BY OtherFrame, RowFacts DEF GetBegins, exit

LEMMA GetFreshInv == ASSUME FetchInv, NEW h \in Handlers, GetFresh(h) PROVE FetchInv'
BY OtherFrame, RowFacts DEF GetFresh, exit

LEMMA ClientGoneInv == ASSUME FetchInv, NEW h \in Handlers, ClientGone(h) PROVE FetchInv'
BY OtherFrame, RowFacts DEF ClientGone, exit

-----------------------------------------------------------------------------
(* Tasks                                                                   *)

\* A waiter is of its kind.
LEMMA FillLocksInv == ASSUME FetchInv, NEW t \in Tasks, FillLocks(t) PROVE FetchInv'
<1> DEFINE refused == [IdleTask EXCEPT !.pc = "notify"]
<1>1. /\ t \in Fills /\ t \notin Warms /\ t \notin Styles /\ task[t].pc = "spawned" /\ task[t].key \in Keys
      /\ task[t].key \in AllKeys /\ InflightLock(t, task[t].key, refused) /\ UNCHANGED <<world, row, exit>>
  BY FetcherAssumption DEF FillLocks, FetchInv, KindInv, KindOK, AllKeys, FetcherAssumption
<1>2. /\ refused \in TaskRecs /\ refused.lock = NoLock /\ refused.pc = "notify"
      /\ refused.tile = NoRow /\ refused.put = NoRow
  BY IdleFacts DEF TaskRecs, TaskPcs, IdleTask
<1>3. task[t].lock \notin Locks
  BY <1>1 DEF FetchInv, FlightInv, HolderInv, Holding
<1> HIDE DEF refused
<1>4. /\ FlightInv' /\ inflight' \in [AllKeys -> Locks \cup {NoLock, Dead}]
      /\ \E rec \in TaskRecs : task' = [task EXCEPT ![t] = rec] /\ Joins(t, task[t].key, refused, rec)
  BY <1>1, <1>2, <1>3, RowFacts, JoinStep DEF Holding
<1>5. PICK rec \in TaskRecs : task' = [task EXCEPT ![t] = rec] /\ Joins(t, task[t].key, refused, rec)
  BY <1>4
<1>6. /\ KindOK(t, rec) /\ rec.tile = NoRow /\ rec.put = NoRow /\ rec.pc # "idle"
  BY <1>1, <1>2, <1>5 DEF KindOK, Joins
<1> QED BY <1>1, <1>4, <1>5, <1>6, RowFacts, TaskFrame

\* The end of a fill: it keeps nothing and has yet to notify.
LEMMA NotifyFacts ==
    LET rec == [IdleTask EXCEPT !.pc = "notify"]
    IN  /\ rec \in TaskRecs /\ rec.pc = "notify" /\ rec.lock = NoLock /\ rec.tile = NoRow /\ rec.put = NoRow
BY DEF IdleTask, TaskRecs, TaskPcs

LEMMA FillReturnsInv ==
    ASSUME FetchInv, NEW t \in Fills, task[t].pc \in {"acquired", "store"},
           FillReturns(t), inflight' = Finished(t), UNCHANGED <<world, exit>>,
           row' \in [Keys -> TileRecs \cup {NoRow}], \A k \in Keys : row'[k] \in Honest
    PROVE  FetchInv'
<1> DEFINE rec == [IdleTask EXCEPT !.pc = "notify"]
<1>1. t \in Tasks /\ t \notin Warms /\ t \notin Styles
  BY FetcherAssumption DEF Tasks, FetcherAssumption
<1>2. /\ rec \in TaskRecs /\ rec.pc = "notify" /\ rec.lock = NoLock /\ rec.tile = NoRow /\ rec.put = NoRow
  BY NotifyFacts
<1>3. task' = [task EXCEPT ![t] = rec]
  BY DEF FillReturns
<1> HIDE DEF rec
<1>4. task[t].lock \in Locks
  BY <1>1 DEF FetchInv, FlightInv, HolderInv, Holding
<1>5. FlightInv' /\ inflight' \in [AllKeys -> Locks \cup {NoLock, Dead}]
  BY <1>1, <1>2, <1>3, <1>4, LeaveStep, RowFacts DEF Holding
<1>6. KindOK(t, rec)
  BY <1>1, <1>2 DEF KindOK
<1> QED BY <1>1, <1>2, <1>3, <1>5, <1>6, RowFacts, TaskFrame

LEMMA FillAcquiresInv == ASSUME FetchInv, NEW t \in Tasks, FillAcquires(t) PROVE FetchInv'
<1> DEFINE rec == [task[t] EXCEPT !.pc = "acquired", !.under = volatile]
<1>1. /\ t \in Fills /\ t \notin Warms /\ t \notin Styles /\ task[t].pc = "wait" /\ ~Locked(task[t].lock)
      /\ UNCHANGED <<world, row, inflight, exit>> /\ task' = [task EXCEPT ![t] = rec]
  BY FetcherAssumption DEF FillAcquires, FetcherAssumption
<1>2. /\ rec \in TaskRecs /\ rec.pc = "acquired" /\ rec.key = task[t].key /\ rec.lock = task[t].lock
      /\ rec.tile = task[t].tile /\ rec.put = task[t].put
  <2>1. volatile \in BOOLEAN /\ task[t] \in TaskRecs
    BY TypesOf DEF FetchInv, FetchTypeOK
  <2> QED BY ZenonT(30), <2>1 DEF TaskRecs, TaskPcs, Holding
<1> HIDE DEF rec
<1>3. FlightInv'
  <2>1. task[t].lock \in Locks
    BY <1>1 DEF FetchInv, FlightInv, HolderInv
  <2> QED BY <1>1, <1>2, <2>1, LocalStep DEF FetchInv, Holding
<1>4. KindOK(t, rec)
  BY <1>1, <1>2 DEF KindOK, FetchInv, KindInv
<1>5. rec.tile \in Honest /\ rec.put \in Honest
  BY <1>2 DEF FetchInv, HonestInv
<1> QED BY <1>1, <1>2, <1>3, <1>4, <1>5, TaskFrame, RowFacts

LEMMA FillRechecksInv == ASSUME FetchInv, NEW t \in Tasks, FillRechecks(t) PROVE FetchInv'
<1> DEFINE k == task[t].key
           rec == [task[t] EXCEPT !.pc = "fetch", !.from = FALSE, !.vol = Windows(t),
                                  !.tile = IF IsSafe(row[k]) THEN [row[k] EXCEPT !.pinned = FALSE] ELSE NoRow]
<1>1. /\ t \in Fills /\ t \notin Warms /\ t \notin Styles /\ task[t].pc = "acquired"
      /\ UNCHANGED <<world, row, exit>> /\ k \in Keys
  BY FetcherAssumption DEF FillRechecks, FetchInv, KindInv, KindOK, FetcherAssumption
<1>2. CASE inflight' = Finished(t) /\ FillReturns(t)
  BY <1>1, <1>2, FillReturnsInv, RowFacts
<1>3. CASE task' = [task EXCEPT ![t] = rec] /\ UNCHANGED inflight
  <2>1. (IF IsSafe(row[k]) THEN [row[k] EXCEPT !.pinned = FALSE] ELSE NoRow) \in (TileRecs \cup {NoRow}) \cap Honest
    <3>1. CASE IsSafe(row[k])
      <4>1. row[k] \in TileRecs /\ row[k] \in Honest
        BY <1>1, <3>1, RowFacts DEF IsSafe
      <4> QED BY <3>1, <4>1, HonestPin
    <3> QED BY <3>1, RowFacts
  <2>2. /\ rec \in TaskRecs /\ rec.pc = "fetch" /\ rec.key = k /\ rec.lock = task[t].lock
        /\ rec.tile \in Honest /\ rec.put = task[t].put
    <3>1. Windows(t) \in BOOLEAN /\ task[t] \in TaskRecs
      BY TypesOf DEF FetchInv, FetchTypeOK, Windows
    <3> QED BY ZenonT(30), <2>1, <3>1 DEF TaskRecs, TaskPcs, Holding
  <2> HIDE DEF rec
  <2>3. FlightInv'
    <3>1. task[t].lock \in Locks
      BY <1>1 DEF FetchInv, FlightInv, HolderInv, Holding
    <3> QED BY <1>1, <1>3, <2>2, <3>1, LocalStep DEF FetchInv, Holding
  <2>4. KindOK(t, rec)
    BY <1>1, <2>2 DEF KindOK
  <2>5. rec.put \in Honest
    BY <2>2 DEF FetchInv, HonestInv
  <2> QED BY <1>1, <1>3, <2>2, <2>3, <2>4, <2>5, TaskFrame, RowFacts
<1> QED BY <1>2, <1>3 DEF FillRechecks

\* pin_fresh_for_warm changes a pin at most.
LEMMA PinFreshFacts ==
    ASSUME FetchInv, NEW k \in Keys, PinFresh(k)
    PROVE  row' \in [Keys -> TileRecs \cup {NoRow}] /\ \A q \in Keys : row'[q] \in Honest
<1>1. row[k] \in TileRecs /\ row[k] \in Honest
  BY RowFacts DEF PinFresh, FreshForPin
<1>2. [row[k] EXCEPT !.pinned = TRUE] \in TileRecs /\ [row[k] EXCEPT !.pinned = TRUE] \in Honest
  BY <1>1, HonestPin
<1> QED BY <1>2, RowFacts DEF PinFresh

LEMMA WarmBeginsInv == ASSUME FetchInv, NEW t \in Warms, NEW k \in Keys, WarmBegins(t, k) PROVE FetchInv'
<1>1. /\ t \in Tasks /\ t \notin Fills /\ t \notin Styles /\ task[t] = IdleTask /\ k \in AllKeys
      /\ UNCHANGED <<world, exit>>
  BY FetcherAssumption DEF WarmBegins, Tasks, AllKeys, FetcherAssumption
<1>2. CASE PinFresh(k) /\ UNCHANGED <<task, inflight>>
  BY <1>1, <1>2, PinFreshFacts, RowFacts, OtherFrame DEF exit
<1>3. CASE InflightLock(t, k, IdleTask) /\ UNCHANGED row
  <2>1. task[t].lock \notin Locks
    BY <1>1, IdleFacts, FetcherAssumption DEF FetcherAssumption
  <2>2. /\ FlightInv' /\ inflight' \in [AllKeys -> Locks \cup {NoLock, Dead}]
        /\ \E rec \in TaskRecs : task' = [task EXCEPT ![t] = rec] /\ Joins(t, k, IdleTask, rec)
    BY <1>1, <1>3, <2>1, IdleFacts, RowFacts, JoinStep DEF Holding
  <2>3. PICK rec \in TaskRecs : task' = [task EXCEPT ![t] = rec] /\ Joins(t, k, IdleTask, rec)
    BY <2>2
  <2>4. KindOK(t, rec) /\ rec.tile = NoRow /\ rec.put = NoRow
    BY <1>1, <2>3, IdleFacts DEF KindOK, Joins
  <2> QED BY <1>1, <1>3, <2>2, <2>3, <2>4, RowFacts, TaskFrame
<1> QED BY <1>2, <1>3 DEF WarmBegins

LEMMA WarmRechecksInv == ASSUME FetchInv, NEW t \in Tasks, WarmRechecks(t) PROVE FetchInv'
<1> DEFINE k == task[t].key
           rec == [task[t] EXCEPT !.pc = "fetch"]
<1>1. /\ t \in Warms /\ t \notin Fills /\ t \notin Styles /\ task[t].pc = "wait" /\ ~Locked(task[t].lock)
      /\ UNCHANGED <<world, exit>> /\ k \in Keys /\ task[t].lock \in Locks
  BY FetcherAssumption DEF WarmRechecks, FetchInv, KindInv, KindOK, FlightInv, HolderInv, FetcherAssumption
<1>2. CASE PinFresh(k) /\ inflight' = Finished(t) /\ task' = [task EXCEPT ![t] = IdleTask]
  <2>1. FlightInv' /\ inflight' \in [AllKeys -> Locks \cup {NoLock, Dead}]
    BY <1>1, <1>2, IdleFacts, RowFacts, LeaveStep DEF Holding
  <2>2. KindOK(t, IdleTask)
    BY <1>1, IdleFacts DEF KindOK
  <2> QED BY <1>1, <1>2, <2>1, <2>2, IdleFacts, RowFacts, PinFreshFacts, TaskFrame
<1>3. CASE task' = [task EXCEPT ![t] = rec] /\ UNCHANGED <<row, inflight>>
  <2>1. /\ rec \in TaskRecs /\ rec.pc = "fetch" /\ rec.key = k /\ rec.lock = task[t].lock
        /\ rec.tile = task[t].tile /\ rec.put = task[t].put
    BY TypesOf DEF FetchInv, TaskRecs, TaskPcs, Holding
  <2> HIDE DEF rec
  <2>2. FlightInv'
    BY <1>1, <1>3, <2>1, LocalStep DEF FetchInv, Holding
  <2>3. KindOK(t, rec)
    BY <1>1, <2>1 DEF KindOK
  <2>4. rec.tile \in Honest /\ rec.put \in Honest
    BY <2>1 DEF FetchInv, HonestInv
  <2> QED BY <1>1, <1>3, <2>1, <2>2, <2>3, <2>4, RowFacts, TaskFrame
<1> QED BY <1>2, <1>3 DEF WarmRechecks

LEMMA FetchTimesOutInv == ASSUME FetchInv, NEW t \in Tasks, FetchTimesOut(t) PROVE FetchInv'
<1> DEFINE rec == [task[t] EXCEPT !.retried = TRUE]
<1>1. task[t].pc = "fetch" /\ task' = [task EXCEPT ![t] = rec] /\ UNCHANGED <<world, row, req, inflight, exit>>
  BY DEF FetchTimesOut
<1>2. /\ rec \in TaskRecs /\ rec.pc = "fetch" /\ rec.key = task[t].key /\ rec.lock = task[t].lock
      /\ rec.tile = task[t].tile /\ rec.put = task[t].put
  BY <1>1, TypesOf DEF FetchInv, TaskRecs
<1> HIDE DEF rec
<1>3. FlightInv'
  <2>1. task[t].lock \in Locks
    BY <1>1 DEF FetchInv, FlightInv, HolderInv, Holding
  <2> QED BY <1>1, <1>2, <2>1, LocalStep DEF FetchInv, Holding
<1>4. KindOK(t, rec)
  BY <1>1, <1>2 DEF KindOK, FetchInv, KindInv
<1>5. rec.tile \in Honest /\ rec.put \in Honest
  BY <1>2 DEF FetchInv, HonestInv
<1> QED BY <1>1, <1>2, <1>3, <1>4, <1>5, RowFacts, TaskFrame

\* A 200 is of the current version, now; a 404 is no tile.
LEMMA AnswerFacts ==
    ASSUME FetchInv
    PROVE  /\ Tile(current) \in TileRecs /\ Tile(current) \in Honest
           /\ Negative \in TileRecs /\ Negative \in Honest
<1>1. Tile(current) \in TileRecs /\ Negative \in TileRecs
  BY DEF FetchInv, FetchTypeOK, Tile, Negative, TileRecs
<1>2. current \in Versions /\ now \in Nat /\ current \in Nat
  BY FetcherAssumption DEF FetchInv, FetchTypeOK, HonestInv, Versions, FetcherAssumption
<1> QED BY <1>1, <1>2 DEF Honest, Tile, Negative, LastCurrent

\* A 304 vouches for the version it names, which is the current one.
LEMMA RefreshedFacts ==
    ASSUME FetchInv, NEW t \in Tasks, task[t].tile # NoRow, task[t].tile.ver = current
    PROVE  Refreshed(t) \in TileRecs /\ Refreshed(t) \in Honest
<1>1. task[t].tile \in TileRecs
  BY TypesOf DEF FetchInv
<1>2. current \in Versions /\ now \in Nat /\ current \in Nat
  BY FetcherAssumption DEF FetchInv, FetchTypeOK, HonestInv, Versions, FetcherAssumption
<1>3. /\ Refreshed(t) \in TileRecs /\ Refreshed(t).ver = current /\ Refreshed(t).at = now
  BY <1>1, <1>2 DEF Refreshed, TileRecs
<1> QED BY <1>2, <1>3 DEF Honest, LastCurrent

Outcomes == {"none", "fresh", "empty", "stale", "unavailable"}

LEMMA DecisionFacts ==
    ASSUME FetchInv, NEW t \in Tasks, NEW answer \in Answers(t)
    PROVE  /\ Decision(t, answer).put \in TileRecs \cup {NoRow} /\ Decision(t, answer).put \in Honest
           /\ Decision(t, answer).out \in Outcomes
<1>1. CASE answer = "200"
  BY <1>1, AnswerFacts DEF Decision, Outcomes
<1>2. CASE answer = "304"
  BY <1>2, RefreshedFacts DEF Decision, Answers, Outcomes
<1>3. CASE answer = "404"
  BY <1>3, AnswerFacts, RowFacts DEF Decision, Unanswered, Outcomes
<1>4. CASE answer \in {"bad200", "500", "none"}
  BY <1>4, RowFacts DEF Decision, Unanswered, Outcomes
<1> QED BY <1>1, <1>2, <1>3, <1>4 DEF Answers

LEMMA FillAnsweredInv == ASSUME FetchInv, NEW t \in Tasks, FillAnswered(t) PROVE FetchInv'
<1>1. PICK answer \in Answers(t) :
        task' = [task EXCEPT ![t] = [IdleTask EXCEPT !.pc = "store", !.key = task[t].key, !.lock = task[t].lock,
                                       !.put = Decision(t, answer).put, !.out = Decision(t, answer).out]]
  BY DEF FillAnswered
<1>2. /\ t \in Fills /\ t \notin Warms /\ t \notin Styles /\ task[t].pc = "fetch" /\ task[t].key \in Keys
      /\ UNCHANGED <<world, row, inflight, exit>> /\ task[t].lock \in Locks
  BY FetcherAssumption DEF FillAnswered, FetchInv, KindInv, KindOK, FlightInv, HolderInv, Holding, FetcherAssumption
<1> DEFINE put == Decision(t, answer).put
           out == Decision(t, answer).out
           rec == [IdleTask EXCEPT !.pc = "store", !.key = task[t].key, !.lock = task[t].lock,
                                   !.put = put, !.out = out]
<1>3. put \in TileRecs \cup {NoRow} /\ put \in Honest /\ out \in Outcomes
  BY DecisionFacts
<1> HIDE DEF put, out
<1>4. /\ rec \in TaskRecs /\ rec.pc = "store" /\ rec.key = task[t].key /\ rec.lock = task[t].lock
      /\ rec.tile = NoRow /\ rec.put = put
  BY <1>2, <1>3 DEF IdleTask, TaskRecs, TaskPcs, Holding, Outcomes, AllKeys
<1>5. task' = [task EXCEPT ![t] = rec]
  BY <1>1 DEF put, out
<1> HIDE DEF rec
<1>6. FlightInv'
  BY <1>2, <1>4, <1>5, LocalStep, RowFacts DEF Holding
<1>7. KindOK(t, rec)
  BY <1>2, <1>4 DEF KindOK
<1> QED BY <1>2, <1>3, <1>4, <1>5, <1>6, <1>7, RowFacts, TaskFrame

LEMMA WarmAnsweredInv == ASSUME FetchInv, NEW t \in Tasks, WarmAnswered(t) PROVE FetchInv'
<1> DEFINE batched(x) == [IdleTask EXCEPT !.pc = "batched", !.key = task[t].key, !.put = x]
<1>1. /\ t \in Warms /\ t \notin Fills /\ t \notin Styles /\ task[t].pc = "fetch" /\ task[t].key \in Keys
      /\ UNCHANGED <<world, row, exit>> /\ task[t].lock \in Locks /\ inflight' = Finished(t)
  BY FetcherAssumption DEF WarmAnswered, FetchInv, KindInv, KindOK, FlightInv, HolderInv, Holding, FetcherAssumption
<1>2. PICK rec \in {IdleTask, batched(Tile(current)), batched(Negative)} : task' = [task EXCEPT ![t] = rec]
  BY DEF WarmAnswered
<1>3. ASSUME NEW x \in TileRecs
      PROVE  /\ batched(x) \in TaskRecs /\ batched(x).pc = "batched" /\ batched(x).key = task[t].key
             /\ batched(x).lock = NoLock /\ batched(x).tile = NoRow /\ batched(x).put = x
  BY <1>1 DEF IdleTask, TaskRecs, TaskPcs, AllKeys
<1> HIDE DEF batched
<1>4. /\ rec \in TaskRecs /\ rec.lock = NoLock /\ rec.pc \in {"idle", "batched"}
      /\ rec.tile \in Honest /\ rec.put \in Honest
      /\ rec.pc = "batched" => rec.key = task[t].key /\ rec.put \in TileRecs
  BY <1>2, <1>3, IdleFacts, AnswerFacts, RowFacts
<1>5. FlightInv' /\ inflight' \in [AllKeys -> Locks \cup {NoLock, Dead}]
  BY <1>1, <1>2, <1>4, LeaveStep, RowFacts DEF Holding
<1>6. KindOK(t, rec)
  BY <1>1, <1>4 DEF KindOK
<1> QED BY <1>1, <1>2, <1>4, <1>5, <1>6, RowFacts, TaskFrame

LEMMA FillStoresInv == ASSUME FetchInv, NEW t \in Tasks, FillStores(t) PROVE FetchInv'
<1> DEFINE k == task[t].key
           pinned == row[k] # NoRow /\ row[k].pinned
<1>1. /\ t \in Fills /\ task[t].pc = "store" /\ k \in Keys /\ UNCHANGED <<world, exit>>
      /\ inflight' = Finished(t) /\ FillReturns(t)
  BY DEF FillStores, FetchInv, KindInv, KindOK
<1>2. row' \in [Keys -> TileRecs \cup {NoRow}] /\ \A q \in Keys : row'[q] \in Honest
  <2>1. CASE UNCHANGED row
    BY <2>1, RowFacts
  <2>2. CASE task[t].put # NoRow /\ row' = Stored(k, task[t].put)
    <3>1. task[t].put \in TileRecs /\ task[t].put \in Honest
      BY <2>2, TypesOf DEF FetchInv, HonestInv
    <3>2. pinned \in BOOLEAN
      OBVIOUS
    <3> HIDE DEF pinned
    <3>3. [task[t].put EXCEPT !.pinned = pinned] \in TileRecs /\ [task[t].put EXCEPT !.pinned = pinned] \in Honest
      BY <3>1, <3>2, HonestPin
    <3>4. row' = [row EXCEPT ![k] = [task[t].put EXCEPT !.pinned = pinned]]
      BY <2>2 DEF Stored, pinned
    <3> QED BY <1>1, <3>3, <3>4, RowFacts
  <2> QED BY <2>1, <2>2 DEF FillStores
<1> QED BY <1>1, <1>2, FillReturnsInv

LEMMA WarmFlushesInv == ASSUME FetchInv, NEW t \in Tasks, WarmFlushes(t) PROVE FetchInv'
<1>1. /\ t \notin Fills /\ task[t].pc = "batched" /\ task' = [task EXCEPT ![t] = IdleTask]
      /\ UNCHANGED <<world, inflight, exit>> /\ task[t].lock = NoLock
      /\ t \in Warms /\ t \notin Styles /\ task[t].key \in Keys /\ task[t].put \in TileRecs
  BY TypesOf DEF WarmFlushes, FetchInv, KindInv, KindOK, FlightInv, HolderInv, Holding, Tasks
<1>2. row' \in [Keys -> TileRecs \cup {NoRow}] /\ \A q \in Keys : row'[q] \in Honest
  <2>1. /\ [task[t].put EXCEPT !.pinned = TRUE] \in TileRecs
        /\ [task[t].put EXCEPT !.pinned = TRUE] \in Honest
    BY <1>1, HonestPin DEF FetchInv, HonestInv
  <2> QED BY <1>1, <2>1, RowFacts DEF WarmFlushes
<1>3. FlightInv'
  BY <1>1, IdleFacts, RowFacts, TypesOf, LocalStep DEF Holding
<1>4. KindOK(t, IdleTask)
  BY IdleFacts DEF KindOK
<1> QED BY <1>1, <1>2, <1>3, <1>4, IdleFacts, RowFacts, TaskFrame

LEMMA StyleStepInv == ASSUME FetchInv, NEW t \in Tasks, StyleStep(t) PROVE FetchInv'
<1>1. t \in Styles /\ t \notin Fills /\ t \notin Warms /\ UNCHANGED <<world, row, exit>>
  BY FetcherAssumption DEF StyleStep, FetcherAssumption
<1>2. CASE task[t] = IdleTask /\ \E k \in StyleKeys : InflightLock(t, k, IdleTask)
  <2>1. PICK k \in StyleKeys : InflightLock(t, k, IdleTask)
    BY <1>2
  <2>2. task[t].lock \notin Locks /\ k \in AllKeys
    BY <1>2, IdleFacts, FetcherAssumption DEF FetcherAssumption, AllKeys
  <2>3. /\ FlightInv' /\ inflight' \in [AllKeys -> Locks \cup {NoLock, Dead}]
        /\ \E rec \in TaskRecs : task' = [task EXCEPT ![t] = rec] /\ Joins(t, k, IdleTask, rec)
    BY <2>1, <2>2, IdleFacts, RowFacts, JoinStep DEF Holding
  <2>4. PICK rec \in TaskRecs : task' = [task EXCEPT ![t] = rec] /\ Joins(t, k, IdleTask, rec)
    BY <2>3
  <2>5. KindOK(t, rec) /\ rec.tile = NoRow /\ rec.put = NoRow
    BY <1>1, <2>4, IdleFacts DEF KindOK, Joins
  <2> QED BY <1>1, <2>3, <2>4, <2>5, RowFacts, TaskFrame
<1>3. CASE /\ task[t].pc = "wait" /\ ~Locked(task[t].lock)
           /\ task' = [task EXCEPT ![t].pc = "held"] /\ UNCHANGED inflight
  <2> DEFINE rec == [task[t] EXCEPT !.pc = "held"]
  <2>1. /\ rec \in TaskRecs /\ rec.pc = "held" /\ rec.key = task[t].key /\ rec.lock = task[t].lock
        /\ rec.tile = task[t].tile /\ rec.put = task[t].put /\ task' = [task EXCEPT ![t] = rec]
    BY <1>3, TypesOf DEF FetchInv, TaskRecs, TaskPcs, Holding
  <2> HIDE DEF rec
  <2>2. task[t].lock \in Locks
    BY <1>3 DEF FetchInv, FlightInv, HolderInv
  <2>3. FlightInv'
    BY <1>3, <2>1, <2>2, LocalStep, RowFacts DEF Holding
  <2>4. KindOK(t, rec) /\ rec.tile \in Honest /\ rec.put \in Honest
    BY <1>1, <2>1 DEF KindOK, FetchInv, HonestInv
  <2> QED BY <1>1, <1>3, <2>1, <2>3, <2>4, RowFacts, TaskFrame
<1>4. CASE /\ task[t].pc \in {"wait", "held"} /\ (inflight' = Finished(t) \/ inflight' = Dropped(t))
           /\ task' = [task EXCEPT ![t] = IdleTask]
  <2>1. task[t].lock \in Locks
    BY <1>4 DEF FetchInv, FlightInv, HolderInv, Holding
  <2>2. FlightInv' /\ inflight' \in [AllKeys -> Locks \cup {NoLock, Dead}]
    BY <1>4, <2>1, IdleFacts, RowFacts, LeaveStep DEF Holding
  <2>3. KindOK(t, IdleTask)
    BY IdleFacts DEF KindOK
  <2> QED BY <1>1, <1>4, <2>2, <2>3, IdleFacts, RowFacts, TaskFrame
<1> QED BY <1>2, <1>3, <1>4 DEF StyleStep

-----------------------------------------------------------------------------
(* Shutdown and the world                                                  *)

\* The notification after the count: a parked drain is awake again.
LEMMA FillNotifiesInv == ASSUME FetchInv, NEW t \in Tasks, FillNotifies(t) PROVE FetchInv'
<1>1. /\ t \in Fills /\ t \notin Warms /\ t \notin Styles /\ task[t].pc = "notify"
      /\ task' = [task EXCEPT ![t] = IdleTask] /\ UNCHANGED <<world, row, inflight>> /\ drain' # "parked"
  BY FetcherAssumption DEF FillNotifies, FetcherAssumption
<1>2. /\ task \in [Tasks -> TaskRecs] /\ task'[t] = IdleTask /\ \A s \in Tasks : s # t => task'[s] = task[s]
  BY <1>1 DEF FetchInv, FetchTypeOK
<1>3. FetchTypeOK'
  BY <1>1, <1>2, IdleFacts DEF FetchInv, FetchTypeOK, world
<1>4. KindInv'
  BY <1>1, <1>2, IdleFacts DEF FetchInv, KindInv, KindOK
<1>5. FlightInv'
  <2>1. /\ IdleTask.lock = task[t].lock /\ IdleTask.lock \notin Locks
        /\ IdleTask.pc \notin {"wait"} \cup Holding /\ IdleTask.pc \notin Holding
    BY <1>1, IdleFacts, RowFacts, TypesOf DEF FlightInv, HolderInv, Holding
  <2>2. IdleTask \in TaskRecs /\ task' = [task EXCEPT ![t] = IdleTask] /\ FetchTypeOK /\ FlightInv
    BY <1>1, IdleFacts, RowFacts
  <2> QED BY <1>1, <2>1, <2>2, LocalStep
<1>6. HonestInv'
  BY <1>1, <1>2, HonestSame, IdleFacts, RowFacts DEF FetchInv, HonestInv, world
<1>7. NoLostWakeup'
  BY <1>1 DEF NoLostWakeup
<1> QED BY <1>3, <1>4, <1>5, <1>6, <1>7 DEF FetchInv

LEMMA ShutdownRequestedInv == ASSUME FetchInv, ShutdownRequested PROVE FetchInv'
BY OtherFrame, RowFacts DEF ShutdownRequested

\* The drain parks only on a count that is not zero.
LEMMA DrainStepInv == ASSUME FetchInv, DrainStep PROVE FetchInv'
<1>1. UNCHANGED <<world, row, task, inflight>> /\ (drain' = "parked" => drain = "parked" \/ ~NoFills)
  BY DEF DrainStep
<1> QED BY <1>1, OtherFrame, RowFacts

LEMMA EvictInv == ASSUME FetchInv, NEW k \in Keys, Evict(k) PROVE FetchInv'
<1>1. row[k] \in TileRecs /\ row[k] \in Honest
  BY RowFacts DEF Evict
<1>2. [row[k] EXCEPT !.pinned = FALSE] \in TileRecs /\ [row[k] EXCEPT !.pinned = FALSE] \in Honest
  BY <1>1, HonestPin
<1>3. row' \in [Keys -> TileRecs \cup {NoRow}] /\ \A q \in Keys : row'[q] \in Honest
  BY <1>2, RowFacts DEF Evict
<1> QED BY <1>3, OtherFrame, RowFacts DEF Evict, exit

\* Time and a new version take nothing from what was honest.
LEMMA WorldNextInv == ASSUME FetchInv, WorldNext PROVE FetchInv'
<1>1. UNCHANGED <<row, task, inflight, exit>> /\ (Tick \/ UpstreamChanges \/ ConfigPush)
  BY DEF WorldNext
<1>2. /\ now \in Nat /\ current \in Nat /\ superseded \in [Versions -> Nat] /\ current <= MaxVersion
      /\ MaxVersion \in Nat /\ \A v \in Versions : superseded[v] <= now
  BY FetcherAssumption DEF FetchInv, FetchTypeOK, HonestInv, FetcherAssumption
<1>3. /\ now' \in Nat /\ current' \in Nat /\ volatile' \in BOOLEAN /\ superseded' \in [Versions -> Nat]
      /\ current' <= MaxVersion /\ \A v \in Versions : superseded'[v] <= now'
  <2>1. volatile' \in BOOLEAN
    <3>1. volatile' = TRUE \/ volatile' = volatile
      BY <1>1 DEF Tick, UpstreamChanges, ConfigPush
    <3>2. volatile \in BOOLEAN
      BY DEF FetchInv, FetchTypeOK
    <3> QED BY <3>1, <3>2
  <2>2. CASE Tick
    BY <1>2, <2>1, <2>2 DEF Tick
  <2>3. CASE UpstreamChanges
    <3>1. current < MaxVersion /\ current' = current + 1 /\ now' = now
      BY <2>3 DEF UpstreamChanges
    <3>2. superseded' = [v \in Versions |-> IF v = current THEN now ELSE superseded[v]]
      BY <1>2, <2>3 DEF UpstreamChanges
    <3>3. superseded' \in [Versions -> Nat] /\ \A v \in Versions : superseded'[v] <= now
      BY <1>2, <3>2
    <3> QED BY <1>2, <2>1, <3>1, <3>3
  <2>4. CASE ConfigPush
    BY <1>2, <2>1, <2>4 DEF ConfigPush
  <2> QED BY <1>1, <2>2, <2>3, <2>4
<1>4. Honest \subseteq Honest'
  <2> SUFFICES ASSUME NEW x \in TileRecs, x.kind = "ok", x.ver \in Versions, x.ver <= current,
                      LastCurrent(x.ver) >= x.at
               PROVE  x.ver <= current' /\ LastCurrent(x.ver)' >= x.at
    BY DEF Honest
  <2>1. x.at \in Nat /\ x.ver \in Nat
    BY DEF TileRecs
  <2>2. CASE Tick
    BY <1>2, <2>1, <2>2 DEF Tick, LastCurrent
  <2>3. CASE UpstreamChanges
    BY <1>2, <2>1, <2>3 DEF UpstreamChanges, LastCurrent, Versions
  <2>4. CASE ConfigPush
    BY <2>4 DEF ConfigPush, LastCurrent
  <2> QED BY <1>1, <2>2, <2>3, <2>4
<1>5. FetchTypeOK' /\ KindInv'
  BY <1>1, <1>3 DEF FetchInv, FetchTypeOK, KindInv, KindOK
<1>6. FlightInv'
  BY <1>1 DEF FetchInv, FlightInv, HolderInv, EntryInv, MutexInv
<1>7. HonestInv'
  BY <1>1, <1>3, <1>4 DEF FetchInv, HonestInv
<1>8. NoLostWakeup'
  BY <1>1 DEF FetchInv, NoLostWakeup, NoFills, Counted, exit
<1> QED BY <1>5, <1>6, <1>7, <1>8 DEF FetchInv

-----------------------------------------------------------------------------
(* The inductive invariant                                                 *)

LEMMA FetchInitInv == FetchInit => FetchInv
<1> SUFFICES ASSUME FetchInit PROVE FetchInv
  OBVIOUS
<1>1. /\ MaxVersion \in Nat /\ NoLock \notin Locks /\ Dead \notin Locks
  BY FetcherAssumption DEF FetcherAssumption
<1>2. Legacy \in TileRecs /\ Legacy.kind = "unsafe" /\ NoRow \notin TileRecs
  BY RowAssumption DEF Legacy, TileRecs, RowAssumption
<1>3. Legacy \in Honest /\ NoRow \in Honest
  BY <1>2 DEF Honest
<1>4. \A t \in Tasks : task[t] = IdleTask
  BY DEF FetchInit
<1>5. FetchTypeOK
  BY <1>1, <1>2, IdleFacts DEF FetchInit, FetchTypeOK
<1>6. KindInv /\ HolderInv /\ MutexInv
  BY <1>1, <1>4, IdleFacts DEF KindInv, KindOK, HolderInv, MutexInv, Holding
<1>7. EntryInv
  BY <1>1 DEF FetchInit, EntryInv
<1>8. HonestInv
  <2>1. current <= MaxVersion /\ \A v \in Versions : superseded[v] <= now
    BY <1>1 DEF FetchInit
  <2>2. \A k \in Keys : row[k] \in Honest
    BY <1>3 DEF FetchInit
  <2> QED BY <1>3, <1>4, <2>1, <2>2, IdleFacts DEF HonestInv
<1>9. NoLostWakeup
  BY DEF FetchInit, NoLostWakeup
<1> QED BY <1>5, <1>6, <1>7, <1>8, <1>9 DEF FetchInv, FlightInv

LEMMA FetchNextInv == FetchInv /\ ReadInv /\ [FetchNext]_fetchVars => FetchInv'
<1> SUFFICES ASSUME FetchInv, ReadInv, [FetchNext]_fetchVars PROVE FetchInv'
  OBVIOUS
<1>1. CASE UNCHANGED fetchVars
  BY <1>1, OtherFrame, RowFacts DEF fetchVars, exit
<1>2. CASE \E h \in Handlers, k \in Keys : GetBegins(h, k)
  BY <1>2, GetBeginsInv
<1>3. CASE \E h \in Handlers : GetFresh(h) \/ GetStaleSlow(h) \/ GetAndAwait(h) \/ ClientGone(h)
  BY <1>3, GetFreshInv, GetStaleSlowInv, GetAndAwaitInv, ClientGoneInv
<1>4. CASE \E t \in Tasks : TaskStep(t) \/ Acquires(t) \/ StyleStep(t)
  BY <1>4, FillLocksInv, FetchTimesOutInv, FillAnsweredInv, FillStoresInv, FillNotifiesInv, WarmAnsweredInv,
     WarmFlushesInv, FillAcquiresInv, FillRechecksInv, WarmRechecksInv, StyleStepInv DEF TaskStep, Acquires
<1>5. CASE \E t \in Warms, k \in Keys : WarmBegins(t, k)
  BY <1>5, WarmBeginsInv
<1>6. CASE \E k \in Keys : Evict(k)
  BY <1>6, EvictInv
<1>7. CASE WorldNext \/ ShutdownRequested \/ DrainStep
  BY <1>7, WorldNextInv, ShutdownRequestedInv, DrainStepInv
<1> QED BY <1>1, <1>2, <1>3, <1>4, <1>5, <1>6, <1>7 DEF FetchNext

\* A request reads a definition as it is.
LEMMA ReadNextInv == FetchInv /\ ReadInv /\ [FetchNext]_fetchVars => ReadInv'
<1> SUFFICES ASSUME FetchInv, ReadInv, [FetchNext]_fetchVars PROVE ReadInv'
  OBVIOUS
<1>1. volatile \in BOOLEAN
  BY DEF FetchInv, FetchTypeOK
<1>2. CASE \E h \in Handlers, k \in Keys : GetBegins(h, k)
  BY <1>1, <1>2 DEF GetBegins, ReadInv
<1>3. CASE \E h \in Handlers : GetFresh(h) \/ GetStaleSlow(h) \/ GetAndAwait(h) \/ ClientGone(h)
  BY <1>3 DEF GetFresh, GetStaleSlow, GetAndAwait, ClientGone, ReadInv
<1>4. CASE UNCHANGED read
  BY <1>4 DEF ReadInv
<1>5. CASE \E t \in Tasks : TaskStep(t) \/ Acquires(t) \/ StyleStep(t)
  <2>1. UNCHANGED read
    BY <1>5 DEF TaskStep, Acquires, StyleStep, FillLocks, FetchTimesOut, FillAnswered, FillStores, FillNotifies,
                WarmAnswered, WarmFlushes, FillAcquires, FillRechecks, WarmRechecks
  <2> QED BY <1>4, <2>1
<1>6. CASE \/ \E t \in Warms, k \in Keys : WarmBegins(t, k)
           \/ \E k \in Keys : Evict(k)
           \/ WorldNext \/ ShutdownRequested \/ DrainStep \/ UNCHANGED fetchVars
  <2>1. UNCHANGED read
    BY <1>6 DEF WarmBegins, Evict, WorldNext, ShutdownRequested, DrainStep, fetchVars
  <2> QED BY <1>4, <2>1
<1> QED BY <1>2, <1>3, <1>5, <1>6 DEF FetchNext

\* Every reachable state of the live path has the inductive invariant:
\* mutex, map entry and task agree, and every tile in a row, in a request
\* for revalidation or on its way to the store is honest (fetcher.rs
\* fetch_and_store, state.rs inflight_lock and inflight_finish).
THEOREM FetchInvariant == FetchSpec => [](FetchInv /\ ReadInv)
<1>1. FetchInit => ReadInv
  BY DEF FetchInit, ReadInv
<1> QED BY <1>1, FetchInitInv, FetchNextInv, ReadNextInv, PTL DEF FetchSpec

\* Fills, warm tasks and style handlers never work on the same key at once
\* (the mutex of state.rs inflight_lock), however joining, finishing and
\* dropped holders meet.
THEOREM FetchIsSingleFlight == FetchSpec => []SingleFlight
<1>1. FetchInv => SingleFlight
  <2> SUFFICES ASSUME FetchInv, NEW s \in Tasks, NEW t \in Tasks, s # t, task[s].pc \in Holding,
                      task[t].pc \in Holding, task[s].key = task[t].key
               PROVE  FALSE
    BY DEF SingleFlight, Holding
  <2>1. task[s].lock \in Locks /\ task[s].lock = task[t].lock
    BY DEF FetchInv, FlightInv, HolderInv
  <2> QED BY <2>1 DEF FetchInv, FlightInv, MutexInv
<1> QED BY <1>1, FetchInvariant, PTL

\* A row's fetch time is honest, also after a 304 that raced a warm flush or
\* an eviction (fetcher.rs: the revalidated tile is the one whose validator
\* was sent).
THEOREM FetchTimesAreHonest == FetchSpec => []HonestFreshness
<1>1. FetchInv => HonestFreshness
  <2> SUFFICES ASSUME FetchInv, NEW k \in Keys, IsSafe(row[k]) PROVE LastCurrent(row[k].ver) >= row[k].at
    BY DEF HonestFreshness
  <2>1. row[k] \in TileRecs /\ row[k].kind = "ok" /\ row[k] \in Honest
    BY RowFacts DEF IsSafe
  <2> QED BY <2>1 DEF Honest
<1> QED BY <1>1, FetchInvariant, PTL

\* The shutdown drain misses no wake-up (state.rs wait_for_fills: the
\* waiter is registered before the count is read).
THEOREM DrainWakes == FetchSpec => []NoLostWakeup
<1>1. FetchInv => NoLostWakeup
  BY DEF FetchInv
<1> QED BY <1>1, FetchInvariant, PTL

-----------------------------------------------------------------------------
(* Action properties                                                       *)

\* The steps a fill takes once it is spawned.
FillMoves(t) ==
    \/ FillLocks(t) \/ FillAcquires(t) \/ FillRechecks(t) \/ FetchTimesOut(t)
    \/ FillAnswered(t) \/ FillStores(t) \/ FillNotifies(t)

\* Only its own steps change a fill, and a request spawns an idle one.
LEMMA FillStepOf ==
    ASSUME FetchInv, [FetchNext]_fetchVars, NEW t \in Fills, task'[t] # task[t]
    PROVE  FillMoves(t) \/ (task[t] = IdleTask /\ \E h \in Handlers : task' = Spawned(t, h))
<1>1. /\ t \in Tasks /\ task \in [Tasks -> TaskRecs] /\ t \notin Warms /\ t \notin Styles /\ task' # task
  BY FetcherAssumption DEF FetchInv, FetchTypeOK, Tasks, FetcherAssumption
<1>2. CASE \E h \in Handlers : GetStaleSlow(h) \/ GetAndAwait(h)
  <2>1. PICK h \in Handlers, u \in FreeFill : task' = Spawned(u, h)
    BY <1>1, <1>2 DEF GetStaleSlow, GetAndAwait
  <2> QED BY <1>1, <2>1 DEF Spawned, FreeFill
<1>3. CASE \E u \in Tasks : TaskStep(u) \/ Acquires(u) \/ StyleStep(u)
  <2>1. PICK u \in Tasks : TaskStep(u) \/ Acquires(u) \/ StyleStep(u)
    BY <1>3
  <2>2. CASE u = t
    <3>1. ~WarmAnswered(t) /\ ~StyleStep(t) /\ ~WarmRechecks(t)
      BY <1>1 DEF WarmAnswered, StyleStep, WarmRechecks
    <3>2. ~WarmFlushes(t)
      BY <1>1 DEF WarmFlushes, FetchInv, KindInv, KindOK
    <3> QED BY <2>1, <2>2, <3>1, <3>2 DEF TaskStep, Acquires, FillMoves
  <2>3. CASE u # t
    BY <1>1, <2>1, <2>3
       DEF TaskStep, Acquires, StyleStep, FetchTimesOut, FillAnswered, FillStores, FillNotifies, WarmAnswered,
           WarmFlushes, FillAcquires, FillRechecks, WarmRechecks, FillLocks, InflightLock, FillReturns
  <2> QED BY <2>2, <2>3
<1>4. CASE \E u \in Warms, k \in Keys : WarmBegins(u, k)
  BY <1>1, <1>4 DEF WarmBegins, InflightLock
<1>5. CASE \/ \E h \in Handlers, k \in Keys : GetBegins(h, k)
           \/ \E h \in Handlers : GetFresh(h) \/ ClientGone(h)
           \/ \E k \in Keys : Evict(k)
           \/ WorldNext \/ ShutdownRequested \/ DrainStep \/ UNCHANGED fetchVars
  BY <1>1, <1>5 DEF GetBegins, GetFresh, ClientGone, Evict, WorldNext, ShutdownRequested, DrainStep, fetchVars
<1> QED BY <1>2, <1>3, <1>4, <1>5 DEF FetchNext

\* Only the admission takes a fill from its start to its end.
LEMMA RefusedStep ==
    ASSUME FetchInv, [FetchNext]_fetchVars, NEW t \in Fills,
           task[t].pc = "spawned", task'[t].pc = "notify"
    PROVE  Cardinality(LiveKeys) >= MaxInflightKeys
<1>1. /\ t \in Tasks /\ task \in [Tasks -> TaskRecs]
      /\ task[t] # IdleTask /\ task[t].key \in Keys /\ task[t].key \in AllKeys
  BY IdleFacts DEF FetchInv, FetchTypeOK, KindInv, KindOK, Tasks, AllKeys
<1>2. FillLocks(t)
  <2>1. FillMoves(t)
    BY <1>1, FillStepOf
  <2> QED BY <2>1 DEF FillMoves, FillAcquires, FillRechecks, FetchTimesOut, FillAnswered, FillStores, FillNotifies
<1> DEFINE refused == [IdleTask EXCEPT !.pc = "notify"]
<1>3. refused \in TaskRecs /\ refused.lock = NoLock /\ refused.pc = "notify"
  BY NotifyFacts
<1>4. InflightLock(t, task[t].key, refused) /\ task[t].lock \notin Locks
  BY <1>1, <1>2 DEF FillLocks, FetchInv, FlightInv, HolderInv, Holding
<1> HIDE DEF refused
<1>5. \E rec \in TaskRecs : task' = [task EXCEPT ![t] = rec] /\ Joins(t, task[t].key, refused, rec)
  BY <1>1, <1>3, <1>4, RowFacts, JoinStep DEF Holding
<1> QED BY <1>1, <1>5 DEF Joins

\* A tile is refused for want of in-flight keys only when that many flights
\* are alive (state.rs inflight_lock purges dead entries before it counts).
THEOREM RefusalIsExact == FetchSpec => RefusedOnlyWhenFull
<1>1. FetchInv /\ [FetchNext]_fetchVars =>
        [\A t \in Fills : task[t].pc = "spawned" /\ task'[t].pc = "notify" =>
            Cardinality(LiveKeys) >= MaxInflightKeys]_fetchVars
  BY RefusedStep
<1> QED BY <1>1, FetchInvariant, PTL DEF FetchSpec, RefusedOnlyWhenFull

-----------------------------------------------------------------------------
(* The windows of a time-dynamic source                                    *)

\* A source that has become time-dynamic stays so, and a fill reads its
\* windows under the mutex, so they are no older than what held there.
LEMMA WindowNextInv == FetchInv /\ WindowInv /\ [FetchNext]_fetchVars => WindowInv'
<1> SUFFICES ASSUME FetchInv, WindowInv, [FetchNext]_fetchVars, NEW t \in Fills
               PROVE  task'[t].under => volatile' /\ (task'[t].pc = "fetch" => task'[t].vol)
  BY DEF WindowInv, WindowOK
<1>1. volatile => volatile'
  <2>1. CASE WorldNext
    BY <2>1 DEF WorldNext, Tick, UpstreamChanges, ConfigPush
  <2>2. CASE \/ \E h \in Handlers, k \in Keys : GetBegins(h, k)
             \/ \E h \in Handlers : GetFresh(h) \/ GetStaleSlow(h) \/ GetAndAwait(h) \/ ClientGone(h)
             \/ \E u \in Warms, k \in Keys : WarmBegins(u, k)
             \/ \E k \in Keys : Evict(k)
             \/ ShutdownRequested \/ DrainStep \/ UNCHANGED fetchVars
    BY <2>2 DEF GetBegins, GetFresh, GetStaleSlow, GetAndAwait, ClientGone, WarmBegins, Evict, ShutdownRequested,
                DrainStep, fetchVars, world
  <2>3. CASE \E u \in Tasks : TaskStep(u) \/ Acquires(u) \/ StyleStep(u)
    BY <2>3 DEF TaskStep, Acquires, StyleStep, FillLocks, FetchTimesOut, FillAnswered, FillStores, FillNotifies,
                WarmAnswered, WarmFlushes, FillAcquires, FillRechecks, WarmRechecks, world
  <2> QED BY <2>1, <2>2, <2>3 DEF FetchNext
<1>2. CASE task'[t] = task[t]
  BY <1>1, <1>2 DEF WindowInv, WindowOK
<1>3. t \in Tasks /\ task \in [Tasks -> TaskRecs] /\ task[t] \in TaskRecs
  BY DEF FetchInv, FetchTypeOK, Tasks
<1>4. CASE FillAcquires(t)
  <2>1. /\ task'[t] = [task[t] EXCEPT !.pc = "acquired", !.under = volatile]
    BY <1>3, <1>4 DEF FillAcquires
  <2>2. task'[t].under = volatile /\ task'[t].pc = "acquired"
    BY <1>3, <2>1 DEF TaskRecs
  <2> QED BY <1>1, <2>2
<1>5. CASE FillRechecks(t)
  <2>1. CASE FillReturns(t)
    BY <1>3, <2>1 DEF FillReturns, IdleTask
  <2>2. CASE ~FillReturns(t)
    <3> DEFINE kept == IF IsSafe(row[task[t].key]) THEN [row[task[t].key] EXCEPT !.pinned = FALSE] ELSE NoRow
    <3>1. task'[t] = [task[t] EXCEPT !.pc = "fetch", !.from = FALSE, !.vol = volatile, !.tile = kept]
      BY <1>3, <1>5, <2>2 DEF FillRechecks, Windows
    <3> HIDE DEF kept
    <3>2. task'[t].under = task[t].under /\ task'[t].vol = volatile
      BY <1>3, <3>1 DEF TaskRecs
    <3> QED BY <1>1, <3>2 DEF WindowInv, WindowOK
  <2> QED BY <2>1, <2>2
<1>6. CASE FetchTimesOut(t)
  <2>1. task'[t] = [task[t] EXCEPT !.retried = TRUE]
    BY <1>3, <1>6 DEF FetchTimesOut
  <2>2. task'[t].under = task[t].under /\ task'[t].vol = task[t].vol /\ task'[t].pc = task[t].pc
    BY <1>3, <2>1 DEF TaskRecs
  <2> QED BY <1>1, <2>2 DEF WindowInv, WindowOK
<1>7. CASE FillLocks(t) \/ FillAnswered(t) \/ FillStores(t) \/ FillNotifies(t)
  <2>1. CASE FillLocks(t)
    BY <1>3, <2>1 DEF FillLocks, InflightLock, IdleTask
  <2>2. CASE FillAnswered(t)
    <3>1. PICK answer \in Answers(t) :
            task' = [task EXCEPT ![t] = [IdleTask EXCEPT !.pc = "store", !.key = task[t].key, !.lock = task[t].lock,
                                           !.put = Decision(t, answer).put, !.out = Decision(t, answer).out]]
      BY <2>2 DEF FillAnswered
    <3> QED BY <1>3, <3>1 DEF IdleTask
  <2>3. CASE FillStores(t) \/ FillNotifies(t)
    BY <1>3, <2>3 DEF FillStores, FillReturns, FillNotifies, IdleTask
  <2> QED BY <1>7, <2>1, <2>2, <2>3
<1>8. CASE task[t] = IdleTask /\ \E h \in Handlers : task' = Spawned(t, h)
  <2>1. task'[t].under = FALSE
    BY <1>3, <1>8 DEF Spawned, IdleTask
  <2> QED BY <2>1
<1> QED BY <1>2, <1>4, <1>5, <1>6, <1>7, <1>8, FillStepOf DEF FillMoves

\* The windows of every fill are those of its source since it got the mutex
\* (fetcher.rs reads them again after the wait, 577-578).
THEOREM WindowsAreCurrent == FetchSpec => []WindowInv
<1>1. FetchInit => WindowInv
  BY DEF FetchInit, WindowInv, WindowOK, IdleTask, Tasks
<1> QED BY <1>1, WindowNextInv, FetchInvariant, PTL DEF FetchSpec

\* An honest tile within a clamped window is the upstream's of less than a
\* TTL ago.
LEMMA WithinTtlOf ==
    ASSUME FetchInv, NEW x \in TileRecs, x \in Honest, x.kind = "ok", NEW secs \in Nat,
           Age(x) < ClampedToTtl(secs, TRUE)
    PROVE  WithinTtl(x)
<1>1. now \in Nat /\ current \in Nat /\ superseded \in [Versions -> Nat] /\ TtlSecs \in Nat \ {0}
  BY FetcherAssumption DEF FetchInv, FetchTypeOK, FetcherAssumption
<1>2. x.ver \in Versions /\ x.at \in Nat /\ LastCurrent(x.ver) >= x.at
  BY DEF Honest, TileRecs
<1>3. LastCurrent(x.ver) \in Nat
  BY <1>1, <1>2 DEF LastCurrent
<1>4. now - x.at < TtlSecs
  BY <1>1, <1>2 DEF Age, ClampedToTtl
<1> HIDE DEF LastCurrent
<1> QED BY <1>1, <1>2, <1>3, <1>4 DEF WithinTtl

\* Whatever the upstream confirmed now.
LEMMA WithinTtlNow ==
    ASSUME FetchInv, NEW x, x # NoRow => x.ver = current
    PROVE  WithinTtl(x)
<1>1. now \in Nat /\ TtlSecs \in Nat \ {0}
  BY FetcherAssumption DEF FetchInv, FetchTypeOK, FetcherAssumption
<1> QED BY <1>1 DEF WithinTtl, IsSafe, LastCurrent

\* An inline answer, by the windows the request read.
LEMMA InlineStep ==
    ASSUME FetchInv, ReadInv, NEW h \in Handlers, GetFresh(h) \/ GetStaleSlow(h), read[h].vol
    PROVE  WithinTtl(Asked(h))
<1>1. read[h].key \in Keys /\ Asked(h) \in TileRecs \cup {NoRow} /\ Asked(h) \in Honest /\ read[h].vol = TRUE
  BY RowFacts DEF GetFresh, GetStaleSlow, ReadInv, Asked
<1>2. SUFFICES ASSUME IsSafe(Asked(h)) PROVE WithinTtl(Asked(h))
  BY DEF WithinTtl
<1>3. Asked(h) \in TileRecs /\ Asked(h).kind = "ok"
  BY <1>1, <1>2 DEF IsSafe
<1>4. \/ Age(Asked(h)) < ClampedToTtl(FreshSecs, TRUE)
      \/ Age(Asked(h)) < ClampedToTtl(MaxStaleSecs, TRUE)
  BY <1>1, <1>3 DEF GetFresh, GetStaleSlow, Fresh, SlowAndServable
<1>5. FreshSecs \in Nat /\ MaxStaleSecs \in Nat
  BY FetcherAssumption DEF FetcherAssumption
<1> HIDE DEF Asked
<1> QED BY <1>1, <1>3, <1>4, <1>5, WithinTtlOf

\* A fill that coalesces onto a row the flight before it left.
LEMMA CoalescedStep ==
    ASSUME FetchInv, WindowInv, [FetchNext]_fetchVars, NEW t \in Fills, task[t].under,
           task[t].pc = "acquired", task'[t].pc = "notify"
    PROVE  WithinTtl(row[task[t].key])
<1> DEFINE x == row[task[t].key]
<1>1. t \in Tasks /\ task \in [Tasks -> TaskRecs] /\ task[t] # IdleTask /\ task[t].key \in Keys
  BY IdleFacts DEF FetchInv, FetchTypeOK, KindInv, KindOK, Tasks
<1>2. FillRechecks(t)
  <2>1. FillMoves(t)
    BY <1>1, FillStepOf
  <2> QED BY <2>1 DEF FillMoves, FillLocks, FillAcquires, FetchTimesOut, FillAnswered, FillStores, FillNotifies
<1>3. Fresh(x, volatile)
  <2>1. CASE ~Fresh(x, volatile)
    <3> DEFINE kept == IF IsSafe(x) THEN [x EXCEPT !.pinned = FALSE] ELSE NoRow
    <3>1. task'[t] = [task[t] EXCEPT !.pc = "fetch", !.from = FALSE, !.vol = volatile, !.tile = kept]
      BY <1>1, <1>2, <2>1 DEF FillRechecks, Windows
    <3> HIDE DEF kept
    <3>2. task'[t].pc = "fetch" /\ task[t] \in TaskRecs
      BY <1>1, <3>1 DEF TaskRecs
    <3> QED BY <3>2
  <2> QED BY <2>1
<1>4. volatile = TRUE
  BY <1>1 DEF WindowInv, WindowOK, FetchInv, FetchTypeOK
<1>5. SUFFICES ASSUME IsSafe(x) PROVE WithinTtl(x)
  BY DEF WithinTtl
<1>6. x \in TileRecs /\ x.kind = "ok" /\ x \in Honest
  BY <1>1, <1>5, RowFacts DEF IsSafe
<1>7. FreshSecs \in Nat
  BY FetcherAssumption DEF FetcherAssumption
<1>8. Age(x) < ClampedToTtl(FreshSecs, TRUE)
  BY <1>3, <1>4, <1>6 DEF Fresh
<1> HIDE DEF x
<1> QED BY <1>6, <1>7, <1>8, WithinTtlOf

\* A fill whose fetch has ended: the upstream's answer, or what it keeps.
LEMMA AnsweredStep ==
    ASSUME FetchInv, WindowInv, [FetchNext]_fetchVars, NEW t \in Fills, task[t].under,
           task[t].pc = "fetch", task'[t].pc = "store"
    PROVE  /\ task'[t].out = "fresh" => WithinTtl(task'[t].put)
           /\ task'[t].out = "stale" => WithinTtl(Fallback(t))
<1>1. /\ t \in Tasks /\ task \in [Tasks -> TaskRecs] /\ task[t] \in TaskRecs /\ task[t] # IdleTask
      /\ task[t].key \in Keys /\ task[t].vol = TRUE /\ MaxStaleSecs \in Nat
  BY IdleFacts, FetcherAssumption
     DEF FetchInv, FetchTypeOK, KindInv, KindOK, Tasks, WindowInv, WindowOK, TaskRecs, FetcherAssumption
<1>2. FillAnswered(t)
  <2>1. FillMoves(t)
    BY <1>1, FillStepOf
  <2>2. ~FetchTimesOut(t)
    <3>1. ASSUME FetchTimesOut(t) PROVE task'[t] = [task[t] EXCEPT !.retried = TRUE]
      BY <1>1, <3>1 DEF FetchTimesOut
    <3> QED BY <1>1, <3>1 DEF TaskRecs
  <2> QED BY <2>1, <2>2 DEF FillMoves, FillLocks, FillAcquires, FillRechecks, FillStores, FillNotifies
<1>3. PICK answer \in Answers(t) : task'[t].out = Decision(t, answer).out /\ task'[t].put = Decision(t, answer).put
  BY <1>1, <1>2 DEF FillAnswered, IdleTask
<1>4. ASSUME task'[t].out = "fresh" PROVE WithinTtl(task'[t].put)
  <2>1. CASE answer = "200"
    BY <1>3, <2>1, WithinTtlNow DEF Decision, Tile
  <2>2. CASE answer = "304"
    <3>1. task[t].tile \in TileRecs /\ task[t].tile.ver = current
      BY <1>1, <2>2 DEF Answers, TaskRecs
    <3>2. Refreshed(t).ver = current
      BY <3>1 DEF Refreshed, TileRecs
    <3> QED BY <1>3, <2>2, <3>2, WithinTtlNow DEF Decision
  <2>3. CASE answer \notin {"200", "304"}
    BY <1>3, <1>4, <2>3 DEF Decision, Unanswered
  <2> QED BY <2>1, <2>2, <2>3
<1>5. ASSUME task'[t].out = "stale" PROVE WithinTtl(Fallback(t))
  <2> DEFINE x == Fallback(t)
  <2>1. IsSafe(x) /\ MayServeStale(x, task[t].key, task[t].vol)
    BY <1>3, <1>5 DEF Decision, Unanswered, Answers, Fallback
  <2>2. x \in TileRecs \cup {NoRow} /\ x \in Honest
    BY <1>1, RowFacts, TypesOf DEF FetchInv, HonestInv, Fallback
  <2>3. x \in TileRecs /\ x.kind = "ok"
    BY <2>1, <2>2 DEF IsSafe
  <2> HIDE DEF x
  <2>4. Age(x) < ClampedToTtl(MaxStaleSecs, TRUE)
    BY <1>1, <2>1 DEF MayServeStale
  <2> QED BY <1>1, <2>2, <2>3, <2>4, WithinTtlOf DEF x
<1> QED BY <1>4, <1>5

\* What a time-dynamic source gave out, inline or from a fill, is never
\* older than its TTL, whatever a request read before its fill waited, and
\* whether or not a region pins the tile (fetcher.rs get_tile 351-430, fill
\* 577-689, may_serve_stale 503-516).
THEOREM TilesStayInWindow == FetchSpec => NeverPastWindow
<1>1. FetchInv /\ ReadInv /\ WindowInv /\ [FetchNext]_fetchVars =>
       [/\ \A h \in Handlers :
            (GetFresh(h) \/ GetStaleSlow(h)) /\ read[h].vol => WithinTtl(Asked(h))
        /\ \A t \in Fills : task[t].under =>
            /\ task[t].pc = "acquired" /\ task'[t].pc = "notify" => WithinTtl(row[task[t].key])
            /\ task[t].pc = "fetch" /\ task'[t].pc = "store" =>
                 /\ task'[t].out = "fresh" => WithinTtl(task'[t].put)
                 /\ task'[t].out = "stale" => WithinTtl(Fallback(t))]_fetchVars
  BY InlineStep, CoalescedStep, AnsweredStep
<1> QED BY <1>1, FetchInvariant, WindowsAreCurrent, PTL DEF FetchSpec, NeverPastWindow

=============================================================================

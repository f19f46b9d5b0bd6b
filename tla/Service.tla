------------------------------ MODULE Service ------------------------------
(***************************************************************************)
(* The container's HTTP surface while the process serves: admission of     *)
(* requests with its reserve for health probes (routes.rs), the shared     *)
(* egress permits (state.rs), the reverse geocoder with its provider       *)
(* interval and cache (geocode.rs), and the sweeper that waits for the     *)
(* first configuration push (sweep.rs).  A death of the process (Startup)  *)
(* takes all of it away.                                                   *)
(*                                                                         *)
(* A tile request stands for every read that may go upstream by a spawned  *)
(* fill, whose own logic is Fetcher's; tokio's semaphores and its mutex    *)
(* serve their waiters in order.  Time matters only against the provider   *)
(* interval, so clocks run up to it.                                       *)
(***************************************************************************)
EXTENDS Startup

CONSTANTS
    Tiles, Geocodes, Pushes, Probes,   \* clients of each kind of route
    KeyOf,                             \* the rounded coordinates of a geocode client
    MaxActive, MaxHealth, MaxEgress,   \* MAX_ACTIVE_REQUESTS, MAX_ACTIVE_HEALTH_REQUESTS, EGRESS_CONCURRENCY
    CacheLimit, Interval               \* GEOCODE_CACHE_LIMIT, NOMINATIM_INTERVAL

ASSUME ServiceAssumption ==
    /\ {MaxActive, MaxHealth, MaxEgress, CacheLimit, Interval} \subseteq Nat \ {0}
    /\ DOMAIN KeyOf = Geocodes
    /\ IsFiniteSet(Tiles \cup Geocodes \cup Pushes \cup Probes)
    /\ Tiles \cap (Geocodes \cup Pushes \cup Probes) = {}
    /\ Geocodes \cap (Pushes \cup Probes) = {} /\ Pushes \cap Probes = {}

Ordinary == Tiles \cup Geocodes \cup Pushes
Requests == Ordinary \cup Probes

VARIABLES
    clients,                  \* the clients that call in this behaviour
    req,                      \* where each client's request stands
    fill,                     \* the spawned fill of a tile
    parked,                   \* waiters for a request permit, in order
    mutex,                    \* waiters for geocode_state, in order
    egress, outbound,         \* holders of and waiters for an egress permit
    age,                      \* time since last_request, up to the interval
    nap,                      \* what is left of a geocode's sleep
    left,                     \* history: time since the last two departures for the provider
    places,                   \* the geocode cache, oldest entry first
    ttl, configured,          \* live_scroll_ttl_secs and configured
    sweeper, enrolled, woken, \* the sweeper and its enrolment with configured_notify
    swept                     \* the TTL of its last sweep

geo == <<mutex, age, nap, places>>
config == <<ttl, configured, sweeper, enrolled, woken, swept>>
serviceVars == <<clients, req, fill, parked, egress, outbound, geo, left, config>>
vars == <<bootVars, serviceVars>>

\* AppState::new and the spawn of the sweeper.
Fresh ==
    /\ req = [r \in Requests |-> "idle"] /\ fill = [t \in Tiles |-> "none"]
    /\ parked = <<>> /\ mutex = <<>> /\ outbound = <<>> /\ egress = {}
    /\ age = Interval /\ nap = [g \in Geocodes |-> 0] /\ places = <<>>
    /\ left = [last |-> Interval, before |-> Interval]
    /\ ttl = "boot" /\ configured = FALSE
    /\ sweeper = "enroll" /\ enrolled = FALSE /\ woken = FALSE /\ swept = "none"

\* What the process holds in memory goes with it.
Forgotten ==
    /\ req' = [r \in Requests |-> "idle"] /\ fill' = [t \in Tiles |-> "none"]
    /\ parked' = <<>> /\ mutex' = <<>> /\ outbound' = <<>> /\ egress' = {}
    /\ age' = Interval /\ nap' = [g \in Geocodes |-> 0] /\ places' = <<>>
    /\ left' = [last |-> Interval, before |-> Interval]
    /\ ttl' = "boot" /\ configured' = FALSE
    /\ sweeper' = "enroll" /\ enrolled' = FALSE /\ woken' = FALSE /\ swept' = "none"

At(r, pc) == req[r] = pc
Go(r, pc) == req' = [req EXCEPT ![r] = pc]

\* A waiter that is dropped leaves the queue it is in.
Leave(queue, r) ==
    IF \A i \in 1 .. Len(queue) : queue[i] # r THEN queue
    ELSE LET at == CHOOSE i \in 1 .. Len(queue) : queue[i] = r
         IN  [i \in 1 .. Len(queue) - 1 |-> queue[IF i < at THEN i ELSE i + 1]]

-----------------------------------------------------------------------------
(* Admission                                                               *)

\* Mutant: the permit goes back when the handler returns.
HoldsPermit_Handler(r) == req[r] \notin {"idle", "parked", "refused", "body"}

\* A permit spans the handler and the response's last frame or drop.
HoldsPermit(r) == req[r] \notin {"idle", "parked", "refused"}

FreeHealth == Cardinality({h \in Probes : HoldsPermit(h)}) < MaxHealth
FreePermit == Cardinality({r \in Ordinary : HoldsPermit(r)}) < MaxActive

\* A probe never queues: it is answered from a database read or refused.
Probe(h) ==
    /\ At(h, "idle")
    /\ Go(h, IF FreeHealth THEN "body" ELSE "refused")
    /\ UNCHANGED <<fill, parked, egress, outbound, geo, left, config>>

\* set_scroll_ttl: the live TTL alone, with no wait and no wake.
SetScrollTtl(p) == Go(p, "body") /\ ttl' = "pushed"

\* The tile route waits for its tile's fill, spawned unless one is in flight,
\* and makes a response of whatever comes back.
AwaitTile(t) == Go(t, "fill")
TileResponds(t) == req' = [req EXCEPT ![t] = IF @ = "fill" THEN "body" ELSE @]

\* The token check and the handler up to its first await: an answer without
\* upstream or one that refuses, a wait for the tile's fill, for the geocode
\* mutex, or for the cap task of /config.
Enter(r) ==
    \/ Go(r, "body") /\ UNCHANGED <<fill, outbound, mutex, ttl>>
    \/ /\ r \in Tiles /\ AwaitTile(r) /\ UNCHANGED <<mutex, ttl>>
       /\ fill' = [fill EXCEPT ![r] = IF @ = "none" THEN "queued" ELSE @]
       /\ outbound' = IF fill[r] = "none" THEN Append(outbound, r) ELSE outbound
    \/ r \in Geocodes /\ Go(r, "lock") /\ mutex' = Append(mutex, r) /\ UNCHANGED <<fill, outbound, ttl>>
    \/ r \in Pushes /\ Go(r, "config") /\ UNCHANGED <<fill, outbound, mutex, ttl>>
    \/ r \in Pushes /\ SetScrollTtl(r) /\ UNCHANGED <<fill, outbound, mutex>>

Arrive(r) ==
    /\ At(r, "idle")
    /\ \/ FreePermit /\ parked = <<>> /\ Enter(r) /\ UNCHANGED parked
       \/ ~(FreePermit /\ parked = <<>>) /\ parked' = Append(parked, r)
            /\ Go(r, "parked") /\ UNCHANGED <<fill, outbound, mutex, ttl>>
    /\ UNCHANGED <<egress, age, nap, left, places, configured, sweeper, enrolled, woken, swept>>

Admit ==
    /\ parked # <<>> /\ FreePermit /\ Enter(Head(parked)) /\ parked' = Tail(parked)
    /\ UNCHANGED <<egress, age, nap, left, places, configured, sweeper, enrolled, woken, swept>>

\* Mutant: a request waits for a permit as long as it takes.
AdmissionWaitEnds_Never(r) == FALSE

AdmissionWaitEnds(r) ==
    /\ At(r, "parked") /\ Go(r, "refused") /\ parked' = Leave(parked, r)
    /\ UNCHANGED <<fill, egress, outbound, geo, left, config>>

\* The client has the response or is gone; nothing makes it hurry.
ResponseEnds(r) ==
    /\ req[r] \in {"body", "refused"} /\ Go(r, "idle")
    /\ UNCHANGED <<fill, parked, egress, outbound, geo, left, config>>

\* A handler is dropped at an await, with its place in every queue and its
\* egress permit; a spawned fill goes on.
Disconnect(r) ==
    /\ req[r] \in {"parked", "fill", "lock", "sleep", "send", "sent", "config"} /\ Go(r, "idle")
    /\ parked' = Leave(parked, r) /\ mutex' = Leave(mutex, r)
    /\ outbound' = IF r \in Tiles THEN outbound ELSE Leave(outbound, r)
    /\ egress' = IF r \in Tiles THEN egress ELSE egress \ {r}
    /\ nap' = [g \in Geocodes |-> IF g = r THEN 0 ELSE nap[g]]
    /\ UNCHANGED <<fill, age, left, places, config>>

-----------------------------------------------------------------------------
(* Egress                                                                  *)

\* A geocode leaves for the provider.
Departed == [last |-> 0, before |-> left.last]

\* guarded_get: permits go out in the order of the waiters.
EgressGranted(r) ==
    /\ outbound # <<>> /\ r = Head(outbound) /\ Cardinality(egress) < MaxEgress
    /\ egress' = egress \cup {r} /\ outbound' = Tail(outbound)
    /\ IF r \in Tiles THEN fill' = [fill EXCEPT ![r] = "sent"] /\ UNCHANGED <<req, left>>
                      ELSE Go(r, "sent") /\ left' = Departed /\ UNCHANGED fill
    /\ UNCHANGED <<parked, geo, config>>

\* GuardedResponse holds the permit until the upstream's body is read.
EgressAfter(r) == egress \ {r}

\* The upstream answers, fails or times out; the fill ends and wakes the
\* request that waits for it, if it still does.
FillEnds(t) ==
    /\ fill[t] = "sent" /\ fill' = [fill EXCEPT ![t] = "none"]
    /\ egress' = EgressAfter(t)
    /\ TileResponds(t)
    /\ UNCHANGED <<parked, outbound, geo, left, config>>

-----------------------------------------------------------------------------
(* The geocoder, one request at a time behind geocode_state                *)

\* Mutant: the mutex is not held across the sleep.
MutexHeld_Awake == \E g \in Geocodes : req[g] \in {"send", "sent"}

MutexHeld == \E g \in Geocodes : req[g] \in {"sleep", "send", "sent"}

\* The stamp precedes the wait for an egress permit.
AskProvider(g) == Go(g, "send") /\ outbound' = Append(outbound, g) /\ age' = 0

\* Entries past their TTL go first, a cached place needs no provider, and a
\* request sleeps for what is left, by now, of the interval.
GeocodeLocked(g) ==
    /\ mutex # <<>> /\ g = Head(mutex) /\ ~MutexHeld /\ mutex' = Tail(mutex)
    /\ \E n \in 0 .. Len(places) : places' = SubSeq(places, n + 1, Len(places))
    /\ LET cached == \E i \in DOMAIN places' : places'[i] = KeyOf[g]
       IN  \/ cached /\ Go(g, "body") /\ UNCHANGED <<outbound, age, nap>>
           \/ /\ ~cached /\ age < Interval /\ Go(g, "sleep")
              /\ nap' = [nap EXCEPT ![g] = Interval - age] /\ UNCHANGED <<outbound, age>>
           \/ ~cached /\ age >= Interval /\ AskProvider(g) /\ UNCHANGED nap
    /\ UNCHANGED <<fill, parked, egress, left, config>>

\* Awake, it goes on without another look at the time.
SleepEnds(g) ==
    /\ At(g, "sleep") /\ nap[g] = 0 /\ AskProvider(g)
    /\ UNCHANGED <<fill, parked, egress, mutex, nap, left, places, config>>

\* The oldest entry makes room at the limit.
Remembered(key) == Append(IF Len(places) >= CacheLimit THEN Tail(places) ELSE places, key)

ProviderAnswers(g) ==
    /\ At(g, "sent") /\ Go(g, "body") /\ egress' = EgressAfter(g)
    /\ \/ places' = Remembered(KeyOf[g])
       \/ UNCHANGED places
    /\ UNCHANGED <<fill, parked, outbound, mutex, age, nap, left, config>>

Later(since) == IF since < Interval THEN since + 1 ELSE since
TimePasses ==
    /\ age' = Later(age)
    /\ nap' = [g \in Geocodes |-> IF nap[g] > 0 THEN nap[g] - 1 ELSE 0]
    /\ left' = [last |-> Later(left.last), before |-> Later(left.before)]
    /\ UNCHANGED <<req, fill, parked, egress, outbound, mutex, places, config>>

-----------------------------------------------------------------------------
(* The first configuration push and the sweeper                            *)

\* The tail of /config: the TTL, then mark_configured's flag, then its wake.
Published(stage) ==
    CASE stage = "config" -> [ttl |-> "pushed", configured |-> configured]
      [] stage = "stored" -> [ttl |-> ttl, configured |-> TRUE]

Publish(p) ==
    /\ \/ At(p, "config") /\ Go(p, "stored")
       \/ At(p, "stored") /\ Go(p, "marked")
    /\ ttl' = Published(req[p]).ttl /\ configured' = Published(req[p]).configured
    /\ UNCHANGED <<fill, parked, egress, outbound, geo, left, sweeper, enrolled, woken, swept>>

\* notify_waiters keeps nothing for a task that enrols later.
NotifyWaiters(p) ==
    /\ At(p, "marked") /\ Go(p, "body") /\ woken' = (woken \/ enrolled)
    /\ UNCHANGED <<fill, parked, egress, outbound, geo, left, ttl, configured, sweeper, enrolled, swept>>

\* Mutant: the flag is checked before the waiter enrols.
SweeperLoop_CheckFirst ==
    \/ /\ sweeper = "enroll" /\ sweeper' = (IF configured THEN "sweep" ELSE "check")
       /\ UNCHANGED <<enrolled, woken>>
    \/ sweeper = "check" /\ enrolled' = TRUE /\ woken' = FALSE /\ sweeper' = "wait"
    \/ sweeper = "wait" /\ woken /\ sweeper' = "enroll" /\ UNCHANGED <<enrolled, woken>>

\* wait_until_configured: enrol, check the flag, sleep until woken, again.
SweeperLoop ==
    \/ sweeper = "enroll" /\ enrolled' = TRUE /\ woken' = FALSE /\ sweeper' = "check"
    \/ /\ sweeper = "check" /\ sweeper' = (IF configured THEN "sweep" ELSE "wait")
       /\ UNCHANGED <<enrolled, woken>>
    \/ sweeper = "wait" /\ woken /\ sweeper' = "enroll" /\ UNCHANGED <<enrolled, woken>>

SweeperWaits ==
    /\ SweeperLoop
    /\ UNCHANGED <<req, fill, parked, egress, outbound, geo, left, ttl, configured, swept>>

RunSweepOnce ==
    /\ sweeper = "sweep" /\ swept' = ttl
    /\ UNCHANGED <<req, fill, parked, egress, outbound, geo, left, ttl, configured, sweeper, enrolled, woken>>

-----------------------------------------------------------------------------
(* The process                                                             *)

Serving == boot = "serving"
Serve(r) ==
    \/ EgressGranted(r)
    \/ r \in Tiles /\ FillEnds(r)
    \/ r \in Geocodes /\ (GeocodeLocked(r) \/ SleepEnds(r) \/ ProviderAnswers(r))
    \/ r \in Pushes /\ (Publish(r) \/ NotifyWaiters(r))
Client(r) ==
    \/ r \in clients \cap Probes /\ Probe(r)
    \/ r \in clients \cap Ordinary /\ Arrive(r)
    \/ ResponseEnds(r)
    \/ Disconnect(r)
Background == TimePasses \/ SweeperWaits \/ RunSweepOnce

InService(A) == Serving /\ A /\ UNCHANGED <<bootVars, clients>>

InBoot(A) == A /\ UNCHANGED serviceVars
Fails ==
    /\ BootFaults /\ UNCHANGED clients
    /\ IF boot' = boot THEN UNCHANGED serviceVars ELSE Forgotten

Next ==
    \/ InBoot(BootStep) \/ InBoot(ContainerRestarts) \/ Fails
    \/ \E r \in Requests : InService(Serve(r)) \/ InService(AdmissionWaitEnds(r)) \/ InService(Client(r))
    \/ InService(Admit) \/ InService(Background)

\* Any disk, any clients and any number of faults.
ServiceInit ==
    /\ \E budget \in 0 .. MaxFaults : StartFrom(Disks, budget)
    /\ clients \in SUBSET Requests
    /\ Fresh
ServiceSpec == ServiceInit /\ [][Next]_vars

(* A start and a dead process as in Startup.  Every wait of a handler ends *)
(* by itself: admission, upstream and sleep by their timers, mutex and     *)
(* permits by the order of their waiters, blocking tasks by returning.     *)
(* Clients owe nothing: neither to call, nor to take an answer, nor to go. *)
Fairness ==
    /\ WF_vars(InBoot(BootStep)) /\ WF_vars(InBoot(ContainerRestarts))
    /\ \A r \in Requests : WF_vars(InService(Serve(r))) /\ WF_vars(InService(AdmissionWaitEnds(r)))
    /\ WF_vars(InService(TimePasses)) /\ WF_vars(InService(SweeperWaits))
    /\ WF_vars(InService(RunSweepOnce))

-----------------------------------------------------------------------------
(* Properties                                                              *)

Rank == {"idle", "parked", "refused", "body", "fill", "lock", "sleep", "send", "sent", "config", "stored", "marked"}
Distinct(queue) == \A i, j \in DOMAIN queue : queue[i] = queue[j] => i = j
Members(queue) == {queue[i] : i \in DOMAIN queue}

(* However clients come, stall and go: every queue holds exactly the       *)
(* requests that wait in it, permits go to requests and fills that are     *)
(* out, the handlers that run and the responses not yet read never         *)
(* outnumber the admission permits, and the geocode cache stays within its *)
(* limit with one entry per place.                                         *)
AdmissionExact ==
    LET busy(kind) == {r \in kind : req[r] \notin {"idle", "parked", "refused"}}
    IN  /\ clients \subseteq Requests /\ req \in [Requests -> Rank]
        /\ fill \in [Tiles -> {"none", "queued", "sent"}]
        /\ Distinct(parked) /\ Members(parked) = {r \in Requests : At(r, "parked")}
        /\ Distinct(mutex) /\ Members(mutex) = {r \in Requests : At(r, "lock")}
        /\ Distinct(outbound)
        /\ Members(outbound) = {t \in Tiles : fill[t] = "queued"} \cup {g \in Geocodes : At(g, "send")}
        /\ egress = {t \in Tiles : fill[t] = "sent"} \cup {g \in Geocodes : At(g, "sent")}
        /\ Cardinality(busy(Ordinary)) <= MaxActive /\ Cardinality(busy(Probes)) <= MaxHealth
        /\ age \in 0 .. Interval /\ nap \in [Geocodes -> 0 .. Interval]
        /\ Len(places) <= CacheLimit /\ Distinct(places)
        /\ {ttl, swept} \subseteq {"none", "boot", "pushed"} /\ configured \in BOOLEAN

(* However late egress permits are and whoever disconnects while asleep,   *)
(* queued or sent: of three requests in a row that leave for the provider, *)
(* the third leaves at least an interval after the first, so no more than  *)
(* two fall within one.  Two may: the interval is kept between stamps, and *)
(* a stamp precedes the wait for a permit.                                 *)
ProviderSpaced ==
    [][Serving => \A g \in Geocodes : ~At(g, "sent") /\ req'[g] = "sent" => left.before >= Interval]_vars

(* Every request is answered or refused, though no client ever has to take *)
(* its response: a slow reader holds its own permit and nothing more.      *)
EveryoneIsAnswered ==
    \A r \in Requests : ~(req[r] \in {"idle", "refused", "body"}) ~> req[r] \in {"idle", "refused", "body"}

(* A push that completes gets the sweeper going: the wake is never lost    *)
(* between the sweeper's check and its sleep.                              *)
SweeperWakes == \A p \in Pushes : At(p, "marked") ~> (swept # "none" \/ ~Serving)
=============================================================================

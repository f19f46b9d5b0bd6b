-------------------------- MODULE RegionDownloads --------------------------
(***************************************************************************)
(* What the container promises the plugin about saved regions: a region    *)
(* holds nothing or exactly the tiles of one request; a request for it is  *)
(* taken up by one driver at a time and saved whole or not at all; a       *)
(* delete is carried out only after a moment without a driver of the       *)
(* region; a death of the process forgets requests and deletes under way   *)
(* and nothing that is held.  WarmEngine.tla is shown to implement it.     *)
(***************************************************************************)
CONSTANTS
    Ids,        \* the saved regions
    Wanted      \* the sets of tiles a request may be for

VARIABLES
    holds,      \* what each region holds
    asked,      \* pairs <<region, tiles>>: the requests being worked on
    condemned   \* the region a delete is about to empty, if any

DownloadsInit ==
    /\ holds = [r \in Ids |-> {}]
    /\ asked = {}
    /\ condemned = {}

Busy(r) == \E q \in asked : q[1] = r

\* A request is taken up.
Ask(r, ks) ==
    /\ ~Busy(r)
    /\ asked' = asked \cup {<<r, ks>>}
    /\ UNCHANGED <<holds, condemned>>

\* It replaces what the region held, in one step.
Save(r, ks) ==
    /\ <<r, ks>> \in asked
    /\ holds' = [holds EXCEPT ![r] = ks]
    /\ UNCHANGED <<asked, condemned>>

\* It ends, saved or not.
Close(r) ==
    /\ asked' = {q \in asked : q[1] # r}
    /\ UNCHANGED <<holds, condemned>>

\* A delete finds the region at rest, and then empties it or fails.
Condemn(r) ==
    /\ ~Busy(r)
    /\ condemned' = {r}
    /\ UNCHANGED <<holds, asked>>

Forget(r) ==
    /\ r \in condemned
    /\ holds' = [holds EXCEPT ![r] = {}]
    /\ condemned' = {}
    /\ UNCHANGED asked

Spare ==
    /\ condemned' = {}
    /\ UNCHANGED <<holds, asked>>

\* The process dies and starts again.
Crash ==
    /\ asked' = {}
    /\ condemned' = {}
    /\ UNCHANGED holds

DownloadsNext ==
    \/ \E r \in Ids, ks \in Wanted : Ask(r, ks) \/ Save(r, ks)
    \/ \E r \in Ids : Close(r) \/ Condemn(r) \/ Forget(r)
    \/ Spare \/ Crash

DownloadsSpec == DownloadsInit /\ [][DownloadsNext]_<<holds, asked, condemned>>
=============================================================================

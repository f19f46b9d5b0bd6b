----------------------------- MODULE MCService -----------------------------
(***************************************************************************)
(* Startup and Service for TLC.  What the process serves does not outlive  *)
(* it, and its parts meet only at the permits, so they are explored one at *)
(* a time: starts from every disk with all faults and no clients, then two *)
(* geocodes and a tile, a push beside a geocode, and probes beside a tile  *)
(* and a push, on a plain database with one fault.                         *)
(***************************************************************************)
EXTENDS Service

CONSTANTS MaxServiceFaults

ClientGroups ==
    LET one == {CHOOSE g \in Geocodes : TRUE}
    IN  {Tiles \cup Geocodes, one \cup Pushes, Tiles \cup Pushes \cup Probes}
MCKeyOf == [g \in Geocodes |-> g]
PlainDisk == [legacy |-> NoDir, current |-> Whole("incremental", {"saved"})]

Init ==
    /\ ServiceInit
    /\ \/ clients = {} /\ faults = MaxFaults
       \/ /\ clients \in ClientGroups /\ disk = PlainDisk
          /\ faults = IF Probes \subseteq clients THEN MaxServiceFaults ELSE 0

Spec == Init /\ [][Next]_vars
FairSpec == Spec /\ Fairness
=============================================================================

------------------------------ MODULE Startup ------------------------------
(***************************************************************************)
(* The start of the container process (main.rs), over a data directory     *)
(* that outlives it: the one-time move of the legacy cache directory, the  *)
(* open of the database with its one-time VACUUM, the schema rebuilt one   *)
(* autocommitted statement at a time, the cleanup of abandoned staging     *)
(* (cache.rs) and the recreation of a corrupt file.  The process may die   *)
(* at any step, and the runtime starts it again.                           *)
(*                                                                         *)
(* A database is what a start reads of it: the stamped version, its        *)
(* tables, its auto-vacuum mode, whether it holds saved and staged pins,   *)
(* and whether a page of it is damaged.  A power loss under synchronous =  *)
(* NORMAL rolls back to an earlier commit, a state in which the process    *)
(* could have died as well.                                                *)
(***************************************************************************)
EXTENDS Naturals, Sequences, FiniteSets

CONSTANTS
    NoDir, EmptyDir,   \* no such directory, and one without a database
    MaxFaults          \* bound on deaths, damage and failed calls

Tables == {"tiles", "region_tiles", "learned_styles"}
Databases ==
    [version : {"unset", "old", "current"}, tables : SUBSET Tables,
     mode : {"none", "incremental"}, pins : SUBSET {"saved", "staged"}, sound : BOOLEAN]
Dirs == {NoDir, EmptyDir} \cup Databases

ASSUME BootAssumption ==
    /\ NoDir # EmptyDir /\ {NoDir, EmptyDir} \cap Databases = {}
    /\ MaxFaults \in Nat

IsDb(d) == d \notin {NoDir, EmptyDir}

VARIABLES
    disk,       \* the legacy and the current directory
    boot,       \* where main stands
    line,       \* the next statement of ensure_schema
    deferred,   \* AutoVacuumState::Deferred
    reopened,   \* open_or_recreate is at its second open
    owed,       \* which saved pins a start must "keep" in place or "serve"
    faults      \* faults left

bootLocals == <<line, deferred, reopened>>
bootVars == <<disk, boot, bootLocals, owed, faults>>

Current == disk["current"]
Update(db) == disk' = [disk EXCEPT !["current"] = db]
Step(to) == boot' = to

\* The databases a finished start of this or of an older version leaves,
\* or of one that died in a rebuild; a process that died warming leaves staging.
Whole(mode, pins) ==
    [version |-> "current", tables |-> Tables, mode |-> mode, pins |-> pins, sound |-> TRUE]
Left ==
    {Whole(m, p) : m \in {"none", "incremental"}, p \in SUBSET {"saved", "staged"}}
      \cup {[Whole("none", {"saved"}) EXCEPT !.version = "old", !.tables = Tables \ {"learned_styles"}],
            [Whole("incremental", {}) EXCEPT !.version = "unset", !.tables = {"tiles"}]}
Disks == [legacy : {NoDir} \cup Left, current : {NoDir, EmptyDir} \cup Left]

\* Saved pins of a usable database are served when the start finds them.
Owed(d) ==
    LET saved(n) == IsDb(d[n]) /\ d[n].version = "current" /\ "saved" \in d[n].pins
    IN  IF saved("current") \/ (saved("legacy") /\ d["current"] = NoDir) THEN "serve"
        ELSE IF saved("legacy") THEN "keep" ELSE "nothing"

StartFrom(disks, budget) ==
    /\ disk \in disks /\ faults = budget /\ owed = Owed(disk)
    /\ boot = "migrate" /\ line = 1 /\ deferred = FALSE /\ reopened = FALSE

-----------------------------------------------------------------------------
(* The directory                                                           *)

Fault == faults > 0 /\ faults' = faults - 1

\* A failed rename is logged; the cache then starts cold in the current one.
MigrateLegacyCacheDir ==
    /\ boot = "migrate" /\ Step("mkdir") /\ UNCHANGED bootLocals
    /\ LET move == disk["legacy"] # NoDir /\ Current = NoDir
       IN  \/ move /\ disk' = [legacy |-> NoDir, current |-> disk["legacy"]] /\ UNCHANGED <<owed, faults>>
           \/ ~move /\ UNCHANGED <<disk, owed, faults>>
           \/ move /\ Fault /\ owed' = (IF owed = "serve" THEN "keep" ELSE owed) /\ UNCHANGED disk

CreateDirAll ==
    /\ boot = "mkdir" /\ Step("open") /\ UNCHANGED <<bootLocals, owed>>
    /\ \/ Update(IF Current = NoDir THEN EmptyDir ELSE Current) /\ UNCHANGED faults
       \/ Current = NoDir /\ Fault /\ UNCHANGED disk

-----------------------------------------------------------------------------
(* TileCache::open                                                         *)

\* Without a directory the open fails.  Whether a new file takes the mode
\* at once or by a VACUUM is SQLite's.
OpenConnection ==
    /\ boot = "open" /\ Current # NoDir /\ Step("vacuum")
    /\ \/ IsDb(Current) /\ UNCHANGED disk
       \/ Current = EmptyDir /\ \E m \in {"none", "incremental"} :
            Update([version |-> "unset", tables |-> {}, mode |-> m, pins |-> {}, sound |-> TRUE])
    /\ UNCHANGED <<bootLocals, owed, faults>>

\* A VACUUM that finds the disk full leaves the database as it was; it is
\* deferred and the next start tries again.
EnsureIncrementalAutoVacuum ==
    /\ boot = "vacuum"
    /\ \/ /\ Update([Current EXCEPT !.mode = "incremental"])
          /\ Step("schema") /\ UNCHANGED <<deferred, faults>>
       \/ Current.mode = "none" /\ Fault /\ Step("schema") /\ deferred' = TRUE /\ UNCHANGED disk
    /\ UNCHANGED <<line, reopened, owed>>

Without(db, t) == [db EXCEPT !.tables = @ \ {t}, !.pins = IF t = "region_tiles" THEN {} ELSE @]
With(db, t) == [db EXCEPT !.tables = @ \cup {t}]

\* Mutant: the version is stamped before the tables exist.
Rebuild_StampFirst ==
    <<"drop learned_styles", "drop region_tiles", "drop tiles", "stamp", "create tiles", "create region_tiles">>

Rebuild ==
    <<"drop learned_styles", "drop region_tiles", "drop tiles", "create tiles", "create region_tiles", "stamp">>

\* What a statement makes of the database; none fails on what an earlier
\* start left behind: the drops say IF EXISTS and precede the creates.
Runs(statement, db) ==
    CASE statement = "drop learned_styles"  -> Without(db, "learned_styles")
      [] statement = "drop region_tiles"    -> Without(db, "region_tiles")
      [] statement = "drop tiles"           -> Without(db, "tiles")
      [] statement = "create tiles"         -> With(db, "tiles")
      [] statement = "create region_tiles"  -> With(db, "region_tiles")
      [] statement = "stamp"                -> [db EXCEPT !.version = "current"]

CanRun(statement, db) ==
    /\ statement = "create tiles" => "tiles" \notin db.tables
    /\ statement = "create region_tiles" => "region_tiles" \notin db.tables

\* ensure_schema, a statement at a time; the version is read once, on entry.
EnsureSchema ==
    /\ boot = "schema"
    /\ \/ line = 1 /\ Current.version = "current" /\ Step("indexes") /\ UNCHANGED <<disk, line>>
       \/ /\ line > 1 \/ Current.version # "current"
          /\ line <= Len(Rebuild)
          /\ CanRun(Rebuild[line], Current)
          /\ Update(Runs(Rebuild[line], Current))
          /\ line' = line + 1 /\ UNCHANGED boot
       \/ line > Len(Rebuild) /\ Step("indexes") /\ UNCHANGED <<disk, line>>
    /\ UNCHANGED <<deferred, reopened, owed, faults>>

\* The two indexes need their tables; learned_styles is added to any version.
EnsureIndexesAndStyles ==
    /\ boot = "indexes" /\ {"tiles", "region_tiles"} \subseteq Current.tables
    /\ Update(With(Current, "learned_styles"))
    /\ Step("cleanup") /\ UNCHANGED <<bootLocals, owed, faults>>

\* Mutant: staging is left to the next warm.
Cleaned_Nothing(db) == db

Cleaned(db) == [db EXCEPT !.pins = @ \ {"staged"}]

\* Skipped after a deferred VACUUM; then the totals are read, main evicts
\* scroll tiles to the cap (an error is logged) and serves.
CleanupAbandonedStaging ==
    /\ boot = "cleanup" /\ Step("serving")
    /\ Update(IF deferred THEN Current ELSE Cleaned(Current))
    /\ UNCHANGED <<bootLocals, owed, faults>>

-----------------------------------------------------------------------------
(* Errors, deaths and restarts                                             *)

Opening == boot \in {"open", "vacuum", "schema", "indexes", "cleanup"}

\* Mutant: every error of the open is taken for corruption.
Recreates_Always(corrupt) == ~reopened

\* open_or_recreate deletes the files once, and only for a corrupt database.
Recreates(corrupt) == corrupt /\ ~reopened

\* A statement fails: on a damaged page, on a full or failing medium, on a
\* directory that is not there or on a table that is or is not.
OpenFails(corrupt) ==
    /\ Opening
    /\ \/ Recreates(corrupt) /\ Update(IF Current = NoDir THEN NoDir ELSE EmptyDir)
            /\ Step("open") /\ line' = 1 /\ deferred' = FALSE /\ reopened' = TRUE
       \/ ~Recreates(corrupt) /\ Step("dead") /\ UNCHANGED <<disk, bootLocals>>

CorruptPage == IsDb(Current) /\ ~Current.sound /\ OpenFails(TRUE) /\ UNCHANGED <<owed, faults>>
BadMedium == Fault /\ OpenFails(FALSE) /\ UNCHANGED owed
Impossible ==
    /\ \/ boot = "open" /\ Current = NoDir
       \/ boot = "schema" /\ line \in DOMAIN Rebuild /\ ~CanRun(Rebuild[line], Current)
       \/ boot = "indexes" /\ ~({"tiles", "region_tiles"} \subseteq Current.tables)
    /\ OpenFails(FALSE) /\ UNCHANGED <<owed, faults>>

\* A page of the database the process uses goes bad.
PageGoesBad ==
    /\ Fault /\ IsDb(Current) /\ Current.sound
    /\ Update([Current EXCEPT !.sound = FALSE])
    /\ owed' = "nothing" /\ UNCHANGED <<boot, bootLocals>>

ProcessDies == boot # "dead" /\ Fault /\ Step("dead") /\ UNCHANGED <<disk, bootLocals, owed>>

ContainerRestarts ==
    /\ boot = "dead" /\ Step("migrate")
    /\ line' = 1 /\ deferred' = FALSE /\ reopened' = FALSE
    /\ UNCHANGED <<disk, owed, faults>>

BootStep ==
    \/ MigrateLegacyCacheDir \/ CreateDirAll \/ OpenConnection \/ EnsureIncrementalAutoVacuum
    \/ EnsureSchema \/ EnsureIndexesAndStyles \/ CleanupAbandonedStaging
    \/ CorruptPage \/ Impossible
BootFaults == BadMedium \/ PageGoesBad \/ ProcessDies

\* A start runs on and a dead process is started again.
BootFairness == WF_bootVars(BootStep) /\ WF_bootVars(ContainerRestarts)

-----------------------------------------------------------------------------
(* Properties                                                              *)

(* A container that serves does so on a database of this version with all  *)
(* its tables and, unless it put the VACUUM off, without the staging of a  *)
(* process that died warming, however often earlier starts were cut short. *)
ServesWhole ==
    boot = "serving" =>
        /\ IsDb(Current) /\ Current.version = "current" /\ Current.tables = Tables
        /\ "staged" \in Current.pins => deferred

(* Saved pins of a usable database survive every start: no death, no full  *)
(* disk and no error short of corruption costs them, and unless the rename *)
(* of a legacy directory failed they are in the database that is served.   *)
SavedKept ==
    LET saved(n) == IsDb(disk[n]) /\ "saved" \in disk[n].pins
    IN  /\ owed # "nothing" => \E n \in DOMAIN disk : saved(n)
        /\ owed = "serve" /\ boot = "serving" => saved("current")

(* Whatever a start finds and wherever earlier ones died, once faults stop *)
(* the container comes up and stays up.                                    *)
StartsInTheEnd == <>[](boot = "serving")
=============================================================================

---------------------------- MODULE ServiceProofs ----------------------------
(***************************************************************************)
(* The start of the container and what it serves, for any disk a start may *)
(* find, any number of clients, faults and permits, and any interval.      *)
(***************************************************************************)
EXTENDS Service, FiniteSetTheorems, TLAPS

-----------------------------------------------------------------------------
(* The start                                                               *)

BootPcs == {"migrate", "mkdir", "open", "vacuum", "schema", "indexes", "cleanup", "serving", "dead"}

\* A stamped database has its tables: the stamp is the last statement.
Stamped(d) == IsDb(d) /\ d.version = "current"
StampedWhole(d) == Stamped(d) => {"tiles", "region_tiles"} \subseteq d.tables
SavedIn(d) == Stamped(d) /\ "saved" \in d.pins

DiskInv ==
    /\ disk \in [{"legacy", "current"} -> Dirs]
    /\ StampedWhole(disk["legacy"]) /\ StampedWhole(disk["current"])
    /\ IsDb(disk["legacy"]) => disk["legacy"].sound

BootTypeOK ==
    /\ boot \in BootPcs /\ line \in 1 .. 7 /\ deferred \in BOOLEAN /\ reopened \in BOOLEAN
    /\ owed \in {"serve", "keep", "nothing"} /\ faults \in Nat

\* Where the open stands with its database.  A rebuild is under way exactly
\* from its first statement to the stamp.
OpenInv ==
    /\ boot \in {"vacuum", "schema", "indexes", "cleanup", "serving"} => IsDb(Current)
    /\ boot \in {"migrate", "mkdir", "open", "vacuum"} => line = 1
    /\ boot = "schema" =>
        /\ line \in 2 .. 6 => Current.version # "current"
        /\ line = 2 => "learned_styles" \notin Current.tables
        /\ line = 3 => Current.tables \subseteq {"tiles"}
        /\ line = 4 => Current.tables = {}
        /\ line = 5 => Current.tables = {"tiles"}
        /\ line >= 6 => Current.tables = {"tiles", "region_tiles"}
        /\ line = 7 => Current.version = "current"
    /\ boot \in {"indexes", "cleanup", "serving"} => Current.version = "current"
    /\ boot \in {"cleanup", "serving"} => Current.tables = Tables
    /\ boot = "serving" => "staged" \notin Current.pins \/ deferred

\* Where the saved pins are, and that no damaged database holds any.
OwedInv ==
    /\ owed = "serve" => \/ SavedIn(Current)
                         \/ Current = NoDir /\ SavedIn(disk["legacy"]) /\ boot \in {"migrate", "dead"}
    /\ owed = "keep" => SavedIn(Current) \/ SavedIn(disk["legacy"])
    /\ IsDb(Current) /\ ~Current.sound => owed = "nothing"

BootInv == DiskInv /\ BootTypeOK /\ OpenInv /\ OwedInv

LEMMA DirFacts ==
    ASSUME NEW d \in Dirs
    PROVE  /\ IsDb(d) <=> d \in Databases
           /\ ~IsDb(NoDir) /\ ~IsDb(EmptyDir) /\ NoDir # EmptyDir
           /\ d = NoDir \/ d = EmptyDir \/ IsDb(d)
BY BootAssumption DEF BootAssumption, Dirs, IsDb

LEMMA DbTypes ==
    ASSUME NEW d \in Databases
    PROVE  /\ d.version \in {"unset", "old", "current"} /\ d.tables \in SUBSET Tables /\ d.mode \in {"none", "incremental"}
           /\ d.pins \in SUBSET {"saved", "staged"} /\ d.sound \in BOOLEAN /\ d \in Dirs /\ IsDb(d)
<1>1. d \in Dirs /\ IsDb(d)
  BY DirFacts DEF Dirs
<1> QED BY <1>1 DEF Databases

\* The databases a start finds.
Modes == {"none", "incremental"}
PinSets == SUBSET {"saved", "staged"}

LEMMA WholeFacts ==
    ASSUME NEW mode \in Modes, NEW pins \in PinSets
    PROVE  /\ Whole(mode, pins) \in Databases /\ Whole(mode, pins).sound = TRUE /\ Whole(mode, pins).tables = Tables
           /\ StampedWhole(Whole(mode, pins))
<1> DEFINE w == Whole(mode, pins)
<1>1. w \in Databases /\ w.sound = TRUE /\ w.tables = Tables
  BY DEF Whole, Databases, Tables, Modes, PinSets
<1> HIDE DEF w
<1>2. StampedWhole(w)
  BY <1>1 DEF StampedWhole, Tables
<1> QED BY <1>1, <1>2 DEF w

LEMMA UnstampedFacts ==
    ASSUME NEW q \in Databases, q.sound = TRUE, NEW version \in {"unset", "old"}, NEW tables \in SUBSET Tables
    PROVE  LET d == [q EXCEPT !.version = version, !.tables = tables]
           IN  d \in Databases /\ d.sound /\ StampedWhole(d)
<1> DEFINE d == [q EXCEPT !.version = version, !.tables = tables]
<1>1. d \in Databases /\ d.sound = TRUE /\ d.version = version
  BY DEF Databases
<1> HIDE DEF d
<1> QED BY <1>1 DEF StampedWhole, Stamped, d

LEMMA LeftFacts == \A d \in Left : d \in Databases /\ d.sound /\ StampedWhole(d)
<1> SUFFICES ASSUME NEW d \in Left PROVE d \in Databases /\ d.sound /\ StampedWhole(d)
  OBVIOUS
<1>1. Tables \ {"learned_styles"} \in SUBSET Tables /\ {"tiles"} \in SUBSET Tables
  BY DEF Tables
<1>2. "none" \in Modes /\ "incremental" \in Modes /\ {"saved"} \in PinSets /\ {} \in PinSets
  BY DEF Modes, PinSets
<1>3. CASE \E mode \in Modes, pins \in PinSets : d = Whole(mode, pins)
  BY <1>3, WholeFacts
<1>4. CASE d = [Whole("none", {"saved"}) EXCEPT !.version = "old", !.tables = Tables \ {"learned_styles"}]
  BY <1>1, <1>2, <1>4, WholeFacts, UnstampedFacts
<1>5. CASE d = [Whole("incremental", {}) EXCEPT !.version = "unset", !.tables = {"tiles"}]
  BY <1>1, <1>2, <1>5, WholeFacts, UnstampedFacts
<1> QED BY <1>3, <1>4, <1>5 DEF Left, Modes, PinSets

LEMMA BootInitInv == ASSUME NEW budget \in Nat, StartFrom(Disks, budget) PROVE BootInv
<1>1. disk \in Disks /\ faults \in Nat /\ owed = Owed(disk) /\ boot = "migrate" /\ line = 1 /\ deferred = FALSE /\ reopened = FALSE
  BY DEF StartFrom
<1>2. disk["legacy"] \in {NoDir} \cup Left /\ disk["current"] \in {NoDir, EmptyDir} \cup Left /\ disk = [legacy |-> disk["legacy"], current |-> disk["current"]]
  BY <1>1 DEF Disks
<1>3. disk["legacy"] \in Dirs /\ disk["current"] \in Dirs /\ disk \in [{"legacy", "current"} -> Dirs]
  BY <1>2, LeftFacts DEF Dirs
<1>4. ~IsDb(NoDir) /\ ~IsDb(EmptyDir)
  BY <1>3, DirFacts
<1>5. DiskInv
  BY <1>2, <1>3, <1>4, LeftFacts DEF DiskInv, StampedWhole, Stamped
<1>6. BootTypeOK
  <2>1. Owed(disk) \in {"serve", "keep", "nothing"}
    BY DEF Owed
  <2>2. deferred \in BOOLEAN /\ reopened \in BOOLEAN
    BY <1>1
  <2>3. boot \in BootPcs /\ line \in 1 .. 7
    BY <1>1 DEF BootPcs
  <2> QED BY <1>1, <2>1, <2>2, <2>3 DEF BootTypeOK
<1>7. OpenInv
  BY <1>1 DEF OpenInv
<1>8. OwedInv
  BY <1>1, <1>2, <1>4, LeftFacts DEF OwedInv, Owed, SavedIn, Stamped, Current
<1> QED BY <1>5, <1>6, <1>7, <1>8 DEF BootInv

-----------------------------------------------------------------------------
(* Each step of the start                                                  *)

LEMMA UpdateFacts ==
    ASSUME DiskInv, NEW db \in Dirs, StampedWhole(db), Update(db)
    PROVE  Current' = db /\ disk'["legacy"] = disk["legacy"] /\ DiskInv'
<1>1. disk' = [disk EXCEPT !["current"] = db] /\ disk \in [{"legacy", "current"} -> Dirs]
  BY DEF Update, DiskInv
<1>2. disk'["current"] = db /\ disk'["legacy"] = disk["legacy"] /\ disk' \in [{"legacy", "current"} -> Dirs]
  BY <1>1
<1> QED BY <1>2 DEF DiskInv, Current

LEMMA BootTypes ==
    ASSUME BootInv
    PROVE  /\ Current \in Dirs /\ disk["legacy"] \in Dirs /\ StampedWhole(Current)
           /\ IsDb(Current) => Current \in Databases
           /\ ~IsDb(NoDir) /\ ~IsDb(EmptyDir) /\ NoDir # EmptyDir
<1>1. Current \in Dirs /\ disk["legacy"] \in Dirs /\ StampedWhole(Current)
  BY DEF BootInv, DiskInv, Current
<1> QED BY <1>1, DirFacts

\* A step that leaves the disk alone.
LEMMA SameDisk ==
    ASSUME BootInv, UNCHANGED disk
    PROVE  DiskInv' /\ Current' = Current /\ disk'["legacy"] = disk["legacy"]
BY DEF BootInv, DiskInv, Current

LEMMA FaultNat == ASSUME BootInv, Fault PROVE faults' \in Nat
BY DEF BootInv, BootTypeOK, Fault

LEMMA MigrateInv == ASSUME BootInv, MigrateLegacyCacheDir PROVE BootInv'
<1>1. /\ boot = "migrate" /\ boot' = "mkdir" /\ line' = line /\ deferred' = deferred /\ reopened' = reopened
  BY DEF MigrateLegacyCacheDir, Step, bootLocals
<1>2. line = 1
  BY <1>1 DEF BootInv, OpenInv
<1>3. OpenInv'
  BY <1>1, <1>2 DEF OpenInv
<1>4. CASE disk["legacy"] # NoDir /\ Current = NoDir /\ disk' = [legacy |-> NoDir, current |-> disk["legacy"]] /\ UNCHANGED <<owed, faults>>
  <2>1. disk["legacy"] \in Dirs /\ NoDir \in Dirs /\ ~IsDb(NoDir)
    BY BootTypes DEF Dirs
  <2>2. Current' = disk["legacy"] /\ disk'["legacy"] = NoDir /\ disk' \in [{"legacy", "current"} -> Dirs]
    BY <1>4, <2>1 DEF Current
  <2>3. DiskInv'
    BY <2>1, <2>2 DEF BootInv, DiskInv, StampedWhole, Stamped, Current
  <2>4. OwedInv'
    BY <1>4, <2>1, <2>2 DEF BootInv, OwedInv, DiskInv, SavedIn, Stamped
  <2>5. BootTypeOK'
    BY <1>1, <1>4 DEF BootInv, BootTypeOK, BootPcs
  <2> QED BY <1>3, <2>3, <2>4, <2>5 DEF BootInv
<1>5. CASE ~(disk["legacy"] # NoDir /\ Current = NoDir) /\ UNCHANGED <<disk, owed, faults>>
  <2>1. DiskInv' /\ Current' = Current /\ disk'["legacy"] = disk["legacy"] /\ ~IsDb(NoDir)
    BY <1>5, SameDisk, BootTypes
  <2>2. OwedInv'
    BY <1>5, <2>1 DEF BootInv, OwedInv, SavedIn, Stamped
  <2>3. BootTypeOK'
    BY <1>1, <1>5 DEF BootInv, BootTypeOK, BootPcs
  <2> QED BY <1>3, <2>1, <2>2, <2>3 DEF BootInv
<1>6. CASE disk["legacy"] # NoDir /\ Current = NoDir /\ Fault /\ owed' = (IF owed = "serve" THEN "keep" ELSE owed) /\ UNCHANGED disk
  <2>1. DiskInv' /\ Current' = Current /\ disk'["legacy"] = disk["legacy"] /\ ~IsDb(NoDir)
    BY <1>6, SameDisk, BootTypes
  <2>2. OwedInv'
    BY <1>6, <2>1 DEF BootInv, OwedInv, SavedIn, Stamped
  <2>3. owed' \in {"serve", "keep", "nothing"} /\ faults' \in Nat
    BY <1>6, FaultNat DEF BootInv, BootTypeOK
  <2>4. BootTypeOK'
    BY <1>1, <2>3 DEF BootInv, BootTypeOK, BootPcs
  <2> QED BY <1>3, <2>1, <2>2, <2>4 DEF BootInv
<1> QED BY <1>4, <1>5, <1>6 DEF MigrateLegacyCacheDir

\* What a start owes is kept where its disk is not touched, or is touched in
\* a way that spares a stamped database and its soundness.
LEMMA OwedFrame ==
    ASSUME BootInv, UNCHANGED owed, disk'["legacy"] = disk["legacy"], boot # "migrate", boot # "dead",
           SavedIn(Current) => SavedIn(Current'), IsDb(Current') => (~IsDb(Current) \/ Current'.sound = Current.sound),
           ~IsDb(Current) /\ IsDb(Current') => Current'.sound = TRUE
    PROVE  OwedInv'
BY DEF BootInv, OwedInv, SavedIn, Stamped

LEMMA CreateDirInv == ASSUME BootInv, CreateDirAll PROVE BootInv'
<1>1. /\ boot = "mkdir" /\ boot' = "open" /\ line' = line /\ deferred' = deferred /\ reopened' = reopened /\ owed' = owed
  BY DEF CreateDirAll, Step, bootLocals
<1>2. line = 1 /\ ~IsDb(NoDir) /\ ~IsDb(EmptyDir)
  BY <1>1, BootTypes DEF BootInv, OpenInv
<1>3. OpenInv'
  BY <1>1, <1>2 DEF OpenInv
<1>4. faults' \in Nat
  BY FaultNat DEF CreateDirAll, BootInv, BootTypeOK
<1>5. BootTypeOK'
  BY <1>1, <1>4 DEF BootInv, BootTypeOK, BootPcs
<1>6. DiskInv' /\ (Current' = Current \/ (Current = NoDir /\ Current' = EmptyDir)) /\ disk'["legacy"] = disk["legacy"]
  <2>1. CASE UNCHANGED disk
    BY <2>1, SameDisk
  <2>2. CASE Update(IF Current = NoDir THEN EmptyDir ELSE Current)
    <3>1. EmptyDir \in Dirs /\ StampedWhole(EmptyDir) /\ Current \in Dirs /\ StampedWhole(Current) /\ DiskInv
      BY <1>2, BootTypes DEF Dirs, StampedWhole, Stamped, BootInv
    <3> QED BY <2>2, <3>1, UpdateFacts
  <2> QED BY <2>1, <2>2 DEF CreateDirAll
<1>7. OwedInv'
  BY <1>1, <1>2, <1>6, OwedFrame DEF SavedIn, Stamped
<1> QED BY <1>3, <1>5, <1>6, <1>7 DEF BootInv

LEMMA OpenConnectionInv == ASSUME BootInv, OpenConnection PROVE BootInv'
<1>1. /\ boot = "open" /\ boot' = "vacuum" /\ line' = line /\ deferred' = deferred /\ reopened' = reopened /\ owed' = owed
      /\ faults' = faults
  BY DEF OpenConnection, Step, bootLocals
<1>2. line = 1 /\ ~IsDb(EmptyDir)
  BY <1>1, BootTypes DEF BootInv, OpenInv
<1>3. BootTypeOK'
  BY <1>1 DEF BootInv, BootTypeOK, BootPcs
<1>4. CASE IsDb(Current) /\ UNCHANGED disk
  <2>1. DiskInv' /\ Current' = Current /\ disk'["legacy"] = disk["legacy"]
    BY <1>4, SameDisk
  <2>2. OpenInv' /\ OwedInv'
    BY <1>1, <1>2, <1>4, <2>1, OwedFrame DEF OpenInv
  <2> QED BY <1>3, <2>1, <2>2 DEF BootInv
<1>5. ASSUME Current = EmptyDir, NEW m \in {"none", "incremental"},
             Update([version |-> "unset", tables |-> {}, mode |-> m, pins |-> {}, sound |-> TRUE])
      PROVE  BootInv'
  <2> DEFINE db == [version |-> "unset", tables |-> {}, mode |-> m, pins |-> {}, sound |-> TRUE]
  <2>1. db \in Databases /\ db.version = "unset" /\ db.sound = TRUE
    BY DEF Databases
  <2> HIDE DEF db
  <2>2. db \in Dirs /\ IsDb(db) /\ StampedWhole(db)
    BY <2>1, DbTypes DEF StampedWhole, Stamped
  <2>3. DiskInv' /\ Current' = db /\ disk'["legacy"] = disk["legacy"]
    BY <1>5, <2>2, UpdateFacts DEF BootInv, db
  <2>4. OpenInv'
    BY <1>1, <1>2, <2>2, <2>3 DEF OpenInv
  <2>5. OwedInv'
    BY <1>1, <1>2, <1>5, <2>1, <2>2, <2>3, OwedFrame DEF SavedIn, Stamped
  <2> QED BY <1>3, <2>3, <2>4, <2>5 DEF BootInv
<1> QED BY <1>4, <1>5 DEF OpenConnection

LEMMA VacuumInv == ASSUME BootInv, EnsureIncrementalAutoVacuum PROVE BootInv'
<1>1. boot = "vacuum" /\ boot' = "schema" /\ line' = line /\ reopened' = reopened /\ owed' = owed
  BY DEF EnsureIncrementalAutoVacuum, Step
<1>2. line = 1 /\ IsDb(Current) /\ Current \in Databases /\ StampedWhole(Current)
  BY <1>1, BootTypes DEF BootInv, OpenInv
<1>3. deferred' \in BOOLEAN /\ faults' \in Nat
  BY FaultNat DEF EnsureIncrementalAutoVacuum, BootInv, BootTypeOK
<1>4. BootTypeOK'
  BY <1>1, <1>3 DEF BootInv, BootTypeOK, BootPcs
<1>5. /\ DiskInv' /\ disk'["legacy"] = disk["legacy"] /\ IsDb(Current')
      /\ Current'.version = Current.version /\ Current'.pins = Current.pins /\ Current'.sound = Current.sound
  <2>1. CASE UNCHANGED disk
    BY <1>2, <2>1, SameDisk
  <2>2. CASE Update([Current EXCEPT !.mode = "incremental"])
    <3> DEFINE db == [Current EXCEPT !.mode = "incremental"]
    <3>1. /\ db \in Databases /\ db.version = Current.version /\ db.pins = Current.pins /\ db.sound = Current.sound
          /\ db.tables = Current.tables
      BY <1>2 DEF Databases
    <3> HIDE DEF db
    <3>2. db \in Dirs /\ IsDb(db) /\ StampedWhole(db)
      BY <1>2, <3>1, DbTypes DEF StampedWhole, Stamped
    <3> QED BY <2>2, <3>1, <3>2, UpdateFacts DEF BootInv, db
  <2> QED BY <2>1, <2>2 DEF EnsureIncrementalAutoVacuum
<1>6. OpenInv'
  BY <1>1, <1>2, <1>5 DEF OpenInv
<1>7. OwedInv'
  BY <1>1, <1>2, <1>5, OwedFrame DEF SavedIn, Stamped
<1> QED BY <1>4, <1>5, <1>6, <1>7 DEF BootInv

\* What the statements of a rebuild make of a database.
LEMMA WithoutFacts ==
    ASSUME NEW db \in Databases, NEW t
    PROVE  /\ Without(db, t) \in Databases /\ Without(db, t).tables = db.tables \ {t}
           /\ Without(db, t).version = db.version /\ Without(db, t).sound = db.sound
<1> DEFINE pins == IF t = "region_tiles" THEN {} ELSE db.pins
           tables == db.tables \ {t}
<1>1. pins \in SUBSET {"saved", "staged"} /\ tables \in SUBSET Tables
  BY DbTypes
<1>2. Without(db, t) = [db EXCEPT !.tables = tables, !.pins = pins]
  BY DEF Without, Databases
<1> HIDE DEF pins, tables
<1>3. LET d == [db EXCEPT !.tables = tables, !.pins = pins]
      IN  d \in Databases /\ d.tables = tables /\ d.version = db.version /\ d.sound = db.sound
  BY <1>1 DEF Databases
<1> QED BY <1>2, <1>3 DEF tables

LEMMA WithFacts ==
    ASSUME NEW db \in Databases, NEW t \in Tables
    PROVE  /\ With(db, t) \in Databases /\ With(db, t).tables = db.tables \cup {t} /\ With(db, t).pins = db.pins
           /\ With(db, t).version = db.version /\ With(db, t).sound = db.sound
<1> DEFINE tables == db.tables \cup {t}
<1>1. tables \in SUBSET Tables
  BY DbTypes
<1>2. With(db, t) = [db EXCEPT !.tables = tables]
  BY DEF With, Databases
<1> HIDE DEF tables
<1>3. LET d == [db EXCEPT !.tables = tables]
      IN  d \in Databases /\ d.tables = tables /\ d.version = db.version /\ d.sound = db.sound /\ d.pins = db.pins
  BY <1>1 DEF Databases
<1> QED BY <1>2, <1>3 DEF tables

LEMMA StampFacts ==
    ASSUME NEW db \in Databases
    PROVE  LET d == [db EXCEPT !.version = "current"]
           IN  d \in Databases /\ d.tables = db.tables /\ d.version = "current" /\ d.sound = db.sound
BY DEF Databases

LEMMA RebuildLines ==
    /\ Len(Rebuild) = 6
    /\ Rebuild[1] = "drop learned_styles" /\ Rebuild[2] = "drop region_tiles" /\ Rebuild[3] = "drop tiles"
    /\ Rebuild[4] = "create tiles" /\ Rebuild[5] = "create region_tiles" /\ Rebuild[6] = "stamp"
BY DEF Rebuild

\* The rebuild: drops, creates, and the version only once the tables are there.
LEMMA RunsFacts ==
    ASSUME NEW db \in Databases, NEW n \in 1 .. 6, db.version # "current",
           n = 2 => "learned_styles" \notin db.tables, n = 3 => db.tables \subseteq {"tiles"}, n = 4 => db.tables = {},
           n = 5 => db.tables = {"tiles"}, n = 6 => db.tables = {"tiles", "region_tiles"}
    PROVE  LET d == Runs(Rebuild[n], db)
           IN  /\ d \in Databases /\ d.sound = db.sound
               /\ n < 6 => d.version # "current"
               /\ n = 6 => d.version = "current"
               /\ n = 1 => "learned_styles" \notin d.tables
               /\ n = 2 => d.tables \subseteq {"tiles"}
               /\ n = 3 => d.tables = {}
               /\ n = 4 => d.tables = {"tiles"}
               /\ n \in {5, 6} => d.tables = {"tiles", "region_tiles"}
<1>1. "tiles" \in Tables /\ "region_tiles" \in Tables /\ db.tables \subseteq {"tiles", "region_tiles", "learned_styles"}
  BY DbTypes DEF Tables
<1>2. CASE n = 1
  <2>1. Runs(Rebuild[n], db) = Without(db, "learned_styles")
    BY <1>2, RebuildLines DEF Runs
  <2> QED BY <1>2, <2>1, WithoutFacts
<1>3. CASE n = 2
  <2>1. Runs(Rebuild[n], db) = Without(db, "region_tiles")
    BY <1>3, RebuildLines DEF Runs
  <2> QED BY <1>1, <1>3, <2>1, WithoutFacts
<1>4. CASE n = 3
  <2>1. Runs(Rebuild[n], db) = Without(db, "tiles")
    BY <1>4, RebuildLines DEF Runs
  <2> QED BY <1>4, <2>1, WithoutFacts
<1>5. CASE n = 4
  <2>1. Runs(Rebuild[n], db) = With(db, "tiles")
    BY <1>5, RebuildLines DEF Runs
  <2> QED BY <1>1, <1>5, <2>1, WithFacts
<1>6. CASE n = 5
  <2>1. Runs(Rebuild[n], db) = With(db, "region_tiles")
    BY <1>6, RebuildLines DEF Runs
  <2> QED BY <1>1, <1>6, <2>1, WithFacts
<1>7. CASE n = 6
  <2>1. Runs(Rebuild[n], db) = [db EXCEPT !.version = "current"]
    BY <1>7, RebuildLines DEF Runs
  <2> QED BY <1>7, <2>1, StampFacts
<1> QED BY <1>2, <1>3, <1>4, <1>5, <1>6, <1>7

LEMMA SchemaInv == ASSUME BootInv, EnsureSchema PROVE BootInv'
<1>1. boot = "schema" /\ deferred' = deferred /\ reopened' = reopened /\ owed' = owed /\ faults' = faults
  BY DEF EnsureSchema
<1>2. IsDb(Current) /\ Current \in Databases /\ StampedWhole(Current) /\ line \in 1 .. 7
  BY <1>1, BootTypes DEF BootInv, OpenInv, BootTypeOK
<1>3. CASE /\ (line = 1 /\ Current.version = "current") \/ line > Len(Rebuild)
           /\ boot' = "indexes" /\ UNCHANGED <<disk, line>>
  <2>1. DiskInv' /\ Current' = Current /\ disk'["legacy"] = disk["legacy"]
    BY <1>3, SameDisk
  <2>2. Current.version = "current"
    <3>1. line = 7 \/ Current.version = "current"
      <4>1. line \in 1 .. 7 /\ Len(Rebuild) = 6
        BY <1>2, RebuildLines
      <4>2. Current.version = "current" \/ line > 6
        BY <1>3, <4>1
      <4> QED BY <4>1, <4>2
    <3> QED BY <1>1, <3>1 DEF BootInv, OpenInv
  <2>3. OpenInv'
    BY <1>2, <1>3, <2>1, <2>2 DEF OpenInv
  <2>4. OwedInv'
    BY <1>1, <2>1, OwedFrame
  <2>5. BootTypeOK'
    BY <1>1, <1>3 DEF BootInv, BootTypeOK, BootPcs
  <2> QED BY <2>1, <2>3, <2>4, <2>5 DEF BootInv
<1>4. CASE /\ line > 1 \/ Current.version # "current"
           /\ line <= Len(Rebuild) /\ Update(Runs(Rebuild[line], Current)) /\ line' = line + 1 /\ UNCHANGED boot
  <2> DEFINE db == Current
             d == Runs(Rebuild[line], db)
  <2>1. line \in 1 .. 6 /\ db.version # "current" /\ line' = line + 1 /\ line' \in 2 .. 7
    <3>1. line \in 1 .. 6 /\ line' = line + 1 /\ line' \in 2 .. 7 /\ (line \in 2 .. 6 \/ db.version # "current")
      <4>1. line \in 1 .. 7 /\ Len(Rebuild) = 6
        BY <1>2, RebuildLines
      <4>2. (line > 1 \/ db.version # "current") /\ line <= 6 /\ line' = line + 1
        BY <1>4, <4>1
      <4> QED BY <4>1, <4>2
    <3>2. line \in 2 .. 6 => db.version # "current"
      BY <1>1 DEF BootInv, OpenInv
    <3> QED BY <3>1, <3>2
  <2>2. /\ line = 2 => "learned_styles" \notin db.tables
        /\ line = 3 => db.tables \subseteq {"tiles"}
        /\ line = 4 => db.tables = {}
        /\ line = 5 => db.tables = {"tiles"}
        /\ line = 6 => db.tables = {"tiles", "region_tiles"}
    BY <1>1, <2>1 DEF BootInv, OpenInv
  <2>3. db \in Databases /\ IsDb(db) /\ Update(d)
    BY <1>2, <1>4
  <2> HIDE DEF db
  <2>4. /\ d \in Databases /\ d.sound = db.sound
        /\ line < 6 => d.version # "current"
        /\ line = 6 => d.version = "current"
        /\ line = 1 => "learned_styles" \notin d.tables
        /\ line = 2 => d.tables \subseteq {"tiles"}
        /\ line = 3 => d.tables = {}
        /\ line = 4 => d.tables = {"tiles"}
        /\ line \in {5, 6} => d.tables = {"tiles", "region_tiles"}
    BY <2>1, <2>2, <2>3, RunsFacts
  <2> HIDE DEF d
  <2>5. d \in Dirs /\ IsDb(d) /\ StampedWhole(d)
    BY <2>1, <2>4, DbTypes DEF StampedWhole, Stamped
  <2>6. DiskInv' /\ Current' = d /\ disk'["legacy"] = disk["legacy"]
    BY <2>3, <2>5, UpdateFacts DEF BootInv
  <2>7. OpenInv'
    BY <1>1, <1>4, <2>1, <2>4, <2>5, <2>6 DEF OpenInv
  <2>8. OwedInv'
    BY <1>1, <2>1, <2>3, <2>4, <2>6, OwedFrame DEF SavedIn, Stamped, db
  <2>9. BootTypeOK'
    BY <1>1, <1>4, <2>1 DEF BootInv, BootTypeOK, BootPcs
  <2> QED BY <2>6, <2>7, <2>8, <2>9 DEF BootInv
<1> QED BY <1>3, <1>4 DEF EnsureSchema, Step

LEMMA IndexesInv == ASSUME BootInv, EnsureIndexesAndStyles PROVE BootInv'
<1>1. /\ boot = "indexes" /\ boot' = "cleanup" /\ line' = line /\ deferred' = deferred /\ reopened' = reopened
      /\ owed' = owed /\ faults' = faults
  BY DEF EnsureIndexesAndStyles, Step, bootLocals
<1>2. IsDb(Current) /\ Current \in Databases /\ Current.version = "current"
  BY <1>1, BootTypes DEF BootInv, OpenInv
<1> DEFINE db == Current
           d == With(db, "learned_styles")
<1>3. db \in Databases /\ Update(d) /\ {"tiles", "region_tiles"} \subseteq db.tables /\ db.version = "current"
  BY <1>2 DEF EnsureIndexesAndStyles
<1>4. /\ d \in Databases /\ d.tables = Tables /\ d.pins = db.pins /\ d.version = "current" /\ d.sound = db.sound
  <2>1. "learned_styles" \in Tables /\ db.tables \subseteq Tables
    BY <1>3, DbTypes DEF Tables
  <2> HIDE DEF db
  <2>2. d \in Databases /\ d.tables = db.tables \cup {"learned_styles"} /\ d.pins = db.pins /\ d.version = db.version /\ d.sound = db.sound
    BY <1>3, <2>1, WithFacts
  <2> QED BY <1>3, <2>1, <2>2 DEF Tables
<1> HIDE DEF d
<1>5. d \in Dirs /\ IsDb(d) /\ StampedWhole(d)
  BY <1>4, DbTypes DEF StampedWhole, Tables
<1>6. DiskInv' /\ Current' = d /\ disk'["legacy"] = disk["legacy"]
  BY <1>3, <1>5, UpdateFacts DEF BootInv
<1>7. OpenInv'
  BY <1>1, <1>4, <1>5, <1>6 DEF OpenInv
<1>8. OwedInv'
  BY <1>1, <1>2, <1>4, <1>5, <1>6, OwedFrame DEF SavedIn, Stamped
<1>9. BootTypeOK'
  BY <1>1 DEF BootInv, BootTypeOK, BootPcs
<1> QED BY <1>6, <1>7, <1>8, <1>9 DEF BootInv

LEMMA CleanupInv == ASSUME BootInv, CleanupAbandonedStaging PROVE BootInv'
<1>1. /\ boot = "cleanup" /\ boot' = "serving" /\ line' = line /\ deferred' = deferred /\ reopened' = reopened
      /\ owed' = owed /\ faults' = faults
  BY DEF CleanupAbandonedStaging, Step, bootLocals
<1>2. IsDb(Current) /\ Current \in Databases /\ Current.version = "current" /\ Current.tables = Tables
  BY <1>1, BootTypes DEF BootInv, OpenInv
<1> DEFINE db == Current
           d == IF deferred THEN db ELSE Cleaned(db)
<1>3. db \in Databases /\ Update(d) /\ db.version = "current" /\ db.tables = Tables
  BY <1>2 DEF CleanupAbandonedStaging
<1>4. /\ d \in Databases /\ d.tables = Tables /\ ("saved" \in db.pins => "saved" \in d.pins)
      /\ d.version = "current" /\ d.sound = db.sound /\ ("staged" \notin d.pins \/ deferred)
  <2> HIDE DEF db
  <2>1. CASE deferred
    BY <1>3, <2>1
  <2>2. CASE ~deferred
    <3> DEFINE pins == db.pins \ {"staged"}
    <3>1. pins \in SUBSET {"saved", "staged"} /\ "staged" \notin pins /\ ("saved" \in db.pins => "saved" \in pins)
      BY <1>3, DbTypes
    <3>2. d = [db EXCEPT !.pins = pins]
      BY <1>3, <2>2 DEF Cleaned, Databases
    <3> HIDE DEF pins, d
    <3>3. d \in Databases /\ d.tables = db.tables /\ d.pins = pins /\ d.version = db.version /\ d.sound = db.sound
      BY <1>3, <3>1, <3>2 DEF Databases
    <3> QED BY <1>3, <3>1, <3>3
  <2> QED BY <2>1, <2>2
<1> HIDE DEF d
<1>5. d \in Dirs /\ IsDb(d) /\ StampedWhole(d)
  BY <1>4, DbTypes DEF StampedWhole, Tables
<1>6. DiskInv' /\ Current' = d /\ disk'["legacy"] = disk["legacy"]
  BY <1>3, <1>5, UpdateFacts DEF BootInv
<1>7. OpenInv'
  BY <1>1, <1>4, <1>5, <1>6 DEF OpenInv
<1>8. OwedInv'
  BY <1>1, <1>2, <1>4, <1>5, <1>6, OwedFrame DEF SavedIn, Stamped
<1>9. BootTypeOK'
  BY <1>1 DEF BootInv, BootTypeOK, BootPcs
<1> QED BY <1>6, <1>7, <1>8, <1>9 DEF BootInv

-----------------------------------------------------------------------------
(* Errors, deaths and restarts                                             *)

\* Dying leaves the disk as it is.
LEMMA DeadInv ==
    ASSUME BootInv, boot' = "dead", UNCHANGED <<disk, line, deferred, reopened, owed>>, faults' \in Nat
    PROVE  BootInv'
<1>1. DiskInv' /\ Current' = Current /\ disk'["legacy"] = disk["legacy"]
  BY SameDisk
<1>2. OpenInv'
  BY DEF OpenInv
<1>3. OwedInv'
  BY <1>1 DEF BootInv, OwedInv
<1>4. BootTypeOK'
  BY DEF BootInv, BootTypeOK, BootPcs
<1> QED BY <1>1, <1>2, <1>3, <1>4 DEF BootInv

LEMMA CorruptPageInv == ASSUME BootInv, CorruptPage PROVE BootInv'
<1>1. IsDb(Current) /\ ~Current.sound /\ owed' = owed /\ faults' = faults /\ faults \in Nat /\ OpenFails(TRUE)
  BY DEF CorruptPage, BootInv, BootTypeOK
<1>2. owed = "nothing"
  BY <1>1 DEF BootInv, OwedInv
<1>3. CASE boot' = "dead" /\ UNCHANGED <<disk, line, deferred, reopened>>
  BY <1>1, <1>3, DeadInv
<1>4. CASE /\ Update(IF Current = NoDir THEN NoDir ELSE EmptyDir)
           /\ boot' = "open" /\ line' = 1 /\ deferred' = FALSE /\ reopened' = TRUE
  <2>1. EmptyDir \in Dirs /\ StampedWhole(EmptyDir) /\ ~IsDb(EmptyDir) /\ Current # NoDir
    BY <1>1, BootTypes DEF Dirs, StampedWhole, Stamped
  <2>2. DiskInv' /\ Current' = EmptyDir
    BY <1>4, <2>1, UpdateFacts DEF BootInv
  <2>3. OpenInv'
    BY <1>4 DEF OpenInv
  <2>4. OwedInv'
    BY <1>1, <1>2, <2>1, <2>2 DEF OwedInv
  <2>5. BootTypeOK'
    <3>1. deferred' \in BOOLEAN /\ reopened' \in BOOLEAN
      BY <1>4
    <3>2. boot' \in BootPcs /\ line' \in 1 .. 7 /\ owed' \in {"serve", "keep", "nothing"} /\ faults' \in Nat
      BY <1>1, <1>2, <1>4 DEF BootPcs
    <3> QED BY <3>1, <3>2 DEF BootTypeOK
  <2> QED BY <2>2, <2>3, <2>4, <2>5 DEF BootInv
<1> QED BY <1>1, <1>3, <1>4 DEF OpenFails, Step, bootLocals

\* An error that is not corruption never costs the file.
LEMMA PlainFailure ==
    ASSUME BootInv, OpenFails(FALSE), owed' = owed, faults' \in Nat
    PROVE  BootInv'
<1>1. boot' = "dead" /\ UNCHANGED <<disk, line, deferred, reopened>>
  BY DEF OpenFails, Recreates, Step, bootLocals
<1> QED BY <1>1, DeadInv

LEMMA PageGoesBadInv == ASSUME BootInv, PageGoesBad PROVE BootInv'
<1>1. /\ IsDb(Current) /\ Current \in Databases /\ StampedWhole(Current) /\ owed' = "nothing" /\ faults' \in Nat
      /\ boot' = boot /\ line' = line /\ deferred' = deferred /\ reopened' = reopened
  BY FaultNat, BootTypes DEF PageGoesBad, bootLocals
<1> DEFINE d == [Current EXCEPT !.sound = FALSE]
<1>2. d \in Databases /\ d.version = Current.version /\ d.tables = Current.tables /\ d.pins = Current.pins
  BY <1>1 DEF Databases
<1>3. Update(d)
  BY DEF PageGoesBad
<1> HIDE DEF d
<1>4. d \in Dirs /\ IsDb(d) /\ StampedWhole(d)
  BY <1>1, <1>2, DbTypes DEF StampedWhole, Stamped
<1>5. DiskInv' /\ Current' = d
  BY <1>3, <1>4, UpdateFacts DEF BootInv
<1>6. OpenInv'
  BY <1>1, <1>2, <1>4, <1>5 DEF BootInv, OpenInv
<1>7. OwedInv'
  BY <1>1 DEF OwedInv
<1>8. BootTypeOK'
  BY <1>1 DEF BootInv, BootTypeOK
<1> QED BY <1>5, <1>6, <1>7, <1>8 DEF BootInv

LEMMA RestartsInv == ASSUME BootInv, ContainerRestarts PROVE BootInv'
<1>1. /\ boot = "dead" /\ boot' = "migrate" /\ line' = 1 /\ deferred' = FALSE /\ reopened' = FALSE
      /\ UNCHANGED <<disk, owed, faults>>
  BY DEF ContainerRestarts, Step
<1>2. DiskInv' /\ Current' = Current /\ disk'["legacy"] = disk["legacy"]
  BY <1>1, SameDisk
<1>3. OpenInv'
  BY <1>1 DEF OpenInv
<1>4. OwedInv'
  BY <1>1, <1>2 DEF BootInv, OwedInv
<1>5. BootTypeOK'
  <2>1. deferred' \in BOOLEAN /\ reopened' \in BOOLEAN
    BY <1>1
  <2>2. boot' \in BootPcs /\ line' \in 1 .. 7 /\ owed' = owed /\ faults' = faults
    BY <1>1 DEF BootPcs
  <2> QED BY <2>1, <2>2 DEF BootInv, BootTypeOK
<1> QED BY <1>2, <1>3, <1>4, <1>5 DEF BootInv

LEMMA BootNextInv ==
    ASSUME BootInv, BootStep \/ ContainerRestarts \/ BootFaults \/ UNCHANGED bootVars
    PROVE  BootInv'
<1>1. CASE BootStep
  <2>1. CASE Impossible
    BY <2>1, PlainFailure DEF Impossible, BootInv, BootTypeOK
  <2> QED BY <1>1, <2>1, MigrateInv, CreateDirInv, OpenConnectionInv, VacuumInv, SchemaInv, IndexesInv, CleanupInv,
             CorruptPageInv DEF BootStep
<1>2. CASE ContainerRestarts
  BY <1>2, RestartsInv
<1>3. CASE BadMedium
  BY <1>3, FaultNat, PlainFailure DEF BadMedium
<1>4. CASE PageGoesBad
  BY <1>4, PageGoesBadInv
<1>5. CASE ProcessDies
  BY <1>5, FaultNat, DeadInv DEF ProcessDies, Step, bootLocals
<1>6. CASE UNCHANGED bootVars
  <2>1. UNCHANGED <<disk, boot, line, deferred, reopened, owed, faults>>
    BY <1>6 DEF bootVars, bootLocals
  <2> QED BY <2>1 DEF BootInv, DiskInv, BootTypeOK, OpenInv, OwedInv, Current, StampedWhole, Stamped, SavedIn, IsDb
<1> QED BY <1>1, <1>2, <1>3, <1>4, <1>5, <1>6 DEF BootFaults

\* The inductive invariant of the start, over every disk, every death and
\* every fault: what the open knows of its database at each step, and where
\* the saved pins are.
THEOREM BootInvariant == ServiceSpec => []BootInv
<1>1. ServiceInit => BootInv
  <2> SUFFICES ASSUME ServiceInit PROVE BootInv
    OBVIOUS
  <2>1. PICK budget \in 0 .. MaxFaults : StartFrom(Disks, budget)
    BY DEF ServiceInit
  <2>2. budget \in Nat
    BY BootAssumption DEF BootAssumption
  <2> QED BY <2>1, <2>2, BootInitInv
<1>2. BootInv /\ [Next]_vars => BootInv'
  <2> SUFFICES ASSUME BootInv, [Next]_vars PROVE BootInv'
    OBVIOUS
  <2>1. BootStep \/ ContainerRestarts \/ BootFaults \/ UNCHANGED bootVars
    BY DEF Next, InBoot, Fails, InService, vars
  <2> QED BY <2>1, BootNextInv
<1> QED BY <1>1, <1>2, PTL DEF ServiceSpec

\* Whatever earlier starts left and wherever they died, main.rs serves only a
\* database that ensure_schema has stamped and completed, without abandoned
\* staging unless the VACUUM was deferred.
THEOREM ServesWholeDatabase == ServiceSpec => []ServesWhole
<1>1. BootInv => ServesWhole
  BY DEF BootInv, OpenInv, ServesWhole
<1> QED BY <1>1, BootInvariant, PTL

\* The saved pins of a usable database survive every start: open_or_recreate
\* deletes only a corrupt file, and a rebuild only an unstamped one.
THEOREM SavedSurviveStarts == ServiceSpec => []SavedKept
<1>1. BootInv => SavedKept
  <2> SUFFICES ASSUME BootInv PROVE SavedKept
    OBVIOUS
  <2>1. DOMAIN disk = {"legacy", "current"}
    BY DEF BootInv, DiskInv
  <2>2. owed # "nothing" => SavedIn(disk["current"]) \/ SavedIn(disk["legacy"])
    BY DEF BootInv, BootTypeOK, OwedInv, Current
  <2>3. owed = "serve" /\ boot = "serving" => SavedIn(disk["current"])
    BY DEF BootInv, OwedInv, Current
  <2> QED BY <2>1, <2>2, <2>3 DEF SavedKept, SavedIn, Stamped
<1> QED BY <1>1, BootInvariant, PTL

-----------------------------------------------------------------------------
(* What is served: the invariant                                           *)

\* A queue holds exactly the members of S, each once.
Holds(queue, S) == queue \in Seq(Requests) /\ Distinct(queue) /\ Members(queue) = S

Waiting(pc) == {r \in Requests : req[r] = pc}
Filling(stage) == {t \in Tiles : fill[t] = stage}
Unadmitted == {"idle", "parked", "refused"}
Busy(kind) == {r \in kind : req[r] \notin Unadmitted}
Held == {"sleep", "send", "sent"}
Spots == {KeyOf[g] : g \in Geocodes}

\* Which kinds of request reach which stage.
Fits(r, pc) ==
    /\ pc = "fill" => r \in Tiles
    /\ pc \in {"lock"} \cup Held => r \in Geocodes
    /\ pc \in {"config", "stored", "marked"} => r \in Pushes
    /\ pc = "parked" => r \in Ordinary

ReqInv ==
    /\ clients \subseteq Requests /\ req \in [Requests -> Rank]
    /\ fill \in [Tiles -> {"none", "queued", "sent"}]
    /\ \A r \in Requests : Fits(r, req[r])
QueueInv ==
    /\ Holds(parked, Waiting("parked")) /\ Holds(mutex, Waiting("lock"))
    /\ Holds(outbound, Filling("queued") \cup Waiting("send"))
    /\ egress = Filling("sent") \cup Waiting("sent")
BusyInv == Cardinality(Busy(Ordinary)) <= MaxActive /\ Cardinality(Busy(Probes)) <= MaxHealth

\* Behind the mutex there is at most one request, for a place not cached.
GeoInv ==
    /\ \A g, h \in Geocodes : req[g] \in Held /\ req[h] \in Held => g = h
    /\ places \in Seq(Spots) /\ Distinct(places) /\ Len(places) <= CacheLimit
    /\ \A g \in Geocodes : req[g] \in Held => KeyOf[g] \notin Members(places)
ConfigInv ==
    /\ ttl \in {"boot", "pushed"} /\ swept \in {"none", "boot", "pushed"} /\ configured \in BOOLEAN

ServiceInv == ReqInv /\ QueueInv /\ BusyInv /\ GeoInv /\ ConfigInv

-----------------------------------------------------------------------------
(* Queues                                                                  *)

LEMMA HoldsEmpty == Holds(<<>>, {})
BY DEF Holds, Distinct, Members

LEMMA HoldsAppend ==
    ASSUME NEW queue, NEW S, Holds(queue, S), NEW r \in Requests, r \notin S
    PROVE  Holds(Append(queue, r), S \cup {r})
<1> DEFINE new == Append(queue, r)
           n == Len(queue)
<1>1. queue \in Seq(Requests) /\ n \in Nat /\ DOMAIN queue = 1 .. n
  BY DEF Holds
<1>2. new \in Seq(Requests) /\ DOMAIN new = 1 .. n + 1 /\ new[n + 1] = r /\ \A i \in 1 .. n : new[i] = queue[i]
  BY <1>1
<1>3. \A i \in 1 .. n : queue[i] \in S /\ queue[i] # r
  BY <1>1 DEF Holds, Members
<1> HIDE DEF new, n
<1>4. Distinct(new)
  BY <1>1, <1>2, <1>3 DEF Distinct, Holds
<1>5. Members(new) = S \cup {r}
  <2>1. \A x \in S : \E i \in 1 .. n : queue[i] = x
    BY <1>1 DEF Holds, Members
  <2>2. \A x \in S \cup {r} : \E i \in 1 .. n + 1 : new[i] = x
    BY <1>1, <1>2, <2>1
  <2>3. \A i \in 1 .. n + 1 : new[i] \in S \cup {r}
    BY <1>1, <1>2, <1>3
  <2> QED BY <1>2, <2>2, <2>3 DEF Members
<1> QED BY <1>2, <1>4, <1>5 DEF Holds, new

LEMMA HoldsTail ==
    ASSUME NEW queue, NEW S, Holds(queue, S), queue # <<>>
    PROVE  Head(queue) \in S /\ Holds(Tail(queue), S \ {Head(queue)})
<1> DEFINE new == Tail(queue)
           n == Len(queue)
           r == Head(queue)
<1>1. queue \in Seq(Requests) /\ n \in Nat \ {0} /\ DOMAIN queue = 1 .. n /\ r = queue[1]
  BY DEF Holds
<1>2. new \in Seq(Requests) /\ DOMAIN new = 1 .. n - 1 /\ \A i \in 1 .. n - 1 : new[i] = queue[i + 1]
  BY <1>1
<1>3. /\ \A i, k \in 1 .. n : queue[i] = queue[k] => i = k
      /\ \A i \in 1 .. n : queue[i] \in S
      /\ \A x \in S : \E i \in 1 .. n : queue[i] = x
  BY <1>1 DEF Holds, Distinct, Members
<1> HIDE DEF new, n, r
<1>4. Distinct(new)
  <2> SUFFICES ASSUME NEW i \in 1 .. n - 1, NEW k \in 1 .. n - 1, new[i] = new[k] PROVE i = k
    BY <1>2 DEF Distinct
  <2>1. queue[i + 1] = queue[k + 1] /\ i + 1 \in 1 .. n /\ k + 1 \in 1 .. n
    BY <1>1, <1>2
  <2> QED BY <1>3, <2>1
<1>5. Members(new) = S \ {r}
  <2>1. ASSUME NEW x \in S \ {r} PROVE \E i \in 1 .. n - 1 : new[i] = x
    <3>1. PICK i \in 1 .. n : queue[i] = x
      BY <1>3
    <3>2. i # 1 /\ i - 1 \in 1 .. n - 1 /\ new[i - 1] = queue[i - 1 + 1]
      BY <1>1, <1>2, <2>1, <3>1
    <3> QED BY <3>1, <3>2
  <2>2. ASSUME NEW i \in 1 .. n - 1 PROVE new[i] \in S \ {r}
    <3>1. new[i] = queue[i + 1] /\ i + 1 \in 1 .. n /\ 1 \in 1 .. n
      BY <1>1, <1>2
    <3> QED BY <1>1, <1>3, <3>1
  <2> QED BY <1>2, <2>1, <2>2 DEF Members
<1>6. r \in S
  BY <1>1, <1>3
<1> QED BY <1>2, <1>4, <1>5, <1>6 DEF Holds, new, r

LEMMA HoldsLeave ==
    ASSUME NEW queue, NEW S, Holds(queue, S), NEW r
    PROVE  Holds(Leave(queue, r), S \ {r})
<1> DEFINE n == Len(queue)
<1>1. queue \in Seq(Requests) /\ n \in Nat /\ DOMAIN queue = 1 .. n
  BY DEF Holds
<1>2. /\ \A i, k \in 1 .. n : queue[i] = queue[k] => i = k
      /\ \A i \in 1 .. n : queue[i] \in S /\ queue[i] \in Requests
      /\ \A x \in S : \E i \in 1 .. n : queue[i] = x
  BY <1>1 DEF Holds, Distinct, Members
<1>3. CASE \A i \in 1 .. n : queue[i] # r
  <2>1. Leave(queue, r) = queue
    BY <1>3 DEF Leave
  <2>2. S \ {r} = S
    BY <1>2, <1>3
  <2> QED BY <2>1, <2>2
<1>4. CASE ~\A i \in 1 .. n : queue[i] # r
  <2> DEFINE at == CHOOSE i \in 1 .. n : queue[i] = r
             new == [i \in 1 .. n - 1 |-> queue[IF i < at THEN i ELSE i + 1]]
  <2>1. at \in 1 .. n /\ queue[at] = r
    BY <1>4
  <2>2. Leave(queue, r) = new
    BY <1>4 DEF Leave
  <2> HIDE DEF at
  <2>3. \A i \in 1 .. n - 1 : /\ (IF i < at THEN i ELSE i + 1) \in 1 .. n /\ (IF i < at THEN i ELSE i + 1) # at
                              /\ new[i] = queue[IF i < at THEN i ELSE i + 1]
    BY <1>1, <2>1
  <2>4. new \in Seq(Requests) /\ DOMAIN new = 1 .. n - 1
    <3>1. n - 1 \in Nat /\ new \in [1 .. n - 1 -> Requests]
      BY <1>1, <1>2, <2>1, <2>3
    <3> QED BY <3>1
  <2> HIDE DEF new, n
  <2>5. Distinct(new)
    <3> SUFFICES ASSUME NEW i \in 1 .. n - 1, NEW k \in 1 .. n - 1, new[i] = new[k] PROVE i = k
      BY <2>4 DEF Distinct
    <3>1. (IF i < at THEN i ELSE i + 1) = (IF k < at THEN k ELSE k + 1)
      BY <1>2, <2>3
    <3> QED BY <1>1, <2>1, <3>1
  <2>6. Members(new) = S \ {r}
    <3>1. ASSUME NEW x \in S \ {r} PROVE \E i \in 1 .. n - 1 : new[i] = x
      <4>1. PICK i \in 1 .. n : queue[i] = x
        BY <1>2
      <4>2. i # at
        BY <2>1, <3>1, <4>1
      <4>3. CASE i < at
        <5>1. i \in 1 .. n - 1
          BY <1>1, <2>1, <4>3
        <5> QED BY <2>3, <4>1, <4>3, <5>1
      <4>4. CASE i > at
        <5>1. i - 1 \in 1 .. n - 1 /\ ~(i - 1 < at) /\ i - 1 + 1 = i
          BY <1>1, <2>1, <4>4
        <5>2. new[i - 1] = queue[i]
          BY <2>3, <5>1
        <5> QED BY <4>1, <5>1, <5>2
      <4> QED BY <1>1, <2>1, <4>2, <4>3, <4>4
    <3>2. ASSUME NEW i \in 1 .. n - 1 PROVE new[i] \in S \ {r}
      <4>1. PICK k \in 1 .. n : k # at /\ new[i] = queue[k]
        BY <2>3
      <4> QED BY <1>2, <2>1, <4>1
    <3> QED BY <2>4, <3>1, <3>2 DEF Members
  <2> QED BY <2>2, <2>4, <2>5, <2>6 DEF Holds
<1> QED BY <1>3, <1>4

-----------------------------------------------------------------------------
(* One request moves                                                       *)

LEMMA KindFacts ==
    /\ Tiles \subseteq Ordinary /\ Geocodes \subseteq Ordinary /\ Pushes \subseteq Ordinary
    /\ Ordinary \subseteq Requests /\ Probes \subseteq Requests /\ Requests = Ordinary \cup Probes
    /\ Ordinary \cap Probes = {} /\ Tiles \cap Geocodes = {} /\ Tiles \cap Pushes = {} /\ Geocodes \cap Pushes = {}
    /\ IsFiniteSet(Ordinary) /\ IsFiniteSet(Probes)
<1>1. IsFiniteSet(Requests)
  BY ServiceAssumption DEF ServiceAssumption, Requests, Ordinary
<1>2. Ordinary \subseteq Requests /\ Probes \subseteq Requests
  BY DEF Requests
<1>3. IsFiniteSet(Ordinary) /\ IsFiniteSet(Probes)
  BY <1>1, <1>2, FS_Subset
<1> QED BY <1>2, <1>3, ServiceAssumption DEF ServiceAssumption, Requests, Ordinary

LEMMA MoveFacts ==
    ASSUME ReqInv, NEW r \in Requests, NEW pc \in Rank, Go(r, pc)
    PROVE  /\ req' \in [Requests -> Rank] /\ req'[r] = pc /\ \A q \in Requests : q # r => req'[q] = req[q]
           /\ \A p : p = pc => Waiting(p)' = Waiting(p) \cup {r}
           /\ \A p : p # pc => Waiting(p)' = Waiting(p) \ {r}
<1>1. req' \in [Requests -> Rank] /\ req'[r] = pc /\ \A q \in Requests : q # r => req'[q] = req[q]
  BY DEF ReqInv, Go
<1>2. ASSUME NEW p, p = pc PROVE Waiting(p)' = Waiting(p) \cup {r}
  BY <1>1, <1>2 DEF Waiting
<1>3. ASSUME NEW p, p # pc PROVE Waiting(p)' = Waiting(p) \ {r}
  BY <1>1, <1>3 DEF Waiting
<1> QED BY <1>1, <1>2, <1>3

\* A request that keeps its place in a queue, or has none.
LEMMA StayFacts ==
    ASSUME ReqInv, NEW r \in Requests, NEW pc \in Rank, Go(r, pc), NEW p, p # pc, p # req[r]
    PROVE  Waiting(p)' = Waiting(p)
BY MoveFacts DEF Waiting

LEMMA MoveReqInv ==
    ASSUME ReqInv, NEW r \in Requests, NEW pc \in Rank, Go(r, pc), Fits(r, pc), UNCHANGED clients,
           fill' \in [Tiles -> {"none", "queued", "sent"}]
    PROVE  ReqInv'
<1>1. req' \in [Requests -> Rank] /\ req'[r] = pc /\ \A q \in Requests : q # r => req'[q] = req[q]
  BY MoveFacts
<1>2. \A q \in Requests : Fits(q, req'[q])
  BY <1>1 DEF ReqInv
<1> QED BY <1>1, <1>2 DEF ReqInv, Fits

LEMMA BusyFinite == IsFiniteSet(Busy(Ordinary)) /\ IsFiniteSet(Busy(Probes))
<1>1. Busy(Ordinary) \subseteq Ordinary /\ Busy(Probes) \subseteq Probes
  BY DEF Busy
<1> QED BY <1>1, KindFacts, FS_Subset

\* A request that holds its permit, or gives it back.
LEMMA MoveBusy ==
    ASSUME ReqInv, BusyInv, NEW r \in Requests, NEW pc \in Rank, Go(r, pc), pc \in Unadmitted \/ req[r] \notin Unadmitted
    PROVE  BusyInv'
<1>1. req'[r] = pc /\ \A q \in Requests : q # r => req'[q] = req[q]
  BY MoveFacts
<1>2. Busy(Ordinary)' \subseteq Busy(Ordinary) /\ Busy(Probes)' \subseteq Busy(Probes)
  BY <1>1, KindFacts DEF Busy
<1> DEFINE a == Busy(Ordinary)'
           b == Busy(Probes)'
<1>3. Cardinality(a) <= Cardinality(Busy(Ordinary)) /\ Cardinality(a) \in Nat /\ Cardinality(Busy(Ordinary)) \in Nat
  <2> HIDE DEF a
  <2> QED BY <1>2, BusyFinite, FS_Subset, FS_CardinalityType DEF a
<1>4. Cardinality(b) <= Cardinality(Busy(Probes)) /\ Cardinality(b) \in Nat /\ Cardinality(Busy(Probes)) \in Nat
  <2> HIDE DEF b
  <2> QED BY <1>2, BusyFinite, FS_Subset, FS_CardinalityType DEF b
<1>5. MaxActive \in Nat /\ MaxHealth \in Nat
  BY ServiceAssumption DEF ServiceAssumption
<1>6. (Cardinality(Busy(Ordinary)) <= MaxActive)' <=> Cardinality(a) <= MaxActive
  OBVIOUS
<1>7. (Cardinality(Busy(Probes)) <= MaxHealth)' <=> Cardinality(b) <= MaxHealth
  OBVIOUS
<1> HIDE DEF a, b
<1>8. Cardinality(a) <= MaxActive /\ Cardinality(b) <= MaxHealth
  BY <1>3, <1>4, <1>5 DEF BusyInv
<1> QED BY <1>6, <1>7, <1>8 DEF BusyInv

\* A request that is let in takes a free permit of its kind.
LEMMA AdmitBusy ==
    ASSUME ReqInv, BusyInv, NEW r \in Requests, NEW pc \in Rank, Go(r, pc),
           r \in Ordinary => FreePermit, r \in Probes => FreeHealth
    PROVE  BusyInv'
<1>1. req'[r] = pc /\ \A q \in Requests : q # r => req'[q] = req[q]
  BY MoveFacts
<1>2. MaxActive \in Nat /\ MaxHealth \in Nat
  BY ServiceAssumption DEF ServiceAssumption
<1> DEFINE a == Busy(Ordinary)
           b == Busy(Probes)
<1>3. IsFiniteSet(a) /\ IsFiniteSet(b) /\ Cardinality(a) \in Nat /\ Cardinality(b) \in Nat
  BY BusyFinite, FS_CardinalityType
<1>4. /\ Busy(Ordinary)' \subseteq a \/ (r \in Ordinary /\ Busy(Ordinary)' \subseteq a \cup {r})
      /\ Busy(Probes)' \subseteq b \/ (r \in Probes /\ Busy(Probes)' \subseteq b \cup {r})
  BY <1>1, KindFacts DEF Busy
<1>5. /\ r \in Ordinary => Cardinality(a) < MaxActive
      /\ r \in Probes => Cardinality(b) < MaxHealth
  <2>1. a = {q \in Ordinary : HoldsPermit(q)} /\ b = {h \in Probes : HoldsPermit(h)}
    BY DEF Busy, Unadmitted, HoldsPermit
  <2> QED BY <2>1 DEF FreePermit, FreeHealth
<1>6. IsFiniteSet(a \cup {r}) /\ Cardinality(a \cup {r}) \in Nat /\ Cardinality(a \cup {r}) <= Cardinality(a) + 1
  <2> HIDE DEF a
  <2>1. /\ IsFiniteSet(a \cup {r})
        /\ Cardinality(a \cup {r}) = IF r \in a THEN Cardinality(a) ELSE Cardinality(a) + 1
    BY <1>3, FS_AddElement
  <2> QED BY <1>3, <2>1
<1>7. IsFiniteSet(b \cup {r}) /\ Cardinality(b \cup {r}) \in Nat /\ Cardinality(b \cup {r}) <= Cardinality(b) + 1
  <2> HIDE DEF b
  <2>1. /\ IsFiniteSet(b \cup {r})
        /\ Cardinality(b \cup {r}) = IF r \in b THEN Cardinality(b) ELSE Cardinality(b) + 1
    BY <1>3, FS_AddElement
  <2> QED BY <1>3, <2>1
<1>8. Cardinality(a) <= MaxActive /\ Cardinality(b) <= MaxHealth
  BY DEF BusyInv
<1> DEFINE c == Busy(Ordinary)'
           d == Busy(Probes)'
<1> HIDE DEF a, b, c, d
<1>9. Cardinality(c) <= MaxActive
  <2>1. CASE c \subseteq a
    <3>1. Cardinality(c) <= Cardinality(a) /\ Cardinality(c) \in Nat
      BY <1>3, <2>1, FS_Subset, FS_CardinalityType
    <3> QED BY <1>2, <1>3, <1>8, <3>1
  <2>2. CASE r \in Ordinary /\ c \subseteq a \cup {r}
    <3>1. Cardinality(c) <= Cardinality(a \cup {r}) /\ Cardinality(c) \in Nat
      BY <1>6, <2>2, FS_Subset, FS_CardinalityType
    <3> QED BY <1>2, <1>3, <1>5, <1>6, <2>2, <3>1
  <2> QED BY <1>4, <2>1, <2>2 DEF c
<1>10. Cardinality(d) <= MaxHealth
  <2>1. CASE d \subseteq b
    <3>1. Cardinality(d) <= Cardinality(b) /\ Cardinality(d) \in Nat
      BY <1>3, <2>1, FS_Subset, FS_CardinalityType
    <3> QED BY <1>2, <1>3, <1>8, <3>1
  <2>2. CASE r \in Probes /\ d \subseteq b \cup {r}
    <3>1. Cardinality(d) <= Cardinality(b \cup {r}) /\ Cardinality(d) \in Nat
      BY <1>7, <2>2, FS_Subset, FS_CardinalityType
    <3> QED BY <1>2, <1>3, <1>5, <1>7, <2>2, <3>1
  <2> QED BY <1>4, <2>1, <2>2 DEF d
<1> QED BY <1>9, <1>10 DEF BusyInv, c, d

LEMMA QuietQueues ==
    ASSUME ReqInv, QueueInv, NEW r \in Requests, NEW pc \in Rank, Go(r, pc),
           pc \notin {"parked", "lock", "send", "sent"}, req[r] \notin {"parked", "lock", "send", "sent"},
           UNCHANGED <<fill, parked, mutex, outbound, egress>>
    PROVE  QueueInv'
<1>1. /\ Waiting("parked")' = Waiting("parked") /\ Waiting("lock")' = Waiting("lock")
      /\ Waiting("send")' = Waiting("send") /\ Waiting("sent")' = Waiting("sent")
  BY StayFacts
<1>2. Filling("queued")' = Filling("queued") /\ Filling("sent")' = Filling("sent")
  BY DEF Filling
<1> QED BY <1>1, <1>2 DEF QueueInv

\* The mutex passes to nobody, and the cache stays.
LEMMA GeoFrame ==
    ASSUME ReqInv, GeoInv, NEW r \in Requests, NEW pc \in Rank, Go(r, pc), pc \notin Held \/ req[r] \in Held,
           UNCHANGED places
    PROVE  GeoInv'
<1>1. \A g \in Geocodes : g \in Requests /\ (req'[g] \in Held => req[g] \in Held)
  BY MoveFacts, KindFacts
<1> QED BY <1>1 DEF GeoInv

\* The stages of a push, a response's end and a probe.

LEMMA PublishInv == ASSUME ServiceInv, NEW p \in Pushes, Publish(p), UNCHANGED clients PROVE ServiceInv'
<1>1. PICK pc \in {"stored", "marked"} : Go(p, pc)
  BY DEF Publish
<1>2. p \in Requests /\ p \notin Tiles /\ p \notin Probes /\ req[p] \in {"config", "stored"}
  BY KindFacts DEF Publish, At
<1>3. pc \in Rank /\ pc \notin Held /\ Fits(p, pc) /\ pc \notin {"parked", "lock", "send", "sent"}
  BY DEF Rank, Held, Fits
<1>4. UNCHANGED <<fill, parked, mutex, outbound, egress, places, swept>>
  BY DEF Publish, geo
<1>5. ReqInv'
  BY <1>1, <1>2, <1>3, <1>4, MoveReqInv DEF ServiceInv, ReqInv
<1>6. QueueInv'
  BY <1>1, <1>2, <1>3, <1>4, QuietQueues DEF ServiceInv
<1>7. BusyInv'
  BY <1>1, <1>2, <1>3, MoveBusy DEF ServiceInv, Unadmitted
<1>8. GeoInv'
  BY <1>1, <1>2, <1>3, <1>4, GeoFrame DEF ServiceInv
<1>9. ConfigInv'
  <2>1. req[p] = "config" \/ req[p] = "stored"
    BY <1>2
  <2>2. Published(req[p]).ttl \in {"boot", "pushed"} /\ Published(req[p]).configured \in BOOLEAN
    BY <2>1 DEF Published, ServiceInv, ConfigInv
  <2> QED BY <1>4, <2>2 DEF Publish, ServiceInv, ConfigInv
<1> QED BY <1>5, <1>6, <1>7, <1>8, <1>9 DEF ServiceInv

LEMMA NotifyInv == ASSUME ServiceInv, NEW p \in Pushes, NotifyWaiters(p), UNCHANGED clients PROVE ServiceInv'
<1>1. Go(p, "body") /\ "body" \in Rank /\ "body" \notin Held /\ Fits(p, "body")
  BY DEF NotifyWaiters, Rank, Held, Fits
<1>2. p \in Requests /\ req[p] = "marked"
  BY KindFacts DEF NotifyWaiters, At
<1>3. UNCHANGED <<fill, parked, mutex, outbound, egress, places, ttl, configured, swept>>
  BY DEF NotifyWaiters, geo
<1>4. ReqInv'
  BY <1>1, <1>2, <1>3, MoveReqInv DEF ServiceInv, ReqInv
<1>5. QueueInv'
  BY <1>1, <1>2, <1>3, QuietQueues DEF ServiceInv
<1>6. BusyInv'
  BY <1>1, <1>2, MoveBusy DEF ServiceInv, Unadmitted
<1>7. GeoInv'
  BY <1>1, <1>2, <1>3, GeoFrame DEF ServiceInv
<1> QED BY <1>3, <1>4, <1>5, <1>6, <1>7 DEF ServiceInv, ConfigInv

LEMMA ResponseEndsInv == ASSUME ServiceInv, NEW r \in Requests, ResponseEnds(r), UNCHANGED clients PROVE ServiceInv'
<1>1. Go(r, "idle") /\ "idle" \in Rank /\ "idle" \notin Held /\ Fits(r, "idle") /\ "idle" \in Unadmitted
  BY DEF ResponseEnds, Rank, Held, Fits, Unadmitted
<1>2. req[r] \notin {"parked", "lock", "send", "sent"}
  BY DEF ResponseEnds
<1>3. UNCHANGED <<fill, parked, mutex, outbound, egress, places, ttl, configured, swept>>
  BY DEF ResponseEnds, geo, config
<1>4. ReqInv'
  BY <1>1, <1>3, MoveReqInv DEF ServiceInv, ReqInv
<1>5. QueueInv'
  BY <1>1, <1>2, <1>3, QuietQueues DEF ServiceInv
<1>6. BusyInv'
  BY <1>1, MoveBusy DEF ServiceInv
<1>7. GeoInv'
  BY <1>1, <1>3, GeoFrame DEF ServiceInv
<1> QED BY <1>3, <1>4, <1>5, <1>6, <1>7 DEF ServiceInv, ConfigInv

LEMMA ProbeInv == ASSUME ServiceInv, NEW h \in Probes, Probe(h), UNCHANGED clients PROVE ServiceInv'
<1>1. PICK pc \in {"body", "refused"} : Go(h, pc) /\ (pc = "body" => FreeHealth)
  BY DEF Probe
<1>2. pc \in Rank /\ pc \notin Held /\ Fits(h, pc) /\ pc \notin {"parked", "lock", "send", "sent"}
  BY DEF Rank, Held, Fits
<1>3. h \in Requests /\ h \notin Ordinary /\ req[h] = "idle"
  BY KindFacts DEF Probe, At
<1>4. UNCHANGED <<fill, parked, mutex, outbound, egress, places, ttl, configured, swept>>
  BY DEF Probe, geo, config
<1>5. ReqInv'
  BY <1>1, <1>2, <1>3, <1>4, MoveReqInv DEF ServiceInv, ReqInv
<1>6. QueueInv'
  BY <1>1, <1>2, <1>3, <1>4, QuietQueues DEF ServiceInv
<1>7. BusyInv'
  BY <1>1, <1>2, <1>3, AdmitBusy, MoveBusy DEF ServiceInv, Unadmitted
<1>8. GeoInv'
  BY <1>1, <1>2, <1>3, <1>4, GeoFrame DEF ServiceInv
<1> QED BY <1>4, <1>5, <1>6, <1>7, <1>8 DEF ServiceInv, ConfigInv

LEMMA AdmissionWaitInv ==
    ASSUME ServiceInv, NEW r \in Requests, AdmissionWaitEnds(r), UNCHANGED clients
    PROVE  ServiceInv'
<1>1. Go(r, "refused") /\ "refused" \in Rank /\ "refused" \notin Held /\ Fits(r, "refused") /\ "refused" \in Unadmitted
  BY DEF AdmissionWaitEnds, Rank, Held, Fits, Unadmitted
<1>2. req[r] = "parked" /\ parked' = Leave(parked, r)
  BY DEF AdmissionWaitEnds, At
<1>3. UNCHANGED <<fill, mutex, outbound, egress, places, ttl, configured, swept>>
  BY DEF AdmissionWaitEnds, geo, config
<1>4. ReqInv'
  BY <1>1, <1>3, MoveReqInv DEF ServiceInv, ReqInv
<1>5. QueueInv'
  <2>1. Waiting("parked")' = Waiting("parked") \ {r}
    BY <1>1, MoveFacts DEF ServiceInv
  <2>2. /\ Waiting("lock")' = Waiting("lock") /\ Waiting("send")' = Waiting("send")
        /\ Waiting("sent")' = Waiting("sent")
    BY <1>1, <1>2, StayFacts DEF ServiceInv
  <2>3. Filling("queued")' = Filling("queued") /\ Filling("sent")' = Filling("sent")
    BY <1>3 DEF Filling
  <2>4. Holds(Leave(parked, r), Waiting("parked") \ {r})
    BY HoldsLeave DEF ServiceInv, QueueInv
  <2> QED BY <1>2, <1>3, <2>1, <2>2, <2>3, <2>4 DEF ServiceInv, QueueInv
<1>6. BusyInv'
  BY <1>1, MoveBusy DEF ServiceInv
<1>7. GeoInv'
  BY <1>1, <1>3, GeoFrame DEF ServiceInv
<1> QED BY <1>3, <1>4, <1>5, <1>6, <1>7 DEF ServiceInv, ConfigInv

\* A dropped handler takes its place in each queue with it, a tile's fill
\* neither its own nor its egress permit.
LEMMA DisconnectInv == ASSUME ServiceInv, NEW r \in Requests, Disconnect(r), UNCHANGED clients PROVE ServiceInv'
<1>1. Go(r, "idle") /\ "idle" \in Rank /\ "idle" \notin Held /\ Fits(r, "idle") /\ "idle" \in Unadmitted
  BY DEF Disconnect, Rank, Held, Fits, Unadmitted
<1>2. /\ parked' = Leave(parked, r) /\ mutex' = Leave(mutex, r)
      /\ r \in Tiles => outbound' = outbound /\ egress' = egress
      /\ r \notin Tiles => outbound' = Leave(outbound, r) /\ egress' = egress \ {r}
  BY DEF Disconnect
<1>3. UNCHANGED <<fill, places, ttl, configured, swept>>
  BY DEF Disconnect, config
<1>4. ReqInv'
  BY <1>1, <1>3, MoveReqInv DEF ServiceInv, ReqInv
<1>5. QueueInv'
  <2>1. /\ Waiting("parked")' = Waiting("parked") \ {r} /\ Waiting("lock")' = Waiting("lock") \ {r}
        /\ Waiting("send")' = Waiting("send") \ {r} /\ Waiting("sent")' = Waiting("sent") \ {r}
    BY <1>1, MoveFacts DEF ServiceInv
  <2>2. Filling("queued")' = Filling("queued") /\ Filling("sent")' = Filling("sent")
    BY <1>3 DEF Filling
  <2>3. Holds(parked, Waiting("parked")) /\ Holds(mutex, Waiting("lock"))
    BY DEF ServiceInv, QueueInv
  <2>4. Holds(Leave(parked, r), Waiting("parked") \ {r}) /\ Holds(Leave(mutex, r), Waiting("lock") \ {r})
    BY <2>3, HoldsLeave
  <2> DEFINE out == Filling("queued") \cup Waiting("send")
  <2>5. Holds(outbound, out) /\ egress = Filling("sent") \cup Waiting("sent")
    BY DEF ServiceInv, QueueInv
  <2>6. CASE r \in Tiles
    <3>1. r \notin Waiting("send") /\ r \notin Waiting("sent")
      BY <2>6, KindFacts DEF ServiceInv, ReqInv, Fits, Held, Waiting
    <3>2. Waiting("send")' = Waiting("send") /\ Waiting("sent")' = Waiting("sent")
      BY <2>1, <3>1
    <3> QED BY <1>2, <2>1, <2>2, <2>4, <2>5, <2>6, <3>2 DEF QueueInv
  <2>7. CASE r \notin Tiles
    <3>1. out \ {r} = Filling("queued")' \cup Waiting("send")'
      BY <2>1, <2>2, <2>7 DEF Filling
    <3>2. egress \ {r} = Filling("sent")' \cup Waiting("sent")'
      BY <2>1, <2>2, <2>5, <2>7 DEF Filling
    <3>3. Holds(Leave(outbound, r), out \ {r})
      BY <2>5, HoldsLeave
    <3> QED BY <1>2, <2>1, <2>4, <2>7, <3>1, <3>2, <3>3 DEF QueueInv
  <2> QED BY <2>6, <2>7
<1>6. BusyInv'
  BY <1>1, MoveBusy DEF ServiceInv
<1>7. GeoInv'
  BY <1>1, <1>3, GeoFrame DEF ServiceInv
<1> QED BY <1>3, <1>4, <1>5, <1>6, <1>7 DEF ServiceInv, ConfigInv

\* Only a fill moves.
LEMMA FillFacts ==
    ASSUME ReqInv, NEW t \in Tiles, NEW to \in {"none", "queued", "sent"}, fill' = [fill EXCEPT ![t] = to]
    PROVE  /\ fill' \in [Tiles -> {"none", "queued", "sent"}]
           /\ \A s : s = to => Filling(s)' = Filling(s) \cup {t}
           /\ \A s : s # to => Filling(s)' = Filling(s) \ {t}
<1>1. fill' \in [Tiles -> {"none", "queued", "sent"}] /\ fill'[t] = to /\ \A u \in Tiles : u # t => fill'[u] = fill[u]
  BY DEF ReqInv
<1>2. ASSUME NEW s, s = to PROVE Filling(s)' = Filling(s) \cup {t}
  BY <1>1, <1>2 DEF Filling
<1>3. ASSUME NEW s, s # to PROVE Filling(s)' = Filling(s) \ {t}
  BY <1>1, <1>3 DEF Filling
<1> QED BY <1>1, <1>2, <1>3

LEMMA SameRequests ==
    ASSUME UNCHANGED req
    PROVE  /\ Busy(Ordinary)' = Busy(Ordinary) /\ Busy(Probes)' = Busy(Probes)
           /\ Waiting("parked")' = Waiting("parked") /\ Waiting("lock")' = Waiting("lock")
           /\ Waiting("send")' = Waiting("send") /\ Waiting("sent")' = Waiting("sent")
BY DEF Busy, Waiting

\* A permit goes to the waiter at the head of the queue.
LEMMA EgressGrantedInv == ASSUME ServiceInv, NEW r \in Requests, EgressGranted(r), UNCHANGED clients PROVE ServiceInv'
<1> DEFINE out == Filling("queued") \cup Waiting("send")
<1>1. Holds(outbound, out) /\ egress = Filling("sent") \cup Waiting("sent")
  BY DEF ServiceInv, QueueInv
<1>2. r \in out /\ Holds(outbound', out \ {r}) /\ egress' = egress \cup {r}
  <2>1. outbound # <<>> /\ r = Head(outbound) /\ outbound' = Tail(outbound) /\ egress' = egress \cup {r}
    BY DEF EgressGranted
  <2> HIDE DEF out
  <2> QED BY <1>1, <2>1, HoldsTail
<1>3. UNCHANGED <<parked, mutex, places, ttl, configured, swept>>
  BY DEF EgressGranted, geo, config
<1>4. CASE r \in Tiles
  <2>1. fill' = [fill EXCEPT ![r] = "sent"] /\ req' = req
    BY <1>4 DEF EgressGranted
  <2>2. r \notin Waiting("send") /\ r \in Filling("queued")
    BY <1>2, <1>4, KindFacts DEF ServiceInv, ReqInv, Fits, Held, Waiting
  <2>3. /\ fill' \in [Tiles -> {"none", "queued", "sent"}]
        /\ Filling("queued")' = Filling("queued") \ {r} /\ Filling("sent")' = Filling("sent") \cup {r}
    BY <1>4, <2>1, FillFacts DEF ServiceInv
  <2>4. ReqInv'
    BY <2>1, <2>3 DEF ServiceInv, ReqInv
  <2>5. out \ {r} = Filling("queued")' \cup Waiting("send")'
    BY <2>1, <2>2, <2>3, SameRequests
  <2>6. egress \cup {r} = Filling("sent")' \cup Waiting("sent")'
    BY <1>1, <2>1, <2>3, SameRequests
  <2>7. QueueInv'
    BY <1>2, <1>3, <2>1, <2>5, <2>6, SameRequests DEF ServiceInv, QueueInv
  <2>8. BusyInv'
    BY <2>1, SameRequests DEF ServiceInv, BusyInv
  <2>9. GeoInv'
    BY <1>3, <2>1 DEF ServiceInv, GeoInv
  <2> QED BY <1>3, <2>4, <2>7, <2>8, <2>9 DEF ServiceInv, ConfigInv
<1>5. CASE r \notin Tiles
  <2>1. fill' = fill /\ Go(r, "sent") /\ req[r] = "send" /\ r \in Geocodes
    BY <1>2, <1>5 DEF EgressGranted, Waiting, Filling, ServiceInv, ReqInv, Fits, Held
  <2>2. "sent" \in Rank /\ Fits(r, "sent") /\ "sent" \in Held
    BY <2>1 DEF Rank, Fits, Held
  <2>3. ReqInv'
    BY <1>5, <2>1, <2>2, MoveReqInv DEF ServiceInv, ReqInv
  <2>4. Filling("queued")' = Filling("queued") /\ Filling("sent")' = Filling("sent")
    BY <2>1 DEF Filling
  <2>5. Waiting("send")' = Waiting("send") \ {r} /\ Waiting("sent")' = Waiting("sent") \cup {r}
    BY <2>1, <2>2, MoveFacts DEF ServiceInv
  <2>6. Waiting("parked")' = Waiting("parked") /\ Waiting("lock")' = Waiting("lock")
    BY <2>1, <2>2, StayFacts DEF ServiceInv
  <2>7. out \ {r} = Filling("queued")' \cup Waiting("send")'
    BY <1>5, <2>4, <2>5 DEF Filling
  <2>8. egress \cup {r} = Filling("sent")' \cup Waiting("sent")'
    BY <1>1, <2>4, <2>5
  <2>9. QueueInv'
    BY <1>2, <1>3, <2>6, <2>7, <2>8 DEF ServiceInv, QueueInv
  <2>10. BusyInv'
    BY <2>1, <2>2, MoveBusy DEF ServiceInv, Unadmitted
  <2>11. GeoInv'
    BY <1>3, <2>1, <2>2, GeoFrame DEF ServiceInv, Held
  <2> QED BY <1>3, <2>3, <2>9, <2>10, <2>11 DEF ServiceInv, ConfigInv
<1> QED BY <1>4, <1>5

\* The fill gives its egress permit back; the request it wakes has been
\* admitted and stays so until its response ends.
LEMMA FillEndsInv == ASSUME ServiceInv, NEW t \in Tiles, FillEnds(t), UNCHANGED clients PROVE ServiceInv'
<1>1. fill[t] = "sent" /\ fill' = [fill EXCEPT ![t] = "none"] /\ egress' = egress \ {t}
  BY DEF FillEnds, EgressAfter
<1>2. UNCHANGED <<parked, mutex, outbound, places, ttl, configured, swept>>
  BY DEF FillEnds, geo, config
<1> DEFINE pc == IF req[t] = "fill" THEN "body" ELSE req[t]
<1>3. t \in Requests /\ Go(t, pc) /\ pc \in Rank /\ Fits(t, pc)
  <2>1. t \in Requests /\ Go(t, pc) /\ pc \in Rank
    BY KindFacts DEF FillEnds, TileResponds, Go, ServiceInv, ReqInv, Rank
  <2>2. Fits(t, req[t]) /\ Fits(t, "body")
    BY <2>1 DEF ServiceInv, ReqInv, Fits, Held
  <2> QED BY <2>1, <2>2
<1>4. req[t] # "send" /\ req[t] # "sent" /\ req[t] # "lock"
  BY <1>3, KindFacts DEF ServiceInv, ReqInv, Fits, Held
<1>5. (pc \in Unadmitted \/ req[t] \notin Unadmitted) /\ (pc \notin Held \/ req[t] \in Held)
  BY <1>4 DEF Unadmitted, Held
<1>6. /\ fill' \in [Tiles -> {"none", "queued", "sent"}]
      /\ Filling("queued")' = Filling("queued") \ {t} /\ Filling("sent")' = Filling("sent") \ {t}
  BY <1>1, FillFacts DEF ServiceInv
<1>7. Waiting("parked")' = Waiting("parked") /\ Waiting("lock")' = Waiting("lock")
      /\ Waiting("send")' = Waiting("send") /\ Waiting("sent")' = Waiting("sent")
  <2>1. \A p \in {"parked", "lock", "send", "sent"} : \A q \in Requests : (req'[q] = p) <=> (req[q] = p)
    BY <1>3, <1>4, MoveFacts DEF ServiceInv
  <2> QED BY <2>1 DEF Waiting
<1> HIDE DEF pc
<1>8. ReqInv'
  BY <1>3, <1>6, MoveReqInv DEF ServiceInv, ReqInv
<1>9. QueueInv'
  <2>1. t \notin Filling("queued") /\ t \notin Waiting("sent")
    BY <1>1, <1>4 DEF Filling, Waiting
  <2>2. Filling("queued")' = Filling("queued") /\ egress \ {t} = Filling("sent")' \cup Waiting("sent")'
    BY <1>6, <1>7, <2>1 DEF ServiceInv, QueueInv
  <2> QED BY <1>1, <1>2, <1>7, <2>2 DEF ServiceInv, QueueInv
<1>10. BusyInv'
  BY <1>3, <1>5, MoveBusy DEF ServiceInv
<1>11. GeoInv'
  BY <1>2, <1>3, <1>5, GeoFrame DEF ServiceInv
<1> QED BY <1>2, <1>8, <1>9, <1>10, <1>11 DEF ServiceInv, ConfigInv

\* The cache keeps what is left of it after the expired entries are dropped.
LEMMA SuffixFacts ==
    ASSUME NEW s \in Seq(Spots), Distinct(s), NEW n \in 0 .. Len(s)
    PROVE  LET rest == SubSeq(s, n + 1, Len(s))
           IN  rest \in Seq(Spots) /\ Distinct(rest) /\ Len(rest) <= Len(s)
<1> DEFINE rest == SubSeq(s, n + 1, Len(s))
           m == Len(s)
<1>1. m \in Nat /\ DOMAIN s = 1 .. m /\ n \in Nat /\ n <= m
  OBVIOUS
<1>2. rest \in Seq(Spots) /\ Len(rest) = m - n /\ DOMAIN rest = 1 .. m - n
      /\ \A i \in 1 .. m - n : rest[i] = s[n + i] /\ n + i \in 1 .. m
  OBVIOUS
<1> HIDE DEF rest, m
<1>3. \A i, k \in 1 .. m : s[i] = s[k] => i = k
  BY <1>1 DEF Distinct
<1>4. Distinct(rest)
  <2> SUFFICES ASSUME NEW i \in 1 .. m - n, NEW k \in 1 .. m - n, rest[i] = rest[k] PROVE i = k
    BY <1>2 DEF Distinct
  <2>1. n + i = n + k
    BY <1>2, <1>3
  <2> QED BY <1>1, <2>1
<1>5. Len(rest) <= m
  BY <1>1, <1>2
<1> QED BY <1>2, <1>4, <1>5 DEF rest, m

\* At its limit the cache drops its oldest entry and takes the new one.
LEMMA RememberedFacts ==
    ASSUME GeoInv, NEW key \in Spots, key \notin Members(places)
    PROVE  Remembered(key) \in Seq(Spots) /\ Distinct(Remembered(key)) /\ Len(Remembered(key)) <= CacheLimit
<1> DEFINE old == IF Len(places) >= CacheLimit THEN Tail(places) ELSE places
           new == Append(old, key)
           m == Len(places)
           n == Len(old)
<1>1. CacheLimit \in Nat \ {0}
  BY ServiceAssumption DEF ServiceAssumption
<1>2. places \in Seq(Spots) /\ Distinct(places) /\ m <= CacheLimit /\ m \in Nat /\ DOMAIN places = 1 .. m
  BY DEF GeoInv
<1>3. old \in Seq(Spots) /\ n \in Nat /\ DOMAIN old = 1 .. n /\ n < CacheLimit
  <2>1. CASE m >= CacheLimit
    <3>1. old = Tail(places) /\ places # <<>>
      BY <1>1, <1>2, <2>1
    <3>2. m \in Nat \ {0} /\ places \in Seq(Spots)
      BY <1>1, <1>2, <2>1
    <3> HIDE DEF old, n
    <3>3. Len(Tail(places)) = Len(places) - 1
      BY <3>2
    <3>4. Tail(places) \in Seq(Spots)
      BY <3>2
    <3>5. n = m - 1 /\ old \in Seq(Spots)
      BY <3>1, <3>3, <3>4 DEF n
    <3>6. DOMAIN old = 1 .. n
      BY <3>5 DEF n
    <3> HIDE DEF m
    <3>7. n \in Nat /\ n < CacheLimit
      BY <1>1, <1>2, <3>2, <3>5
    <3> QED BY <3>5, <3>6, <3>7
  <2>2. CASE ~(m >= CacheLimit)
    BY <1>1, <1>2, <2>2
  <2> QED BY <2>1, <2>2
<1>4. \A i, k \in 1 .. n : (old[i] = old[k] => i = k) /\ old[i] # key
  <2>0. /\ \A i, k \in 1 .. m : places[i] = places[k] => i = k
        /\ \A i \in 1 .. m : places[i] # key
    BY <1>2 DEF Distinct, Members
  <2>1. CASE m >= CacheLimit
    <3>1. n = m - 1 /\ \A i \in 1 .. n : old[i] = places[i + 1]
      BY <1>1, <1>2, <2>1
    <3> HIDE DEF old, n, m
    <3>2. \A i \in 1 .. n : i + 1 \in 1 .. m
      BY <1>2, <1>3, <3>1
    <3>3. ASSUME NEW i \in 1 .. n, NEW k \in 1 .. n PROVE (old[i] = old[k] => i = k) /\ old[i] # key
      <4>1. old[i] = places[i + 1] /\ old[k] = places[k + 1] /\ i + 1 \in 1 .. m /\ k + 1 \in 1 .. m
        BY <3>1, <3>2
      <4>2. old[i] = old[k] => i + 1 = k + 1
        BY <2>0, <4>1
      <4>3. i \in Int /\ k \in Int
        OBVIOUS
      <4> QED BY <2>0, <4>1, <4>2, <4>3
    <3> QED BY <3>3
  <2>2. CASE ~(m >= CacheLimit)
    BY <2>0, <2>2
  <2> QED BY <2>1, <2>2
<1> HIDE DEF old, n
<1>5. new \in Seq(Spots) /\ Len(new) = n + 1 /\ DOMAIN new = 1 .. n + 1 /\ new[n + 1] = key /\ \A i \in 1 .. n : new[i] = old[i]
  BY <1>3 DEF n
<1> HIDE DEF new
<1>6. Distinct(new)
  BY <1>3, <1>4, <1>5 DEF Distinct
<1>7. Len(new) <= CacheLimit
  BY <1>1, <1>3, <1>5
<1> QED BY <1>5, <1>6, <1>7 DEF new, old, Remembered

\* A request joins the queue for an egress permit with the interval's stamp.
LEMMA AskFacts ==
    ASSUME ReqInv, QueueInv, BusyInv, ConfigInv, NEW g \in Geocodes, AskProvider(g), req[g] \in {"lock", "sleep"},
           UNCHANGED <<clients, fill, parked, egress, config>>
    PROVE  /\ ReqInv' /\ BusyInv' /\ ConfigInv'
           /\ Waiting("parked")' = Waiting("parked") /\ Waiting("lock")' = Waiting("lock") \ {g}
           /\ Holds(outbound', Filling("queued")' \cup Waiting("send")')
           /\ egress' = Filling("sent")' \cup Waiting("sent")'
<1>1. g \in Requests /\ g \notin Tiles /\ Go(g, "send") /\ outbound' = Append(outbound, g)
  BY KindFacts DEF AskProvider
<1>2. "send" \in Rank /\ Fits(g, "send") /\ req[g] \notin Unadmitted
  BY DEF Rank, Fits, Unadmitted, Held
<1>3. ReqInv'
  BY <1>1, <1>2, MoveReqInv DEF ReqInv
<1>4. BusyInv'
  BY <1>1, <1>2, MoveBusy
<1>5. /\ Waiting("send")' = Waiting("send") \cup {g} /\ Waiting("lock")' = Waiting("lock") \ {g}
  BY <1>1, <1>2, MoveFacts
<1>6. Waiting("parked")' = Waiting("parked") /\ Waiting("sent")' = Waiting("sent")
  BY <1>1, <1>2, StayFacts
<1>7. Filling("queued")' = Filling("queued") /\ Filling("sent")' = Filling("sent")
  BY DEF Filling
<1> DEFINE out == Filling("queued") \cup Waiting("send")
<1>8. g \notin out /\ Holds(outbound, out)
  BY <1>1 DEF QueueInv, Filling, Waiting
<1>9. out \cup {g} = Filling("queued")' \cup Waiting("send")'
  BY <1>5, <1>7
<1> HIDE DEF out
<1>10. Holds(outbound', out \cup {g})
  BY <1>1, <1>8, HoldsAppend
<1>11. ConfigInv'
  BY DEF ConfigInv, config
<1> QED BY <1>3, <1>4, <1>5, <1>6, <1>7, <1>9, <1>10, <1>11 DEF QueueInv

\* The mutex is free and goes to the head of its queue.  What the request
\* takes it for is not in the cache, or the request is answered at once.
LEMMA GeocodeLockedInv ==
    ASSUME ServiceInv, NEW g \in Geocodes, GeocodeLocked(g), UNCHANGED clients
    PROVE  ServiceInv'
<1>1. g \in Requests /\ g \notin Tiles /\ UNCHANGED <<fill, parked, egress, config>>
  BY KindFacts DEF GeocodeLocked
<1>2. req[g] = "lock" /\ Holds(mutex', Waiting("lock") \ {g})
  <2>1. mutex # <<>> /\ g = Head(mutex) /\ mutex' = Tail(mutex) /\ Holds(mutex, Waiting("lock"))
    BY DEF GeocodeLocked, ServiceInv, QueueInv
  <2>2. g \in Waiting("lock") /\ Holds(mutex', Waiting("lock") \ {g})
    BY <2>1, HoldsTail
  <2> QED BY <2>2 DEF Waiting
<1>3. \A h \in Geocodes : req[h] \notin Held
  BY DEF GeocodeLocked, MutexHeld, Held
<1>4. places' \in Seq(Spots) /\ Distinct(places') /\ Len(places') <= CacheLimit
  <2>1. PICK n \in 0 .. Len(places) : places' = SubSeq(places, n + 1, Len(places))
    BY DEF GeocodeLocked
  <2>2. places \in Seq(Spots) /\ Distinct(places) /\ Len(places) <= CacheLimit
    BY DEF ServiceInv, GeoInv
  <2>3. places' \in Seq(Spots) /\ Distinct(places') /\ Len(places') <= Len(places)
    BY <2>1, <2>2, SuffixFacts
  <2>4. Len(places') \in Nat /\ Len(places) \in Nat /\ CacheLimit \in Nat
    BY <2>2, <2>3, ServiceAssumption DEF ServiceAssumption
  <2> QED BY <2>2, <2>3, <2>4
<1> DEFINE cached == \E i \in DOMAIN places' : places'[i] = KeyOf[g]
<1>6. ~cached => KeyOf[g] \notin Members(places')
  BY DEF Members
<1>7. \/ cached /\ Go(g, "body") /\ UNCHANGED outbound
      \/ ~cached /\ Go(g, "sleep") /\ UNCHANGED outbound
      \/ ~cached /\ AskProvider(g)
  BY DEF GeocodeLocked
<1> HIDE DEF cached
<1>8. CASE ~cached /\ AskProvider(g)
  <2>1. /\ ReqInv' /\ BusyInv' /\ ConfigInv'
        /\ Waiting("parked")' = Waiting("parked") /\ Waiting("lock")' = Waiting("lock") \ {g}
        /\ Holds(outbound', Filling("queued")' \cup Waiting("send")')
        /\ egress' = Filling("sent")' \cup Waiting("sent")'
    BY <1>1, <1>2, <1>8, AskFacts DEF ServiceInv
  <2>2. QueueInv'
    BY <1>1, <1>2, <2>1 DEF ServiceInv, QueueInv
  <2>4. "send" \in Rank /\ Go(g, "send")
    BY <1>8 DEF AskProvider, Rank
  <2>5. \A h \in Geocodes : req'[h] \in Held => h = g
    BY <1>1, <1>3, <2>4, MoveFacts, KindFacts DEF ServiceInv
  <2>6. GeoInv'
    BY <1>4, <1>6, <1>8, <2>5 DEF GeoInv
  <2> QED BY <2>1, <2>2, <2>6 DEF ServiceInv
<1>9. CASE (Go(g, "body") \/ (~cached /\ Go(g, "sleep"))) /\ UNCHANGED outbound
  <2>1. PICK pc \in {"body", "sleep"} : Go(g, pc) /\ (pc = "sleep" => ~cached)
    BY <1>9
  <2>2. pc \in Rank /\ Fits(g, pc) /\ req[g] \notin Unadmitted /\ pc # "send" /\ pc # "sent" /\ pc # "lock" /\ pc # "parked"
    BY <1>2 DEF Rank, Fits, Unadmitted, Held
  <2>3. ReqInv'
    BY <1>1, <2>1, <2>2, MoveReqInv DEF ServiceInv, ReqInv
  <2>4. BusyInv'
    BY <1>1, <2>1, <2>2, MoveBusy DEF ServiceInv
  <2>5. Waiting("lock")' = Waiting("lock") \ {g}
    BY <1>1, <2>1, <2>2, MoveFacts DEF ServiceInv
  <2>6. /\ Waiting("parked")' = Waiting("parked") /\ Waiting("send")' = Waiting("send")
        /\ Waiting("sent")' = Waiting("sent")
    BY <1>1, <1>2, <2>1, <2>2, StayFacts DEF ServiceInv
  <2>7. Filling("queued")' = Filling("queued") /\ Filling("sent")' = Filling("sent")
    BY <1>1 DEF Filling
  <2>8. QueueInv'
    BY <1>1, <1>2, <1>9, <2>5, <2>6, <2>7 DEF ServiceInv, QueueInv
  <2>9. \A h \in Geocodes : req'[h] \in Held => h = g /\ ~cached
    BY <1>1, <1>3, <2>1, <2>2, MoveFacts, KindFacts DEF ServiceInv, Held
  <2>10. GeoInv'
    BY <1>4, <1>6, <1>9, <2>9 DEF GeoInv
  <2>11. ConfigInv'
    BY <1>1 DEF config, ServiceInv, ConfigInv
  <2> QED BY <2>3, <2>4, <2>8, <2>10, <2>11 DEF ServiceInv
<1> QED BY <1>7, <1>8, <1>9

LEMMA SleepEndsInv == ASSUME ServiceInv, NEW g \in Geocodes, SleepEnds(g), UNCHANGED clients PROVE ServiceInv'
<1>1. g \in Requests /\ UNCHANGED <<fill, parked, egress, mutex, places, config>> /\ req[g] = "sleep" /\ AskProvider(g)
  BY KindFacts DEF SleepEnds, At
<1>2. /\ ReqInv' /\ BusyInv' /\ ConfigInv'
      /\ Waiting("parked")' = Waiting("parked") /\ Waiting("lock")' = Waiting("lock") \ {g}
      /\ Holds(outbound', Filling("queued")' \cup Waiting("send")')
      /\ egress' = Filling("sent")' \cup Waiting("sent")'
  BY <1>1, AskFacts DEF ServiceInv
<1>3. Waiting("lock") \ {g} = Waiting("lock")
  BY <1>1 DEF Waiting
<1>4. QueueInv'
  BY <1>1, <1>2, <1>3 DEF ServiceInv, QueueInv
<1>6. "send" \in Rank /\ Go(g, "send")
  BY <1>1 DEF AskProvider, Rank
<1>7. \A h \in Geocodes : req'[h] \in Held => req[h] \in Held
  BY <1>1, <1>6, MoveFacts, KindFacts DEF ServiceInv, Held
<1>8. GeoInv'
  BY <1>1, <1>7 DEF ServiceInv, GeoInv
<1> QED BY <1>2, <1>4, <1>8 DEF ServiceInv

LEMMA ProviderAnswersInv ==
    ASSUME ServiceInv, NEW g \in Geocodes, ProviderAnswers(g), UNCHANGED clients
    PROVE  ServiceInv'
<1>1. /\ g \in Requests /\ g \notin Tiles /\ req[g] = "sent" /\ Go(g, "body") /\ egress' = egress \ {g}
      /\ UNCHANGED <<fill, parked, outbound, mutex, ttl, configured, swept>>
  BY KindFacts DEF ProviderAnswers, At, EgressAfter, config
<1>2. "body" \in Rank /\ Fits(g, "body") /\ req[g] \notin Unadmitted
  BY <1>1 DEF Rank, Fits, Unadmitted, Held
<1>3. ReqInv'
  BY <1>1, <1>2, MoveReqInv DEF ServiceInv, ReqInv
<1>4. BusyInv'
  BY <1>1, <1>2, MoveBusy DEF ServiceInv
<1>5. QueueInv'
  <2>1. Waiting("sent")' = Waiting("sent") \ {g}
    BY <1>1, <1>2, MoveFacts DEF ServiceInv
  <2>2. /\ Waiting("parked")' = Waiting("parked") /\ Waiting("lock")' = Waiting("lock")
        /\ Waiting("send")' = Waiting("send")
    BY <1>1, <1>2, StayFacts DEF ServiceInv
  <2>3. Filling("queued")' = Filling("queued") /\ Filling("sent")' = Filling("sent") /\ g \notin Filling("sent")
    BY <1>1 DEF Filling
  <2>4. egress' = Filling("sent")' \cup Waiting("sent")'
    BY <1>1, <2>1, <2>3 DEF ServiceInv, QueueInv
  <2> QED BY <1>1, <2>2, <2>3, <2>4 DEF ServiceInv, QueueInv
<1>6. \A h \in Geocodes : req'[h] \notin Held
  <2>1. \A h \in Geocodes : req[h] \in Held => h = g
    BY <1>1 DEF ServiceInv, GeoInv, Held
  <2> QED BY <1>1, <1>2, <2>1, MoveFacts, KindFacts DEF ServiceInv, Held
<1>7. places' \in Seq(Spots) /\ Distinct(places') /\ Len(places') <= CacheLimit
  <2>1. KeyOf[g] \in Spots /\ KeyOf[g] \notin Members(places)
    BY <1>1 DEF Spots, ServiceInv, GeoInv, Held
  <2>2. CASE places' = Remembered(KeyOf[g])
    BY <2>1, <2>2, RememberedFacts DEF ServiceInv
  <2>3. CASE UNCHANGED places
    BY <2>3 DEF ServiceInv, GeoInv
  <2> QED BY <2>2, <2>3 DEF ProviderAnswers
<1>8. GeoInv'
  BY <1>1, <1>6, <1>7 DEF ServiceInv, GeoInv
<1>9. ConfigInv'
  BY <1>1 DEF ServiceInv, ConfigInv
<1> QED BY <1>3, <1>4, <1>5, <1>8, <1>9 DEF ServiceInv

\* An admitted handler up to its first await, whichever route it serves.
LEMMA EnterFacts ==
    ASSUME ServiceInv, NEW r \in Ordinary, req[r] \in {"idle", "parked"}, FreePermit, Enter(r),
           UNCHANGED <<clients, egress, places, configured, swept>>
    PROVE  /\ ReqInv' /\ BusyInv' /\ GeoInv' /\ ConfigInv'
           /\ Waiting("parked")' = Waiting("parked") \ {r} /\ Holds(mutex', Waiting("lock")')
           /\ Holds(outbound', Filling("queued")' \cup Waiting("send")')
           /\ egress' = Filling("sent")' \cup Waiting("sent")'
<1>1. r \in Requests /\ r \notin Probes
  BY KindFacts
<1>2. PICK pc \in {"body", "fill", "lock", "config"} :
        /\ Go(r, pc) /\ Fits(r, pc)
        /\ pc # "lock" => mutex' = mutex
        /\ pc = "lock" => mutex' = Append(mutex, r)
        /\ pc # "fill" => UNCHANGED <<fill, outbound>>
        /\ pc = "fill" => /\ r \in Tiles /\ fill' = [fill EXCEPT ![r] = IF @ = "none" THEN "queued" ELSE @]
                          /\ outbound' = IF fill[r] = "none" THEN Append(outbound, r) ELSE outbound
  BY DEF Enter, AwaitTile, SetScrollTtl, Fits, Held
<1>3. ttl' \in {"boot", "pushed"}
  BY DEF Enter, SetScrollTtl, ServiceInv, ConfigInv
<1>4. pc \in Rank /\ pc \notin Held /\ pc # "parked" /\ pc # "send" /\ pc # "sent"
  BY DEF Rank, Held
<1>5. fill' \in [Tiles -> {"none", "queued", "sent"}]
  BY <1>2 DEF ServiceInv, ReqInv
<1>6. ReqInv'
  BY <1>1, <1>2, <1>4, <1>5, MoveReqInv DEF ServiceInv, ReqInv
<1>7. BusyInv'
  BY <1>1, <1>2, <1>4, AdmitBusy DEF ServiceInv
<1>8. GeoInv'
  BY <1>1, <1>2, <1>4, GeoFrame DEF ServiceInv
<1>9. ConfigInv'
  BY <1>3 DEF ServiceInv, ConfigInv
<1>10. Waiting("parked")' = Waiting("parked") \ {r}
  BY <1>1, <1>2, <1>4, MoveFacts DEF ServiceInv
<1>11. Waiting("send")' = Waiting("send") /\ Waiting("sent")' = Waiting("sent")
  BY <1>1, <1>2, <1>4, StayFacts DEF ServiceInv
<1>12. Holds(mutex', Waiting("lock")')
  <2>1. Holds(mutex, Waiting("lock")) /\ r \notin Waiting("lock")
    BY DEF ServiceInv, QueueInv, Waiting
  <2>2. CASE pc = "lock"
    <3>1. Waiting("lock")' = Waiting("lock") \cup {r}
      BY <1>1, <1>2, <1>4, <2>2, MoveFacts DEF ServiceInv
    <3>2. Holds(Append(mutex, r), Waiting("lock") \cup {r})
      BY <1>1, <2>1, HoldsAppend
    <3>3. mutex' = Append(mutex, r)
      BY <1>2, <2>2
    <3> QED BY <3>1, <3>2, <3>3
  <2>3. CASE pc # "lock"
    <3>1. Waiting("lock")' = Waiting("lock")
      BY <1>1, <1>2, <1>4, <2>3, StayFacts DEF ServiceInv
    <3> QED BY <1>2, <2>1, <2>3, <3>1
  <2> QED BY <2>2, <2>3
<1> DEFINE out == Filling("queued") \cup Waiting("send")
<1>13. Holds(outbound, out) /\ egress = Filling("sent") \cup Waiting("sent")
  BY DEF ServiceInv, QueueInv
<1>14. CASE pc = "fill" /\ fill[r] = "none"
  <2>1. fill' = [fill EXCEPT ![r] = "queued"] /\ outbound' = Append(outbound, r) /\ r \in Tiles
    BY <1>2, <1>14
  <2>2. Filling("queued")' = Filling("queued") \cup {r} /\ Filling("sent")' = Filling("sent") \ {r}
    BY <2>1, FillFacts DEF ServiceInv
  <2>3. r \notin out /\ r \notin Filling("sent")
    BY <1>14 DEF Filling, Waiting
  <2>4. out \cup {r} = Filling("queued")' \cup Waiting("send")' /\ Filling("sent")' = Filling("sent")
    BY <1>11, <2>2, <2>3
  <2> HIDE DEF out
  <2>5. Holds(outbound', out \cup {r})
    BY <1>1, <1>13, <2>1, <2>3, HoldsAppend
  <2> QED BY <1>6, <1>7, <1>8, <1>9, <1>10, <1>11, <1>12, <1>13, <2>4, <2>5
<1>15. CASE ~(pc = "fill" /\ fill[r] = "none")
  <2>1. fill' = fill /\ outbound' = outbound
    BY <1>2, <1>15 DEF ServiceInv, ReqInv
  <2>2. Filling("queued")' = Filling("queued") /\ Filling("sent")' = Filling("sent")
    BY <2>1 DEF Filling
  <2> QED BY <1>6, <1>7, <1>8, <1>9, <1>10, <1>11, <1>12, <1>13, <2>1, <2>2
<1> QED BY <1>14, <1>15

LEMMA AdmitInv == ASSUME ServiceInv, Admit, UNCHANGED clients PROVE ServiceInv'
<1> DEFINE r == Head(parked)
<1>1. parked # <<>> /\ FreePermit /\ Enter(r) /\ parked' = Tail(parked)
  BY DEF Admit
<1>2. UNCHANGED <<egress, places, configured, swept>>
  BY DEF Admit
<1>3. Holds(parked, Waiting("parked"))
  BY DEF ServiceInv, QueueInv
<1>4. r \in Waiting("parked") /\ Holds(parked', Waiting("parked") \ {r})
  BY <1>1, <1>3, HoldsTail
<1> HIDE DEF r
<1>5. r \in Ordinary /\ req[r] = "parked"
  BY <1>4 DEF Waiting, ServiceInv, ReqInv, Fits
<1>6. /\ ReqInv' /\ BusyInv' /\ GeoInv' /\ ConfigInv'
      /\ Waiting("parked")' = Waiting("parked") \ {r} /\ Holds(mutex', Waiting("lock")')
      /\ Holds(outbound', Filling("queued")' \cup Waiting("send")')
      /\ egress' = Filling("sent")' \cup Waiting("sent")'
  BY <1>1, <1>2, <1>5, EnterFacts
<1> QED BY <1>4, <1>6 DEF ServiceInv, QueueInv

\* A request that arrives finds a free permit and nobody before it, or waits.
LEMMA ArriveInv == ASSUME ServiceInv, NEW r \in Ordinary, Arrive(r), UNCHANGED clients PROVE ServiceInv'
<1>1. r \in Requests /\ r \notin Probes /\ req[r] = "idle"
  BY KindFacts DEF Arrive, At
<1>2. UNCHANGED <<egress, places, configured, swept>>
  BY DEF Arrive
<1>3. Holds(parked, Waiting("parked")) /\ r \notin Waiting("parked")
  BY <1>1 DEF ServiceInv, QueueInv, Waiting
<1>4. CASE FreePermit /\ parked = <<>> /\ Enter(r) /\ UNCHANGED parked
  <2>1. /\ ReqInv' /\ BusyInv' /\ GeoInv' /\ ConfigInv'
        /\ Waiting("parked")' = Waiting("parked") \ {r} /\ Holds(mutex', Waiting("lock")')
        /\ Holds(outbound', Filling("queued")' \cup Waiting("send")')
        /\ egress' = Filling("sent")' \cup Waiting("sent")'
    BY <1>1, <1>2, <1>4, EnterFacts
  <2>2. Waiting("parked")' = Waiting("parked")
    BY <1>3, <2>1
  <2> QED BY <1>3, <1>4, <2>1, <2>2 DEF ServiceInv, QueueInv
<1>5. CASE parked' = Append(parked, r) /\ Go(r, "parked") /\ UNCHANGED <<fill, outbound, mutex, ttl>>
  <2>1. "parked" \in Rank /\ "parked" \notin Held /\ Fits(r, "parked") /\ "parked" \in Unadmitted
    BY DEF Rank, Held, Fits, Unadmitted
  <2>2. ReqInv'
    BY <1>1, <1>5, <2>1, MoveReqInv DEF ServiceInv, ReqInv
  <2>3. BusyInv'
    BY <1>1, <1>5, <2>1, MoveBusy DEF ServiceInv
  <2>4. GeoInv'
    BY <1>1, <1>2, <1>5, <2>1, GeoFrame DEF ServiceInv
  <2>5. Waiting("parked")' = Waiting("parked") \cup {r}
    BY <1>1, <1>5, <2>1, MoveFacts DEF ServiceInv
  <2>6. /\ Waiting("lock")' = Waiting("lock") /\ Waiting("send")' = Waiting("send")
        /\ Waiting("sent")' = Waiting("sent")
    BY <1>1, <1>5, <2>1, StayFacts DEF ServiceInv
  <2>7. Filling("queued")' = Filling("queued") /\ Filling("sent")' = Filling("sent")
    BY <1>5 DEF Filling
  <2>8. Holds(parked', Waiting("parked") \cup {r})
    BY <1>1, <1>3, <1>5, HoldsAppend
  <2>9. QueueInv'
    BY <1>2, <1>5, <2>5, <2>6, <2>7, <2>8 DEF ServiceInv, QueueInv
  <2>10. ConfigInv'
    BY <1>2, <1>5 DEF ServiceInv, ConfigInv
  <2> QED BY <2>2, <2>3, <2>4, <2>9, <2>10 DEF ServiceInv
<1> QED BY <1>4, <1>5 DEF Arrive

-----------------------------------------------------------------------------
(* The process                                                             *)

\* A new process: no request, no permit out, no place known.
LEMMA FreshInv == ASSUME clients \subseteq Requests, Fresh PROVE ServiceInv
<1>1. ReqInv
  BY DEF ReqInv, Fresh, Rank, Fits, Held
<1>2. QueueInv
  <2>1. Waiting("parked") = {} /\ Waiting("lock") = {} /\ Waiting("send") = {} /\ Waiting("sent") = {}
    BY DEF Fresh, Waiting
  <2>2. Filling("queued") = {} /\ Filling("sent") = {}
    BY DEF Fresh, Filling
  <2>3. parked = <<>> /\ mutex = <<>> /\ outbound = <<>> /\ egress = {}
    BY DEF Fresh
  <2> QED BY <2>1, <2>2, <2>3, HoldsEmpty DEF QueueInv
<1>3. BusyInv
  <2>1. Busy(Ordinary) = {} /\ Busy(Probes) = {}
    BY KindFacts DEF Fresh, Busy, Unadmitted
  <2>2. Cardinality({}) = 0 /\ MaxActive \in Nat /\ MaxHealth \in Nat
    BY FS_EmptySet, ServiceAssumption DEF ServiceAssumption
  <2>3. 0 <= MaxActive /\ 0 <= MaxHealth
    BY <2>2
  <2> QED BY <2>1, <2>2, <2>3 DEF BusyInv
<1>4. GeoInv
  <2>1. CacheLimit \in Nat
    BY ServiceAssumption DEF ServiceAssumption
  <2>3. places \in Seq(Spots) /\ Distinct(places) /\ Len(places) <= CacheLimit /\ Members(places) = {}
    BY <2>1 DEF Fresh, Distinct, Members
  <2>4. \A g \in Geocodes : req[g] \notin Held
    BY KindFacts DEF Fresh, Held
  <2> QED BY <2>3, <2>4 DEF GeoInv
<1>5. ConfigInv
  BY DEF ConfigInv, Fresh
<1> QED BY <1>1, <1>2, <1>3, <1>4, <1>5 DEF ServiceInv

LEMMA ForgottenInv == ASSUME ServiceInv, Forgotten, UNCHANGED clients PROVE ServiceInv'
<1>1. ReqInv'
  BY DEF ServiceInv, ReqInv, Forgotten, Rank, Fits, Held
<1>2. QueueInv'
  <2>1. Waiting("parked")' = {} /\ Waiting("lock")' = {} /\ Waiting("send")' = {} /\ Waiting("sent")' = {}
    BY DEF Forgotten, Waiting
  <2>2. Filling("queued")' = {} /\ Filling("sent")' = {}
    BY DEF Forgotten, Filling
  <2>3. parked' = <<>> /\ mutex' = <<>> /\ outbound' = <<>> /\ egress' = {}
    BY DEF Forgotten
  <2> QED BY <2>1, <2>2, <2>3, HoldsEmpty DEF QueueInv
<1>3. BusyInv'
  <2>1. Busy(Ordinary)' = {} /\ Busy(Probes)' = {}
    BY KindFacts DEF Forgotten, Busy, Unadmitted
  <2>2. Cardinality({}) = 0 /\ MaxActive \in Nat /\ MaxHealth \in Nat
    BY FS_EmptySet, ServiceAssumption DEF ServiceAssumption
  <2>3. 0 <= MaxActive /\ 0 <= MaxHealth
    BY <2>2
  <2> QED BY <2>1, <2>2, <2>3 DEF BusyInv
<1>4. GeoInv'
  <2>1. CacheLimit \in Nat
    BY ServiceAssumption DEF ServiceAssumption
  <2>3. places' \in Seq(Spots) /\ Distinct(places') /\ Len(places') <= CacheLimit /\ Members(places') = {}
    BY <2>1 DEF Forgotten, Distinct, Members
  <2>4. \A g \in Geocodes : req'[g] \notin Held
    BY KindFacts DEF Forgotten, Held
  <2> QED BY <2>3, <2>4 DEF GeoInv
<1>5. ConfigInv'
  BY DEF ConfigInv, Forgotten
<1> QED BY <1>1, <1>2, <1>3, <1>4, <1>5 DEF ServiceInv

\* The clock and the sweeper leave every request where it is.
LEMMA BackgroundInv == ASSUME ServiceInv, Background, UNCHANGED clients PROVE ServiceInv'
<1>1. UNCHANGED <<req, fill, parked, egress, outbound, mutex, places>>
  BY DEF Background, TimePasses, SweeperWaits, RunSweepOnce, geo
<1>2. ReqInv'
  BY <1>1 DEF ServiceInv, ReqInv
<1>3. Filling("queued")' = Filling("queued") /\ Filling("sent")' = Filling("sent")
  BY <1>1 DEF Filling
<1>4. QueueInv'
  BY <1>1, <1>3, SameRequests DEF ServiceInv, QueueInv
<1>5. BusyInv'
  BY <1>1, SameRequests DEF ServiceInv, BusyInv
<1>6. GeoInv'
  BY <1>1 DEF ServiceInv, GeoInv
<1>7. ConfigInv'
  BY DEF Background, TimePasses, SweeperWaits, RunSweepOnce, config, ServiceInv, ConfigInv
<1> QED BY <1>2, <1>4, <1>5, <1>6, <1>7 DEF ServiceInv

LEMMA ServiceStutter == ASSUME ServiceInv, UNCHANGED serviceVars PROVE ServiceInv'
<1>1. UNCHANGED <<clients, req, fill, parked, egress, outbound, mutex, places, ttl, configured, swept>>
  BY DEF serviceVars, geo, config
<1>2. Filling("queued")' = Filling("queued") /\ Filling("sent")' = Filling("sent")
  BY <1>1 DEF Filling
<1>3. QueueInv'
  BY <1>1, <1>2, SameRequests DEF ServiceInv, QueueInv
<1>4. BusyInv'
  BY <1>1, SameRequests DEF ServiceInv, BusyInv
<1>5. ReqInv' /\ ConfigInv'
  BY <1>1 DEF ServiceInv, ReqInv, ConfigInv
<1>6. GeoInv'
  BY <1>1 DEF ServiceInv, GeoInv
<1> QED BY <1>3, <1>4, <1>5, <1>6 DEF ServiceInv

LEMMA ServiceNextInv == ASSUME ServiceInv, [Next]_vars PROVE ServiceInv'
<1>1. CASE InBoot(BootStep) \/ InBoot(ContainerRestarts) \/ UNCHANGED vars
  BY <1>1, ServiceStutter DEF InBoot, vars
<1>2. CASE Fails
  BY <1>2, ServiceStutter, ForgottenInv DEF Fails
<1>3. ASSUME NEW r \in Requests, InService(Serve(r)) PROVE ServiceInv'
  <2>1. Serve(r) /\ UNCHANGED clients
    BY <1>3 DEF InService
  <2> QED BY <2>1, EgressGrantedInv, FillEndsInv, GeocodeLockedInv, SleepEndsInv, ProviderAnswersInv, PublishInv,
             NotifyInv DEF Serve
<1>4. ASSUME NEW r \in Requests, InService(AdmissionWaitEnds(r)) PROVE ServiceInv'
  BY <1>4, AdmissionWaitInv DEF InService
<1>5. ASSUME NEW r \in Requests, InService(Client(r)) PROVE ServiceInv'
  <2>1. Client(r) /\ UNCHANGED clients
    BY <1>5 DEF InService
  <2> QED BY <2>1, ProbeInv, ArriveInv, ResponseEndsInv, DisconnectInv DEF Client
<1>6. CASE InService(Admit)
  BY <1>6, AdmitInv DEF InService
<1>7. CASE InService(Background)
  BY <1>7, BackgroundInv DEF InService
<1> QED BY <1>1, <1>2, <1>3, <1>4, <1>5, <1>6, <1>7 DEF Next

\* The inductive invariant of what is served: each queue holds exactly the
\* requests that wait in it, permits are counted by the stage of a request,
\* and at most one request is behind the geocode mutex, for a place that is
\* not cached.
THEOREM ServiceInvariant == ServiceSpec => []ServiceInv
<1>1. ServiceInit => ServiceInv
  BY FreshInv DEF ServiceInit
<1>2. ServiceInv /\ [Next]_vars => ServiceInv'
  BY ServiceNextInv
<1> QED BY <1>1, <1>2, PTL DEF ServiceSpec

-----------------------------------------------------------------------------
(* The provider interval                                                   *)

\* A sleeper wakes no earlier than the interval allows; the departure before
\* the last is older than the stamp, and with a request stamped but not out
\* yet so is the last one, the one before by an interval.
SpaceInv ==
    /\ age \in 0 .. Interval /\ nap \in [Geocodes -> 0 .. Interval]
    /\ left \in [last : 0 .. Interval, before : 0 .. Interval]
    /\ age <= left.before
    /\ \A g \in Geocodes : req[g] = "sleep" => age + nap[g] >= Interval
    /\ \A g \in Geocodes : req[g] = "send" => age <= left.last /\ left.before >= Interval

LEMMA IntervalNat == Interval \in Nat \ {0}
BY ServiceAssumption DEF ServiceAssumption

\* Whoever moves, none falls asleep or is stamped and no time passes.
LEMMA SpaceFrame ==
    ASSUME ReqInv, SpaceInv, NEW r \in Requests, NEW pc \in Rank, Go(r, pc), pc # "sleep", pc # "send",
           UNCHANGED <<age, left>>, nap' \in [Geocodes -> 0 .. Interval],
           \A h \in Geocodes : h # r => nap'[h] = nap[h]
    PROVE  SpaceInv'
<1>1. \A h \in Geocodes : h \in Requests /\ (h = r => req'[h] = pc) /\ (h # r => req'[h] = req[h])
  BY MoveFacts, KindFacts
<1>2. ASSUME NEW g \in Geocodes, req'[g] = "sleep" PROVE age' + nap'[g] >= Interval
  <2>1. g # r /\ req[g] = "sleep" /\ nap'[g] = nap[g]
    BY <1>1, <1>2
  <2> QED BY <2>1 DEF SpaceInv
<1>3. ASSUME NEW g \in Geocodes, req'[g] = "send" PROVE age' <= left'.last /\ left'.before >= Interval
  BY <1>1, <1>3 DEF SpaceInv
<1> QED BY <1>2, <1>3 DEF SpaceInv

LEMMA SpaceStill == ASSUME SpaceInv, UNCHANGED <<req, age, nap, left>> PROVE SpaceInv'
BY DEF SpaceInv

\* The stamp, an interval after the last, by the only holder of the mutex.
LEMMA SpaceStamp ==
    ASSUME ReqInv, SpaceInv, NEW g \in Geocodes, AskProvider(g), age >= Interval, UNCHANGED <<nap, left>>,
           \A h \in Geocodes : req[h] \in Held => h = g
    PROVE  SpaceInv'
<1>1. Go(g, "send") /\ age' = 0 /\ "send" \in Rank
  BY DEF AskProvider, Rank
<1>2. \A h \in Geocodes : (h = g => req'[h] = "send") /\ (h # g => req'[h] = req[h] /\ req[h] \notin Held)
  BY <1>1, MoveFacts, KindFacts
<1>3. \A h \in Geocodes : req'[h] # "sleep"
  BY <1>2 DEF Held
<1>4. \A x, y \in 0 .. Interval : x >= Interval /\ x <= y => y >= Interval
  BY IntervalNat
<1>5. left.before >= Interval /\ 0 <= left.last /\ 0 <= left.before /\ 0 \in 0 .. Interval
  BY <1>4, IntervalNat DEF SpaceInv
<1> QED BY <1>1, <1>3, <1>5 DEF SpaceInv

\* One request at most sleeps, waits for its permit or is out.
LEMMA SpaceLocked ==
    ASSUME ServiceInv, SpaceInv, NEW g \in Geocodes, GeocodeLocked(g) PROVE SpaceInv'
<1>1. /\ \A h \in Geocodes : req[h] \notin Held
      /\ UNCHANGED left /\ g \in Requests
  BY KindFacts DEF GeocodeLocked, MutexHeld, Held
<1>2. CASE Go(g, "body") /\ UNCHANGED <<age, nap>>
  <2>1. "body" \in Rank
    BY DEF Rank
  <2>2. nap' \in [Geocodes -> 0 .. Interval] /\ \A h \in Geocodes : nap'[h] = nap[h]
    BY <1>2 DEF SpaceInv
  <2> QED BY <1>1, <1>2, <2>1, <2>2, SpaceFrame DEF ServiceInv
<1>3. CASE age < Interval /\ Go(g, "sleep") /\ nap' = [nap EXCEPT ![g] = Interval - age] /\ UNCHANGED age
  <2>1. "sleep" \in Rank
    BY DEF Rank
  <2>2. \A h \in Geocodes : (h = g => req'[h] = "sleep") /\ (h # g => req'[h] = req[h] /\ req[h] \notin Held)
    BY <1>1, <1>3, <2>1, MoveFacts, KindFacts DEF ServiceInv
  <2>3. \A h \in Geocodes : req'[h] # "send" /\ (req'[h] = "sleep" => h = g)
    BY <2>2 DEF Held
  <2>4. Interval - age \in 0 .. Interval /\ age + (Interval - age) >= Interval
    BY <1>3, IntervalNat DEF SpaceInv
  <2>5. nap' \in [Geocodes -> 0 .. Interval] /\ nap'[g] = Interval - age
    BY <1>3, <2>4 DEF SpaceInv
  <2> QED BY <1>1, <1>3, <2>3, <2>4, <2>5 DEF SpaceInv
<1>4. CASE age >= Interval /\ AskProvider(g) /\ UNCHANGED nap
  BY <1>1, <1>4, SpaceStamp DEF ServiceInv
<1> QED BY <1>2, <1>3, <1>4 DEF GeocodeLocked

LEMMA SpaceWakes ==
    ASSUME ServiceInv, SpaceInv, NEW g \in Geocodes, SleepEnds(g) PROVE SpaceInv'
<1>1. req[g] = "sleep" /\ nap[g] = 0 /\ AskProvider(g) /\ UNCHANGED <<nap, left>>
  BY DEF SleepEnds, At
<1>2. age >= Interval
  <2>1. age \in Int /\ age + nap[g] >= Interval
    BY <1>1, IntervalNat DEF SpaceInv
  <2> QED BY <1>1, <2>1
<1>3. \A h \in Geocodes : req[h] \in Held => h = g
  BY <1>1 DEF ServiceInv, GeoInv, Held
<1> QED BY <1>1, <1>2, <1>3, SpaceStamp DEF ServiceInv

\* The permit of a stamped request: it leaves, the last to leave before it did
\* so before the stamp, and no other request is stamped.
LEMMA SpaceLeaves ==
    ASSUME ServiceInv, SpaceInv, NEW g \in Geocodes, req[g] = "send", Go(g, "sent"), left' = Departed,
           UNCHANGED <<age, nap>>
    PROVE  SpaceInv'
<1>1. "sent" \in Rank
  BY DEF Rank
<1>2. \A h \in Geocodes : (h = g => req'[h] = "sent") /\ (h # g => req'[h] = req[h] /\ req[h] \notin Held)
  <2>1. \A h \in Geocodes : req[h] \in Held => h = g
    BY DEF ServiceInv, GeoInv, Held
  <2> QED BY <1>1, <2>1, MoveFacts, KindFacts DEF ServiceInv
<1>3. \A h \in Geocodes : req'[h] # "send" /\ req'[h] # "sleep"
  BY <1>2 DEF Held
<1>4. left' = [last |-> 0, before |-> left.last] /\ age <= left.last
  BY DEF Departed, SpaceInv
<1>5. left' \in [last : 0 .. Interval, before : 0 .. Interval] /\ left'.before = left.last
  BY <1>4, IntervalNat DEF SpaceInv
<1> QED BY <1>3, <1>4, <1>5 DEF SpaceInv

LEMMA SpaceEgress ==
    ASSUME ServiceInv, SpaceInv, NEW r \in Requests, EgressGranted(r) PROVE SpaceInv'
<1>1. UNCHANGED <<age, nap>>
  BY DEF EgressGranted, geo
<1>2. CASE r \in Tiles
  BY <1>1, <1>2, SpaceStill DEF EgressGranted
<1>3. CASE r \notin Tiles
  <2>1. Go(r, "sent") /\ left' = Departed
    BY <1>3 DEF EgressGranted
  <2>2. r \in Geocodes /\ req[r] = "send"
    <3> DEFINE out == Filling("queued") \cup Waiting("send")
    <3>1. Holds(outbound, out) /\ outbound # <<>> /\ r = Head(outbound)
      BY DEF EgressGranted, ServiceInv, QueueInv
    <3> HIDE DEF out
    <3>2. r \in out
      BY <3>1, HoldsTail
    <3> QED BY <1>3, <3>2 DEF out, Waiting, Filling, ServiceInv, ReqInv, Fits, Held
  <2> QED BY <1>1, <2>1, <2>2, SpaceLeaves
<1> QED BY <1>2, <1>3

\* Time: what is slept and what has passed add up, up to the interval.
LEMMA SpaceTime == ASSUME SpaceInv, TimePasses PROVE SpaceInv'
<1>1. /\ age \in 0 .. Interval /\ left.last \in 0 .. Interval /\ left.before \in 0 .. Interval
      /\ \A g \in Geocodes : nap[g] \in 0 .. Interval
  BY DEF SpaceInv
<1>2. \A x \in 0 .. Interval : /\ Later(x) \in 0 .. Interval /\ x <= Later(x)
                               /\ \A y \in 0 .. Interval : x <= y => Later(x) <= Later(y)
  BY IntervalNat DEF Later
<1>3. \A x, n \in 0 .. Interval : LET m == IF n > 0 THEN n - 1 ELSE 0
        IN  m \in 0 .. Interval /\ (x + n >= Interval => Later(x) + m >= Interval)
  BY IntervalNat DEF Later
<1>4. /\ age' = Later(age) /\ UNCHANGED req
      /\ left' = [last |-> Later(left.last), before |-> Later(left.before)]
      /\ nap' = [g \in Geocodes |-> IF nap[g] > 0 THEN nap[g] - 1 ELSE 0]
  BY DEF TimePasses
<1>5. /\ age' \in 0 .. Interval /\ left' \in [last : 0 .. Interval, before : 0 .. Interval]
      /\ left'.last = Later(left.last) /\ left'.before = Later(left.before)
  BY <1>1, <1>2, <1>4
<1>6. nap' \in [Geocodes -> 0 .. Interval]
  BY <1>1, <1>3, <1>4
<1>7. age' <= left'.before
  BY <1>1, <1>2, <1>4, <1>5 DEF SpaceInv
<1>8. ASSUME NEW g \in Geocodes, req'[g] = "sleep" PROVE age' + nap'[g] >= Interval
  <2>1. age + nap[g] >= Interval
    BY <1>4, <1>8 DEF SpaceInv
  <2>2. nap'[g] = IF nap[g] > 0 THEN nap[g] - 1 ELSE 0
    BY <1>4
  <2> QED BY <1>1, <1>3, <1>4, <2>1, <2>2
<1>9. ASSUME NEW g \in Geocodes, req'[g] = "send" PROVE age' <= left'.last /\ left'.before >= Interval
  <2>1. age <= left.last /\ left.before >= Interval
    BY <1>4, <1>9 DEF SpaceInv
  <2>2. \A x, y \in 0 .. Interval : x >= Interval /\ x <= y => y >= Interval
    BY IntervalNat
  <2> QED BY <1>1, <1>2, <1>4, <1>5, <2>1, <2>2
<1> QED BY <1>5, <1>6, <1>7, <1>8, <1>9 DEF SpaceInv

LEMMA SpaceForgotten == ASSUME Fresh \/ Forgotten PROVE (Fresh => SpaceInv) /\ (Forgotten => SpaceInv')
<1>1. Interval \in 0 .. Interval /\ 0 \in 0 .. Interval
  BY IntervalNat
<1>2. ASSUME Fresh PROVE SpaceInv
  <2>1. \A g \in Geocodes : req[g] = "idle"
    BY <1>2, KindFacts DEF Fresh
  <2>2. age = Interval /\ nap = [g \in Geocodes |-> 0] /\ left = [last |-> Interval, before |-> Interval]
    BY <1>2 DEF Fresh
  <2> QED BY <1>1, <2>1, <2>2, IntervalNat DEF SpaceInv
<1>3. ASSUME Forgotten PROVE SpaceInv'
  <2>1. \A g \in Geocodes : req'[g] = "idle"
    BY <1>3, KindFacts DEF Forgotten
  <2>2. age' = Interval /\ nap' = [g \in Geocodes |-> 0] /\ left' = [last |-> Interval, before |-> Interval]
    BY <1>3 DEF Forgotten
  <2> QED BY <1>1, <2>1, <2>2, IntervalNat DEF SpaceInv
<1> QED BY <1>2, <1>3

\* An admitted handler neither sleeps nor asks yet.
LEMMA SpaceEnters ==
    ASSUME ServiceInv, SpaceInv, NEW r \in Requests, Enter(r) \/ Go(r, "parked"), UNCHANGED <<age, nap, left>>
    PROVE  SpaceInv'
<1>1. PICK pc \in Rank : Go(r, pc) /\ pc # "sleep" /\ pc # "send"
  BY DEF Enter, AwaitTile, SetScrollTtl, Rank
<1> QED BY <1>1, SpaceFrame DEF ServiceInv, SpaceInv

LEMMA SpaceClient ==
    ASSUME ServiceInv, SpaceInv, NEW r \in Requests, Client(r) \/ AdmissionWaitEnds(r) PROVE SpaceInv'
<1>1. CASE Arrive(r)
  BY <1>1, SpaceEnters DEF Arrive
<1>2. CASE Disconnect(r)
  <2>1. "idle" \in Rank /\ Go(r, "idle") /\ UNCHANGED <<age, left>>
    BY <1>2 DEF Disconnect, Rank
  <2>2. nap' = [g \in Geocodes |-> IF g = r THEN 0 ELSE nap[g]] /\ 0 \in 0 .. Interval
    BY <1>2, IntervalNat DEF Disconnect
  <2>3. nap' \in [Geocodes -> 0 .. Interval] /\ \A h \in Geocodes : h # r => nap'[h] = nap[h]
    BY <2>2 DEF SpaceInv
  <2> QED BY <2>1, <2>3, SpaceFrame DEF ServiceInv
<1>3. CASE Probe(r) \/ ResponseEnds(r) \/ AdmissionWaitEnds(r)
  <2>1. PICK pc \in Rank : Go(r, pc) /\ pc # "sleep" /\ pc # "send"
    BY <1>3 DEF Probe, ResponseEnds, AdmissionWaitEnds, Rank
  <2>2. UNCHANGED <<age, nap, left>>
    BY <1>3 DEF Probe, ResponseEnds, AdmissionWaitEnds, geo
  <2> QED BY <2>1, <2>2, SpaceFrame DEF ServiceInv, SpaceInv
<1> QED BY <1>1, <1>2, <1>3 DEF Client

LEMMA SpaceServe == ASSUME ServiceInv, SpaceInv, NEW r \in Requests, Serve(r) PROVE SpaceInv'
<1>1. CASE r \in Tiles /\ FillEnds(r)
  <2>1. UNCHANGED <<age, nap, left>> /\ req' = [req EXCEPT ![r] = IF @ = "fill" THEN "body" ELSE @]
    BY <1>1 DEF FillEnds, TileResponds, geo
  <2>2. r \notin Geocodes
    BY <1>1, KindFacts
  <2>3. \A g \in Geocodes : req'[g] = req[g]
    BY <2>1, <2>2, KindFacts DEF ServiceInv, ReqInv
  <2> QED BY <2>1, <2>3 DEF SpaceInv
<1>2. CASE (r \in Geocodes /\ ProviderAnswers(r)) \/ (r \in Pushes /\ (Publish(r) \/ NotifyWaiters(r)))
  <2>1. PICK pc \in Rank : Go(r, pc) /\ pc # "sleep" /\ pc # "send"
    BY <1>2 DEF ProviderAnswers, Publish, NotifyWaiters, Rank
  <2>2. UNCHANGED <<age, nap, left>>
    BY <1>2 DEF ProviderAnswers, Publish, NotifyWaiters, geo
  <2> QED BY <2>1, <2>2, SpaceFrame DEF ServiceInv, SpaceInv
<1>3. CASE EgressGranted(r)
  BY <1>3, SpaceEgress
<1>4. CASE r \in Geocodes /\ (GeocodeLocked(r) \/ SleepEnds(r))
  BY <1>4, SpaceLocked, SpaceWakes
<1> QED BY <1>1, <1>2, <1>3, <1>4 DEF Serve

LEMMA SpaceNext == ASSUME ServiceInv, SpaceInv, [Next]_vars PROVE SpaceInv'
<1>1. CASE InBoot(BootStep) \/ InBoot(ContainerRestarts) \/ UNCHANGED vars
  BY <1>1, SpaceStill DEF InBoot, vars, serviceVars, geo
<1>2. CASE Fails
  BY <1>2, SpaceStill, SpaceForgotten DEF Fails, serviceVars, geo
<1>3. ASSUME NEW r \in Requests, InService(Serve(r)) \/ InService(AdmissionWaitEnds(r)) \/ InService(Client(r))
      PROVE  SpaceInv'
  BY <1>3, SpaceServe, SpaceClient DEF InService
<1>4. CASE InService(Admit)
  <2>1. Holds(parked, Waiting("parked")) /\ parked # <<>> /\ Enter(Head(parked)) /\ UNCHANGED <<age, nap, left>>
    BY <1>4 DEF InService, Admit, ServiceInv, QueueInv
  <2>2. Head(parked) \in Requests
    BY <2>1, HoldsTail DEF Waiting
  <2> QED BY <2>1, <2>2, SpaceEnters
<1>5. CASE InService(Background)
  BY <1>5, SpaceTime, SpaceStill DEF InService, Background, SweeperWaits, RunSweepOnce, geo
<1> QED BY <1>1, <1>2, <1>3, <1>4, <1>5 DEF Next

\* The inductive invariant of the provider interval: the mutex is held from a
\* request's look at the stamp until its answer is in, so a request that is
\* stamped finds every departure but the last older than the stamp before.
THEOREM SpacingInvariant == ServiceSpec => [](ServiceInv /\ SpaceInv)
<1>1. ServiceInit => SpaceInv
  BY SpaceForgotten DEF ServiceInit
<1>2. ServiceInv /\ SpaceInv /\ [Next]_vars => SpaceInv'
  BY SpaceNext
<1> QED BY <1>1, <1>2, ServiceInvariant, PTL DEF ServiceSpec

\* limit_active_requests, the egress semaphore and geocode_state under every
\* arrival, disconnect, stall and death: no permit is lost or given twice, no
\* queue keeps a request that left, the limits hold.
THEOREM AdmissionIsExact == ServiceSpec => []AdmissionExact
<1>1. ServiceInv /\ SpaceInv => AdmissionExact
  <2> SUFFICES ASSUME ServiceInv, SpaceInv PROVE AdmissionExact
    OBVIOUS
  <2>1. /\ {r \in Requests : At(r, "parked")} = Waiting("parked")
        /\ {r \in Requests : At(r, "lock")} = Waiting("lock")
    BY DEF At, Waiting
  <2>2. /\ {g \in Geocodes : At(g, "send")} = Waiting("send")
        /\ {g \in Geocodes : At(g, "sent")} = Waiting("sent")
    BY KindFacts DEF At, Waiting, ServiceInv, ReqInv, Fits, Held
  <2>3. /\ {t \in Tiles : fill[t] = "queued"} = Filling("queued")
        /\ {t \in Tiles : fill[t] = "sent"} = Filling("sent")
    BY DEF Filling
  <2>4. /\ {r \in Ordinary : req[r] \notin {"idle", "parked", "refused"}} = Busy(Ordinary)
        /\ {r \in Probes : req[r] \notin {"idle", "parked", "refused"}} = Busy(Probes)
    BY DEF Busy, Unadmitted
  <2>5. Cardinality(Busy(Ordinary)) <= MaxActive /\ Cardinality(Busy(Probes)) <= MaxHealth
    BY DEF ServiceInv, BusyInv
  <2>6. /\ age \in 0 .. Interval /\ nap \in [Geocodes -> 0 .. Interval]
        /\ Len(places) <= CacheLimit /\ Distinct(places)
    BY DEF ServiceInv, GeoInv, SpaceInv
  <2>7. {ttl, swept} \subseteq {"none", "boot", "pushed"} /\ configured \in BOOLEAN
    BY DEF ServiceInv, ConfigInv
  <2>8. /\ Distinct(parked) /\ Members(parked) = Waiting("parked")
        /\ Distinct(mutex) /\ Members(mutex) = Waiting("lock")
        /\ Distinct(outbound) /\ Members(outbound) = Filling("queued") \cup Waiting("send")
        /\ egress = Filling("sent") \cup Waiting("sent")
    BY DEF ServiceInv, QueueInv, Holds
  <2>9. clients \subseteq Requests /\ req \in [Requests -> Rank] /\ fill \in [Tiles -> {"none", "queued", "sent"}]
    BY DEF ServiceInv, ReqInv
  <2> QED BY <2>1, <2>2, <2>3, <2>4, <2>5, <2>6, <2>7, <2>8, <2>9 DEF AdmissionExact
<1> QED BY <1>1, SpacingInvariant, PTL

\* Only a stamped request leaves for the provider.
LEMMA LeavesStamped ==
    ASSUME ServiceInv, Next, NEW g \in Geocodes, req[g] # "sent", req'[g] = "sent"
    PROVE  req[g] = "send"
<1>0. g \in Requests /\ g \notin Tiles /\ req \in [Requests -> Rank]
  BY KindFacts DEF ServiceInv, ReqInv
<1>1. ASSUME NEW r \in Requests, NEW pc \in Rank, Go(r, pc) PROVE r = g /\ pc = "sent"
  BY <1>0, <1>1, MoveFacts DEF ServiceInv
<1>2. ~UNCHANGED req
  OBVIOUS
<1>3. ~InBoot(BootStep) /\ ~InBoot(ContainerRestarts) /\ ~InService(Background)
  BY <1>2 DEF InBoot, serviceVars, InService, Background, TimePasses, SweeperWaits, RunSweepOnce
<1>4. ~Fails
  BY <1>0, <1>2 DEF Fails, serviceVars, Forgotten
<1>5. \A r \in Requests : ~InService(AdmissionWaitEnds(r)) /\ ~InService(Client(r))
  <2> SUFFICES ASSUME NEW r \in Requests, AdmissionWaitEnds(r) \/ Client(r) PROVE FALSE
    BY DEF InService
  <2>1. AdmissionWaitEnds(r) \/ ResponseEnds(r) \/ Disconnect(r) => \E pc \in Rank \ {"sent"} : Go(r, pc)
    BY DEF AdmissionWaitEnds, ResponseEnds, Disconnect, Rank
  <2>2. Probe(r) \/ Arrive(r) => \E pc \in Rank \ {"sent"} : Go(r, pc)
    BY DEF Probe, Arrive, Enter, AwaitTile, SetScrollTtl, Rank
  <2> QED BY <1>1, <2>1, <2>2 DEF Client
<1>6. ~InService(Admit)
  <2> SUFFICES ASSUME Admit PROVE FALSE
    BY DEF InService
  <2> DEFINE r == Head(parked)
  <2>1. r \in Requests
    <3>1. Holds(parked, Waiting("parked")) /\ parked # <<>>
      BY DEF Admit, ServiceInv, QueueInv
    <3> QED BY <3>1, HoldsTail DEF Waiting
  <2>2. Enter(r)
    BY DEF Admit
  <2> HIDE DEF r
  <2>3. \E pc \in Rank \ {"sent"} : Go(r, pc)
    BY <2>2 DEF Enter, AwaitTile, SetScrollTtl, Rank
  <2> QED BY <1>1, <2>1, <2>3
<1>7. PICK r \in Requests : InService(Serve(r))
  BY <1>3, <1>4, <1>5, <1>6 DEF Next
<1>8. r \in Tiles => ~FillEnds(r)
  BY <1>0 DEF FillEnds, TileResponds
<1>9. ~ProviderAnswers(r) /\ ~NotifyWaiters(r) /\ ~Publish(r) /\ ~GeocodeLocked(r) /\ ~SleepEnds(r)
  <2> SUFFICES ASSUME ProviderAnswers(r) \/ NotifyWaiters(r) \/ Publish(r) \/ GeocodeLocked(r) \/ SleepEnds(r)
               PROVE  FALSE
    OBVIOUS
  <2>1. \E pc \in Rank \ {"sent"} : Go(r, pc)
    BY DEF ProviderAnswers, NotifyWaiters, Publish, GeocodeLocked, SleepEnds, AskProvider, Rank
  <2> QED BY <1>1, <2>1
<1>10. EgressGranted(r)
  BY <1>7, <1>8, <1>9 DEF InService, Serve
<1> DEFINE out == Filling("queued") \cup Waiting("send")
<1>11. r \in out
  <2>1. Holds(outbound, out) /\ outbound # <<>> /\ r = Head(outbound)
    BY <1>10 DEF EgressGranted, ServiceInv, QueueInv
  <2> HIDE DEF out
  <2> QED BY <2>1, HoldsTail
<1>12. Go(r, "sent") /\ r \notin Tiles /\ "sent" \in Rank
  BY <1>2, <1>10 DEF EgressGranted, Rank
<1>13. r = g
  BY <1>1, <1>12
<1> QED BY <1>0, <1>11, <1>13 DEF Waiting, Filling

\* NOMINATIM_INTERVAL kept by a stamp behind a mutex held across the sleep, the
\* egress wait and the answer: for any interval, number of clients and egress
\* permits, no disconnect, failure or late permit brings a third request to
\* the provider within an interval of the first.
THEOREM ProviderIsSpaced == ServiceSpec => ProviderSpaced
<1>1. ServiceInv /\ SpaceInv /\ [Next]_vars =>
        [Serving => \A g \in Geocodes : ~At(g, "sent") /\ req'[g] = "sent" => left.before >= Interval]_vars
  <2> SUFFICES ASSUME ServiceInv, SpaceInv, Next, NEW g \in Geocodes, ~At(g, "sent"), req'[g] = "sent"
               PROVE  left.before >= Interval
    OBVIOUS
  <2>1. req[g] = "send"
    BY LeavesStamped DEF At
  <2> QED BY <2>1 DEF SpaceInv
<1> QED BY <1>1, SpacingInvariant, PTL DEF ServiceSpec, ProviderSpaced

=============================================================================

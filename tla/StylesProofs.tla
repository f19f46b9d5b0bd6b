---------------------------- MODULE StylesProofs ----------------------------
(***************************************************************************)
(* Proofs about Styles, for any styles, definitions and handlers and any   *)
(* number of pushes and restarts.                                          *)
(*                                                                         *)
(* LearnedIsCurrent is not inductive: it rests on what a push is doing.    *)
(* Outside the window between the swap of the catalog and the restore,     *)
(* every entry, whatever its generation, has the catalog's definition      *)
(* (EntryInv); inside it the generation is odd and every entry's is even.  *)
(* A learner brings a definition that is the catalog's as long as the      *)
(* generation it loaded is the current one (ReqOK).  NoBleedInOneLife      *)
(* rests on an invariant of its own (BleedInv), given further down.        *)
(***************************************************************************)
EXTENDS Styles, TLAPS

Swapped == push.pc \in {"reconcile", "restore"}

PushInv ==
    /\ push.pc = "idle" <=> Even(generation)
    /\ push.pc = "restore" =>
          \A s \in StyleIds : push.rows[s] # NoEntry => push.rows[s].def = sources[s]

EntryInv ==
    \A s \in StyleIds : style_state[s] # NoEntry =>
        /\ Even(style_state[s].config_generation)
        /\ ~Swapped => style_state[s].def = sources[s]

HonestInv ==
    /\ DurableIsHonest
    /\ \A w \in writes : w.row.signature = w.row.def

ReqOK(h, r) ==
    /\ r.pc # "idle" => r.style \in StyleIds /\ (sources[r.style] # NoDef => sources[r.style] \in r.seen)
    /\ r.pc \in {"wait", "learn", "commit"} => Even(r.gen) /\ r.gen <= generation
    /\ r.pc \in {"learn", "commit"} => r.def \in Defs /\ (r.gen = generation => r.def = sources[r.style])
    /\ r.pc \in {"learn", "commit"} /\ r.existing # NoEntry => r.existing.def \in r.seen
    /\ r.pc = "persist" => push.pc = "idle" /\ r.got \in r.seen
    /\ r.pc \in {"wait", "learn", "commit", "persist", "read"} /\ style_state[r.style] # NoEntry =>
          style_state[r.style].def \in r.seen
    /\ r.row # NoEntry => r.row.signature = r.row.def
    /\ r.pc = "read" /\ Doc(h) => r.got \in r.seen
    /\ r.learned # NoEntry => r.learned.def \in r.seen
    /\ r.pc = "answered" /\ Doc(h) => r.out \in r.seen
    /\ r.pc \in {"lookup", "fetch"} => r.learned \in Entries /\ ~Doc(h)

ReqInv == \A h \in Handlers : ReqOK(h, req[h])

StylesInv == StylesTypeOK /\ PushInv /\ EntryInv /\ HonestInv /\ ReqInv

-----------------------------------------------------------------------------
(* Handler steps that leave the catalog, the entries and the push alone.   *)

Frame == UNCHANGED <<sources, generation, style_state, push, pushes, boots>>
DiskTypeOK ==
    /\ learned_styles \in [StyleIds -> Rows \cup {NoEntry}] /\ tiles \subseteq Tiles
    /\ writes \subseteq [style : StyleIds, row : Rows]

\* The invariant holds after such a step when it holds of the handler's new state.
LEMMA HandlerFrame ==
    ASSUME StylesInv, NEW h \in Handlers, NEW r \in Requests, ReqOK(h, r), Set(h, r),
           Frame, DiskTypeOK', HonestInv'
    PROVE  StylesInv'
<1>1. StylesTypeOK'
  BY DEF StylesInv, StylesTypeOK, Set, Frame, DiskTypeOK
<1>2. PushInv' /\ EntryInv'
  BY DEF StylesInv, PushInv, EntryInv, Frame, Swapped, Even
<1>3. ReqInv'
  <2> SUFFICES ASSUME NEW g \in Handlers PROVE ReqOK(g, req[g])'
    BY DEF ReqInv
  <2>1. CASE g = h
    <3>1. req'[g] = r
      BY <2>1 DEF Set, StylesInv, StylesTypeOK
    <3> QED BY <3>1, <2>1 DEF ReqOK, Frame, Even, Doc
  <2>2. CASE g # h
    <3>1. req'[g] = req[g] /\ ReqOK(g, req[g])
      BY <2>2 DEF Set, StylesInv, StylesTypeOK, ReqInv
    <3> QED BY <3>1 DEF ReqOK, Frame, Even, Doc
  <2> QED BY <2>1, <2>2
<1> QED BY <1>1, <1>2, <1>3 DEF StylesInv

\* The same for a step that changes nothing but the handler.
LEMMA OnlyReqFrame ==
    ASSUME StylesInv, NEW h \in Handlers, NEW r \in Requests, ReqOK(h, r), Set(h, r), OnlyReq
    PROVE  StylesInv'
<1>1. Frame /\ DiskTypeOK' /\ HonestInv'
  BY DEF OnlyReq, disk, Frame, DiskTypeOK, StylesInv, StylesTypeOK, HonestInv, DurableIsHonest
<1> QED BY <1>1, HandlerFrame

\* An idle handler is fine.
LEMMA IdleReqOK ==
    ASSUME StylesInv, NEW h \in Handlers PROVE IdleReq \in Requests /\ ReqOK(h, IdleReq)
BY DEF IdleReq, Requests, ReqPcs, Learning, ReqOK

LEMMA EndFrame == ASSUME StylesInv, NEW h \in Handlers, End(h), OnlyReq PROVE StylesInv'
BY IdleReqOK, OnlyReqFrame DEF End

\* Being given a document of a definition that was in force.
LEMMA GiveFrame ==
    ASSUME StylesInv, NEW h \in Handlers, NEW d \in Defs, req[h].pc # "idle", d \in req[h].seen,
           style_state[req[h].style] # NoEntry => style_state[req[h].style].def \in req[h].seen,
           Give(h, d), Frame, DiskTypeOK', HonestInv'
    PROVE  StylesInv'
<1> DEFINE r == [IdleReq EXCEPT !.pc = "read", !.style = req[h].style,
                     !.seen = req[h].seen, !.got = IF Doc(h) THEN d ELSE NoDef]
<1>1. req[h] \in Requests /\ ReqOK(h, req[h])
  BY DEF StylesInv, StylesTypeOK, ReqInv
<1>2. r \in Requests
  <2>1. req[h].style \in StyleIds \cup {NoDef} /\ req[h].seen \in SUBSET Defs
    BY <1>1 DEF Requests
  <2>2. (IF Doc(h) THEN d ELSE NoDef) \in Defs \cup {NoDef}
    OBVIOUS
  <2>3. IdleReq \in Requests /\ "read" \in ReqPcs
    BY IdleReqOK DEF ReqPcs
  <2> QED BY ZenonT(30), <2>1, <2>2, <2>3 DEF Requests
<1>3. ReqOK(h, r)
  BY <1>1 DEF IdleReq, ReqOK
<1>4. Set(h, r)
  BY DEF Give
<1> QED BY <1>2, <1>3, <1>4, HandlerFrame

-----------------------------------------------------------------------------
LEMMA InitInv == StylesInit => StylesInv
<1> SUFFICES ASSUME StylesInit PROVE StylesInv
  OBVIOUS
<1>1. StylesTypeOK
  BY DEF StylesInit, StylesTypeOK, Catalogs, NoStyles, NoEntries, IdlePush, IdleReq, Requests, PushPcs,
         ReqPcs, Learning
<1>2. PushInv /\ EntryInv /\ HonestInv
  BY DEF StylesInit, PushInv, EntryInv, HonestInv, DurableIsHonest, NoEntries, IdlePush, Even
<1>3. ReqInv
  BY DEF StylesInit, ReqInv, ReqOK, IdleReq
<1> QED BY <1>1, <1>2, <1>3 DEF StylesInv

\* What the invariant says of one handler.
LEMMA ReqFacts ==
    ASSUME StylesInv, NEW h \in Handlers
    PROVE  /\ req[h] \in Requests /\ ReqOK(h, req[h])
           /\ req[h].style \in StyleIds \cup {NoDef} /\ req[h].gen \in Nat
           /\ req[h].def \in Defs \cup {NoDef} /\ req[h].existing \in Entries \cup {NoEntry}
           /\ req[h].got \in Defs \cup {NoDef} /\ req[h].row \in Rows \cup {NoEntry}
           /\ req[h].learned \in Entries \cup {NoEntry} /\ req[h].seen \in SUBSET Defs
<1>1. req[h] \in Requests /\ ReqOK(h, req[h])
  BY DEF StylesInv, StylesTypeOK, ReqInv
<1> QED BY <1>1 DEF Requests

\* What it says of one style.
LEMMA EntryFacts ==
    ASSUME StylesInv, NEW s \in StyleIds
    PROVE  /\ sources[s] \in Defs \cup {NoDef} /\ generation \in Nat
           /\ style_state[s] \in Entries \cup {NoEntry}
           /\ style_state[s] # NoEntry =>
                 /\ style_state[s] \in Entries /\ Even(style_state[s].config_generation)
                 /\ style_state[s].def \in Defs /\ style_state[s].config_generation \in Nat
                 /\ style_state[s].generation \in Nat
                 /\ ~Swapped => style_state[s].def = sources[s]
BY DEF StylesInv, StylesTypeOK, EntryInv, Catalogs, Entries

LEMMA IdleIsEven == ASSUME StylesInv, Even(generation) PROVE push.pc = "idle" /\ ~Swapped
BY DEF StylesInv, PushInv, Swapped

LEMMA RequestInv ==
    ASSUME StylesInv, NEW h \in Handlers, NEW s \in StyleIds, Request(h, s) PROVE StylesInv'
<1> DEFINE r == [IdleReq EXCEPT !.pc = "load", !.style = s, !.seen = {sources[s]} \ {NoDef}]
<1>1. {sources[s]} \ {NoDef} \in SUBSET Defs
  BY EntryFacts
<1>2. r \in Requests
  <2>1. IdleReq \in Requests /\ "load" \in ReqPcs
    BY IdleReqOK DEF ReqPcs
  <2> QED BY <1>1, <2>1 DEF Requests
<1>3. ReqOK(h, r)
  BY <1>1 DEF ReqOK, IdleReq
<1> QED BY <1>2, <1>3, OnlyReqFrame DEF Request

LEMMA FrameOfOnlyReq == ASSUME StylesInv, OnlyReq PROVE Frame /\ DiskTypeOK' /\ HonestInv'
BY DEF OnlyReq, disk, Frame, DiskTypeOK, StylesInv, StylesTypeOK, HonestInv, DurableIsHonest

LEMMA HitInv == ASSUME StylesInv, NEW h \in Handlers, Hit(h) PROVE StylesInv'
<1> DEFINE s == req[h].style
           g == IF req[h].pc = "load" THEN generation ELSE req[h].gen
           e == OfGeneration(s, g)
<1>1. /\ req[h].pc \in {"load", "wait"} /\ e # NoEntry /\ Give(h, e.def) /\ OnlyReq
  BY DEF Hit
<1>2. s \in StyleIds /\ (sources[s] # NoDef => sources[s] \in req[h].seen)
  BY <1>1, ReqFacts DEF ReqOK
<1>3. e = style_state[s] /\ style_state[s] # NoEntry /\ style_state[s].config_generation = g
  BY <1>1 DEF OfGeneration
<1>4. style_state[s].def \in req[h].seen
  <2>1. CASE req[h].pc = "load"
    <3>1. Even(generation)
      BY <1>2, <1>3, <2>1, EntryFacts
    <3>2. style_state[s].def = sources[s] /\ style_state[s].def \in Defs
      BY <3>1, <1>2, <1>3, EntryFacts, IdleIsEven
    <3> QED BY <3>2, <1>2, StylesAssumption
  <2>2. CASE req[h].pc = "wait"
    BY <2>2, <1>3, ReqFacts DEF ReqOK
  <2> QED BY <1>1, <2>1, <2>2
<1>5. style_state[s].def \in Defs
  BY <1>2, <1>3, EntryFacts
<1>6. req[h].pc # "idle"
  BY <1>1
<1> QED BY <1>1, <1>3, <1>4, <1>5, <1>6, FrameOfOnlyReq, GiveFrame

LEMMA MissInv == ASSUME StylesInv, NEW h \in Handlers, Miss(h) PROVE StylesInv'
<1>1. CASE ~Even(generation)
  BY <1>1, EndFrame DEF Miss
<1>2. CASE Even(generation)
  <2> DEFINE r == [req[h] EXCEPT !.pc = "wait", !.gen = generation]
  <2>1. r \in Requests
    BY ZenonT(30), ReqFacts DEF Requests, ReqPcs, StylesInv, StylesTypeOK
  <2>2. req[h].style \in StyleIds
    BY ReqFacts DEF ReqOK, Miss
  <2>3. style_state[req[h].style] # NoEntry => style_state[req[h].style].def \in req[h].seen
    <3>1. sources[req[h].style] # NoDef => sources[req[h].style] \in req[h].seen
      BY ReqFacts DEF ReqOK, Miss
    <3>2. ~Swapped
      BY <1>2, IdleIsEven
    <3> QED BY <2>2, <3>1, <3>2, EntryFacts, StylesAssumption
  <2>4. ReqOK(h, r)
    <3>1. generation \in Nat /\ generation <= generation
      BY DEF StylesInv, StylesTypeOK
    <3>2. req[h].pc = "load" /\ ReqOK(h, req[h])
      BY ReqFacts DEF Miss
    <3>3. /\ r.pc = "wait" /\ r.style = req[h].style /\ r.gen = generation /\ r.seen = req[h].seen
          /\ r.row = req[h].row /\ r.learned = req[h].learned
      BY ReqFacts DEF Requests
    <3> QED BY <3>1, <3>2, <3>3, <1>2, <2>2, <2>3 DEF ReqOK
  <2> QED BY <1>2, <2>1, <2>4, OnlyReqFrame DEF Miss
<1> QED BY <1>1, <1>2

LEMMA BeginLearnInv == ASSUME StylesInv, NEW h \in Handlers, BeginLearn(h) PROVE StylesInv'
<1> DEFINE s == req[h].style
           e == OfGeneration(s, req[h].gen)
           r == [req[h] EXCEPT !.pc = "learn", !.def = sources[s], !.existing = e]
<1>1. CASE sources[s] = NoDef
  BY <1>1, EndFrame DEF BeginLearn
<1>2. CASE sources[s] # NoDef
  <2>1. req[h].pc = "wait" /\ ReqOK(h, req[h]) /\ s \in StyleIds
    BY ReqFacts DEF BeginLearn, ReqOK
  <2>2. e \in Entries \cup {NoEntry} /\ (e # NoEntry => e = style_state[s])
    BY <2>1, EntryFacts DEF OfGeneration
  <2>3. sources[s] \in Defs
    BY <1>2, <2>1, EntryFacts
  <2>4. r \in Requests
    <3>1. "learn" \in ReqPcs /\ req[h] \in Requests
      BY ReqFacts DEF ReqPcs, Learning
    <3> HIDE DEF e
    <3> QED BY <2>2, <2>3, <3>1 DEF Requests
  <2>5. /\ r.pc = "learn" /\ r.style = s /\ r.gen = req[h].gen /\ r.seen = req[h].seen
        /\ r.row = req[h].row /\ r.learned = req[h].learned /\ r.def = sources[s] /\ r.existing = e
    BY ReqFacts DEF Requests
  <2>6. ReqOK(h, r)
    BY <2>1, <2>2, <2>3, <2>5 DEF ReqOK
  <2> QED BY <1>2, <2>4, <2>6, OnlyReqFrame DEF BeginLearn
<1> QED BY <1>1, <1>2

LEMMA LearnedInv ==
    ASSUME StylesInv, NEW h \in Handlers, NEW u \in BOOLEAN, Learned(h, u) PROVE StylesInv'
<1> DEFINE r == [req[h] EXCEPT !.pc = "commit", !.refresh = u]
<1>1. r \in Requests
  BY ReqFacts DEF Requests, ReqPcs, Learning
<1>2. /\ r.pc = "commit" /\ r.style = req[h].style /\ r.gen = req[h].gen /\ r.seen = req[h].seen
      /\ r.row = req[h].row /\ r.learned = req[h].learned /\ r.def = req[h].def
      /\ r.existing = req[h].existing
  BY ReqFacts DEF Requests
<1>3. ReqOK(h, r)
  BY <1>2, ReqFacts DEF ReqOK, Learned
<1> QED BY <1>1, <1>3, OnlyReqFrame DEF Learned

LEMMA LearnErrsInv == ASSUME StylesInv, NEW h \in Handlers, LearnErrs(h) PROVE StylesInv'
<1>1. CASE req[h].existing = NoEntry
  BY <1>1, EndFrame DEF LearnErrs
<1>2. CASE req[h].existing # NoEntry
  <2>1. req[h].pc = "learn" /\ Give(h, req[h].existing.def) /\ OnlyReq
    BY <1>2 DEF LearnErrs
  <2>2. /\ req[h].existing.def \in req[h].seen /\ req[h].existing.def \in Defs
        /\ style_state[req[h].style] # NoEntry => style_state[req[h].style].def \in req[h].seen
    BY <1>2, <2>1, ReqFacts DEF ReqOK, Entries
  <2>3. req[h].pc # "idle"
    BY <2>1
  <2> QED BY <2>1, <2>2, <2>3, FrameOfOnlyReq, GiveFrame
<1> QED BY <1>1, <1>2

LEMMA GiveUpInv == ASSUME StylesInv, NEW h \in Handlers, GiveUp(h) PROVE StylesInv'
BY EndFrame DEF GiveUp

LEMMA AnsweredInv == ASSUME StylesInv, NEW h \in Handlers, Answered(h) PROVE StylesInv'
BY EndFrame DEF Answered

(* The entry a commit leaves has the definition now in the catalog: a new  *)
(* one was learned from it, since the generation is the one it was learned *)
(* under; a refreshed one is of the current generation already.            *)
LEMMA CommittedIsCurrent ==
    ASSUME StylesInv, NEW h \in Handlers, req[h].pc = "commit", push.pc = "idle", Committed(h) # NoEntry
    PROVE  /\ Committed(h) \in Entries /\ Committed(h).def = sources[req[h].style]
           /\ Committed(h).config_generation = generation /\ Even(generation)
           /\ generation = req[h].gen /\ sources[req[h].style] \in req[h].seen
           /\ sources[req[h].style] \in Defs
<1> DEFINE s == req[h].style
<1>1. /\ s \in StyleIds /\ req[h].def \in Defs /\ (req[h].gen = generation => req[h].def = sources[s])
      /\ sources[s] # NoDef => sources[s] \in req[h].seen
  BY ReqFacts DEF ReqOK
<1>2. generation = req[h].gen
  BY DEF Committed
<1>3. Even(generation) /\ ~Swapped
  BY DEF StylesInv, PushInv, Swapped
<1>4. sources[s] \in Defs /\ sources[s] \in req[h].seen
  BY <1>1, <1>2, StylesAssumption
<1>5. CASE req[h].refresh
  <2>1. Committed(h) = OfGeneration(s, generation)
    BY <1>2, <1>5 DEF Committed
  <2>2. Committed(h) = style_state[s] /\ style_state[s] # NoEntry /\ style_state[s].config_generation = generation
    BY <2>1 DEF OfGeneration
  <2> QED BY <1>1, <1>2, <1>3, <1>4, <2>2, EntryFacts
<1>6. CASE ~req[h].refresh
  <2>1. Committed(h) = [def |-> req[h].def, config_generation |-> req[h].gen, generation |-> CacheGeneration(h)]
    BY <1>2, <1>6 DEF Committed
  <2>2. CacheGeneration(h) \in Nat
    BY ReqFacts DEF CacheGeneration, Entries
  <2> QED BY <1>1, <1>2, <1>3, <1>4, <2>1, <2>2, ReqFacts DEF Entries
<1> QED
  <2>1. req[h].refresh \in BOOLEAN
    BY ReqFacts DEF Requests
  <2> QED BY <1>5, <1>6, <2>1

LEMMA CommitInv == ASSUME StylesInv, NEW h \in Handlers, Commit(h) PROVE StylesInv'
<1> DEFINE s == req[h].style
           e == Committed(h)
           row == [signature |-> sources[s], def |-> e.def, generation |-> e.generation]
           r == [req[h] EXCEPT !.pc = "persist", !.got = e.def,
                    !.row = IF sources[s] = NoDef THEN NoEntry ELSE row]
<1>1. req[h].pc = "commit" /\ push.pc = "idle"
  BY DEF Commit, ConfigUpdateFree
<1>2. CASE e = NoEntry
  BY <1>2, EndFrame DEF Commit, OnlyReq
<1>3. CASE e # NoEntry
  <2>1. /\ e \in Entries /\ e.def = sources[s] /\ e.config_generation = generation /\ Even(generation)
        /\ generation = req[h].gen /\ sources[s] \in req[h].seen /\ sources[s] \in Defs
    BY <1>1, <1>3, CommittedIsCurrent
  <2>2. s \in StyleIds
    BY <1>1, ReqFacts DEF ReqOK
  <2>3. /\ style_state' = [style_state EXCEPT ![s] = e] /\ req' = [req EXCEPT ![h] = r]
        /\ UNCHANGED <<sources, generation, learned_styles, tiles, push, writes, pushes, boots>>
    BY <1>3 DEF Commit, Set, disk
  <2>4. r \in Requests
    <3>1. row \in Rows /\ e.def \in Defs
      BY <2>1 DEF Rows, Entries
    <3>2. (IF sources[s] = NoDef THEN NoEntry ELSE row) \in Rows \cup {NoEntry}
      BY <3>1
    <3> QED BY ZenonT(30), <3>1, <3>2, ReqFacts DEF Requests, ReqPcs, Learning
  <2>5. StylesTypeOK'
    BY <2>1, <2>3, <2>4 DEF StylesInv, StylesTypeOK
  <2>6. PushInv' /\ HonestInv'
    BY <2>3 DEF StylesInv, PushInv, HonestInv, DurableIsHonest, Even
  <2>7. EntryInv'
    BY <2>1, <2>2, <2>3 DEF StylesInv, StylesTypeOK, EntryInv, Swapped, Even
  <2>8. ReqInv'
    <3> SUFFICES ASSUME NEW g \in Handlers PROVE ReqOK(g, req[g])'
      BY DEF ReqInv
    <3>1. CASE g = h
      <4>1. /\ req'[g] = r /\ r.pc = "persist" /\ r.style = s /\ r.got = e.def /\ r.seen = req[h].seen
            /\ r.learned = req[h].learned /\ r.row = IF sources[s] = NoDef THEN NoEntry ELSE row
        BY <2>3, <3>1, ReqFacts DEF StylesInv, StylesTypeOK, Requests
      <4>2. r.row # NoEntry => r.row.signature = r.row.def
        BY <4>1, <2>1
      <4>3. style_state'[s] = e
        BY <2>2, <2>3 DEF StylesInv, StylesTypeOK
      <4>4. ReqOK(h, req[h])
        BY ReqFacts
      <4> QED BY <4>1, <4>2, <4>3, <4>4, <1>1, <2>1, <2>2, <2>3, <3>1 DEF ReqOK
    <3>2. CASE g # h
      <4>1. req'[g] = req[g] /\ ReqOK(g, req[g])
        BY <2>3, <3>2, ReqFacts DEF StylesInv, StylesTypeOK
      <4>2. req[g].style = s /\ req[g].pc # "idle" => e.def \in req[g].seen
        BY <4>1, <2>1, StylesAssumption DEF ReqOK
      <4>3. req[g].style # s => style_state'[req[g].style] = style_state[req[g].style]
        BY <2>3 DEF StylesInv, StylesTypeOK
      <4>4. style_state'[s] = e
        BY <2>2, <2>3 DEF StylesInv, StylesTypeOK
      <4> QED BY <4>1, <4>2, <4>3, <4>4, <2>3 DEF ReqOK, Doc, Even
    <3> QED BY <3>1, <3>2
  <2> QED BY <2>5, <2>6, <2>7, <2>8 DEF StylesInv
<1> QED BY <1>2, <1>3

LEMMA PersistInv == ASSUME StylesInv, NEW h \in Handlers, Persist(h) PROVE StylesInv'
<1> DEFINE s == req[h].style
<1>1. /\ req[h].pc = "persist" /\ Give(h, req[h].got) /\ Frame
      /\ UNCHANGED <<tiles, writes>>
  BY DEF Persist, Frame
<1>2. /\ s \in StyleIds /\ req[h].got \in req[h].seen /\ req[h].got \in Defs
      /\ style_state[s] # NoEntry => style_state[s].def \in req[h].seen
      /\ req[h].row # NoEntry => req[h].row \in Rows /\ req[h].row.signature = req[h].row.def
  BY <1>1, ReqFacts DEF ReqOK
<1>3. DiskTypeOK' /\ HonestInv'
  <2>1. CASE UNCHANGED learned_styles
    BY <1>1, <2>1 DEF DiskTypeOK, HonestInv, DurableIsHonest, StylesInv, StylesTypeOK
  <2>2. CASE req[h].row # NoEntry /\ StoreRow(s, req[h].row)
    BY <1>1, <1>2, <2>2 DEF DiskTypeOK, HonestInv, DurableIsHonest, StylesInv, StylesTypeOK, StoreRow
  <2> QED BY <2>1, <2>2 DEF Persist
<1>4. req[h].pc # "idle"
  BY <1>1
<1> QED BY <1>1, <1>2, <1>3, <1>4, GiveFrame

LEMMA ReadLearnedInv == ASSUME StylesInv, NEW h \in Handlers, ReadLearned(h) PROVE StylesInv'
<1> DEFINE s == req[h].style
           e == style_state[s]
<1>1. CASE e = NoEntry
  BY <1>1, EndFrame DEF ReadLearned
<1>2. CASE e # NoEntry
  <2>1. /\ req[h].pc = "read" /\ ReqOK(h, req[h]) /\ req[h] \in Requests /\ s \in StyleIds
        /\ e.def \in req[h].seen
    BY <1>2, ReqFacts DEF ReadLearned, ReqOK
  <2>2. e \in Entries
    BY <1>2, <2>1, EntryFacts
  <2>3. CASE Doc(h)
    <3> DEFINE r == [req[h] EXCEPT !.pc = "answered", !.learned = e, !.out = req[h].got]
    <3>1. "answered" \in ReqPcs /\ req[h].got \in Defs \cup {NoDef}
      BY ReqFacts DEF ReqPcs
    <3>2. r \in Requests
      BY <2>1, <2>2, <3>1 DEF Requests
    <3>3. /\ r.pc = "answered" /\ r.style = s /\ r.seen = req[h].seen /\ r.row = req[h].row
          /\ r.learned = e /\ r.out = req[h].got
      BY <2>1 DEF Requests
    <3>4. ReqOK(h, r)
      BY <2>1, <2>2, <2>3, <3>3 DEF ReqOK
    <3> QED BY <1>2, <2>3, <3>2, <3>4, OnlyReqFrame DEF ReadLearned
  <2>4. CASE ~Doc(h)
    <3> DEFINE r == [req[h] EXCEPT !.pc = "lookup", !.learned = e]
    <3>1. "lookup" \in ReqPcs
      BY DEF ReqPcs
    <3>2. r \in Requests
      BY <2>1, <2>2, <3>1 DEF Requests
    <3>3. /\ r.pc = "lookup" /\ r.style = s /\ r.seen = req[h].seen /\ r.row = req[h].row
          /\ r.learned = e
      BY <2>1 DEF Requests
    <3>4. ReqOK(h, r)
      BY <2>1, <2>2, <2>4, <3>3 DEF ReqOK
    <3> QED BY <1>2, <2>4, <3>2, <3>4, OnlyReqFrame DEF ReadLearned
  <2> QED BY <2>3, <2>4
<1> QED BY <1>1, <1>2

\* What a sub-resource handler answers with does not matter to the invariant.
LEMMA AssetMoves ==
    ASSUME StylesInv, NEW h \in Handlers, req[h].pc \in {"lookup", "fetch"}, ~Doc(h),
           NEW pc \in {"fetch", "answered"}, NEW out \in Defs \cup {NoDef}
    PROVE  [req[h] EXCEPT !.pc = pc, !.out = out] \in Requests
           /\ ReqOK(h, [req[h] EXCEPT !.pc = pc, !.out = out])
<1> DEFINE r == [req[h] EXCEPT !.pc = pc, !.out = out]
<1>1. req[h] \in Requests /\ ReqOK(h, req[h]) /\ pc \in ReqPcs
  BY ReqFacts DEF ReqPcs
<1>2. r \in Requests
  BY <1>1 DEF Requests
<1>3. r.pc = pc /\ r.style = req[h].style /\ r.seen = req[h].seen /\ r.row = req[h].row
      /\ r.learned = req[h].learned
  BY <1>1 DEF Requests
<1> QED BY <1>1, <1>2, <1>3 DEF ReqOK

\* Cached names a definition or none.
LEMMA CachedType ==
    ASSUME StylesInv, NEW h \in Handlers PROVE Cached(h) \in Defs \cup {NoDef}
<1> DEFINE rows == {t \in tiles : t.style = req[h].style /\ t.generation = req[h].learned.generation}
<1>1. rows # {} => (CHOOSE t \in rows : TRUE) \in rows
  OBVIOUS
<1>2. rows \subseteq Tiles
  BY DEF StylesInv, StylesTypeOK
<1>3. rows # {} => (CHOOSE t \in rows : TRUE).def \in Defs
  <2> HIDE DEF rows
  <2> QED BY <1>1, <1>2 DEF Tiles
<1> QED BY <1>3 DEF Cached

LEMMA AssetHitInv == ASSUME StylesInv, NEW h \in Handlers, AssetHit(h) PROVE StylesInv'
<1>1. req[h].pc \in {"lookup", "fetch"} /\ ~Doc(h)
  BY ReqFacts DEF AssetHit, ReqOK
<1> QED BY <1>1, CachedType, AssetMoves, OnlyReqFrame DEF AssetHit

LEMMA AssetFetchInv ==
    ASSUME StylesInv, NEW h \in Handlers, NEW a \in BOOLEAN, AssetFetch(h, a) PROVE StylesInv'
<1>1. req[h].pc \in {"lookup", "fetch"} /\ ~Doc(h)
  BY ReqFacts DEF AssetFetch, ReqOK
<1>2. CASE ~a
  BY <1>2, EndFrame DEF AssetFetch
<1>3. CASE a
  <2>1. req[h].out \in Defs \cup {NoDef} /\ req[h] \in Requests
    BY ReqFacts DEF Requests
  <2>2. [req[h] EXCEPT !.pc = "fetch", !.out = req[h].out] = [req[h] EXCEPT !.pc = "fetch"]
    BY <2>1 DEF Requests
  <2>3. Set(h, [req[h] EXCEPT !.pc = "fetch"]) /\ OnlyReq
    BY <1>3 DEF AssetFetch
  <2>4. [req[h] EXCEPT !.pc = "fetch"] \in Requests /\ ReqOK(h, [req[h] EXCEPT !.pc = "fetch"])
    BY <1>1, <2>1, <2>2, AssetMoves
  <2> QED BY <2>3, <2>4, OnlyReqFrame
<1> QED BY <1>2, <1>3

LEMMA AssetFetchedInv == ASSUME StylesInv, NEW h \in Handlers, AssetFetched(h) PROVE StylesInv'
<1>1. req[h].pc \in {"lookup", "fetch"} /\ ~Doc(h) /\ req[h].style \in StyleIds /\ req[h].learned \in Entries
  BY ReqFacts DEF AssetFetched, ReqOK
<1>2. PICK d \in Defs \cup {NoDef} : AssetAnswer(h, d) /\ (StoreTile(h, d) \/ UNCHANGED tiles)
  BY <1>1, CachedType DEF AssetFetched, Entries
<1>3. Frame /\ UNCHANGED <<learned_styles, writes>>
  BY DEF AssetFetched, Frame
<1>4. tiles' \subseteq Tiles
  <2>1. tiles \subseteq Tiles /\ req[h].learned.generation \in Nat
    BY <1>1 DEF StylesInv, StylesTypeOK, Entries
  <2>2. CASE StoreTile(h, d)
    <3>1. d # NoDef => [style |-> req[h].style, generation |-> req[h].learned.generation, def |-> d] \in Tiles
      BY <1>1, <2>1 DEF Tiles
    <3> QED BY <2>1, <2>2, <3>1 DEF StoreTile
  <2> QED BY <1>2, <2>1, <2>2
<1>5. DiskTypeOK' /\ HonestInv'
  BY <1>3, <1>4 DEF DiskTypeOK, HonestInv, DurableIsHonest, StylesInv, StylesTypeOK
<1>6. CASE d = NoDef
  BY <1>2, <1>3, <1>5, <1>6, IdleReqOK, HandlerFrame DEF AssetAnswer, End
<1>7. CASE d # NoDef
  BY <1>1, <1>2, <1>3, <1>5, <1>7, AssetMoves, HandlerFrame DEF AssetAnswer
<1> QED BY <1>6, <1>7

LEMMA DropInv == ASSUME StylesInv, NEW h \in Handlers, Drop(h) PROVE StylesInv'
<1>1. Frame /\ UNCHANGED disk /\ Set(h, IdleReq)
  BY DEF Drop, Frame, End
<1>2. CASE UNCHANGED writes
  <2>1. DiskTypeOK' /\ HonestInv'
    BY <1>1, <1>2 DEF disk, DiskTypeOK, HonestInv, DurableIsHonest, StylesInv, StylesTypeOK
  <2> QED BY <1>1, <2>1, IdleReqOK, HandlerFrame
<1>3. CASE /\ req[h].pc = "persist" /\ req[h].row # NoEntry
           /\ writes' = writes \cup {[style |-> req[h].style, row |-> req[h].row]}
  <2>1. req[h].style \in StyleIds /\ req[h].row \in Rows /\ req[h].row.signature = req[h].row.def
    BY <1>3, ReqFacts DEF ReqOK
  <2>2. DiskTypeOK' /\ HonestInv'
    BY <1>1, <1>3, <2>1 DEF disk, DiskTypeOK, HonestInv, DurableIsHonest, StylesInv, StylesTypeOK
  <2> QED BY <1>1, <2>2, IdleReqOK, HandlerFrame
<1> QED BY <1>2, <1>3 DEF Drop

LEMMA LateWriteInv == ASSUME StylesInv, NEW w \in writes, LateWrite(w) PROVE StylesInv'
<1>1. w.style \in StyleIds /\ w.row \in Rows /\ w.row.signature = w.row.def
  BY DEF StylesInv, StylesTypeOK, HonestInv
<1>2. StylesTypeOK'
  BY <1>1 DEF LateWrite, StoreRow, StylesInv, StylesTypeOK
<1>3. HonestInv'
  BY <1>1 DEF LateWrite, StoreRow, HonestInv, DurableIsHonest, StylesInv, StylesTypeOK
<1>4. PushInv' /\ EntryInv' /\ ReqInv'
  BY DEF LateWrite, StylesInv, PushInv, EntryInv, ReqInv, ReqOK, Swapped, Even, Doc
<1> QED BY <1>2, <1>3, <1>4 DEF StylesInv

-----------------------------------------------------------------------------
(* The push.  It holds config_update: no learner is between its insert and *)
(* the store of its row, and a generation the push gives is new to every   *)
(* handler.                                                                *)

LEMMA PushReqs ==
    ASSUME StylesInv, UNCHANGED <<sources, req>>, push.pc # "idle" \/ ConfigUpdateFree,
           \/ generation' = generation
           \/ generation' = generation + 1 /\ (Even(generation) \/ push.pc # "idle"),
           ~Even(generation') \/ push.pc # "idle",
           \A s \in StyleIds : style_state'[s] # NoEntry =>
               \/ style_state[s] # NoEntry /\ style_state'[s].def = style_state[s].def
               \/ style_state'[s].def = sources[s] /\ sources[s] # NoDef
    PROVE  ReqInv'
<1> SUFFICES ASSUME NEW g \in Handlers PROVE ReqOK(g, req[g])'
  BY DEF ReqInv
<1>1. ReqOK(g, req[g]) /\ req[g].gen \in Nat /\ generation \in Nat
  BY ReqFacts DEF StylesInv, StylesTypeOK
<1>2. req[g].pc # "persist"
  BY <1>1 DEF ReqOK, ConfigUpdateFree
<1>3. req[g].pc \in {"wait", "learn", "commit"} => req[g].gen <= generation' /\ Even(req[g].gen)
  BY <1>1 DEF ReqOK
<1>4. req[g].pc \in {"learn", "commit"} /\ req[g].gen = generation' => req[g].gen = generation
  <2>1. req[g].pc \in {"learn", "commit"} => req[g].gen <= generation
    BY <1>1 DEF ReqOK
  <2> QED BY <1>1, <2>1
<1>5. req[g].pc \in {"wait", "learn", "commit", "persist", "read"} /\ style_state'[req[g].style] # NoEntry =>
          style_state'[req[g].style].def \in req[g].seen
  BY <1>1 DEF ReqOK
<1> QED BY <1>1, <1>2, <1>3, <1>4, <1>5 DEF ReqOK, Doc, Even

LEMMA PushStartInv ==
    ASSUME StylesInv, NEW body \in Catalogs, PushStart(body) PROVE StylesInv'
<1>1. /\ push' = [pc |-> "enforce", body |-> body, rows |-> NoEntries] /\ generation' = generation + 1
      /\ UNCHANGED <<sources, style_state, learned_styles, tiles, req, writes, boots>>
      /\ push.pc = "idle" /\ ConfigUpdateFree /\ pushes' = pushes + 1
  BY DEF PushStart, IdlePush, disk, ConfigUpdateFree
<1>2. StylesTypeOK'
  BY <1>1 DEF StylesInv, StylesTypeOK, PushPcs, NoEntries
<1>3. Even(generation) /\ generation \in Nat
  BY <1>1 DEF StylesInv, PushInv, StylesTypeOK
<1>4. ~Even(generation')
  BY <1>1, <1>3 DEF Even
<1>5. PushInv' /\ EntryInv' /\ HonestInv'
  <2>1. push'.pc = "enforce"
    BY <1>1
  <2>2. PushInv'
    BY <1>4, <2>1 DEF PushInv
  <2>3. EntryInv'
    BY <1>1, <2>1 DEF StylesInv, EntryInv, Swapped, Even
  <2> QED BY <1>1, <2>2, <2>3 DEF StylesInv, HonestInv, DurableIsHonest
<1>6. ReqInv'
  BY <1>1, <1>3, <1>4, PushReqs
<1> QED BY <1>2, <1>5, <1>6 DEF StylesInv

\* The two ways a push ends: refused, or published.
LEMMA PushEnds ==
    ASSUME StylesInv, push.pc \in {"enforce", "publish"}, generation' = generation + 1, push' = IdlePush,
           UNCHANGED <<sources, style_state, disk, req, writes, pushes, boots>>
    PROVE  StylesInv'
<1>1. StylesTypeOK'
  BY DEF StylesInv, StylesTypeOK, PushPcs, NoEntries, IdlePush, disk, Catalogs, NoStyles
<1>2. ~Even(generation) /\ generation \in Nat
  BY DEF StylesInv, PushInv, StylesTypeOK
<1>3. Even(generation') /\ push'.pc = "idle"
  BY <1>2 DEF Even, IdlePush
<1>4. PushInv'
  BY <1>3 DEF PushInv
<1>5. EntryInv' /\ HonestInv'
  BY <1>3 DEF StylesInv, EntryInv, Swapped, Even, HonestInv, DurableIsHonest, disk
<1>6. ReqInv'
  BY PushReqs
<1> QED BY <1>1, <1>4, <1>5, <1>6 DEF StylesInv

LEMMA PushRefusedInv == ASSUME StylesInv, PushRefused PROVE StylesInv'
BY PushEnds DEF PushRefused

LEMMA PushPublishInv == ASSUME StylesInv, PushPublish PROVE StylesInv'
BY PushEnds DEF PushPublish

LEMMA PushSwapInv == ASSUME StylesInv, PushSwap PROVE StylesInv'
<1>1. /\ push.pc = "enforce" /\ sources' = push.body /\ push' = [push EXCEPT !.pc = "reconcile"]
      /\ UNCHANGED <<generation, style_state, learned_styles, tiles, writes, pushes, boots>>
  BY DEF PushSwap, disk
<1>2. push'.pc = "reconcile" /\ push.body \in Catalogs
  BY <1>1 DEF StylesInv, StylesTypeOK
<1>3. ASSUME NEW g \in Handlers PROVE req'[g] \in Requests /\ ReqOK(g, req[g])'
  <2>1. req[g] \in Requests /\ ReqOK(g, req[g])
    BY ReqFacts
  <2>2. CASE req[g].pc = "idle"
    BY <2>1, <2>2 DEF PushSwap, ReqOK, Doc
  <2>3. CASE req[g].pc # "idle"
    <3> DEFINE r == [req[g] EXCEPT !.seen = @ \cup ({push.body[req[g].style]} \ {NoDef})]
    <3>1. req'[g] = r /\ req[g].style \in StyleIds
      BY <2>1, <2>3 DEF PushSwap, ReqOK
    <3>2. {push.body[req[g].style]} \ {NoDef} \in SUBSET Defs
      BY <1>2, <3>1 DEF Catalogs
    <3>3. r \in Requests
      BY <2>1, <3>2 DEF Requests
    <3>4. /\ r.pc = req[g].pc /\ r.style = req[g].style /\ r.gen = req[g].gen /\ r.def = req[g].def
          /\ r.existing = req[g].existing /\ r.row = req[g].row /\ r.got = req[g].got
          /\ r.learned = req[g].learned /\ r.out = req[g].out
          /\ r.seen = req[g].seen \cup ({push.body[req[g].style]} \ {NoDef})
      BY <2>1 DEF Requests
    <3>5. ~Even(generation) /\ req[g].pc # "persist"
      BY <1>1, <2>1 DEF StylesInv, PushInv, ReqOK
    <3>6. req[g].pc \in {"learn", "commit"} => req[g].gen # generation
      BY <2>1, <3>5 DEF ReqOK
    <3> QED
      <4> HIDE DEF r
      <4> QED BY <1>1, <2>1, <3>1, <3>3, <3>4, <3>5, <3>6 DEF ReqOK, Doc, Even
  <2> QED BY <2>2, <2>3
<1>4. StylesTypeOK'
  <2>1. req' \in [Handlers -> Requests]
    BY <1>3 DEF PushSwap
  <2> QED BY <1>1, <1>2, <2>1 DEF StylesInv, StylesTypeOK, PushPcs
<1>5. PushInv'
  BY <1>1, <1>2 DEF StylesInv, PushInv, Even
<1>6. EntryInv' /\ HonestInv'
  BY <1>1, <1>2 DEF StylesInv, EntryInv, Swapped, HonestInv, DurableIsHonest, Even
<1> QED BY <1>3, <1>4, <1>5, <1>6 DEF StylesInv, ReqInv

\* The rows kept are of the catalog's definitions: their signatures are honest.
LEMMA PushReconcileInv == ASSUME StylesInv, PushReconcile PROVE StylesInv'
<1>1. /\ push.pc = "reconcile" /\ learned_styles' = Reconciled
      /\ push' = [push EXCEPT !.pc = "restore", !.rows = Reconciled]
      /\ UNCHANGED <<sources, generation, style_state, tiles, req, writes, pushes, boots>>
  BY DEF PushReconcile
<1>2. Reconciled \in [StyleIds -> Rows \cup {NoEntry}]
  BY DEF Reconciled, StylesInv, StylesTypeOK
<1>3. \A s \in StyleIds : Reconciled[s] # NoEntry =>
          Reconciled[s].signature = sources[s] /\ Reconciled[s].def = sources[s]
  BY DEF Reconciled, StylesInv, HonestInv, DurableIsHonest
<1>4. push'.pc = "restore" /\ push'.rows = Reconciled
  BY <1>1 DEF StylesInv, StylesTypeOK
<1>5. StylesTypeOK'
  BY <1>1, <1>2 DEF StylesInv, StylesTypeOK, PushPcs
<1>6. PushInv'
  BY <1>1, <1>3, <1>4 DEF StylesInv, PushInv, Even
<1>7. EntryInv'
  BY <1>1, <1>4 DEF StylesInv, EntryInv, Swapped, Even
<1>8. HonestInv'
  BY <1>1, <1>3 DEF StylesInv, HonestInv, DurableIsHonest
<1>9. ReqInv'
  BY <1>1, PushReqs
<1> QED BY <1>5, <1>6, <1>7, <1>8, <1>9 DEF StylesInv

LEMMA PushReconcileFailsInv == ASSUME StylesInv, PushReconcileFails PROVE StylesInv'
<1>1. /\ push.pc = "reconcile" /\ style_state' = NoEntries /\ push' = [push EXCEPT !.pc = "publish"]
      /\ UNCHANGED <<sources, generation, learned_styles, tiles, req, writes, pushes, boots>>
  BY DEF PushReconcileFails, disk
<1>2. push'.pc = "publish" /\ \A s \in StyleIds : style_state'[s] = NoEntry
  BY <1>1 DEF StylesInv, StylesTypeOK, NoEntries
<1>3. StylesTypeOK'
  BY <1>1 DEF StylesInv, StylesTypeOK, PushPcs, NoEntries
<1>4. PushInv' /\ EntryInv' /\ HonestInv'
  BY <1>1, <1>2 DEF StylesInv, PushInv, EntryInv, HonestInv, DurableIsHonest, Even
<1>5. ReqInv'
  BY <1>1, <1>2, PushReqs
<1> QED BY <1>3, <1>4, <1>5 DEF StylesInv

LEMMA PushRestoreInv ==
    ASSUME StylesInv, NEW invalid \in SUBSET StyleIds, PushRestore(invalid) PROVE StylesInv'
<1>1. /\ push.pc = "restore" /\ push' = [push EXCEPT !.pc = "publish", !.rows = NoEntries]
      /\ style_state' = [s \in StyleIds |->
            IF push.rows[s] = NoEntry \/ s \in invalid THEN NoEntry ELSE IntoLive(push.rows[s])]
      /\ UNCHANGED <<sources, generation, tiles, req, writes, pushes, boots>>
  BY DEF PushRestore
<1>2. /\ push.rows \in [StyleIds -> Rows \cup {NoEntry}] /\ generation \in Nat /\ ~Even(generation)
      /\ \A s \in StyleIds : push.rows[s] # NoEntry => push.rows[s].def = sources[s]
  BY <1>1 DEF StylesInv, StylesTypeOK, PushInv
<1>3. Even(generation + 1) /\ generation + 1 \in Nat
  BY <1>2 DEF Even
<1>4. ASSUME NEW s \in StyleIds, style_state'[s] # NoEntry
      PROVE  /\ style_state'[s] \in Entries /\ style_state'[s].def = sources[s] /\ sources[s] # NoDef
             /\ style_state'[s].config_generation = generation + 1
  <2>1. style_state'[s] = IntoLive(push.rows[s]) /\ push.rows[s] \in Rows /\ push.rows[s].def = sources[s]
    BY <1>1, <1>2, <1>4
  <2> QED BY <1>3, <2>1, StylesAssumption DEF IntoLive, Entries, Rows
<1>5. push'.pc = "publish"
  BY <1>1 DEF StylesInv, StylesTypeOK
<1>6. learned_styles' \in [StyleIds -> Rows \cup {NoEntry}] /\ DurableIsHonest'
  <2>1. CASE UNCHANGED learned_styles
    BY <2>1 DEF StylesInv, StylesTypeOK, HonestInv, DurableIsHonest
  <2>2. CASE learned_styles' = [s \in StyleIds |-> IF s \in invalid THEN NoEntry ELSE learned_styles[s]]
    BY <2>2 DEF StylesInv, StylesTypeOK, HonestInv, DurableIsHonest
  <2> QED BY <2>1, <2>2 DEF PushRestore
<1>7. StylesTypeOK'
  <2>1. style_state' \in [StyleIds -> Entries \cup {NoEntry}]
    BY <1>1, <1>4
  <2>2. push' \in [pc : PushPcs, body : Catalogs, rows : [StyleIds -> Rows \cup {NoEntry}]]
    BY <1>1 DEF StylesInv, StylesTypeOK, PushPcs, NoEntries
  <2> QED BY <1>1, <1>6, <2>1, <2>2 DEF StylesInv, StylesTypeOK
<1>8. PushInv' /\ EntryInv' /\ HonestInv'
  <2>1. PushInv'
    BY <1>1, <1>2, <1>5 DEF PushInv, Even
  <2>2. EntryInv'
    BY <1>1, <1>3, <1>4 DEF EntryInv, Even
  <2> QED BY <1>1, <1>6, <2>1, <2>2 DEF StylesInv, HonestInv
<1>9. ReqInv'
  BY <1>1, <1>4, PushReqs
<1> QED BY <1>7, <1>8, <1>9 DEF StylesInv

LEMMA RestartInv == ASSUME StylesInv, Restart PROVE StylesInv'
<1>1. StylesTypeOK'
  <2>1. learned_styles' \in [StyleIds -> Rows \cup {NoEntry}] /\ tiles' \subseteq Tiles
    BY DEF Restart, disk, StylesInv, StylesTypeOK, NoEntries
  <2> QED BY <2>1 DEF Restart, StylesInv, StylesTypeOK, Catalogs, NoStyles, NoEntries, IdlePush, IdleReq,
                      Requests, PushPcs, ReqPcs, Learning
<1>2. PushInv' /\ EntryInv'
  BY DEF Restart, PushInv, EntryInv, NoEntries, IdlePush, Even
<1>3. HonestInv'
  BY DEF Restart, StylesInv, HonestInv, DurableIsHonest, NoEntries, disk
<1>4. ReqInv'
  BY DEF Restart, ReqInv, ReqOK, IdleReq
<1> QED BY <1>1, <1>2, <1>3, <1>4 DEF StylesInv

-----------------------------------------------------------------------------
LEMMA NextInv == StylesInv /\ [StylesNext]_stylesVars => StylesInv'
<1> SUFFICES ASSUME StylesInv, [StylesNext]_stylesVars PROVE StylesInv'
  OBVIOUS
<1>1. CASE \E body \in Catalogs : PushStart(body)
  BY <1>1, PushStartInv
<1>2. CASE PushStep
  BY <1>2, PushRefusedInv, PushSwapInv, PushReconcileInv, PushReconcileFailsInv, PushRestoreInv,
     PushPublishInv DEF PushStep
<1>3. CASE \E h \in Handlers, s \in StyleIds : Request(h, s)
  BY <1>3, RequestInv
<1>4. CASE \E h \in Handlers : HandlerStep(h)
  <2> PICK h \in Handlers : HandlerStep(h)
    BY <1>4
  <2>1. CASE Hit(h) \/ Miss(h) \/ BeginLearn(h) \/ LearnErrs(h) \/ Commit(h)
             \/ \E u \in BOOLEAN : Learned(h, u)
    BY <2>1, HitInv, MissInv, BeginLearnInv, LearnErrsInv, CommitInv, LearnedInv
  <2>2. CASE Persist(h) \/ ReadLearned(h) \/ AssetHit(h) \/ AssetFetched(h) \/ Answered(h)
             \/ \E a \in BOOLEAN : AssetFetch(h, a)
    BY <2>2, PersistInv, ReadLearnedInv, AssetHitInv, AssetFetchedInv, AnsweredInv, AssetFetchInv
  <2> QED BY <2>1, <2>2 DEF HandlerStep
<1>5. CASE \E h \in Handlers : GiveUp(h) \/ Drop(h)
  BY <1>5, GiveUpInv, DropInv
<1>6. CASE \E w \in writes : LateWrite(w)
  BY <1>6, LateWriteInv
<1>7. CASE Restart
  BY <1>7, RestartInv
<1>8. CASE UNCHANGED stylesVars
  BY <1>8 DEF stylesVars, disk, StylesInv, StylesTypeOK, PushInv, EntryInv, HonestInv, DurableIsHonest,
              ReqInv, ReqOK, Swapped, Even, Doc
<1> QED BY <1>1, <1>2, <1>3, <1>4, <1>5, <1>6, <1>7, <1>8 DEF StylesNext

\* The inductive invariant holds in every reachable state.
THEOREM StylesInvariant == StylesSpec => []StylesInv
BY InitInv, NextInv, PTL DEF StylesSpec

(* The types of style_state, the learned_styles table, the push and the    *)
(* handlers, for every catalog and any number of handlers.                 *)
THEOREM StylesTypeCorrect == StylesSpec => []StylesTypeOK
<1>1. StylesInv => StylesTypeOK
  BY DEF StylesInv
<1> QED BY <1>1, StylesInvariant, PTL

(* An entry the handlers may use has the catalog's definition: by EntryInv *)
(* when no push is at work, and vacuously while one is, since then the     *)
(* generation is odd and no entry has it.                                  *)
THEOREM EntriesAreCurrent == StylesSpec => []LearnedIsCurrent
<1>1. StylesInv => LearnedIsCurrent
  BY DEF StylesInv, PushInv, EntryInv, Swapped, LearnedIsCurrent, OfGeneration
<1> QED BY <1>1, StylesInvariant, PTL

\* A durable row is what its signature says, also when it was stored late.
THEOREM RowsAreHonest == StylesSpec => []DurableIsHonest
<1>1. StylesInv => DurableIsHonest
  BY DEF StylesInv, HonestInv
<1> QED BY <1>1, StylesInvariant, PTL

\* What a style request is answered with was in the catalog during the request.
THEOREM AnswersWereInForce == StylesSpec => []ServedWasInForce
<1>1. StylesInv => ServedWasInForce
  BY DEF StylesInv, ReqInv, ReqOK, ServedWasInForce
<1> QED BY <1>1, StylesInvariant, PTL

-----------------------------------------------------------------------------
(* Refinement: the detailed specification implements StyleCatalog.         *)

Silent == UNCHANGED <<sources, generation, style_state>>

\* While a push is at work nothing is known.
LEMMA NothingKnown == ASSUME StylesInv, ~Even(generation) PROVE Known = Catalog!Nothing
<1>1. \A s \in StyleIds : OfGeneration(s, generation) = NoEntry
  BY DEF StylesInv, EntryInv, OfGeneration
<1> QED BY <1>1 DEF Known, Catalog!Nothing

LEMMA SilentStep == ASSUME Silent PROVE UNCHANGED <<sources, Known>>
BY DEF Silent, Known, OfGeneration

\* A push ends: the entries of its generation are those of the catalog.
LEMMA EndRecalls ==
    ASSUME StylesInv, StylesInv', push.pc # "idle", push'.pc = "idle", UNCHANGED sources
    PROVE  Catalog!Recall
<1>1. Known = Catalog!Nothing
  BY NothingKnown DEF StylesInv, PushInv
<1> DEFINE K == {s \in StyleIds : (OfGeneration(s, generation) # NoEntry)'}
<1>2. \A s \in K : (style_state[s].def)' = sources[s]
  BY DEF StylesInv, EntryInv, OfGeneration, Swapped
<1>3. Known' = [s \in StyleIds |-> IF s \in K THEN sources[s] ELSE NoDef]
  BY <1>2 DEF Known
<1>4. K \in SUBSET StyleIds
  OBVIOUS
<1> HIDE DEF K
<1> QED BY <1>1, <1>3, <1>4 DEF Catalog!Recall

LEMMA CommitLearns ==
    ASSUME StylesInv, NEW h \in Handlers, Commit(h) PROVE Catalog!Learn \/ UNCHANGED <<sources, Known>>
<1> DEFINE s == req[h].style
           e == Committed(h)
<1>1. CASE e = NoEntry
  BY <1>1, SilentStep DEF Commit, Silent
<1>2. CASE e # NoEntry
  <2>1. req[h].pc = "commit" /\ push.pc = "idle"
    BY DEF Commit, ConfigUpdateFree
  <2>2. e.def = sources[s] /\ e.config_generation = generation /\ sources[s] \in Defs /\ s \in StyleIds
    BY <1>2, <2>1, CommittedIsCurrent, ReqFacts DEF ReqOK
  <2>3. style_state' = [style_state EXCEPT ![s] = e] /\ UNCHANGED <<sources, generation>>
    BY <1>2 DEF Commit
  <2>4. \A t \in StyleIds : style_state'[t] = IF t = s THEN e ELSE style_state[t]
    BY <2>2, <2>3 DEF StylesInv, StylesTypeOK
  <2>5. Known' = [t \in StyleIds |-> IF t = s THEN sources[s] ELSE Known[t]]
    BY <1>2, <2>2, <2>3, <2>4 DEF Known, OfGeneration
  <2>6. Known' = [Known EXCEPT ![s] = sources[s]]
    BY <2>5 DEF Known
  <2>7. sources[s] # NoDef
    BY <2>2, StylesAssumption
  <2> QED BY <2>2, <2>3, <2>6, <2>7 DEF Catalog!Learn
<1> QED BY <1>1, <1>2

LEMMA StepRefines ==
    StylesInv /\ StylesInv' /\ [StylesNext]_stylesVars => [Catalog!CatalogNext]_<<sources, Known>>
<1> SUFFICES ASSUME StylesInv, StylesInv', [StylesNext]_stylesVars
             PROVE  Catalog!CatalogNext \/ UNCHANGED <<sources, Known>>
  OBVIOUS
<1>1. CASE \E body \in Catalogs : PushStart(body)
  <2>1. Known' = Catalog!Nothing
    <3>1. Even(generation) /\ generation \in Nat /\ generation' = generation + 1
      BY <1>1 DEF PushStart, ConfigUpdateFree, StylesInv, StylesTypeOK, PushInv
    <3>2. ~Even(generation')
      BY <3>1 DEF Even
    <3>3. \A s \in StyleIds : (OfGeneration(s, generation) = NoEntry)'
      BY <3>2 DEF StylesInv, EntryInv, OfGeneration, Even
    <3> QED BY <3>3 DEF Known, Catalog!Nothing
  <2> QED BY <1>1, <2>1 DEF PushStart, Catalog!CatalogNext, Catalog!Suspend
<1>2. CASE PushRefused \/ PushPublish
  <2>1. push.pc # "idle" /\ push'.pc = "idle" /\ UNCHANGED sources
    BY <1>2 DEF PushRefused, PushPublish, IdlePush
  <2> QED BY <2>1, EndRecalls DEF Catalog!CatalogNext
<1>3. CASE PushSwap
  <2>1. ~Even(generation) /\ push.body \in Catalogs /\ sources' = push.body
    BY <1>3 DEF PushSwap, StylesInv, StylesTypeOK, PushInv
  <2>2. UNCHANGED <<generation, style_state>>
    BY <1>3 DEF PushSwap
  <2>3. Known = Catalog!Nothing /\ UNCHANGED Known
    BY <2>1, <2>2, NothingKnown DEF Known, OfGeneration
  <2> QED BY <2>1, <2>3 DEF Catalog!CatalogNext, Catalog!Replace, Catalog!Catalogs, Catalogs
<1>4. CASE PushReconcile \/ PushReconcileFails \/ \E invalid \in SUBSET StyleIds : PushRestore(invalid)
  <2>1. UNCHANGED <<sources, generation>> /\ push.pc # "idle"
    BY <1>4 DEF PushReconcile, PushReconcileFails, PushRestore
  <2>2. ~Even(generation) /\ ~Even(generation')
    BY <2>1 DEF StylesInv, PushInv, Even
  <2>3. \A s \in StyleIds : OfGeneration(s, generation) = NoEntry /\ (OfGeneration(s, generation) = NoEntry)'
    BY <2>2 DEF StylesInv, EntryInv, OfGeneration, Even
  <2>4. Known' = Known
    BY <2>3 DEF Known
  <2> QED BY <2>1, <2>4
<1>5. CASE \E h \in Handlers : Commit(h)
  BY <1>5, CommitLearns DEF Catalog!CatalogNext
<1>6. CASE Restart
  <2>1. sources' = Catalog!Nothing /\ \A s \in StyleIds : style_state'[s] = NoEntry
    BY <1>6 DEF Restart, NoStyles, Catalog!Nothing, NoEntries
  <2>2. Known' = Catalog!Nothing
    BY <2>1 DEF Known, OfGeneration, Catalog!Nothing
  <2> QED BY <2>1, <2>2 DEF Catalog!CatalogNext, Catalog!Reset
<1>7. CASE \E h \in Handlers, s \in StyleIds : Request(h, s)
  BY <1>7, SilentStep DEF Request, OnlyReq, Silent
<1>8. CASE \E h \in Handlers : HandlerStep(h) \/ GiveUp(h) \/ Drop(h)
  <2> PICK h \in Handlers : HandlerStep(h) \/ GiveUp(h) \/ Drop(h)
    BY <1>8
  <2>1. CASE Hit(h) \/ Miss(h) \/ BeginLearn(h) \/ LearnErrs(h) \/ GiveUp(h) \/ \E u \in BOOLEAN : Learned(h, u)
    BY <2>1, SilentStep DEF Hit, Miss, BeginLearn, LearnErrs, GiveUp, Learned, OnlyReq, Silent
  <2>2. CASE ReadLearned(h) \/ AssetHit(h) \/ Answered(h) \/ Drop(h) \/ \E a \in BOOLEAN : AssetFetch(h, a)
    BY <2>2, SilentStep DEF ReadLearned, AssetHit, Answered, Drop, AssetFetch, OnlyReq, Silent
  <2>3. CASE Persist(h) \/ AssetFetched(h)
    BY <2>3, SilentStep DEF Persist, AssetFetched, Silent
  <2>4. CASE Commit(h)
    BY <2>4, <1>5
  <2> QED BY <2>1, <2>2, <2>3, <2>4 DEF HandlerStep
<1>9. CASE (\E w \in writes : LateWrite(w)) \/ UNCHANGED stylesVars
  BY <1>9, SilentStep DEF LateWrite, stylesVars, Silent
<1> QED BY <1>1, <1>2, <1>3, <1>4, <1>5, <1>6, <1>7, <1>8, <1>9 DEF StylesNext, PushStep

LEMMA InitRefines == StylesInit => Catalog!CatalogInit
<1> SUFFICES ASSUME StylesInit PROVE Catalog!CatalogInit
  OBVIOUS
<1>1. \A s \in StyleIds : OfGeneration(s, generation) = NoEntry
  BY DEF StylesInit, NoEntries, OfGeneration
<1> QED BY <1>1 DEF StylesInit, NoStyles, Known, Catalog!CatalogInit, Catalog!Nothing

(* The learned styles implement the abstract catalog: the catalog is       *)
(* replaced only while nothing is known, and what is known is what the     *)
(* catalog defines, through pushes, refusals, late learners and restarts.  *)
THEOREM StylesImplementCatalog == StylesSpec => ImplementsCatalog
<1>1. StylesInit => Catalog!CatalogInit
  BY InitRefines
<1>2. StylesInv /\ StylesInv' /\ [StylesNext]_stylesVars => [Catalog!CatalogNext]_<<sources, Known>>
  BY StepRefines
<1> QED BY <1>1, <1>2, StylesInvariant, PTL DEF StylesSpec, ImplementsCatalog, Catalog!CatalogSpec

-----------------------------------------------------------------------------
(* A cache generation stands for one definition of a style in one life of  *)
(* the process.  Whatever pairs a generation of a style with a definition  *)
(* (an entry, a row, a row kept by a push or on its way to disk, a cached  *)
(* sub-resource, what a handler carries) is a copy of another such pair,   *)
(* or was made by a commit, which pairs the generation in force with the   *)
(* definition in force.  So no generation has two (OneMeaning), and the    *)
(* one in force has the definition in force (Meant): a swap is made under  *)
(* an odd generation, which nothing carries.  A learner that continues a   *)
(* known entry takes over its generation; as long as its commit can        *)
(* succeed, both have one definition (Knows).                              *)

\* The entry or row x pairs generation g with definition d.
Of(x, g, d) == x # NoEntry /\ x.generation = g /\ x.def = d

\* What outlives a request pairs them.
Stored(s, g, d) ==
    \/ Of(style_state[s], g, d) \/ Of(learned_styles[s], g, d) \/ Of(push.rows[s], g, d)
    \/ \E w \in writes : w.style = s /\ w.row.generation = g /\ w.row.def = d
    \/ \E t \in tiles : t.style = s /\ t.generation = g /\ t.def = d

\* A handler in state r pairs them.
Carried(r, s, g, d) ==
    r.style = s /\ (Of(r.existing, g, d) \/ Of(r.learned, g, d) \/ Of(r.row, g, d))

\* Somewhere in the process or on disk, generation g of style s stands for definition d.
Bears(s, g, d) == Stored(s, g, d) \/ \E h \in Handlers : Carried(req[h], s, g, d)

\* No generation of a style is of the future, and the one in force is of the catalog.
Meant == \A s \in StyleIds, g \in Nat, d \in Defs :
    Bears(s, g, d) => Even(g) /\ g <= generation /\ (g = generation => d = sources[s])
\* No generation of a style stands for two definitions.
OneMeaning == \A s \in StyleIds, g \in Nat, d \in Defs, e \in Defs :
    Bears(s, g, d) /\ Bears(s, g, e) => d = e
\* A learner whose commit can succeed continues an entry of the definition it learned.
Knows(r) == r.pc \in {"learn", "commit"} /\ r.gen = generation /\ r.existing # NoEntry =>
    r.existing.def = r.def
\* A sub-resource handler has an entry, and answers with bytes of its definition.
Matches(h, r) ==
    /\ r.pc \in {"lookup", "fetch"} => r.learned # NoEntry
    /\ r.pc = "answered" /\ ~Doc(h) => r.out = r.learned.def

\* Of the first life: generations count from zero again after a restart.
BleedInv == boots = 0 =>
    /\ Meant /\ OneMeaning
    /\ \A h \in Handlers : Knows(req[h]) /\ Matches(h, req[h])

\* A generation a step may give a meaning to: the one in force, for the definition in force.
Born(s, g, d) == g = generation /\ Even(g) /\ d = sources[s]

\* The invariant holds after a step whose meanings are old ones or of the generation in force.
LEMMA MeaningFrame ==
    ASSUME StylesInv, BleedInv, boots' = 0 => boots = 0,
           generation' \in {generation, generation + 1},
           sources' = sources \/ (~Even(generation) /\ generation' = generation),
           \A s \in StyleIds, g \in Nat, d \in Defs :
               Bears(s, g, d)' => Bears(s, g, d) \/ (Born(s, g, d) /\ UNCHANGED <<generation, sources>>),
           boots' = 0 => \A h \in Handlers : Knows(req[h])' /\ Matches(h, req[h])'
    PROVE  BleedInv'
<1> SUFFICES ASSUME boots' = 0 PROVE Meant' /\ OneMeaning'
  BY DEF BleedInv
<1>1. Meant /\ OneMeaning /\ generation \in Nat
  BY DEF BleedInv, StylesInv, StylesTypeOK
<1>2. ASSUME NEW s \in StyleIds, NEW g \in Nat, NEW d \in Defs, Bears(s, g, d)'
      PROVE  /\ Even(g) /\ g <= generation' /\ (g = generation' => d = sources'[s])
             /\ Bears(s, g, d) \/ (g = generation /\ generation' = generation /\ d = sources[s])
  <2>1. CASE Bears(s, g, d)
    <3>1. Even(g) /\ g <= generation /\ (g = generation => d = sources[s])
      BY <1>1, <2>1 DEF Meant
    <3>2. g = generation' => d = sources'[s]
      <4>1. CASE generation' = generation /\ sources' = sources
        BY <3>1, <4>1
      <4>2. CASE generation' = generation + 1
        BY <3>1, <4>2, <1>1
      <4>3. CASE generation' = generation /\ ~Even(generation)
        BY <3>1, <4>3
      <4> QED BY <4>1, <4>2, <4>3
    <3> QED BY <1>1, <2>1, <3>1, <3>2
  <2>2. CASE Born(s, g, d) /\ UNCHANGED <<generation, sources>>
    BY <1>1, <2>2 DEF Born
  <2> QED BY <1>2, <2>1, <2>2
<1>3. Meant'
  BY <1>2 DEF Meant, Even
<1>4. ASSUME NEW s \in StyleIds, NEW g \in Nat, NEW d \in Defs, NEW e \in Defs,
             Bears(s, g, d)', Bears(s, g, e)'
      PROVE  d = e
  <2>1. Bears(s, g, d) \/ (g = generation /\ generation' = generation /\ d = sources[s])
    BY <1>2, <1>4
  <2>2. Bears(s, g, e) \/ (g = generation /\ generation' = generation /\ e = sources[s])
    BY <1>2, <1>4
  <2>3. \A f \in Defs : Bears(s, g, f) /\ g = generation => f = sources[s]
    BY <1>1 DEF Meant
  <2> QED BY <1>1, <2>1, <2>2, <2>3 DEF OneMeaning
<1> QED BY <1>3, <1>4 DEF OneMeaning

\* The same for a step of handler h that sets it to r.
LEMMA HandlerMeaning ==
    ASSUME StylesInv, BleedInv, NEW h \in Handlers, NEW r, Set(h, r),
           UNCHANGED <<sources, generation, boots>>,
           \A s \in StyleIds, g \in Nat, d \in Defs :
               Stored(s, g, d)' \/ Carried(r, s, g, d) => Bears(s, g, d) \/ Born(s, g, d),
           boots = 0 => Knows(r) /\ Matches(h, r)
    PROVE  BleedInv'
<1>1. req' = [req EXCEPT ![h] = r] /\ req \in [Handlers -> Requests]
  BY DEF Set, StylesInv, StylesTypeOK
<1>2. ASSUME NEW o \in Handlers PROVE req'[o] = IF o = h THEN r ELSE req[o]
  BY <1>1
<1>3. ASSUME NEW s \in StyleIds, NEW g \in Nat, NEW d \in Defs, Bears(s, g, d)'
      PROVE  Bears(s, g, d) \/ Born(s, g, d)
  <2>1. CASE Stored(s, g, d)'
    BY <2>1
  <2>2. CASE \E o \in Handlers : Carried(req'[o], s, g, d)
    <3>1. PICK o \in Handlers : Carried(req'[o], s, g, d)
      BY <2>2
    <3>2. CASE o = h
      BY <1>2, <3>1, <3>2
    <3>3. CASE o # h
      BY <1>2, <3>1, <3>3 DEF Bears
    <3> QED BY <3>2, <3>3
  <2> QED BY <1>3, <2>1, <2>2 DEF Bears, Carried, Of
<1>4. ASSUME boots' = 0, NEW o \in Handlers PROVE Knows(req[o])' /\ Matches(o, req[o])'
  <2>1. Knows(req[o]) /\ Matches(o, req[o]) /\ Knows(r) /\ Matches(h, r)
    BY <1>4 DEF BleedInv
  <2>2. Knows(req'[o]) /\ Matches(o, req'[o])
    BY <1>2, <2>1
  <2> QED BY <2>2 DEF Knows, Matches, Doc
<1> QED BY <1>3, <1>4, MeaningFrame

\* Stored keeps its meanings when what it reads does.
LEMMA StoredFrame ==
    ASSUME UNCHANGED <<style_state, learned_styles, push, writes, tiles>>,
           NEW s, NEW g, NEW d
    PROVE  Stored(s, g, d)' <=> Stored(s, g, d)
BY DEF Stored, Of

\* A step that only sets h to something that carries no new meaning.
LEMMA CarriedFrame ==
    ASSUME StylesInv, BleedInv, NEW h \in Handlers, NEW r, Set(h, r), OnlyReq,
           \A s \in StyleIds, g \in Nat, d \in Defs : Carried(r, s, g, d) => Bears(s, g, d),
           boots = 0 => Knows(r) /\ Matches(h, r)
    PROVE  BleedInv'
<1>1. UNCHANGED <<style_state, learned_styles, push, writes, tiles>>
  BY DEF OnlyReq, disk
<1>2. \A s \in StyleIds, g \in Nat, d \in Defs : Stored(s, g, d)' => Bears(s, g, d)
  BY <1>1, StoredFrame DEF Bears
<1>3. UNCHANGED <<sources, generation, boots>>
  BY DEF OnlyReq
<1> QED BY <1>2, <1>3, HandlerMeaning

\* An idle handler, or one that was just given a document, carries none.
LEMMA IdleCarries ==
    ASSUME NEW h \in Handlers, NEW r, r.existing = NoEntry, r.learned = NoEntry, r.row = NoEntry,
           r.pc \in {"idle", "load", "read"}
    PROVE  /\ \A s, g, d : ~Carried(r, s, g, d)
           /\ Knows(r) /\ Matches(h, r)
BY DEF Carried, Of, Knows, Matches

LEMMA EndBleeds ==
    ASSUME StylesInv, BleedInv, NEW h \in Handlers, End(h), UNCHANGED <<sources, generation, boots>>,
           \A s \in StyleIds, g \in Nat, d \in Defs : Stored(s, g, d)' => Bears(s, g, d)
    PROVE  BleedInv'
<1>1. /\ \A s, g, d : ~Carried(IdleReq, s, g, d)
      /\ Knows(IdleReq) /\ Matches(h, IdleReq)
  BY IdleCarries DEF IdleReq
<1> QED BY <1>1, HandlerMeaning DEF End

LEMMA GiveBleeds ==
    ASSUME StylesInv, BleedInv, NEW h \in Handlers, NEW e, Give(h, e), UNCHANGED <<sources, generation, boots>>,
           \A s \in StyleIds, g \in Nat, d \in Defs : Stored(s, g, d)' => Bears(s, g, d)
    PROVE  BleedInv'
<1> DEFINE r == [IdleReq EXCEPT !.pc = "read", !.style = req[h].style,
                     !.seen = req[h].seen, !.got = IF Doc(h) THEN e ELSE NoDef]
<1>1. r.pc = "read" /\ r.existing = NoEntry /\ r.learned = NoEntry /\ r.row = NoEntry
  BY DEF IdleReq
<1>2. Set(h, r)
  BY DEF Give
<1> HIDE DEF r
<1>3. /\ \A s, g, d : ~Carried(r, s, g, d)
      /\ Knows(r) /\ Matches(h, r)
  BY <1>1, IdleCarries
<1> QED BY <1>2, <1>3, HandlerMeaning

LEMMA StoredOfOnlyReq ==
    ASSUME OnlyReq
    PROVE  /\ UNCHANGED <<sources, generation, boots>>
           /\ \A s \in StyleIds, g \in Nat, d \in Defs : Stored(s, g, d)' => Bears(s, g, d)
<1>1. UNCHANGED <<style_state, learned_styles, push, writes, tiles>>
  BY DEF OnlyReq, disk
<1> QED BY <1>1, StoredFrame DEF Bears, OnlyReq

-----------------------------------------------------------------------------
\* Copies of a handler's record that keep what it carries.
LEMMA CopyCarries ==
    ASSUME NEW h \in Handlers, NEW r, r.style = req[h].style,
           r.existing = req[h].existing, r.learned = req[h].learned, r.row = req[h].row
    PROVE  \A s, g, d : Carried(r, s, g, d) => Bears(s, g, d)
BY DEF Carried, Bears

LEMMA RequestBleeds ==
    ASSUME StylesInv, BleedInv, NEW h \in Handlers, NEW s \in StyleIds, Request(h, s) PROVE BleedInv'
<1> DEFINE r == [IdleReq EXCEPT !.pc = "load", !.style = s, !.seen = {sources[s]} \ {NoDef}]
<1>1. r.pc = "load" /\ r.existing = NoEntry /\ r.learned = NoEntry /\ r.row = NoEntry
  BY DEF IdleReq
<1>2. Set(h, r) /\ OnlyReq
  BY DEF Request
<1> HIDE DEF r
<1> QED BY <1>1, <1>2, IdleCarries, CarriedFrame

LEMMA HitBleeds == ASSUME StylesInv, BleedInv, NEW h \in Handlers, Hit(h) PROVE BleedInv'
<1>1. OnlyReq /\ \E e : Give(h, e)
  BY DEF Hit
<1> QED BY <1>1, StoredOfOnlyReq, GiveBleeds

LEMMA MissBleeds == ASSUME StylesInv, BleedInv, NEW h \in Handlers, Miss(h) PROVE BleedInv'
<1>1. OnlyReq
  BY DEF Miss
<1>2. CASE End(h)
  BY <1>1, <1>2, StoredOfOnlyReq, EndBleeds
<1>3. CASE Set(h, [req[h] EXCEPT !.pc = "wait", !.gen = generation])
  <2> DEFINE r == [req[h] EXCEPT !.pc = "wait", !.gen = generation]
  <2>1. r.pc = "wait" /\ r.style = req[h].style /\ r.existing = req[h].existing
        /\ r.learned = req[h].learned /\ r.row = req[h].row
    BY ReqFacts DEF Requests
  <2>2. Set(h, r)
    BY <1>3
  <2> HIDE DEF r
  <2>3. Knows(r) /\ Matches(h, r)
    BY <2>1 DEF Knows, Matches
  <2> QED BY <1>1, <2>1, <2>2, <2>3, CopyCarries, CarriedFrame
<1> QED BY <1>2, <1>3 DEF Miss

\* The entry the learner found under the current generation has the definition it read.
LEMMA BeginLearnBleeds == ASSUME StylesInv, BleedInv, NEW h \in Handlers, BeginLearn(h) PROVE BleedInv'
<1> DEFINE s == req[h].style
           e == OfGeneration(s, req[h].gen)
           r == [req[h] EXCEPT !.pc = "learn", !.def = sources[s], !.existing = e]
<1>1. OnlyReq
  BY DEF BeginLearn
<1>2. CASE End(h)
  BY <1>1, <1>2, StoredOfOnlyReq, EndBleeds
<1>3. CASE Set(h, r)
  <2>1. s \in StyleIds /\ Even(req[h].gen)
    BY ReqFacts DEF BeginLearn, ReqOK
  <2>2. e # NoEntry => e = style_state[s]
    BY DEF OfGeneration
  <2>3. r.pc = "learn" /\ r.style = s /\ r.gen = req[h].gen /\ r.existing = e /\ r.def = sources[s]
        /\ r.learned = req[h].learned /\ r.row = req[h].row
    BY ReqFacts DEF Requests
  <2>4. r.gen = generation /\ e # NoEntry => e.def = sources[s]
    BY <2>1, <2>2, <2>3, EntryFacts, IdleIsEven
  <2>5. Set(h, r)
    BY <1>3
  <2> HIDE DEF r, e
  <2>6. Knows(r) /\ Matches(h, r)
    BY <2>3, <2>4 DEF Knows, Matches
  <2>7. \A z, g, d : Carried(r, z, g, d) => Bears(z, g, d)
    <3> TAKE z, g, d
    <3>1. z = s /\ Of(e, g, d) => Stored(z, g, d)
      BY <2>2 DEF Of, Stored
    <3> QED BY <2>3, <3>1 DEF Carried, Bears
  <2> QED BY <1>1, <2>5, <2>6, <2>7, CarriedFrame
<1> QED BY <1>2, <1>3 DEF BeginLearn

LEMMA LearnedBleeds ==
    ASSUME StylesInv, BleedInv, NEW h \in Handlers, NEW u \in BOOLEAN, Learned(h, u) PROVE BleedInv'
<1> DEFINE r == [req[h] EXCEPT !.pc = "commit", !.refresh = u]
<1>1. r.pc = "commit" /\ r.style = req[h].style /\ r.gen = req[h].gen /\ r.existing = req[h].existing
      /\ r.def = req[h].def /\ r.learned = req[h].learned /\ r.row = req[h].row
  BY ReqFacts DEF Requests
<1>2. Set(h, r) /\ OnlyReq /\ req[h].pc = "learn"
  BY DEF Learned
<1> HIDE DEF r
<1>3. boots = 0 => Knows(r) /\ Matches(h, r)
  BY <1>1, <1>2 DEF BleedInv, Knows, Matches
<1> QED BY <1>1, <1>2, <1>3, CopyCarries, CarriedFrame

LEMMA LearnErrsBleeds == ASSUME StylesInv, BleedInv, NEW h \in Handlers, LearnErrs(h) PROVE BleedInv'
<1>1. OnlyReq /\ (End(h) \/ \E e : Give(h, e))
  BY DEF LearnErrs
<1> QED BY <1>1, StoredOfOnlyReq, GiveBleeds, EndBleeds

LEMMA EndsBleed ==
    ASSUME StylesInv, BleedInv, NEW h \in Handlers, GiveUp(h) \/ Answered(h) PROVE BleedInv'
<1>1. OnlyReq /\ End(h)
  BY DEF GiveUp, Answered
<1> QED BY <1>1, StoredOfOnlyReq, EndBleeds

(* A commit leaves an entry that continues a known one, with its           *)
(* generation and the same definition, or one that starts the generation   *)
(* in force with the definition in force.                                  *)
LEMMA CommittedMeaning ==
    ASSUME StylesInv, BleedInv, boots = 0, NEW h \in Handlers, req[h].pc = "commit", push.pc = "idle",
           Committed(h) # NoEntry, NEW g, NEW d, Of(Committed(h), g, d)
    PROVE  Bears(req[h].style, g, d) \/ Born(req[h].style, g, d)
<1> DEFINE s == req[h].style
           e == Committed(h)
<1>1. /\ e.def = sources[s] /\ generation = req[h].gen /\ Even(generation)
  BY CommittedIsCurrent
<1>2. e.generation = g /\ e.def = d
  BY DEF Of
<1>3. CASE req[h].refresh
  <2>1. e = OfGeneration(s, req[h].gen)
    BY <1>1, <1>3 DEF Committed
  <2>2. e = style_state[s]
    BY <2>1 DEF OfGeneration
  <2> QED BY <2>2 DEF Bears, Stored
<1>4. CASE ~req[h].refresh
  <2>1. e = [def |-> req[h].def, config_generation |-> req[h].gen, generation |-> CacheGeneration(h)]
    BY <1>1, <1>4 DEF Committed
  <2>2. g = CacheGeneration(h) /\ d = req[h].def
    BY <1>2, <2>1
  <2>3. CASE req[h].existing = NoEntry
    BY <1>1, <1>2, <2>2, <2>3 DEF CacheGeneration, Born
  <2>4. CASE req[h].existing # NoEntry
    <3>1. req[h].existing.def = req[h].def /\ g = req[h].existing.generation
      BY <1>1, <2>2, <2>4 DEF BleedInv, Knows, CacheGeneration
    <3> QED BY <2>2, <2>4, <3>1 DEF Bears, Carried, Of
  <2> QED BY <2>3, <2>4
<1>5. req[h].refresh \in BOOLEAN
  BY ReqFacts DEF Requests
<1> QED BY <1>3, <1>4, <1>5

LEMMA CommitBleeds == ASSUME StylesInv, BleedInv, NEW h \in Handlers, Commit(h) PROVE BleedInv'
<1> SUFFICES ASSUME boots = 0 PROVE BleedInv'
  BY DEF Commit, BleedInv
<1> DEFINE s == req[h].style
           e == Committed(h)
           row == [signature |-> sources[s], def |-> e.def, generation |-> e.generation]
           r == [req[h] EXCEPT !.pc = "persist", !.got = e.def,
                    !.row = IF sources[s] = NoDef THEN NoEntry ELSE row]
<1>1. req[h].pc = "commit" /\ push.pc = "idle"
  BY DEF Commit, ConfigUpdateFree
<1>2. CASE e = NoEntry
  <2>1. OnlyReq /\ End(h)
    BY <1>2 DEF Commit, OnlyReq
  <2> QED BY <2>1, StoredOfOnlyReq, EndBleeds
<1>3. CASE e # NoEntry
  <2>1. /\ style_state' = [style_state EXCEPT ![s] = e] /\ Set(h, r)
        /\ UNCHANGED <<sources, generation, learned_styles, tiles, push, writes, boots>>
    BY <1>3 DEF Commit, disk
  <2>2. s \in StyleIds /\ style_state \in [StyleIds -> Entries \cup {NoEntry}]
    BY <1>1, ReqFacts DEF ReqOK, StylesInv, StylesTypeOK
  <2>3. r.pc = "persist" /\ r.style = s /\ r.existing = req[h].existing /\ r.learned = req[h].learned
        /\ r.row \in {NoEntry, row}
    BY ReqFacts DEF Requests
  <2>4. row.def = e.def /\ row.generation = e.generation
    OBVIOUS
  <2>5. \A g, d : Of(e, g, d) => Bears(s, g, d) \/ Born(s, g, d)
    BY <1>1, <1>3, CommittedMeaning
  <2> HIDE DEF e, row, r
  <2>6. ASSUME NEW z \in StyleIds, NEW g \in Nat, NEW d \in Defs, Stored(z, g, d)'
        PROVE  Bears(z, g, d) \/ Born(z, g, d)
    <3>1. CASE z = s /\ Of(e, g, d)
      BY <2>5, <3>1
    <3>2. CASE Stored(z, g, d)
      BY <3>2 DEF Bears
    <3>3. z = s => style_state'[z] = e
      BY <2>1, <2>2
    <3>4. z # s => style_state'[z] = style_state[z]
      BY <2>1, <2>2
    <3> QED BY <2>1, <2>6, <3>1, <3>2, <3>3, <3>4 DEF Stored, Of
  <2>7. ASSUME NEW z \in StyleIds, NEW g \in Nat, NEW d \in Defs, Carried(r, z, g, d)
        PROVE  Bears(z, g, d) \/ Born(z, g, d)
    <3>1. CASE Of(r.row, g, d)
      <4>1. z = s /\ Of(e, g, d)
        BY <1>3, <2>3, <2>4, <2>7, <3>1 DEF Of, Carried
      <4> QED BY <2>5, <4>1
    <3>2. CASE Carried(req[h], z, g, d)
      BY <3>2 DEF Bears
    <3> QED BY <2>3, <2>7, <3>1, <3>2 DEF Carried
  <2>8. Knows(r) /\ Matches(h, r)
    BY <2>3 DEF Knows, Matches
  <2> QED BY <2>1, <2>6, <2>7, <2>8, HandlerMeaning
<1> QED BY <1>2, <1>3

LEMMA PersistBleeds == ASSUME StylesInv, BleedInv, NEW h \in Handlers, Persist(h) PROVE BleedInv'
<1> DEFINE s == req[h].style
<1>1. /\ Give(h, req[h].got)
      /\ UNCHANGED <<sources, generation, style_state, tiles, push, writes, boots>>
      /\ \/ req[h].row # NoEntry /\ learned_styles' = [learned_styles EXCEPT ![s] = req[h].row]
         \/ UNCHANGED learned_styles
  BY DEF Persist, StoreRow
<1>2. learned_styles \in [StyleIds -> Rows \cup {NoEntry}]
  BY DEF StylesInv, StylesTypeOK
<1>3. ASSUME NEW z \in StyleIds, NEW g \in Nat, NEW d \in Defs, Stored(z, g, d)' PROVE Bears(z, g, d)
  <2>1. learned_styles'[z] = learned_styles[z] \/ (z = s /\ learned_styles'[z] = req[h].row)
    BY <1>1, <1>2
  <2> QED BY <1>1, <1>3, <2>1 DEF Stored, Of, Bears, Carried
<1> QED BY <1>1, <1>3, GiveBleeds

LEMMA ReadLearnedBleeds ==
    ASSUME StylesInv, BleedInv, NEW h \in Handlers, ReadLearned(h) PROVE BleedInv'
<1> DEFINE s == req[h].style
           e == style_state[s]
<1>1. OnlyReq
  BY DEF ReadLearned
<1>2. CASE End(h)
  BY <1>1, <1>2, StoredOfOnlyReq, EndBleeds
<1>3. ASSUME NEW r, Set(h, r), r.style = s, r.existing = req[h].existing, r.row = req[h].row,
             r.learned = e, (r.pc = "answered" /\ Doc(h)) \/ (r.pc = "lookup" /\ e # NoEntry)
      PROVE  BleedInv'
  <2>1. \A z, g, d : Carried(r, z, g, d) => Bears(z, g, d)
    <3> TAKE z, g, d
    <3>1. z = s /\ Of(e, g, d) => Stored(z, g, d)
      BY DEF Stored
    <3> HIDE DEF e
    <3> QED BY <1>3, <3>1 DEF Carried, Bears
  <2>2. Knows(r) /\ Matches(h, r)
    BY <1>3 DEF Knows, Matches
  <2> QED BY <1>1, <1>3, <2>1, <2>2, CarriedFrame
<1> DEFINE answer == [req[h] EXCEPT !.pc = "answered", !.learned = e, !.out = req[h].got]
           look == [req[h] EXCEPT !.pc = "lookup", !.learned = e]
<1>4. CASE Set(h, answer) /\ Doc(h)
  <2>1. answer.style = s /\ answer.existing = req[h].existing /\ answer.row = req[h].row
        /\ answer.learned = e /\ answer.pc = "answered"
    BY ReqFacts DEF Requests
  <2> HIDE DEF answer, e
  <2> QED BY <1>3, <1>4, <2>1
<1>5. CASE Set(h, look) /\ e # NoEntry
  <2>1. look.style = s /\ look.existing = req[h].existing /\ look.row = req[h].row
        /\ look.learned = e /\ look.pc = "lookup"
    BY ReqFacts DEF Requests
  <2> HIDE DEF look, e
  <2> QED BY <1>3, <1>5, <2>1
<1> QED BY <1>2, <1>4, <1>5 DEF ReadLearned

\* What the cache holds under a handler's key is of the definition the handler has.
LEMMA CachedMatches ==
    ASSUME StylesInv, BleedInv, boots = 0, NEW h \in Handlers, req[h].pc \in {"lookup", "fetch"}
    PROVE  Cached(h) = NoDef \/ Cached(h) = req[h].learned.def
<1> DEFINE s == req[h].style
           rows == {t \in tiles : t.style = s /\ t.generation = req[h].learned.generation}
<1>1. s \in StyleIds /\ req[h].learned \in Entries /\ req[h].learned # NoEntry
  BY ReqFacts DEF ReqOK, BleedInv, Matches
<1>2. CASE rows = {}
  BY <1>2 DEF Cached
<1>3. CASE rows # {}
  <2>1. PICK t \in rows : Cached(h) = t.def
    BY <1>3 DEF Cached
  <2>2. t \in Tiles /\ t.style = s /\ t.generation = req[h].learned.generation /\ t \in tiles
    BY <2>1 DEF StylesInv, StylesTypeOK
  <2>3. t.def \in Defs /\ t.generation \in Nat /\ req[h].learned.def \in Defs
    BY <1>1, <2>2 DEF Tiles, Entries
  <2>4. Bears(s, t.generation, t.def)
    BY <2>2 DEF Bears, Stored
  <2>5. Bears(s, t.generation, req[h].learned.def)
    BY <1>1, <2>2 DEF Bears, Carried, Of
  <2>6. OneMeaning
    BY DEF BleedInv
  <2>7. t.def = req[h].learned.def
    BY <1>1, <2>3, <2>4, <2>5, <2>6 DEF OneMeaning
  <2> QED BY <2>1, <2>7
<1> QED BY <1>2, <1>3

LEMMA AssetHitBleeds == ASSUME StylesInv, BleedInv, NEW h \in Handlers, AssetHit(h) PROVE BleedInv'
<1> DEFINE r == [req[h] EXCEPT !.pc = "answered", !.out = Cached(h)]
<1>1. OnlyReq /\ Set(h, r) /\ req[h].pc = "lookup" /\ Cached(h) # NoDef
  BY DEF AssetHit
<1>2. r.pc = "answered" /\ r.style = req[h].style /\ r.existing = req[h].existing /\ r.row = req[h].row
      /\ r.learned = req[h].learned /\ r.out = Cached(h)
  BY ReqFacts DEF Requests
<1> HIDE DEF r
<1>3. boots = 0 => Knows(r) /\ Matches(h, r)
  BY <1>1, <1>2, CachedMatches DEF Knows, Matches
<1> QED BY <1>1, <1>2, <1>3, CopyCarries, CarriedFrame

LEMMA AssetFetchBleeds ==
    ASSUME StylesInv, BleedInv, NEW h \in Handlers, NEW a \in BOOLEAN, AssetFetch(h, a) PROVE BleedInv'
<1> DEFINE r == [req[h] EXCEPT !.pc = "fetch"]
<1>1. OnlyReq /\ req[h].pc = "lookup"
  BY DEF AssetFetch
<1>2. CASE End(h)
  BY <1>1, <1>2, StoredOfOnlyReq, EndBleeds
<1>3. CASE Set(h, r)
  <2>1. r.pc = "fetch" /\ r.style = req[h].style /\ r.existing = req[h].existing /\ r.row = req[h].row
        /\ r.learned = req[h].learned
    BY ReqFacts DEF Requests
  <2>2. Set(h, r)
    BY <1>3
  <2> HIDE DEF r
  <2>3. boots = 0 => Knows(r) /\ Matches(h, r)
    BY <1>1, <2>1 DEF Knows, Matches, BleedInv
  <2> QED BY <1>1, <2>1, <2>2, <2>3, CopyCarries, CarriedFrame
<1> QED BY <1>2, <1>3 DEF AssetFetch

\* A stored body is of the definition of the handler, under its own generation.
LEMMA AssetFetchedBleeds ==
    ASSUME StylesInv, BleedInv, NEW h \in Handlers, AssetFetched(h) PROVE BleedInv'
<1> SUFFICES ASSUME boots = 0 PROVE BleedInv'
  BY DEF AssetFetched, BleedInv
<1>1. req[h].pc \in {"lookup", "fetch"} /\ req[h].learned # NoEntry
  BY DEF AssetFetched, BleedInv, Matches
<1>2. PICK d \in {req[h].learned.def, NoDef} : AssetAnswer(h, d) /\ (StoreTile(h, d) \/ UNCHANGED tiles)
  BY <1>1, CachedMatches DEF AssetFetched
<1>3. UNCHANGED <<sources, generation, style_state, learned_styles, push, writes, boots>>
  BY DEF AssetFetched
<1>4. ASSUME NEW z \in StyleIds, NEW g \in Nat, NEW e \in Defs, Stored(z, g, e)' PROVE Bears(z, g, e)
  <2>1. CASE \E t \in tiles' : t.style = z /\ t.generation = g /\ t.def = e
    <3>1. PICK t \in tiles' : t.style = z /\ t.generation = g /\ t.def = e
      BY <2>1
    <3>2. CASE t \in tiles
      BY <3>1, <3>2 DEF Bears, Stored
    <3>3. CASE t \notin tiles
      <4>1. t = [style |-> req[h].style, generation |-> req[h].learned.generation, def |-> d] /\ d # NoDef
        BY <1>2, <3>1, <3>3 DEF StoreTile
      <4>2. z = req[h].style /\ g = req[h].learned.generation /\ e = req[h].learned.def
        BY <1>2, <3>1, <4>1
      <4> QED BY <1>1, <4>2 DEF Bears, Carried, Of
    <3> QED BY <3>2, <3>3
  <2>2. CASE Stored(z, g, e)
    BY <2>2 DEF Bears
  <2> QED BY <1>3, <1>4, <2>1, <2>2 DEF Stored, Of
<1>5. CASE End(h)
  BY <1>3, <1>4, <1>5, EndBleeds
<1>6. CASE d # NoDef
  <2> DEFINE r == [req[h] EXCEPT !.pc = "answered", !.out = d]
  <2>1. r.pc = "answered" /\ r.style = req[h].style /\ r.existing = req[h].existing /\ r.row = req[h].row
        /\ r.learned = req[h].learned /\ r.out = d
    BY ReqFacts DEF Requests
  <2>2. Set(h, r)
    BY <1>2, <1>6 DEF AssetAnswer
  <2> HIDE DEF r
  <2>3. Knows(r) /\ Matches(h, r)
    BY <1>2, <1>6, <2>1 DEF Knows, Matches
  <2>4. \A z, g, e : Carried(r, z, g, e) => Bears(z, g, e)
    BY <2>1, CopyCarries
  <2> QED BY <1>3, <1>4, <2>2, <2>3, <2>4, HandlerMeaning
<1> QED BY <1>2, <1>5, <1>6 DEF AssetAnswer

LEMMA DropBleeds == ASSUME StylesInv, BleedInv, NEW h \in Handlers, Drop(h) PROVE BleedInv'
<1>1. /\ End(h) /\ UNCHANGED <<sources, generation, style_state, learned_styles, tiles, push, boots>>
      /\ \/ UNCHANGED writes
         \/ req[h].row # NoEntry /\ writes' = writes \cup {[style |-> req[h].style, row |-> req[h].row]}
  BY DEF Drop, disk
<1>2. ASSUME NEW z \in StyleIds, NEW g \in Nat, NEW d \in Defs, Stored(z, g, d)' PROVE Bears(z, g, d)
  <2>1. CASE \E w \in writes' : w.style = z /\ w.row.generation = g /\ w.row.def = d
    <3>1. PICK w \in writes' : w.style = z /\ w.row.generation = g /\ w.row.def = d
      BY <2>1
    <3>2. CASE w \in writes
      BY <3>1, <3>2 DEF Bears, Stored
    <3>3. CASE w \notin writes
      <4>1. w = [style |-> req[h].style, row |-> req[h].row] /\ req[h].row # NoEntry
        BY <1>1, <3>1, <3>3
      <4> QED BY <3>1, <4>1 DEF Bears, Carried, Of
    <3> QED BY <3>2, <3>3
  <2>2. CASE Stored(z, g, d)
    BY <2>2 DEF Bears
  <2> QED BY <1>1, <1>2, <2>1, <2>2 DEF Stored, Of
<1> QED BY <1>1, <1>2, EndBleeds

\* Steps that change no handler: meanings may only disappear from what is stored.
LEMMA StoredMeaning ==
    ASSUME StylesInv, BleedInv, UNCHANGED <<req, boots>>, generation' \in {generation, generation + 1},
           sources' = sources,
           \A s \in StyleIds, g \in Nat, d \in Defs : Stored(s, g, d)' => Stored(s, g, d)
    PROVE  BleedInv'
<1>1. \A s \in StyleIds, g \in Nat, d \in Defs : Bears(s, g, d)' => Bears(s, g, d)
  BY DEF Bears, Carried, Of
<1>2. ASSUME boots' = 0, NEW o \in Handlers PROVE Knows(req[o])' /\ Matches(o, req[o])'
  <2>1. Knows(req[o]) /\ Matches(o, req[o])
    BY <1>2 DEF BleedInv
  <2>2. req[o].gen \in Nat /\ generation \in Nat
        /\ (req[o].pc \in {"learn", "commit"} => req[o].gen <= generation)
    BY ReqFacts DEF ReqOK, StylesInv, StylesTypeOK
  <2>3. req[o].pc \in {"learn", "commit"} /\ req[o].gen = generation' => req[o].gen = generation
    BY <2>2
  <2> QED BY <2>1, <2>3 DEF Knows, Matches, Doc
<1> QED BY <1>1, <1>2, MeaningFrame

LEMMA LateWriteBleeds == ASSUME StylesInv, BleedInv, NEW w \in writes, LateWrite(w) PROVE BleedInv'
<1>1. /\ learned_styles' = [learned_styles EXCEPT ![w.style] = w.row] /\ writes' = writes \ {w}
      /\ UNCHANGED <<sources, generation, style_state, tiles, push, req, boots>>
  BY DEF LateWrite, StoreRow
<1>2. learned_styles \in [StyleIds -> Rows \cup {NoEntry}]
  BY DEF StylesInv, StylesTypeOK
<1>3. ASSUME NEW z \in StyleIds, NEW g \in Nat, NEW d \in Defs, Stored(z, g, d)' PROVE Stored(z, g, d)
  <2>1. learned_styles'[z] = learned_styles[z] \/ (z = w.style /\ learned_styles'[z] = w.row)
    BY <1>1, <1>2
  <2> QED BY <1>1, <1>3, <2>1 DEF Stored, Of
<1> QED BY <1>1, <1>3, StoredMeaning

LEMMA PushStartBleeds ==
    ASSUME StylesInv, BleedInv, NEW body \in Catalogs, PushStart(body) PROVE BleedInv'
<1>1. /\ push' = [pc |-> "enforce", body |-> body, rows |-> NoEntries] /\ generation' = generation + 1
      /\ UNCHANGED <<sources, style_state, learned_styles, tiles, req, writes, boots>>
  BY DEF PushStart, IdlePush, disk
<1>2. \A s \in StyleIds : push'.rows[s] = NoEntry
  BY <1>1 DEF NoEntries
<1> QED BY <1>1, <1>2, StoredMeaning DEF Stored, Of

LEMMA PushEndsBleed ==
    ASSUME StylesInv, BleedInv, PushRefused \/ PushPublish PROVE BleedInv'
<1>1. /\ push' = IdlePush /\ generation' = generation + 1
      /\ UNCHANGED <<sources, style_state, learned_styles, tiles, req, writes, boots>>
  BY DEF PushRefused, PushPublish, disk
<1>2. \A s \in StyleIds : push'.rows[s] = NoEntry
  BY <1>1 DEF IdlePush, NoEntries
<1> QED BY <1>1, <1>2, StoredMeaning DEF Stored, Of

\* The catalog is swapped under an odd generation, which no entry carries.
LEMMA PushSwapBleeds == ASSUME StylesInv, BleedInv, PushSwap PROVE BleedInv'
<1>1. /\ push' = [push EXCEPT !.pc = "reconcile"]
      /\ UNCHANGED <<generation, style_state, learned_styles, tiles, writes, boots>>
      /\ ~Even(generation)
  BY DEF PushSwap, disk, StylesInv, PushInv
<1>2. push'.rows = push.rows
  BY <1>1 DEF StylesInv, StylesTypeOK
<1>3. ASSUME NEW o \in Handlers
      PROVE  /\ req'[o].pc = req[o].pc /\ req'[o].style = req[o].style /\ req'[o].gen = req[o].gen
             /\ req'[o].def = req[o].def /\ req'[o].existing = req[o].existing /\ req'[o].row = req[o].row
             /\ req'[o].learned = req[o].learned /\ req'[o].out = req[o].out
  BY ReqFacts DEF PushSwap, Requests
<1>4. \A s \in StyleIds, g \in Nat, d \in Defs : Bears(s, g, d)' => Bears(s, g, d)
  BY <1>1, <1>2, <1>3 DEF Bears, Stored, Carried, Of
<1>5. ASSUME boots' = 0, NEW o \in Handlers PROVE Knows(req[o])' /\ Matches(o, req[o])'
  <2>1. Knows(req[o]) /\ Matches(o, req[o])
    BY <1>1, <1>5 DEF BleedInv
  <2> QED BY <1>1, <1>3, <2>1 DEF Knows, Matches, Doc
<1> QED BY <1>1, <1>4, <1>5, MeaningFrame

LEMMA PushReconcileBleeds == ASSUME StylesInv, BleedInv, PushReconcile PROVE BleedInv'
<1>1. /\ learned_styles' = Reconciled /\ push'.rows = Reconciled
      /\ UNCHANGED <<sources, generation, style_state, tiles, req, writes, boots>>
  BY DEF PushReconcile, StylesInv, StylesTypeOK
<1>2. \A s \in StyleIds : Reconciled[s] \in {learned_styles[s], NoEntry}
  BY DEF Reconciled
<1> QED BY <1>1, <1>2, StoredMeaning DEF Stored, Of

LEMMA PushReconcileFailsBleeds == ASSUME StylesInv, BleedInv, PushReconcileFails PROVE BleedInv'
<1>1. /\ \A s \in StyleIds : style_state'[s] = NoEntry
      /\ push'.rows = push.rows
      /\ UNCHANGED <<sources, generation, learned_styles, tiles, req, writes, boots>>
  BY DEF PushReconcileFails, NoEntries, disk, StylesInv, StylesTypeOK
<1> QED BY <1>1, StoredMeaning DEF Stored, Of

\* A restored entry keeps the definition and the cache generation of its row.
LEMMA PushRestoreBleeds ==
    ASSUME StylesInv, BleedInv, NEW invalid \in SUBSET StyleIds, PushRestore(invalid) PROVE BleedInv'
<1>1. UNCHANGED <<sources, generation, tiles, req, writes, boots>>
  BY DEF PushRestore
<1>2. ASSUME NEW s \in StyleIds
      PROVE  /\ \/ style_state'[s] = NoEntry
                \/ /\ push.rows[s] # NoEntry
                   /\ style_state'[s].def = push.rows[s].def
                   /\ style_state'[s].generation = push.rows[s].generation
             /\ learned_styles'[s] \in {learned_styles[s], NoEntry}
             /\ push'.rows[s] = NoEntry
  BY DEF PushRestore, IntoLive, NoEntries, StylesInv, StylesTypeOK
<1>3. ASSUME NEW s \in StyleIds, NEW g \in Nat, NEW d \in Defs, Stored(s, g, d)' PROVE Stored(s, g, d)
  BY <1>1, <1>2, <1>3 DEF Stored, Of
<1> QED BY <1>1, <1>3, StoredMeaning

LEMMA RestartBleeds == ASSUME StylesInv, Restart PROVE BleedInv'
<1>1. boots' # 0
  BY DEF Restart, StylesInv, StylesTypeOK
<1> QED BY <1>1 DEF BleedInv

LEMMA StutterBleeds == ASSUME StylesInv, BleedInv, UNCHANGED stylesVars PROVE BleedInv'
<1>1. UNCHANGED <<sources, generation, style_state, learned_styles, tiles, push, req, writes, boots>>
  BY DEF stylesVars, disk
<1> QED BY <1>1, StoredMeaning DEF Stored, Of

LEMMA InitBleeds == StylesInit => BleedInv
<1> SUFFICES ASSUME StylesInit PROVE BleedInv
  OBVIOUS
<1>1. \A h \in Handlers : Knows(req[h]) /\ Matches(h, req[h])
  BY DEF StylesInit, IdleReq, Knows, Matches
<1>2. \A s \in StyleIds, g \in Nat, d \in Defs : ~Bears(s, g, d)
  BY DEF StylesInit, NoEntries, IdlePush, IdleReq, Bears, Stored, Carried, Of
<1> QED BY <1>1, <1>2 DEF BleedInv, Meant, OneMeaning

LEMMA NextBleeds == StylesInv /\ BleedInv /\ [StylesNext]_stylesVars => BleedInv'
<1> SUFFICES ASSUME StylesInv, BleedInv, [StylesNext]_stylesVars PROVE BleedInv'
  OBVIOUS
<1>1. CASE \E body \in Catalogs : PushStart(body)
  BY <1>1, PushStartBleeds
<1>2. CASE PushStep
  BY <1>2, PushEndsBleed, PushSwapBleeds, PushReconcileBleeds, PushReconcileFailsBleeds, PushRestoreBleeds
     DEF PushStep
<1>3. CASE \E h \in Handlers : (\E s \in StyleIds : Request(h, s)) \/ HandlerStep(h) \/ GiveUp(h) \/ Drop(h)
  <2>1. PICK h \in Handlers : (\E s \in StyleIds : Request(h, s)) \/ HandlerStep(h) \/ GiveUp(h) \/ Drop(h)
    BY <1>3
  <2>2. CASE HandlerStep(h)
    BY <2>2, HitBleeds, MissBleeds, BeginLearnBleeds, LearnedBleeds, LearnErrsBleeds, CommitBleeds,
       PersistBleeds, ReadLearnedBleeds, AssetHitBleeds, AssetFetchBleeds, AssetFetchedBleeds, EndsBleed
       DEF HandlerStep
  <2>3. CASE (\E s \in StyleIds : Request(h, s)) \/ GiveUp(h) \/ Drop(h)
    BY <2>3, RequestBleeds, EndsBleed, DropBleeds
  <2> QED BY <2>1, <2>2, <2>3
<1>4. CASE \E w \in writes : LateWrite(w)
  BY <1>4, LateWriteBleeds
<1>5. CASE Restart
  BY <1>5, RestartBleeds
<1>6. CASE UNCHANGED stylesVars
  BY <1>6, StutterBleeds
<1> QED BY <1>1, <1>2, <1>3, <1>4, <1>5, <1>6 DEF StylesNext

(* In one life of the process no sub-resource is answered with the bytes   *)
(* of another definition than the one it was asked under: a cache          *)
(* generation never stands for two definitions of a style, however many    *)
(* pushes, refusals, dropped handlers and late stores came in between.     *)
THEOREM NoBleed == StylesSpec => []NoBleedInOneLife
<1>1. StylesInv /\ BleedInv => NoBleedInOneLife
  BY DEF BleedInv, Matches, NoBleedInOneLife, AssetsMatch
<1>2. StylesSpec => []BleedInv
  <2>1. StylesInit => BleedInv
    BY InitBleeds
  <2> QED BY <2>1, StylesInvariant, NextBleeds, PTL DEF StylesSpec
<1> QED BY <1>1, <1>2, StylesInvariant, PTL

=============================================================================

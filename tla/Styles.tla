------------------------------- MODULE Styles -------------------------------
(***************************************************************************)
(* The learned styles of the container (style.rs, the learned_styles table *)
(* of cache.rs) and the configuration route that replaces the catalog they *)
(* come from (routes.rs), with request handlers, a push and process        *)
(* restarts interleaving at every await.                                   *)
(*                                                                         *)
(* A style's definition (its catalog entry) is a value; its signature is   *)
(* the definition itself, since equal signatures mean equal entries.  A    *)
(* learned document, its templates and the sub-resources fetched through   *)
(* them are told apart by the definition they were learned from, and one   *)
(* sub-resource stands for all those of a style under a cache generation.  *)
(* Whether something is inside its freshness window is a free choice:      *)
(* time passes at will.  What learn_style makes of a document is           *)
(* StyleDocument.tla.                                                      *)
(***************************************************************************)
EXTENDS Naturals, FiniteSets

CONSTANTS
    StyleIds,        \* ids a catalog may give to a style source
    Defs, NoDef,     \* definitions, and no style source of that id
    DocHandlers, AssetHandlers,   \* requests in progress: documents, sub-resources
    NoEntry,         \* no learned entry, no row
    MaxLearnedStyles,  \* MAX_LEARNED_STYLE_ENTRIES
    MaxPushes,       \* bound on configuration pushes
    MaxBoots,        \* bound on restarts
    MaxWrites        \* bound on stores that outlive their handlers

ASSUME StylesAssumption ==
    /\ NoDef \notin Defs /\ DocHandlers \cap AssetHandlers = {}
    /\ MaxLearnedStyles \in Nat /\ MaxPushes \in Nat /\ MaxBoots \in Nat /\ MaxWrites \in Nat

Handlers == DocHandlers \cup AssetHandlers

VARIABLES
    sources,         \* AppState.sources: the catalog
    generation,      \* AppState.config_generation
    style_state,     \* AppState.style_state
    learned_styles,  \* the learned_styles table
    tiles,           \* cached sub-resources, keyed style:{generation}:{source}
    push,            \* the configuration handler
    req,             \* the style handlers
    writes,          \* learned-style stores that outlived their handler
    pushes, boots    \* pushes and restarts so far

disk == <<learned_styles, tiles>>
stylesVars == <<sources, generation, style_state, disk, push, req, writes, pushes, boots>>

Catalogs == [StyleIds -> Defs \cup {NoDef}]
Entries == [def : Defs, config_generation : Nat, generation : Nat]
Rows == [signature : Defs, def : Defs, generation : Nat]
Tiles == [style : StyleIds, generation : Nat, def : Defs]

NoStyles == [s \in StyleIds |-> NoDef]
NoEntries == [s \in StyleIds |-> NoEntry]
Even(n) == n % 2 = 0

IdlePush == [pc |-> "idle", body |-> NoStyles, rows |-> NoEntries]
PushPcs == {"idle", "enforce", "reconcile", "restore", "publish"}

(* A handler: the generation it loaded, the definition it read, the entry  *)
(* it found under that generation, the document it was given, the entry it *)
(* answers with, what it answers, and (history) every definition its style *)
(* had since the request came in.                                          *)
IdleReq == [pc |-> "idle", style |-> NoDef, gen |-> 0,
            def |-> NoDef, existing |-> NoEntry, refresh |-> FALSE, row |-> NoEntry,
            got |-> NoDef, learned |-> NoEntry, out |-> NoDef, seen |-> {}]
Learning == {"learn", "commit", "persist"}
ReqPcs == {"idle", "load", "wait", "read", "lookup", "fetch", "answered"} \cup Learning

Requests ==
    [pc : ReqPcs, style : StyleIds \cup {NoDef}, gen : Nat, def : Defs \cup {NoDef},
     existing : Entries \cup {NoEntry}, refresh : BOOLEAN, row : Rows \cup {NoEntry},
     got : Defs \cup {NoDef}, learned : Entries \cup {NoEntry}, out : Defs \cup {NoDef},
     seen : SUBSET Defs]

(* config_update is held by the push from its start to its end, and by a   *)
(* learner from its insert until its row is stored.                        *)
ConfigUpdateFree == push.pc = "idle" /\ \A h \in Handlers : req[h].pc # "persist"

StylesInit ==
    /\ sources = NoStyles /\ generation = 0 /\ style_state = NoEntries
    /\ learned_styles = NoEntries /\ tiles = {}
    /\ push = IdlePush /\ req = [h \in Handlers |-> IdleReq] /\ writes = {}
    /\ pushes = 0 /\ boots = 0

-----------------------------------------------------------------------------
(* POST /config.                                                           *)

\* A body the validation lets through; any other is refused and changes nothing.
Accepted(body) == Cardinality({s \in StyleIds : body[s] # NoDef}) <= MaxLearnedStyles

PushStart(body) ==
    /\ ConfigUpdateFree /\ pushes < MaxPushes /\ Accepted(body)
    /\ generation' = generation + 1
    /\ push' = [IdlePush EXCEPT !.pc = "enforce", !.body = body]
    /\ pushes' = pushes + 1
    /\ UNCHANGED <<sources, style_state, disk, req, writes, boots>>

\* The cap is below the pinned bytes, or SQLite or the blocking task failed.
PushRefused ==
    /\ push.pc = "enforce"
    /\ generation' = generation + 1 /\ push' = IdlePush
    /\ UNCHANGED <<sources, style_state, disk, req, writes, pushes, boots>>

PushSwap ==
    /\ push.pc = "enforce"
    /\ sources' = push.body
    /\ push' = [push EXCEPT !.pc = "reconcile"]
    /\ req' = [h \in Handlers |->
          IF req[h].pc = "idle" THEN req[h]
          ELSE [req[h] EXCEPT !.seen = @ \cup ({push.body[req[h].style]} \ {NoDef})]]
    /\ UNCHANGED <<generation, style_state, disk, writes, pushes, boots>>

\* Mutant: rows are kept by the source's id.
Reconciled_ById ==
    [s \in StyleIds |-> IF sources[s] # NoDef THEN learned_styles[s] ELSE NoEntry]

\* Keep the rows whose signature is the catalog's, delete all others.
Reconciled ==
    [s \in StyleIds |->
        IF learned_styles[s] # NoEntry /\ learned_styles[s].signature = sources[s]
        THEN learned_styles[s] ELSE NoEntry]

PushReconcile ==
    /\ push.pc = "reconcile"
    /\ learned_styles' = Reconciled
    /\ push' = [push EXCEPT !.pc = "restore", !.rows = Reconciled]
    /\ UNCHANGED <<sources, generation, style_state, tiles, req, writes, pushes, boots>>

\* reconcile_learned_styles failed: nothing is known, the push goes on.
PushReconcileFails ==
    /\ push.pc = "reconcile"
    /\ style_state' = NoEntries
    /\ push' = [push EXCEPT !.pc = "publish"]
    /\ UNCHANGED <<sources, generation, disk, req, writes, pushes, boots>>

IntoLive(row) ==
    [def |-> row.def, config_generation |-> generation + 1, generation |-> row.generation]

(* invalid: the rows that this version does not read or does not accept    *)
(* (StyleDocument.tla); they are deleted, if the delete succeeds.          *)
PushRestore(invalid) ==
    /\ push.pc = "restore"
    /\ invalid \subseteq {s \in StyleIds : push.rows[s] # NoEntry}
    /\ style_state' = [s \in StyleIds |->
          IF push.rows[s] = NoEntry \/ s \in invalid THEN NoEntry ELSE IntoLive(push.rows[s])]
    /\ \/ learned_styles' = [s \in StyleIds |-> IF s \in invalid THEN NoEntry ELSE learned_styles[s]]
       \/ invalid # {} /\ UNCHANGED learned_styles
    /\ push' = [push EXCEPT !.pc = "publish", !.rows = NoEntries]
    /\ UNCHANGED <<sources, generation, tiles, req, writes, pushes, boots>>

PushPublish ==
    /\ push.pc = "publish"
    /\ generation' = generation + 1 /\ push' = IdlePush
    /\ UNCHANGED <<sources, style_state, disk, req, writes, pushes, boots>>

-----------------------------------------------------------------------------
(* The style handlers.                                                     *)

Doc(h) == h \in DocHandlers
Set(h, r) == req' = [req EXCEPT ![h] = r]
\* fetch_and_learn returns document d; a sub-resource only asks whether it did.
Give(h, d) ==
    Set(h, [IdleReq EXCEPT !.pc = "read", !.style = req[h].style,
                !.seen = req[h].seen, !.got = IF Doc(h) THEN d ELSE NoDef])
End(h) == Set(h, IdleReq)
OnlyReq == UNCHANGED <<sources, generation, style_state, disk, push, writes, pushes, boots>>

\* GET /style/{source} (404 unless the catalog has it), or a sub-resource of it.
Request(h, s) ==
    /\ req[h].pc = "idle" /\ (Doc(h) => sources[s] # NoDef)
    /\ Set(h, [IdleReq EXCEPT !.pc = "load", !.style = s, !.seen = {sources[s]} \ {NoDef}])
    /\ OnlyReq

\* Mutant: an entry of any generation will do.
OfGeneration_Any(s, g) == style_state[s]

\* fresh_learned_document: an entry of generation g.
OfGeneration(s, g) ==
    IF style_state[s] # NoEntry /\ style_state[s].config_generation = g
    THEN style_state[s] ELSE NoEntry

(* Load the generation and look for a fresh entry of it: a hit, here or    *)
(* again under the flight.  ensure_style_learned looks once for itself,    *)
(* whatever the parity, before it calls fetch_and_learn; that miss and a   *)
(* second look are one later look.  The load and the look are one step: a  *)
(* push between them leaves no entry of the generation, a miss either way. *)
Hit(h) ==
    LET s == req[h].style
        entry == OfGeneration(s, IF req[h].pc = "load" THEN generation ELSE req[h].gen)
    IN  /\ req[h].pc \in {"load", "wait"} /\ entry # NoEntry
        /\ (req[h].pc = "load" /\ Doc(h)) => Even(generation)
        /\ Give(h, entry.def)
        /\ OnlyReq

Miss(h) ==
    /\ req[h].pc = "load"
    /\ IF Even(generation) THEN Set(h, [req[h] EXCEPT !.pc = "wait", !.gen = generation]) ELSE End(h)
    /\ OnlyReq

\* Mutant: a waiting handler counts as the holder of the flight.
FlightFree_Waiters(h) ==
    \A o \in Handlers \ {h} :
        ~(req[o].pc \in Learning \cup {"wait"} /\ req[o].style = req[h].style /\ req[o].gen = req[h].gen)

(* The flight is taken, the entry looked up again (Hit), and learn_style *)
(* reads the definition and the entry.  A push between those two reads     *)
(* changes the generation, which drops the entry here and the commit below.*)
FlightFree(h) ==
    \A o \in Handlers \ {h} :
        ~(req[o].pc \in Learning /\ req[o].style = req[h].style /\ req[o].gen = req[h].gen)

BeginLearn(h) ==
    /\ req[h].pc = "wait" /\ FlightFree(h)
    /\ IF sources[req[h].style] = NoDef
       THEN End(h)
       ELSE Set(h, [req[h] EXCEPT !.pc = "learn", !.def = sources[req[h].style],
                                  !.existing = OfGeneration(req[h].style, req[h].gen)])
    /\ OnlyReq

\* The upstream gave a usable document, or said the known one is unmodified.
Learned(h, unmodified) ==
    /\ req[h].pc = "learn" /\ (unmodified => req[h].existing # NoEntry)
    /\ Set(h, [req[h] EXCEPT !.pc = "commit", !.refresh = unmodified])
    /\ OnlyReq

\* The request failed: the known document is served on, if there is one.
LearnErrs(h) ==
    /\ req[h].pc = "learn"
    /\ IF req[h].existing = NoEntry THEN End(h)
       ELSE Give(h, req[h].existing.def)
    /\ OnlyReq

\* The flight table is full, or the document is one learn_style refuses: 502.
GiveUp(h) == req[h].pc \in {"wait", "learn"} /\ End(h) /\ OnlyReq

\* Mutant: every style keeps its assets under one generation.
CacheGeneration_Fixed(h) == 0

\* The cache generation of a new entry: the known entry's, else this one.
CacheGeneration(h) ==
    IF req[h].existing # NoEntry THEN req[h].existing.generation ELSE req[h].gen

\* Mutant: the generation is not compared again under config_update.
Committed_Unchecked(h) ==
    LET r == req[h] IN
    IF r.refresh THEN style_state[r.style]
    ELSE [def |-> r.def, config_generation |-> generation, generation |-> CacheGeneration(h)]

\* Mutant: the entry takes the generation the handler began with, unchecked.
Committed_OldGeneration(h) ==
    LET r == req[h] IN
    IF r.refresh THEN OfGeneration(r.style, r.gen)
    ELSE [def |-> r.def, config_generation |-> r.gen, generation |-> CacheGeneration(h)]

\* The entry Commit leaves in style_state, or NoEntry where learn_style gives up.
Committed(h) ==
    LET r == req[h] live == OfGeneration(r.style, r.gen) IN
    CASE generation # r.gen -> NoEntry
      [] generation = r.gen /\ r.refresh -> live
      [] generation = r.gen /\ ~r.refresh ->
            IF style_state[r.style] = NoEntry
                 /\ Cardinality({s \in StyleIds : style_state[s] # NoEntry}) >= MaxLearnedStyles
            THEN NoEntry
            ELSE [def |-> r.def, config_generation |-> r.gen, generation |-> CacheGeneration(h)]

(* Under config_update: insert the entry and name the row to store, with   *)
(* the signature of the catalog's current definition.                      *)
Commit(h) ==
    LET entry == Committed(h) s == req[h].style IN
    /\ req[h].pc = "commit" /\ ConfigUpdateFree
    /\ IF entry = NoEntry
       THEN End(h) /\ UNCHANGED style_state
       ELSE /\ style_state' = [style_state EXCEPT ![s] = entry]
            /\ Set(h, [req[h] EXCEPT !.pc = "persist", !.got = entry.def,
                  !.row = IF sources[s] = NoDef THEN NoEntry
                          ELSE [signature |-> sources[s], def |-> entry.def,
                                generation |-> entry.generation]])
    /\ UNCHANGED <<sources, generation, disk, push, writes, pushes, boots>>

StoreRow(s, row) == learned_styles' = [learned_styles EXCEPT ![s] = row]

\* store_learned_style, or it failed, or the row was too large to store.
Persist(h) ==
    /\ req[h].pc = "persist"
    /\ \/ req[h].row # NoEntry /\ StoreRow(req[h].style, req[h].row)
       \/ UNCHANGED learned_styles
    /\ Give(h, req[h].got)
    /\ UNCHANGED <<sources, generation, style_state, tiles, push, writes, pushes, boots>>

\* The second look at style_state: the entry a response is built with.
ReadLearned(h) ==
    LET entry == style_state[req[h].style] IN
    /\ req[h].pc = "read"
    /\ CASE entry = NoEntry -> End(h)
         [] entry # NoEntry /\ Doc(h) ->
              Set(h, [req[h] EXCEPT !.pc = "answered", !.learned = entry, !.out = req[h].got])
         [] entry # NoEntry /\ ~Doc(h) ->
              Set(h, [req[h] EXCEPT !.pc = "lookup", !.learned = entry])
    /\ OnlyReq

\* The cached sub-resource under the key of the learned entry, or NoDef.
Cached(h) ==
    LET rows == {t \in tiles : t.style = req[h].style /\ t.generation = req[h].learned.generation}
    IN  IF rows = {} THEN NoDef ELSE (CHOOSE t \in rows : TRUE).def

\* cache_first_single_flight found a fresh row, before or under the flight.
AssetHit(h) ==
    /\ req[h].pc = "lookup" /\ Cached(h) # NoDef
    /\ Set(h, [req[h] EXCEPT !.pc = "answered", !.out = Cached(h)])
    /\ OnlyReq

(* The flight of the key is taken and the URL checked against the hosts of *)
(* the definition now in the catalog: 502 unless it allows them (another   *)
(* definition may or may not).                                             *)
AssetFetch(h, allowed) ==
    LET now == sources[req[h].style] IN
    /\ req[h].pc = "lookup"
    /\ \A o \in Handlers \ {h} :
          ~(req[o].pc = "fetch" /\ req[o].style = req[h].style
              /\ req[o].learned.generation = req[h].learned.generation)
    /\ now = NoDef => ~allowed
    /\ now = req[h].learned.def => allowed
    /\ IF allowed THEN Set(h, [req[h] EXCEPT !.pc = "fetch"]) ELSE End(h)
    /\ OnlyReq

\* store_and_evict of a body of d (NoDef: a negative row).
StoreTile(h, d) ==
    LET s == req[h].style g == req[h].learned.generation
    IN  tiles' = {t \in tiles : ~(t.style = s /\ t.generation = g)}
                   \cup IF d = NoDef THEN {} ELSE {[style |-> s, generation |-> g, def |-> d]}

AssetAnswer(h, d) ==
    IF d = NoDef THEN End(h) ELSE Set(h, [req[h] EXCEPT !.pc = "answered", !.out = d])

(* fetch_asset_response: 200, 304 for the stale row, 404 or 204, an error  *)
(* with the stale row served, or an error.  The row it read before the     *)
(* request is still there: writers of a key share its flight.              *)
AssetFetched(h) ==
    /\ req[h].pc = "fetch"
    /\ \/ \E d \in {req[h].learned.def, Cached(h), NoDef} :
             StoreTile(h, d) /\ AssetAnswer(h, d)
       \/ \E d \in {Cached(h), NoDef} : UNCHANGED tiles /\ AssetAnswer(h, d)
    /\ UNCHANGED <<sources, generation, style_state, learned_styles, push, writes, pushes, boots>>

Answered(h) == req[h].pc = "answered" /\ End(h) /\ OnlyReq

(* The client goes away and the handler is dropped at an await.  A store   *)
(* already handed to the blocking pool still runs, without the lock.       *)
Drop(h) ==
    /\ req[h].pc # "idle" /\ End(h)
    /\ \/ UNCHANGED writes
       \/ /\ req[h].pc = "persist" /\ req[h].row # NoEntry
          /\ Cardinality(writes) < MaxWrites
          /\ writes' = writes \cup {[style |-> req[h].style, row |-> req[h].row]}
    /\ UNCHANGED <<sources, generation, style_state, disk, push, pushes, boots>>

LateWrite(w) ==
    /\ StoreRow(w.style, w.row)
    /\ writes' = writes \ {w}
    /\ UNCHANGED <<sources, generation, style_state, tiles, push, req, pushes, boots>>

(* The process ends and starts again, on the same database or on a new one *)
(* (a corrupt file is set aside).                                          *)
Restart ==
    /\ boots < MaxBoots /\ boots' = boots + 1
    /\ \/ UNCHANGED disk
       \/ learned_styles' = NoEntries /\ tiles' = {}
    /\ sources' = NoStyles /\ generation' = 0 /\ style_state' = NoEntries
    /\ push' = IdlePush /\ req' = [h \in Handlers |-> IdleReq] /\ writes' = {}
    /\ UNCHANGED pushes

(* The plugin gives a push up and its connection closes: the handler is    *)
(* dropped at the await it is in.  Not a step of StylesNext.               *)
PushAbandoned ==
    /\ push.pc # "idle" /\ push' = IdlePush
    /\ UNCHANGED <<sources, generation, style_state, disk, req, writes, pushes, boots>>

PushStep == PushRefused \/ PushSwap \/ PushReconcile \/ PushReconcileFails
            \/ (\E invalid \in SUBSET StyleIds : PushRestore(invalid)) \/ PushPublish

HandlerStep(h) ==
    \/ Hit(h) \/ Miss(h) \/ BeginLearn(h)
    \/ \E unmodified \in BOOLEAN : Learned(h, unmodified)
    \/ LearnErrs(h) \/ Commit(h)
    \/ Persist(h) \/ ReadLearned(h) \/ AssetHit(h)
    \/ \E allowed \in BOOLEAN : AssetFetch(h, allowed)
    \/ AssetFetched(h) \/ Answered(h)

StylesNext ==
    \/ \E body \in Catalogs : PushStart(body)
    \/ PushStep
    \/ \E h \in Handlers :
          \/ \E s \in StyleIds : Request(h, s)
          \/ HandlerStep(h) \/ GiveUp(h) \/ Drop(h)
    \/ \E w \in writes : LateWrite(w)
    \/ Restart

StylesSpec == StylesInit /\ [][StylesNext]_stylesVars

(* A started push and a started handler go on: every await in them is for  *)
(* a request with a timeout, for blocking work that ends, or for a tokio   *)
(* mutex, which is handed over in the order of the waiters: a handler that *)
(* waits for one gets it although others come again and again.             *)
StylesFairSpec ==
    /\ StylesSpec
    /\ WF_stylesVars(PushStep)
    /\ \A h \in Handlers : SF_stylesVars(HandlerStep(h))

AbandonSpec == StylesInit /\ [][StylesNext \/ PushAbandoned]_stylesVars
-----------------------------------------------------------------------------
(* Properties.                                                             *)

\* The types of AppState's style and configuration fields and of the handlers.
StylesTypeOK ==
    /\ sources \in Catalogs /\ generation \in Nat
    /\ style_state \in [StyleIds -> Entries \cup {NoEntry}]
    /\ learned_styles \in [StyleIds -> Rows \cup {NoEntry}]
    /\ tiles \subseteq Tiles
    /\ push \in [pc : PushPcs, body : Catalogs, rows : [StyleIds -> Rows \cup {NoEntry}]]
    /\ req \in [Handlers -> Requests]
    /\ writes \subseteq [style : StyleIds, row : Rows]
    /\ pushes \in Nat /\ boots \in Nat

(* An entry of style_state whose config_generation is the current one, the *)
(* test every handler makes before it uses one, was learned from the       *)
(* definition that is now in the catalog, whatever pushes, refusals and    *)
(* late learners came in between (routes.rs config, style.rs learn_style). *)
LearnedIsCurrent ==
    \A s \in StyleIds : OfGeneration(s, generation) # NoEntry => style_state[s].def = sources[s]

(* A row of learned_styles carries the signature of the definition it was  *)
(* learned from, also when its store ran after its handler was dropped and *)
(* the catalog had changed: reconcile by signature is safe                 *)
(* (persist_style_state, rehydrate_style_state).                           *)
DurableIsHonest ==
    \A s \in StyleIds : learned_styles[s] # NoEntry => learned_styles[s].signature = learned_styles[s].def

(* A style document, and the entry it is rewritten with or a sub-resource  *)
(* is fetched through, come from a definition that was in the catalog at   *)
(* some moment of the request (style_doc, glyphs, sprite_variant,          *)
(* vector_tile).                                                           *)
ServedWasInForce ==
    \A h \in Handlers :
        /\ req[h].learned # NoEntry => req[h].learned.def \in req[h].seen
        /\ req[h].pc = "answered" /\ Doc(h) => req[h].out \in req[h].seen

\* A sub-resource is answered with bytes of the definition it was asked under.
AssetsMatch(h) == req[h].pc = "answered" /\ ~Doc(h) => req[h].out = req[h].learned.def

(* Within one life of the process the cache generation in the key keeps    *)
(* the sub-resources of two definitions apart (glyph_cache_source_at,      *)
(* sprite_cache_source_at, vector_cache_source_at, cache_generation in     *)
(* learn_style).                                                           *)
NoBleedInOneLife == boots = 0 => \A h \in Handlers : AssetsMatch(h)

(* routes.rs says of the generation that odd "means a replacement is in    *)
(* progress" and that the final increment "publishes one coherent even     *)
(* generation".                                                            *)
OddMeansReplacing == push.pc = "idle" => Even(generation)

(* Every style request ends: no learner waits for a push that waits for a  *)
(* learner (config_update and the flight are taken in one order).          *)
RequestsEnd == \A h \in Handlers : req[h].pc # "idle" ~> req[h].pc = "idle"

(* The learned styles implement the abstract catalog: a style is known     *)
(* when it has an entry of the current generation.                         *)
Known == [s \in StyleIds |->
    IF OfGeneration(s, generation) # NoEntry THEN style_state[s].def ELSE NoDef]
Catalog == INSTANCE StyleCatalog WITH catalog <- sources, known <- Known
ImplementsCatalog == Catalog!CatalogSpec
=============================================================================

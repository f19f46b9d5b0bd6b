--------------------------- MODULE StyleDocument ---------------------------
(***************************************************************************)
(* What style.rs makes of an upstream style document: learn_style accepts  *)
(* or refuses it, valid_persisted_style accepts or refuses it again when   *)
(* it comes back from the learned_styles table, style_doc rewrites it, and *)
(* vector_tile answers for it.  Three judgements of one document, written  *)
(* apart, that have to agree.                                              *)
(*                                                                         *)
(* A URL is known by whether it is allowed (style_url_allowed, see         *)
(* SourceRules.tla) and whether it holds the tokens its use needs; lengths *)
(* are known by whether they exceed their limit.                           *)
(***************************************************************************)
EXTENDS Naturals, Sequences, FiniteSets

CONSTANTS
    Absent,                 \* a field the document or the TileJSON leaves out
    Refused,                \* None, Err: nothing is learned
    Local,                  \* the plugin's own tile route, in a rewritten document
    MaxTemplatesPerSource,  \* MAX_TEMPLATES_PER_SOURCE
    MaxZoom                 \* the largest zoom a TileJSON or a source may name

ASSUME DocumentAssumption ==
    /\ MaxZoom \in Nat /\ MaxTemplatesPerSource \in Nat
    /\ Absent # Refused /\ \A v \in {Absent, Refused} : v \notin [allowed : BOOLEAN, tokens : BOOLEAN]

Url == [allowed : BOOLEAN, tokens : BOOLEAN]
Good == [allowed |-> TRUE, tokens |-> TRUE]
Usable(url) == url.allowed /\ url.tokens

\* Names and fontstacks; only "plain" passes every test.
Texts == {"plain", "control", "long", "empty"}

-----------------------------------------------------------------------------
(* Learning.  A document has layers with fontstacks, glyphs, a sprite and  *)
(* named sources; a source has a type, inline tiles or the url of a        *)
(* TileJSON, and a maxzoom.                                                *)

(* What parses as a document whose sources are called names, and as the    *)
(* answer to a request for a TileJSON.                                     *)
SourceType ==
    [name : Texts, type : {"vector", "raster"}, tiles : {Absent} \cup Seq(Url),
     url : {Absent, Refused} \cup Url, maxzoom : {Absent} \cup Nat]
TileJsonType == {Refused} \cup [tiles : {Absent} \cup Seq(Url), maxzoom : {Absent} \cup Nat]
DocumentType(names) ==
    [layers : BOOLEAN, glyphs : {Absent} \cup Url, sprite : {Absent} \cup Url,
     fontstacks : SUBSET Texts, validator : {"none", "short", "long"},
     sources : [names -> SourceType]]

\* optional_maxzoom: a zoom is a number of at most 24.
OptionalMaxzoom(value) == IF value = Absent \/ value <= MaxZoom THEN value ELSE Refused

\* tile_templates: one to four strings.
TileTemplates(value) ==
    IF value = Absent \/ (value # <<>> /\ Len(value) <= MaxTemplatesPerSource) THEN value ELSE Refused

\* The tiles and the maxzoom of a source, inline or from its TileJSON.
SourceTiles(src, tilejson) ==
    CASE src.tiles # Absent -> [tiles |-> TileTemplates(src.tiles), maxzoom |-> Absent]
      [] src.tiles = Absent /\ src.url \in Url ->
            IF ~src.url.allowed \/ tilejson = Refused \/ TileTemplates(tilejson.tiles) = Absent
            THEN [tiles |-> Refused, maxzoom |-> Absent]
            ELSE [tiles |-> TileTemplates(tilejson.tiles), maxzoom |-> OptionalMaxzoom(tilejson.maxzoom)]
      [] src.tiles = Absent /\ src.url \notin Url ->
            [tiles |-> IF src.url = Absent THEN Absent ELSE Refused, maxzoom |-> Absent]

\* Mutant: the TileJSON's maxzoom is preferred.
SourceMaxzoom_TileJson(src, tilejson) ==
    LET found == SourceTiles(src, tilejson).maxzoom IN IF found # Absent THEN found ELSE src.maxzoom

\* The maxzoom a source is learned with: its own, or its TileJSON's.
SourceMaxzoom(src, tilejson) ==
    IF src.maxzoom # Absent THEN src.maxzoom ELSE SourceTiles(src, tilejson).maxzoom

SourceRefused(src, tilejson) ==
    LET found == SourceTiles(src, tilejson) IN
    \/ src.name # "plain" \/ OptionalMaxzoom(src.maxzoom) = Refused
    \/ found.tiles = Refused \/ found.maxzoom = Refused
    \/ found.tiles # Absent /\ \E i \in DOMAIN found.tiles : ~Usable(found.tiles[i])

\* The distinct fontstacks the glyph route will know; unnamed and long ones are left out.
Fontstacks(doc) == doc.fontstacks \ {"long", "empty"}

DocumentRefused(doc) ==
    \/ ~doc.layers \/ DOMAIN doc.sources = {}
    \/ doc.glyphs # Absent /\ ~Usable(doc.glyphs)
    \/ doc.sprite # Absent /\ ~doc.sprite.allowed

(* learn_style: the state kept for a document and the TileJSONs of its     *)
(* sources, or Refused.                                                    *)
LearnStyle(doc, tilejson) ==
    LET names == DOMAIN doc.sources
        src(n) == doc.sources[n]
        tiled == {n \in names : SourceTiles(src(n), tilejson[n]).tiles # Absent}
        max(n) == SourceMaxzoom(src(n), tilejson[n])
    IN  IF \/ DocumentRefused(doc) \/ tiled = {}
           \/ \E n \in names : SourceRefused(src(n), tilejson[n])
        THEN Refused
        ELSE [document |-> doc, glyphs |-> doc.glyphs, sprite_base |-> doc.sprite,
              fontstacks |-> Fontstacks(doc), validator |-> doc.validator,
              source_tiles |-> [n \in tiled |-> SourceTiles(src(n), tilejson[n]).tiles],
              source_maxzoom |-> [n \in {m \in tiled : max(m) # Absent} |-> max(n)],
              raster_sources |-> {n \in names : src(n).type = "raster"}]

-----------------------------------------------------------------------------
(* Coming back from the table.                                             *)

\* valid_persisted_style, for a row of the catalog's own definition.
ValidPersistedStyle(style) ==
    LET doc == style.document tiled == DOMAIN style.source_tiles IN
    /\ doc.layers /\ DOMAIN doc.sources # {} /\ tiled # {}
    /\ \A f \in style.fontstacks : f = "plain"
    /\ style.validator # "long"
    /\ doc.glyphs = style.glyphs /\ doc.sprite = style.sprite_base
    /\ style.glyphs # Absent => Usable(style.glyphs)
    /\ style.sprite_base # Absent => style.sprite_base.allowed
    /\ \A n \in tiled :
          /\ n \in DOMAIN doc.sources /\ doc.sources[n].name = "plain"
          /\ style.source_tiles[n] # <<>> /\ Len(style.source_tiles[n]) <= MaxTemplatesPerSource
          /\ \A i \in DOMAIN style.source_tiles[n] : Usable(style.source_tiles[n][i])
    /\ \A n \in DOMAIN doc.sources :
          doc.sources[n].tiles # Absent \/ doc.sources[n].url # Absent => n \in tiled
    /\ style.raster_sources = {n \in tiled : doc.sources[n].type = "raster"}
    /\ \A n \in DOMAIN style.source_maxzoom : n \in tiled /\ style.source_maxzoom[n] <= MaxZoom

-----------------------------------------------------------------------------
(* Serving.                                                                *)

\* style_doc: the learned sources point back at the plugin and keep their maxzoom.
Rewritten(style) ==
    LET sources == style.document.sources
        rewritten(n) ==
            [sources[n] EXCEPT !.url = Absent, !.tiles = <<Local>>,
                !.maxzoom = IF @ = Absent /\ n \in DOMAIN style.source_maxzoom
                            THEN style.source_maxzoom[n] ELSE @]
    IN  [style.document EXCEPT
            !.glyphs = IF style.glyphs # Absent THEN Local ELSE @,
            !.sources = [n \in DOMAIN sources |->
                IF n \in DOMAIN style.source_tiles THEN rewritten(n) ELSE sources[n]]]

\* vector_tile: the zooms it answers for a source; the others are a bad request.
TileRouteZooms(style, n) ==
    IF n \notin DOMAIN style.source_tiles THEN {}
    ELSE 0 .. (IF n \in DOMAIN style.source_maxzoom THEN style.source_maxzoom[n] ELSE MaxZoom)

\* external: the zooms MapLibre asks for; it takes 22 for a source without a maxzoom.
RequestedZooms(src) == 0 .. (IF src.maxzoom = Absent THEN MaxZoom - 2 ELSE src.maxzoom)

-----------------------------------------------------------------------------
(* Properties, for a document and the TileJSONs of its sources.            *)

(* What one judgement lets through and the other does not: a control       *)
(* character in a fontstack, a validator longer than a URL, and a raster   *)
(* source without tiles, which is in raster_sources all the same.          *)
Unrestorable(doc) ==
    \/ "control" \in doc.fontstacks \/ doc.validator = "long"
    \/ \E n \in DOMAIN doc.sources :
          doc.sources[n].type = "raster" /\ doc.sources[n].tiles = Absent /\ doc.sources[n].url = Absent

(* A learned style comes back after a restart or a push exactly when it    *)
(* has none of the three; otherwise rehydrate_style_state deletes it and   *)
(* the basemap needs the network again.                                    *)
RestoredIffRestorable(doc, tilejson) ==
    LET style == LearnStyle(doc, tilejson)
    IN  style # Refused => (ValidPersistedStyle(style) <=> ~Unrestorable(doc))

(* The served document sends every tile request of a declared source to    *)
(* the plugin, and the tile route answers every zoom the document lets the *)
(* map ask for, with and without a maxzoom in the style or its TileJSON.   *)
ServedIsAnswerable(doc, tilejson) ==
    LET style == LearnStyle(doc, tilejson) served == Rewritten(style)
    IN  style # Refused =>
          /\ served.glyphs \in {Absent, Local}
          /\ \A n \in DOMAIN served.sources :
                doc.sources[n].tiles # Absent \/ doc.sources[n].url # Absent =>
                    /\ served.sources[n].url = Absent /\ served.sources[n].tiles = <<Local>>
                    /\ RequestedZooms(served.sources[n]) \subseteq TileRouteZooms(style, n)
=============================================================================

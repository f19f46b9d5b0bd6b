------------------------- MODULE SourceRulesProofs -------------------------
(***************************************************************************)
(* Addresses, sources and style documents, for every value.  TLC tries the *)
(* edges of the egress guard's rules; here the masks are shown equal to    *)
(* the blocks of special-purpose addresses over all of IPv4, and IPv6 is   *)
(* brought back to that.  From there: every source the validation accepts  *)
(* can be requested and is guarded; every document learn_style accepts is  *)
(* restored unless it has one of three things only one of the judgements   *)
(* looks at, and what is served for it is answered, however many sources   *)
(* it has and however many tiles they name.                                *)
(***************************************************************************)
EXTENDS MCStyles, TLAPS

\* The blocks, written out as ranges of the number of the first three octets.
InRanges(n) ==
    \/ 0 <= n /\ n < 65536
    \/ 655360 <= n /\ n < 720896
    \/ 6569984 <= n /\ n < 6586368
    \/ 8323072 <= n /\ n < 8388608
    \/ 11140608 <= n /\ n < 11140864
    \/ 11276288 <= n /\ n < 11280384
    \/ n = 12582912
    \/ n = 12582914
    \/ 12625920 <= n /\ n < 12626176
    \/ 12980736 <= n /\ n < 12981248
    \/ n = 12989284
    \/ n = 13303921
    \/ 14680064 <= n /\ n < 16777216

Number(a) == (a[1] * 256 + a[2]) * 256 + a[3]

LEMMA OctetType == ASSUME NEW a \in V4s PROVE a[1] \in 0 .. 255 /\ a[2] \in 0 .. 255 /\ a[3] \in 0 .. 255
BY DEF V4s, Octets

LEMMA BlocksAreRanges ==
    ASSUME NEW a \in V4s PROVE InSpecialBlock(a) <=> InRanges(Number(a))
<1>1. Number(a) \in Int
  <2>1. a[1] \in Int /\ a[2] \in Int /\ a[3] \in Int
    BY OctetType
  <2> QED BY <2>1 DEF Number
<1>2. InSpecialBlock(a) <=> \E block \in SpecialBlocks : block.first <= Number(a) /\ Number(a) < block.first + block.size
  BY DEF InSpecialBlock, Number
<1> HIDE DEF Number
<1> QED BY <1>1, <1>2 DEF SpecialBlocks, Block, InRanges

\* The masks of is_forbidden_ip, as ranges.
LEMMA Masks ==
    ASSUME NEW n \in 0 .. 255
    PROVE  /\ n \div 16 = 1 <=> 16 <= n /\ n <= 31
           /\ n \div 16 = 14 <=> 224 <= n /\ n <= 239
           /\ n \div 64 = 1 <=> 64 <= n /\ n <= 127
           /\ n \div 2 = 9 <=> 18 <= n /\ n <= 19
OBVIOUS

LEMMA MasksAreRanges ==
    ASSUME NEW x \in Int, NEW y \in Int, NEW z \in Int, 0 <= x, x <= 255, 0 <= y, y <= 255, 0 <= z, z <= 255
    PROVE  InRanges((x * 256 + y) * 256 + z) <=>
              \/ x = 10 \/ (x = 172 /\ 16 <= y /\ y <= 31) \/ (x = 192 /\ y = 168)
              \/ x = 127 \/ (x = 169 /\ y = 254) \/ (224 <= x /\ x <= 239) \/ x = 0
              \/ (x = 192 /\ y = 0 /\ z = 2) \/ (x = 198 /\ y = 51 /\ z = 100)
              \/ (x = 203 /\ y = 0 /\ z = 113) \/ (x = 100 /\ 64 <= y /\ y <= 127) \/ x >= 240
              \/ (x = 198 /\ 18 <= y /\ y <= 19) \/ (x = 192 /\ y = 0 /\ z = 0)
BY SMTT(60) DEF InRanges

LEMMA RangesAreMasks ==
    ASSUME NEW a \in V4s PROVE IsForbiddenV4(a) <=> InRanges(Number(a))
<1>1. a[1] \in 0 .. 255 /\ a[2] \in 0 .. 255 /\ a[3] \in 0 .. 255
  BY OctetType
<1>2. /\ a[1] \in Int /\ a[2] \in Int /\ a[3] \in Int
      /\ 0 <= a[1] /\ a[1] <= 255 /\ 0 <= a[2] /\ a[2] <= 255 /\ 0 <= a[3] /\ a[3] <= 255
  BY <1>1
<1> DEFINE x == a[1]  y == a[2]  z == a[3]
<1>3. /\ y \div 16 = 1 <=> 16 <= y /\ y <= 31
      /\ x \div 16 = 14 <=> 224 <= x /\ x <= 239
      /\ y \div 64 = 1 <=> 64 <= y /\ y <= 127
      /\ y \div 2 = 9 <=> 18 <= y /\ y <= 19
  BY <1>1, Masks
<1>4. InRanges((x * 256 + y) * 256 + z) <=>
              \/ x = 10 \/ (x = 172 /\ 16 <= y /\ y <= 31) \/ (x = 192 /\ y = 168)
              \/ x = 127 \/ (x = 169 /\ y = 254) \/ (224 <= x /\ x <= 239) \/ x = 0
              \/ (x = 192 /\ y = 0 /\ z = 2) \/ (x = 198 /\ y = 51 /\ z = 100)
              \/ (x = 203 /\ y = 0 /\ z = 113) \/ (x = 100 /\ 64 <= y /\ y <= 127) \/ x >= 240
              \/ (x = 198 /\ 18 <= y /\ y <= 19) \/ (x = 192 /\ y = 0 /\ z = 0)
  BY <1>2, MasksAreRanges
<1> QED BY <1>3, <1>4 DEF IsForbiddenV4, Number

(* is_forbidden_ip over every IPv4 address: refused exactly when it is in  *)
(* a special-purpose block.                                                *)
THEOREM EveryV4 == \A a \in V4s : V4Exact(a)
BY BlocksAreRanges, RangesAreMasks DEF V4Exact

LEMMA Bytes ==
    ASSUME NEW n \in Nat, n < 65536
    PROVE  n \div 256 \in Nat /\ n \div 256 < 256 /\ n % 256 \in Nat /\ n % 256 < 256
OBVIOUS

LEMMA V4OfType == ASSUME NEW hi \in Segments, NEW lo \in Segments PROVE V4Of(hi, lo) \in V4s
<1>1. hi \in Nat /\ hi < 65536 /\ lo \in Nat /\ lo < 65536
  BY DEF Segments
<1>2. \A n \in Nat : n < 256 => n \in Octets
  BY DEF Octets
<1>3. /\ hi \div 256 \in Octets /\ hi % 256 \in Octets
      /\ lo \div 256 \in Octets /\ lo % 256 \in Octets
  BY <1>1, <1>2, Bytes
<1> QED BY <1>3 DEF V4Of, V4s

LEMMA UnicastRange ==
    ASSUME NEW n \in Nat, n \div 8192 = 1 PROVE 8192 <= n /\ n < 16384
OBVIOUS

(* is_forbidden_ip over every IPv6 address: what it lets through is global *)
(* unicast and carries no special-purpose IPv4 address.                    *)
THEOREM EveryV6 == \A s \in V6s : V6Sound(s)
<1> SUFFICES ASSUME NEW s \in V6s, ~IsForbiddenV6(s)
             PROVE  /\ 8192 <= s[1] /\ s[1] < 16384 /\ ~CarriesTail(s)
                    /\ Carries6to4(s) => ~InSpecialBlock(V4Of(s[2], s[3]))
  BY DEF V6Sound
<1>1. s[1] \in Segments /\ s[2] \in Segments /\ s[3] \in Segments
  BY DEF V6s
<1>2. s[1] \div 8192 = 1
  BY DEF IsForbiddenV6, IsGlobalUnicastV6
<1>3. s[1] \in Nat /\ 8192 <= s[1] /\ s[1] < 16384
  BY <1>1, <1>2, UnicastRange DEF Segments
<1>4. ~CarriesTail(s)
  BY <1>3 DEF CarriesTail, ZeroFrom
<1>5. Carries6to4(s) => ~IsForbiddenV4(V4Of(s[2], s[3]))
  BY DEF IsForbiddenV6
<1> QED BY <1>1, <1>3, <1>4, <1>5, V4OfType, EveryV4 DEF V4Exact

-----------------------------------------------------------------------------
(* Accepted sources.                                                       *)

UpstreamModes == {"xyz", "wmts", "wms", "arcgis", "style"}

(* What the validation of a pushed source demands of its URL, whatever the *)
(* kind of upstream: https to a named host, or http to the loopback where  *)
(* that is allowed.                                                        *)
LEMMA AcceptedUrl ==
    ASSUME NEW source, NEW allow, source.upstream.mode \in UpstreamModes, IsValid(source, allow)
    PROVE  ValidUpstreamUrl(source.upstream.url, allow)
BY DEF IsValid, ValidUpstream, UpstreamModes, ValidTemplate, CleanBaseUrl

(* ChartSource::is_valid against guarded_get and style_url_allowed, for    *)
(* every source: an accepted source passes the checks its requests meet.   *)
THEOREM EverySource ==
    \A source, allow : source.upstream.mode \in UpstreamModes => AcceptedIsFetchable(source, allow)
<1> SUFFICES ASSUME NEW source, NEW allow, source.upstream.mode \in UpstreamModes,
                    IsValid(source, allow)
             PROVE  /\ GuardLets(source.upstream.url, allow)
                    /\ source.upstream.mode = "style"
                         /\ source.upstream.url.len + source.upstream.url.added <= MaxUrlBytes =>
                           StyleUrlAllowed(source.upstream.url, source.upstream.hosts, allow)
  BY DEF AcceptedIsFetchable
<1> DEFINE url == source.upstream.url
<1>1. /\ ~url.userinfo
      /\ \/ url.scheme = "http" /\ allow /\ IsLoopbackHost(url.host)
         \/ url.scheme = "https" /\ url.host \notin Literals
  BY AcceptedUrl DEF ValidUpstreamUrl, MatchesPackageUrlShape
<1>2. GuardLets(url, allow)
  BY <1>1 DEF GuardLets, Literals
<1>3. ASSUME source.upstream.mode = "style" PROVE url.host \in source.upstream.hosts
  BY <1>3 DEF IsValid, ValidUpstream
<1> QED BY <1>1, <1>2, <1>3 DEF StyleUrlAllowed

LEMMA EdgesAreAddresses == EdgeV4s \subseteq V4s /\ EdgeV6s \subseteq V6s
<1>1. EdgeOctets \subseteq Octets /\ {0, 1, 2, 100, 113} \subseteq Octets /\ {0, 255} \subseteq Octets
  BY DEF EdgeOctets, Octets
<1>2. EdgeV4s \subseteq V4s
  BY <1>1 DEF EdgeV4s, V4s
<1>3. EdgeV6s \subseteq V6s
  BY SMTT(30) DEF EdgeV6s, V6s, Segments
<1> QED BY <1>2, <1>3

(* Whatever source a definition in the catalog stands for and whatever     *)
(* address its host resolves to: what is pushed and accepted can be        *)
(* fetched, and the guard refuses the special-purpose addresses only.      *)
THEOREM SourcesAlwaysAgree == StylesSpec => []SourcesAgree
<1>1. ASSUME NEW u \in Upstreams, NEW allow \in BOOLEAN PROVE AcceptedIsFetchable(SourceOf(u), allow)
  <2>1. SourceOf(u).upstream = u
    BY DEF SourceOf
  <2>2. u.mode \in UpstreamModes
    BY DEF Upstreams, UpstreamModes
  <2> QED BY <2>1, <2>2, EverySource
<1>2. AllFetchable
  BY <1>1 DEF AllFetchable
<1>3. AllGuarded
  BY EdgesAreAddresses, EveryV4, EveryV6 DEF AllGuarded
<1>4. SourcesAgree
  BY <1>2, <1>3 DEF SourcesAgree
<1> QED BY <1>4, PTL

-----------------------------------------------------------------------------
(* Style documents.                                                        *)

\* What a source that learn_style does not refuse brings: its templates and its maxzoom.
LEMMA LearnedSource ==
    ASSUME NEW src \in SourceType, NEW tj \in TileJsonType, ~SourceRefused(src, tj)
    PROVE  /\ src.name = "plain"
           /\ (SourceTiles(src, tj).tiles # Absent) <=> (src.tiles # Absent \/ src.url # Absent)
           /\ SourceTiles(src, tj).tiles # Absent =>
                 /\ SourceTiles(src, tj).tiles # <<>>
                 /\ Len(SourceTiles(src, tj).tiles) <= MaxTemplatesPerSource
                 /\ \A i \in DOMAIN SourceTiles(src, tj).tiles : Usable(SourceTiles(src, tj).tiles[i])
           /\ SourceMaxzoom(src, tj) # Absent => SourceMaxzoom(src, tj) <= MaxZoom
<1> DEFINE found == SourceTiles(src, tj)
<1>1. /\ src.name = "plain" /\ OptionalMaxzoom(src.maxzoom) # Refused
      /\ found.tiles # Refused /\ found.maxzoom # Refused
      /\ found.tiles # Absent => \A i \in DOMAIN found.tiles : Usable(found.tiles[i])
  BY DEF SourceRefused
<1>2. \A v : TileTemplates(v) # Refused =>
         TileTemplates(v) = v /\ (v = Absent \/ (v # <<>> /\ Len(v) <= MaxTemplatesPerSource))
  BY DEF TileTemplates
<1>3. \A v : OptionalMaxzoom(v) # Refused => OptionalMaxzoom(v) = v /\ (v = Absent \/ v <= MaxZoom)
  BY DEF OptionalMaxzoom
<1>4. CASE src.tiles # Absent
  <2>1. found.tiles = TileTemplates(src.tiles) /\ found.maxzoom = Absent
    BY <1>4 DEF SourceTiles
  <2> QED BY <1>1, <1>2, <1>3, <1>4, <2>1 DEF SourceMaxzoom
<1>5. CASE src.tiles = Absent /\ src.url \in Url
  <2>1. src.url # Absent
    BY <1>5, DocumentAssumption DEF Url
  <2>2. found = IF ~src.url.allowed \/ tj = Refused \/ TileTemplates(tj.tiles) = Absent
                THEN [tiles |-> Refused, maxzoom |-> Absent]
                ELSE [tiles |-> TileTemplates(tj.tiles), maxzoom |-> OptionalMaxzoom(tj.maxzoom)]
    BY <1>5 DEF SourceTiles
  <2>3. /\ found.tiles = TileTemplates(tj.tiles) /\ TileTemplates(tj.tiles) # Absent
        /\ found.maxzoom = OptionalMaxzoom(tj.maxzoom)
    BY <1>1, <2>2
  <2> QED BY <1>1, <1>2, <1>3, <1>5, <2>1, <2>3 DEF SourceMaxzoom
<1>6. CASE src.tiles = Absent /\ src.url \notin Url
  <2>1. found.tiles = (IF src.url = Absent THEN Absent ELSE Refused) /\ found.maxzoom = Absent
    BY <1>6 DEF SourceTiles
  <2> QED BY <1>1, <1>3, <1>6, <2>1, DocumentAssumption DEF SourceMaxzoom
<1> QED BY <1>4, <1>5, <1>6

\* The state learn_style keeps, field by field.
LEMMA LearnedState ==
    ASSUME NEW doc, NEW tilejson, LearnStyle(doc, tilejson) # Refused
    PROVE  LET style == LearnStyle(doc, tilejson)
               names == DOMAIN doc.sources
               tiled == {n \in names : SourceTiles(doc.sources[n], tilejson[n]).tiles # Absent}
               max(n) == SourceMaxzoom(doc.sources[n], tilejson[n])
           IN  /\ ~DocumentRefused(doc) /\ tiled # {}
               /\ \A n \in names : ~SourceRefused(doc.sources[n], tilejson[n])
               /\ style.document = doc /\ style.glyphs = doc.glyphs /\ style.sprite_base = doc.sprite
               /\ style.fontstacks = Fontstacks(doc) /\ style.validator = doc.validator
               /\ style.source_tiles = [n \in tiled |-> SourceTiles(doc.sources[n], tilejson[n]).tiles]
               /\ style.source_maxzoom = [n \in {m \in tiled : max(m) # Absent} |-> max(n)]
               /\ style.raster_sources = {n \in names : doc.sources[n].type = "raster"}
BY DEF LearnStyle

(* learn_style against valid_persisted_style, for every document and every *)
(* answer to its TileJSON requests: a learned style is restored exactly    *)
(* when it has none of the three things only one of them looks at.         *)
THEOREM EveryDocumentRestorable ==
    ASSUME NEW names, NEW doc \in DocumentType(names), NEW tilejson,
           \A n \in names : tilejson[n] \in TileJsonType
    PROVE  RestoredIffRestorable(doc, tilejson)
<1> DEFINE style == LearnStyle(doc, tilejson)
           templates(n) == SourceTiles(doc.sources[n], tilejson[n]).tiles
           max(n) == SourceMaxzoom(doc.sources[n], tilejson[n])
           tiled == {n \in names : templates(n) # Absent}
           maxed == {n \in tiled : max(n) # Absent}
<1> SUFFICES ASSUME style # Refused PROVE ValidPersistedStyle(style) <=> ~Unrestorable(doc)
  BY DEF RestoredIffRestorable
<1>1. /\ doc.sources \in [names -> SourceType] /\ DOMAIN doc.sources = names
      /\ doc.fontstacks \subseteq Texts /\ doc.validator \in {"none", "short", "long"}
  BY DEF DocumentType
<1>2. /\ ~DocumentRefused(doc) /\ tiled # {}
      /\ \A n \in names : ~SourceRefused(doc.sources[n], tilejson[n])
      /\ style.document = doc /\ style.glyphs = doc.glyphs /\ style.sprite_base = doc.sprite
      /\ style.fontstacks = Fontstacks(doc) /\ style.validator = doc.validator
      /\ style.source_tiles = [n \in tiled |-> templates(n)]
      /\ style.source_maxzoom = [n \in maxed |-> max(n)]
      /\ style.raster_sources = {n \in names : doc.sources[n].type = "raster"}
  BY <1>1, LearnedState
<1>3. ASSUME NEW n \in names
      PROVE  /\ doc.sources[n].name = "plain"
             /\ n \in tiled <=> (doc.sources[n].tiles # Absent \/ doc.sources[n].url # Absent)
             /\ n \in tiled => /\ templates(n) # <<>> /\ Len(templates(n)) <= MaxTemplatesPerSource
                               /\ \A i \in DOMAIN templates(n) : Usable(templates(n)[i])
             /\ max(n) # Absent => max(n) <= MaxZoom
  <2>1. doc.sources[n] \in SourceType
    BY <1>1
  <2> QED BY <1>2, <2>1, LearnedSource
<1> HIDE DEF style, templates, max
<1>4. /\ DOMAIN style.source_tiles = tiled /\ \A n \in tiled : style.source_tiles[n] = templates(n)
      /\ DOMAIN style.source_maxzoom = maxed /\ \A n \in maxed : style.source_maxzoom[n] = max(n)
  BY <1>2
<1>5. (\A f \in style.fontstacks : f = "plain") <=> "control" \notin doc.fontstacks
  BY <1>1, <1>2 DEF Fontstacks, Texts
<1>6. (style.raster_sources = {n \in tiled : doc.sources[n].type = "raster"}) <=>
      ~\E n \in names : doc.sources[n].type = "raster" /\ doc.sources[n].tiles = Absent /\ doc.sources[n].url = Absent
  BY <1>2, <1>3
<1>7. /\ doc.layers /\ names # {}
      /\ doc.glyphs # Absent => Usable(doc.glyphs)
      /\ doc.sprite # Absent => doc.sprite.allowed
  BY <1>1, <1>2 DEF DocumentRefused
<1>8. /\ \A n \in tiled :
            /\ n \in names /\ doc.sources[n].name = "plain"
            /\ style.source_tiles[n] # <<>> /\ Len(style.source_tiles[n]) <= MaxTemplatesPerSource
            /\ \A i \in DOMAIN style.source_tiles[n] : Usable(style.source_tiles[n][i])
      /\ \A n \in names : doc.sources[n].tiles # Absent \/ doc.sources[n].url # Absent => n \in tiled
      /\ \A n \in maxed : n \in tiled /\ style.source_maxzoom[n] <= MaxZoom
  BY <1>3, <1>4
<1> HIDE DEF tiled, maxed
<1>9. ValidPersistedStyle(style) <=>
         /\ "control" \notin doc.fontstacks /\ doc.validator # "long"
         /\ style.raster_sources = {n \in tiled : doc.sources[n].type = "raster"}
  BY <1>1, <1>2, <1>4, <1>5, <1>7, <1>8 DEF ValidPersistedStyle
<1> QED BY <1>1, <1>6, <1>9 DEF Unrestorable

(* style_doc against vector_tile, for every document: every declared       *)
(* source of the served document asks the plugin for its tiles, and for no *)
(* zoom the tile route would call a bad request.                           *)
THEOREM EveryDocumentAnswerable ==
    ASSUME NEW names, NEW doc \in DocumentType(names), NEW tilejson,
           \A n \in names : tilejson[n] \in TileJsonType
    PROVE  ServedIsAnswerable(doc, tilejson)
<1> DEFINE style == LearnStyle(doc, tilejson)
           served == Rewritten(style)
           templates(n) == SourceTiles(doc.sources[n], tilejson[n]).tiles
           max(n) == SourceMaxzoom(doc.sources[n], tilejson[n])
           tiled == {n \in names : templates(n) # Absent}
           maxed == {n \in tiled : max(n) # Absent}
<1> SUFFICES ASSUME style # Refused
             PROVE  /\ served.glyphs \in {Absent, Local}
                    /\ \A n \in DOMAIN served.sources :
                         doc.sources[n].tiles # Absent \/ doc.sources[n].url # Absent =>
                           /\ served.sources[n].url = Absent /\ served.sources[n].tiles = <<Local>>
                           /\ RequestedZooms(served.sources[n]) \subseteq TileRouteZooms(style, n)
  BY DEF ServedIsAnswerable
<1>1. /\ doc.sources \in [names -> SourceType] /\ DOMAIN doc.sources = names
      /\ doc = [layers |-> doc.layers, glyphs |-> doc.glyphs, sprite |-> doc.sprite,
                fontstacks |-> doc.fontstacks, validator |-> doc.validator, sources |-> doc.sources]
  BY DEF DocumentType
<1>2. /\ \A n \in names : ~SourceRefused(doc.sources[n], tilejson[n])
      /\ style.document = doc /\ style.glyphs = doc.glyphs
      /\ style.source_tiles = [n \in tiled |-> templates(n)]
      /\ style.source_maxzoom = [n \in maxed |-> max(n)]
  BY <1>1, LearnedState
<1>3. ASSUME NEW n \in names
      PROVE  n \in tiled <=> (doc.sources[n].tiles # Absent \/ doc.sources[n].url # Absent)
  <2>1. doc.sources[n] \in SourceType
    BY <1>1
  <2> QED BY <1>2, <2>1, LearnedSource
<1> HIDE DEF style, templates, max
<1>4. /\ DOMAIN style.source_tiles = tiled
      /\ DOMAIN style.source_maxzoom = maxed /\ \A n \in maxed : style.source_maxzoom[n] = max(n)
  BY <1>2
<1> HIDE DEF tiled, maxed
<1>5. /\ served.glyphs = IF style.glyphs # Absent THEN Local ELSE doc.glyphs
      /\ served.sources = [n \in names |-> IF n \notin tiled THEN doc.sources[n] ELSE
            [doc.sources[n] EXCEPT !.url = Absent, !.tiles = <<Local>>,
                !.maxzoom = IF doc.sources[n].maxzoom = Absent /\ n \in maxed
                            THEN style.source_maxzoom[n] ELSE doc.sources[n].maxzoom]]
  BY <1>1, <1>2, <1>4 DEF Rewritten
<1>6. ASSUME NEW n \in tiled, n \in names
      PROVE  /\ served.sources[n].url = Absent /\ served.sources[n].tiles = <<Local>>
             /\ served.sources[n].maxzoom =
                  IF doc.sources[n].maxzoom = Absent /\ n \in maxed THEN max(n) ELSE doc.sources[n].maxzoom
  <2>1. doc.sources[n] = [name |-> doc.sources[n].name, type |-> doc.sources[n].type,
           tiles |-> doc.sources[n].tiles, url |-> doc.sources[n].url, maxzoom |-> doc.sources[n].maxzoom]
    BY <1>1, <1>6 DEF SourceType
  <2> HIDE DEF served
  <2>2. served.sources[n] = [doc.sources[n] EXCEPT !.url = Absent, !.tiles = <<Local>>,
                !.maxzoom = IF doc.sources[n].maxzoom = Absent /\ n \in maxed
                            THEN style.source_maxzoom[n] ELSE doc.sources[n].maxzoom]
    BY <1>5, <1>6
  <2> QED BY <1>4, <2>1, <2>2
<1> HIDE DEF served
<1>7. ASSUME NEW n \in tiled, n \in names
      PROVE  RequestedZooms(served.sources[n]) \subseteq TileRouteZooms(style, n)
  <2>1. TileRouteZooms(style, n) = 0 .. (IF n \in maxed THEN max(n) ELSE MaxZoom)
    BY <1>4 DEF TileRouteZooms
  <2>2. CASE doc.sources[n].maxzoom # Absent
    <3>1. max(n) = doc.sources[n].maxzoom /\ n \in maxed
      BY <2>2 DEF max, maxed, SourceMaxzoom
    <3> QED BY <1>6, <1>7, <2>1, <2>2, <3>1 DEF RequestedZooms
  <2>3. CASE doc.sources[n].maxzoom = Absent /\ n \in maxed
    <3>1. served.sources[n].maxzoom = max(n) /\ max(n) # Absent
      BY <1>6, <1>7, <2>3 DEF maxed
    <3> QED BY <2>1, <2>3, <3>1 DEF RequestedZooms
  <2>4. CASE doc.sources[n].maxzoom = Absent /\ n \notin maxed
    <3>1. served.sources[n].maxzoom = Absent
      BY <1>6, <1>7, <2>4
    <3> QED BY <2>1, <2>4, <3>1, DocumentAssumption DEF RequestedZooms
  <2> QED BY <2>2, <2>3, <2>4
<1>8. served.glyphs \in {Absent, Local}
  BY <1>2, <1>5
<1>9. DOMAIN served.sources = names
  BY <1>5
<1> HIDE DEF served
<1> QED BY <1>3, <1>6, <1>7, <1>8, <1>9

(* Whatever document a learned style was made from: it comes back from the *)
(* table exactly when it is restorable, and what is served for it can be   *)
(* answered.                                                               *)
THEOREM DocumentsAlwaysAgree == StylesSpec => []DocumentsAgree
<1>1. /\ Good \in Url /\ BadUrls \subseteq Url
      /\ Templates \subseteq {Absent} \cup Seq(Url)
  <2>1. Good \in Url /\ BadUrls \subseteq Url
    BY DEF Good, BadUrls, Url
  <2>2. <<>> \in Seq(Url) /\ <<Good>> \in Seq(Url) /\ <<Good, Good, Good>> \in Seq(Url)
    BY <2>1
  <2>3. \A u \in BadUrls : <<Good, u>> \in Seq(Url)
    BY <2>1
  <2> QED BY <2>1, <2>2, <2>3 DEF Templates
<1>2. Zooms \subseteq {Absent} \cup Nat
  BY DocumentAssumption DEF Zooms
<1>3. SourceSet \subseteq SourceType /\ TileJsons \subseteq TileJsonType /\ PlainSource \in SourceType
  <2>1. SourceSet \subseteq SourceType
    <3> SUFFICES ASSUME NEW src \in SourceSet PROVE src \in SourceType
      OBVIOUS
    <3>1. /\ src.name \in Texts /\ src.type \in {"vector", "raster"}
          /\ src.tiles \in Templates /\ src.maxzoom \in Zooms
          /\ src.url \in {Absent, Refused, Good, [allowed |-> FALSE, tokens |-> TRUE]}
      BY DEF SourceSet, Texts
    <3>2. src = [name |-> src.name, type |-> src.type, tiles |-> src.tiles, url |-> src.url,
                 maxzoom |-> src.maxzoom]
      BY DEF SourceSet
    <3>3. src.url \in {Absent, Refused} \cup Url
      <4>1. {Good, [allowed |-> FALSE, tokens |-> TRUE]} \subseteq Url
        BY DEF Good, Url
      <4> QED BY <3>1, <4>1
    <3> QED BY <1>1, <1>2, <3>1, <3>2, <3>3 DEF SourceType
  <2>2. TileJsons \subseteq TileJsonType
    BY <1>1, <1>2 DEF TileJsons, TileJsonType
  <2>3. PlainSource \in SourceType
    BY <1>1 DEF PlainSource, SourceType, Texts
  <2> QED BY <2>1, <2>2, <2>3
<1>4. \A names, named : named \in [names -> SourceType] => PlainDocument(named) \in DocumentType(names)
  BY <1>1 DEF PlainDocument, DocumentType, Texts
<1>5. ASSUME NEW src \in SourceSet, NEW t \in TileJsons
      PROVE  /\ RestoredIffRestorable(PlainDocument(<<src>>), <<t>>)
             /\ ServedIsAnswerable(PlainDocument(<<src>>), <<t>>)
  <2>1. PlainDocument(<<src>>) \in DocumentType({1})
    BY <1>3, <1>4
  <2>2. \A n \in {1} : <<t>>[n] \in TileJsonType
    BY <1>3
  <2> QED BY <2>1, <2>2, EveryDocumentRestorable, EveryDocumentAnswerable
<1>6. ASSUME NEW src \in SourceSet, NEW t \in TileJsons
      PROVE  /\ RestoredIffRestorable(PlainDocument(<<src, PlainSource>>), <<t, Refused>>)
             /\ ServedIsAnswerable(PlainDocument(<<src, PlainSource>>), <<t, Refused>>)
  <2>1. PlainDocument(<<src, PlainSource>>) \in DocumentType({1, 2})
    BY <1>3, <1>4
  <2>2. \A n \in {1, 2} : <<t, Refused>>[n] \in TileJsonType
    BY <1>3 DEF TileJsonType
  <2> QED BY <2>1, <2>2, EveryDocumentRestorable, EveryDocumentAnswerable
<1>7. ASSUME NEW doc \in DocumentFields
      PROVE  RestoredIffRestorable(doc, <<Refused>>) /\ ServedIsAnswerable(doc, <<Refused>>)
  <2>1. doc.sources = <<>> \/ doc.sources = <<PlainSource>>
    BY DEF DocumentFields
  <2>2. <<>> \in [{} -> SourceType] /\ <<PlainSource>> \in [{1} -> SourceType]
    BY <1>3
  <2> DEFINE names == IF doc.sources = <<>> THEN {} ELSE {1}
  <2>5. doc.sources \in [names -> SourceType]
    BY <2>1, <2>2
  <2>3. doc \in DocumentType(names)
    BY <1>1, <2>5 DEF DocumentFields, DocumentType
  <2>4. \A n \in names : <<Refused>>[n] \in TileJsonType
    BY DEF TileJsonType
  <2> QED BY <2>3, <2>4, EveryDocumentRestorable, EveryDocumentAnswerable
<1>8. Documents(RestoredIffRestorable) /\ Documents(ServedIsAnswerable)
  BY <1>5, <1>6, <1>7 DEF Documents
<1>9. DocumentsAgree
  BY <1>8 DEF DocumentsAgree, AllAgree
<1> QED BY <1>9, PTL

=============================================================================

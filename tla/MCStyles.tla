------------------------------ MODULE MCStyles ------------------------------
(***************************************************************************)
(* Styles for TLC, with what its values stand for: a definition in the     *)
(* catalog is any source the validation accepts (SourceRules), a learned   *)
(* entry any document learn_style accepts (StyleDocument).                 *)
(***************************************************************************)
EXTENDS Styles, StyleDocument, SourceRules

(* Documents: one source varied beside a plain one or alone, with every    *)
(* TileJSON, and the fields of the document varied beside a plain source.  *)
BadUrls == {[allowed |-> FALSE, tokens |-> TRUE], [allowed |-> TRUE, tokens |-> FALSE]}
Templates == {Absent, <<>>, <<Good>>, <<Good, Good, Good>>} \cup {<<Good, u>> : u \in BadUrls}
Zooms == {Absent, 3, MaxZoom, MaxZoom + 1}
SourceSet ==
    [name : {"plain", "control"}, type : {"vector", "raster"}, tiles : Templates,
     url : {Absent, Refused, Good, [allowed |-> FALSE, tokens |-> TRUE]}, maxzoom : Zooms]
TileJsons == {Refused} \cup [tiles : Templates, maxzoom : Zooms]
PlainSource ==
    [name |-> "plain", type |-> "raster", tiles |-> <<Good>>, url |-> Absent, maxzoom |-> Absent]
DocumentFields ==
    [layers : BOOLEAN, glyphs : {Absent, Good} \cup BadUrls, sprite : {Absent, Good} \cup BadUrls,
     fontstacks : SUBSET Texts, validator : {"none", "short", "long"}, sources : {<<>>, <<PlainSource>>}]
PlainDocument(named) ==
    [layers |-> TRUE, glyphs |-> Good, sprite |-> Absent, fontstacks |-> {"plain"},
     validator |-> "short", sources |-> named]

Documents(P(_, _)) ==
    /\ \A src \in SourceSet, t \in TileJsons :
          P(PlainDocument(<<src>>), <<t>>) /\ P(PlainDocument(<<src, PlainSource>>), <<t, Refused>>)
    /\ \A doc \in DocumentFields : P(doc, <<Refused>>)

(* Whichever document an entry was learned from, a later process restores  *)
(* it exactly when it has none of the three things that learn_style lets   *)
(* through and valid_persisted_style does not; and the document served for *)
(* it asks the plugin for tiles, and only for tiles the plugin answers.    *)
AllAgree == Documents(RestoredIffRestorable) /\ Documents(ServedIsAnswerable)
DocumentsAgree == (\E s \in StyleIds : style_state[s] # NoEntry) => AllAgree

\* Sources: every URL under every kind of upstream, and lists of allowed hosts.
UrlSet == Urls({0, 1, MaxUrlBytes, MaxUrlBytes + 1})
Upstreams ==
    [mode : {"xyz", "wms", "arcgis"}, url : UrlSet, tokens : {0, 1}, braces : {FALSE}, values : {TRUE}]
      \cup [mode : {"style"}, url : UrlSet,
            hosts : {{}, HostNames, HostNames \cup {"localhost"}, {"loopback4"}, {"public4"}, {"loopback6"}}]
SourceOf(u) ==
    [texts |-> TRUE, tile_size |-> 256, minzoom |-> 0, maxzoom |-> 24, vector_maxzoom |-> Unset,
     max_age |-> Unset, bounds |-> Unset, coverage |-> Unset, upstream |-> u]

\* Addresses around every boundary of the rules.
EdgeOctets == {0, 1, 2, 15, 16, 17, 18, 19, 20, 31, 32, 51, 63, 64, 100, 113, 127, 128, 168, 254, 255}
EdgeV4s == {<<a, b, c, d>> : a \in Octets, b \in EdgeOctets, c \in {0, 1, 2, 100, 113}, d \in {0, 255}}
EdgeV6s ==
    {<<a, b, c, 0, e, f, g, 1>> :
        a \in {0, 100, 8191, 8192, 8193, 8194, 16383, 16384, 64511, 64512, 65152, 65216, 65280},
        b \in {0, 1, 511, 512, 2560, 3512, 32512, 49320, 65435}, c \in {0, 1, 2}, e \in {0, 1},
        f \in {0, 65535}, g \in {0, 2560, 32512, 2048}}

(* Whichever accepted source a definition stands for, its requests pass    *)
(* the checks made where they are sent; and whatever address its host      *)
(* resolves to, the guard refuses it when it is special-purpose, by itself *)
(* or as an IPv6 carrier, and only then.                                   *)
AllFetchable == \A u \in Upstreams, allow \in BOOLEAN : AcceptedIsFetchable(SourceOf(u), allow)
AllGuarded == (\A a \in EdgeV4s : V4Exact(a)) /\ (\A a \in EdgeV6s : V6Sound(a))
SourcesAgree == (\E s \in StyleIds : sources[s] # NoDef) => AllFetchable /\ AllGuarded
=============================================================================

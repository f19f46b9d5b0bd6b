---------------------------- MODULE SourceRules ----------------------------
(***************************************************************************)
(* What the container accepts and whom it talks to: the validation of a    *)
(* pushed source (source.rs), the URLs made from it (upstream.rs,          *)
(* style.rs), and the addresses a request may go to (ssrf.rs).             *)
(*                                                                         *)
(* A URL is a record of what the rules look at.  A host is a name, or a    *)
(* literal or reserved name standing for its class; names are compared     *)
(* without regard to case, so a name stands for its spellings.             *)
(***************************************************************************)
EXTENDS Integers, FiniteSets

CONSTANTS
    HostNames,          \* ordinary host names
    Unset,              \* an optional field that is not there
    MaxUrlBytes,        \* MAX_URL_BYTES and MAX_STYLE_URL_BYTES
    MaxAllowedHosts,    \* MAX_ALLOWED_HOSTS
    MaxCoverageBoxes    \* MAX_COVERAGE_BOXES

ASSUME SourceRulesAssumption ==
    MaxUrlBytes \in Nat /\ MaxAllowedHosts \in Nat /\ MaxCoverageBoxes \in Nat

\* Host classes that are no ordinary names: reserved, public and loopback literals.
Literals == {"public4", "public6", "loopback4", "loopback6"}
IsLoopbackHost(host) == host \in {"localhost", "loopback4", "loopback6"}
HostHasColon(host) == host \in {"public6", "loopback6"}

(* len is the length as written, added what parsing adds to it (a path,    *)
(* escapes); blank: white space, a control character or a # in it.         *)
Urls(lens) ==
    [scheme : {"https", "http"}, host : HostNames \cup Literals \cup {"localhost"},
     port : BOOLEAN, userinfo : BOOLEAN, query : BOOLEAN, blank : BOOLEAN,
     len : lens, added : {0, 1}]

MatchesPackageUrlShape(url) == ~url.port /\ url.host \notin Literals /\ ~IsLoopbackHost(url.host)

ValidUpstreamUrl(url, allow_http) ==
    LET local_http == url.scheme = "http" /\ allow_http /\ IsLoopbackHost(url.host) IN
    /\ url.len \in 1 .. MaxUrlBytes /\ ~url.blank /\ ~url.userinfo
    /\ local_http \/ (url.scheme = "https" /\ MatchesPackageUrlShape(url))

CleanBaseUrl(url, allow_http) == ~url.query /\ ValidUpstreamUrl(url, allow_http)

\* tokens: how often each of {z} {x} {y} occurs; braces: any other, or one in the host.
ValidTemplate(t, allow_http) ==
    ~t.braces /\ t.tokens = 1 /\ ValidUpstreamUrl(t.url, allow_http)

ValidHost(host, allow_local) ==
    ~HostHasColon(host) /\ (allow_local \/ (host \notin Literals /\ ~IsLoopbackHost(host)))

\* Degrees; NaN and infinities do not get past JSON.
ValidSourceBbox(b) ==
    /\ b.west \in -180 .. 180 /\ b.east \in -180 .. 180
    /\ b.south \in -90 .. 90 /\ b.north \in -90 .. 90
    /\ b.west # b.east /\ b.south < b.north
    /\ ~(b.west > b.east /\ b.west - b.east = 360)

ValidUpstream(u, allow_http) ==
    CASE u.mode \in {"xyz", "wmts"} -> ValidTemplate(u, allow_http)
      [] u.mode = "wms" -> CleanBaseUrl(u.url, allow_http) /\ u.values
      [] u.mode = "arcgis" -> CleanBaseUrl(u.url, allow_http)
      [] u.mode = "style" ->
            /\ ValidUpstreamUrl(u.url, allow_http)
            /\ u.hosts # {} /\ Cardinality(u.hosts) <= MaxAllowedHosts
            /\ \A host \in u.hosts : ValidHost(host, allow_http)
            /\ u.url.host \in u.hosts

(* ChartSource::is_valid.  texts: the id, title and attribution are well   *)
(* formed.                                                                 *)
IsValid(source, allow_http) ==
    /\ source.texts /\ source.tile_size \in {256, 512}
    /\ source.minzoom <= source.maxzoom /\ source.maxzoom <= 24
    /\ source.vector_maxzoom # Unset => source.vector_maxzoom \in source.minzoom .. source.maxzoom
    /\ source.max_age # 0
    /\ source.bounds # Unset => ValidSourceBbox(source.bounds)
    /\ source.coverage # Unset =>
          /\ source.coverage # {} /\ Cardinality(source.coverage) <= MaxCoverageBoxes
          /\ \A b \in source.coverage : ValidSourceBbox(b)
    /\ ValidUpstream(source.upstream, allow_http)

\* style_url_allowed, of every style document, TileJSON, glyph, sprite and tile URL.
StyleUrlAllowed(url, hosts, allow_http) ==
    /\ url.scheme = "https" \/ (allow_http /\ url.scheme = "http")
    /\ ~url.userinfo /\ url.len + url.added <= MaxUrlBytes /\ url.host \in hosts

\* guarded_get: no forbidden literal, unless private egress is allowed.
GuardLets(url, allow_private) == allow_private \/ url.host \notin {"loopback4", "loopback6"}

\* in_range and expand_upstream: the tiles a source has an upstream request for.
Expands(source, z, x, y) ==
    /\ source.upstream.mode # "style"
    /\ z \in source.minzoom .. source.maxzoom /\ x < 2^z /\ y < 2^z

-----------------------------------------------------------------------------
(* Addresses.  An IPv4 address is its octets, an IPv6 address its          *)
(* segments; a mask is the quotient by the bits it drops.                  *)

Octets == 0 .. 255
Segments == {n \in Nat : n < 65536}
V4s == [1 .. 4 -> Octets]
V6s == [1 .. 8 -> Segments]

\* Mutant: one bit too few in the mask of the shared address space.
IsForbiddenV4_Mask(a) ==
    \/ a[1] = 10 \/ (a[1] = 172 /\ a[2] \div 16 = 1) \/ (a[1] = 192 /\ a[2] = 168)
    \/ a[1] = 127 \/ a[1] = 0 \/ (a[1] = 169 /\ a[2] = 254) \/ a[1] >= 224
    \/ (a[1] = 192 /\ a[2] = 0 /\ a[3] \in {0, 2}) \/ (a[1] = 198 /\ a[2] = 51 /\ a[3] = 100)
    \/ (a[1] = 203 /\ a[2] = 0 /\ a[3] = 113) \/ (a[1] = 198 /\ a[2] \div 2 = 9)
    \/ (a[1] = 100 /\ a[2] \div 32 = 2)

IsForbiddenV4(a) ==
    \/ a[1] = 10 \/ (a[1] = 172 /\ a[2] \div 16 = 1) \/ (a[1] = 192 /\ a[2] = 168)    \* private
    \/ a[1] = 127                                                          \* loopback
    \/ a[1] = 169 /\ a[2] = 254                                            \* link local
    \/ a[1] \div 16 = 14                                                   \* multicast
    \/ a[1] = 0                                                            \* this network
    \/ \/ a[1] = 192 /\ a[2] = 0 /\ a[3] = 2                               \* documentation
       \/ a[1] = 198 /\ a[2] = 51 /\ a[3] = 100
       \/ a[1] = 203 /\ a[2] = 0 /\ a[3] = 113
    \/ a[1] = 100 /\ a[2] \div 64 = 1                                      \* shared address space
    \/ a[1] >= 240                                                         \* reserved, broadcast
    \/ a[1] = 198 /\ a[2] \div 2 = 9                                       \* benchmarking
    \/ a[1] = 192 /\ a[2] = 0 /\ a[3] = 0                                  \* IETF assignments

\* The IPv4 address in two segments.
V4Of(hi, lo) == [i \in 1 .. 4 |->
    CASE i = 1 -> hi \div 256 [] i = 2 -> hi % 256 [] i = 3 -> lo \div 256 [] i = 4 -> lo % 256]

ZeroFrom(s, lo, hi) == \A i \in lo .. hi : s[i] = 0

\* to_ipv4_mapped and embedded_v4: the prefixes that carry an IPv4 address.
CarriesTail(s) ==
    \/ ZeroFrom(s, 1, 5) /\ s[6] = 65535              \* ::ffff:0:0/96
    \/ s[1] = 100 /\ s[2] = 65435 /\ ZeroFrom(s, 3, 6)  \* 64:ff9b::/96
    \/ ZeroFrom(s, 1, 6)                              \* ::/96
Carries6to4(s) == s[1] = 8194                         \* 2002::/16

IsGlobalUnicastV6(s) ==
    s[1] \div 8192 = 1 /\ (s[1] = 8193 => s[2] # 3512 /\ s[2] >= 512)

IsForbiddenV6(s) ==
    \/ s[1] \div 256 = 255                            \* multicast
    \/ s[1] \div 512 = 126                            \* unique local
    \/ s[1] \div 64 = 1018 \/ s[1] \div 64 = 1019     \* link local, site local
    \/ CarriesTail(s) /\ IsForbiddenV4(V4Of(s[7], s[8]))
    \/ Carries6to4(s) /\ IsForbiddenV4(V4Of(s[2], s[3]))
    \/ s[1] = 100 /\ s[2] = 65435 /\ s[3] = 1         \* local-use NAT64
    \/ ~IsGlobalUnicastV6(s)

-----------------------------------------------------------------------------
(* Properties.                                                             *)

(* A source the configuration route accepts can be fetched: the URL of a   *)
(* style passes the check learn_style makes (unless parsing lengthens it   *)
(* past the limit), and in production no literal of it stops at the egress *)
(* guard, so an accepted catalog has no source that can only fail.         *)
AcceptedIsFetchable(source, allow) ==
    LET u == source.upstream IN
    IsValid(source, allow) =>
        /\ GuardLets(u.url, allow)
        /\ u.mode = "style" /\ u.url.len + u.url.added <= MaxUrlBytes =>
              StyleUrlAllowed(u.url, u.hosts, allow)

(* The special-purpose IPv4 blocks, as ranges of the first three octets.   *)
Block(a, b, c, size) == [first |-> (a * 256 + b) * 256 + c, size |-> size]
SpecialBlocks == {
    Block(0, 0, 0, 65536), Block(10, 0, 0, 65536), Block(100, 64, 0, 16384),
    Block(127, 0, 0, 65536), Block(169, 254, 0, 256), Block(172, 16, 0, 4096),
    Block(192, 0, 0, 1), Block(192, 0, 2, 1), Block(192, 168, 0, 256), Block(198, 18, 0, 512),
    Block(198, 51, 100, 1), Block(203, 0, 113, 1), Block(224, 0, 0, 2097152)}
InSpecialBlock(a) ==
    LET n == (a[1] * 256 + a[2]) * 256 + a[3]
    IN  \E block \in SpecialBlocks : block.first <= n /\ n < block.first + block.size

(* is_forbidden_ip refuses exactly the special-purpose IPv4 blocks: the    *)
(* masks and the standard library's classes leave no gap at a boundary and *)
(* take no public address away.                                            *)
V4Exact(a) == IsForbiddenV4(a) <=> InSpecialBlock(a)

(* An IPv6 address is let through only when it is ordinary global unicast, *)
(* and never when the IPv4 address it carries is refused.                  *)
V6Sound(s) ==
    ~IsForbiddenV6(s) =>
        /\ 8192 <= s[1] /\ s[1] < 16384
        /\ ~CarriesTail(s)
        /\ Carries6to4(s) => ~InSpecialBlock(V4Of(s[2], s[3]))
=============================================================================

----------------------------- MODULE MCEmission -----------------------------
(* A small instance of Emission: every shipped strategy and a few typed ones, *)
(* alone with every message; and pairs of plans of many writes, which share   *)
(* the bucket.                                                             *)
EXTENDS Emission

CONSTANTS f1, f2

Msg(proto, body, have, name, label, fixed) ==
    [proto |-> proto, body |-> body, have |-> have, name |-> name, label |-> label, fixed |-> fixed]

\* A hello, one with more behind it, one without a name, two cut short (before
\* the name, after it); a request, one to an address; a datagram; the unknown.
Hello == Msg("tls", 14, 14, <<5, 9>>, Nowhere, FALSE)
Request == Msg("http", 12, 12, <<6, 9>>, <<3, 5>>, FALSE)
Messages ==
    {Hello, Msg("tls", 14, 16, <<5, 9>>, Nowhere, FALSE), Msg("tls", 9, 9, Nowhere, Nowhere, FALSE),
     Msg("tls", 14, 7, <<5, 9>>, Nowhere, FALSE), Msg("tls", 14, 11, <<5, 9>>, Nowhere, FALSE),
     Request, Msg("http", 12, 12, <<6, 9>>, <<3, 5>>, TRUE),
     Msg("quic", 6, 6, Nowhere, Nowhere, FALSE), Msg("unknown", 4, 4, Nowhere, Nowhere, FALSE)}

Typed ==
    {<<Chunk(100)>>, <<Frag("sniend", 0)>>, <<Frag("bodymid", 0)>>, <<Op("tlsfrag", NoPos, 0)>>, <<Op("mss", NoPos, 1)>>,
     <<Op("quicfake", NoPos, 2)>>, <<Op("quicfake", NoPos, 2), Cut("disorder", "abs", 1)>>,
     <<Op("tlspad", NoPos, 0)>>, <<Every(1)>>,
     <<Cut("disorder", "abs", 1), Cut("oob", "abs", 1)>>, <<Chunk(4), Frag("snimid", 0)>>,
     <<Op("hostspell", NoPos, 0), Op("hostcase", NoPos, 0)>>,
     <<Op("hostcase", NoPos, 0), Op("hostpad", NoPos, 2)>>,
     <<Op("hostdot", NoPos, 0), Op("hostpad", NoPos, 1), Op("hostspell", NoPos, 0)>>, <<Cut("split", "hoststart", 1)>>,
     <<Cut("split", "hostend", 0), Op("hostdot", NoPos, 0)>>,
     <<Cut("disorder", "abs", 99)>>, <<Cut("split", "abs", 99)>>}

Specs == UNION {Ladders[l] : l \in DOMAIN Ladders} \cup Typed

Case(msg, spec, transport, ttl, strict) ==
    [msg |-> msg, spec |-> spec, transport |-> transport, ttl |-> ttl, strict |-> strict]

MCFlows == {f1, f2}
MCCases ==
    {[f \in MCFlows |-> IF f = f1 THEN c ELSE Absent] :
        c \in {Case(m, s, t, ttl, strict) : m \in Messages, s \in Specs, t \in {"tcp", "udp"},
                                            ttl \in BOOLEAN, strict \in BOOLEAN}}
    \cup [MCFlows -> {Case(Hello, s, "tcp", TRUE, FALSE) :
                        s \in {<<Chunk(5)>>, <<Cut("oob", "abs", 1)>>, <<Cut("disorder", "abs", 3)>>}}]
MCChunkSizes == {2, 4, 5}
MCPeriods == {3, 12}
=============================================================================

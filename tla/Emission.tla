------------------------------ MODULE Emission ------------------------------
(***************************************************************************)
(* How a first message reaches the wire (internal/strategy, internal/ops,   *)
(* internal/tlsmsg, internal/httpmsg, internal/emit): a strategy expression   *)
(* is compiled, checked against the transport and the message, applied to    *)
(* the bytes (rewriting the Host header, re-framing the first TLS record,    *)
(* laying out the writes), and the plan is emitted, write by write, by        *)
(* senders that share one bucket of small writes.                           *)
(*                                                                         *)
(* A byte is a number: byte i of the client's message is i, in another letter *)
(* case -i; what the program adds has a code of its own.  Lengths are small    *)
(* stand-ins for the real ones; the arithmetic on them is the code's.  Delays  *)
(* are left out: no operation of the registry sets one.                       *)
(***************************************************************************)
EXTENDS FoldSeqs, Integers, FiniteSets, SequencesExt, FiniteSetsExt

CONSTANTS
    Flows,        \* connections that send at the same time
    Cases,        \* Cases: the [Flows -> Case \cup {Absent}] of a behaviour
    Absent,
    ChunkSizes, Periods,  \* the sizes of the ladders' chunk and tlsevery rungs
    MaxSegments, Burst    \* the budget of a plan; the bucket

RecHdr   == 5
HdrByte  == 900
LenByte  == 1000    \* + the length a record header declares
Filler   == 901
Dot      == 902
Junk     == 903
Decoy    == 904
Nowhere  == <<0, 0>>  \* the extent of a name that is not there
Added(x) == x \in {HdrByte, Filler, Dot} \/ x >= LenByte

\* A message: its protocol, the length of its first record (or head), the bytes
\* of it that were read, where the host name is in it (and the label "Host" of
\* an HTTP header), and whether that name is a dotted one or an address.
Message == [proto: {"tls", "http", "quic", "unknown"}, body: Nat, have: Nat,
            name: Nat \X Nat, label: Nat \X Nat, fixed: BOOLEAN]

Pos(anchor, delta) == [anchor |-> anchor, delta |-> delta]
Op(name, pos, n)   == [op |-> name, pos |-> pos, n |-> n]
NoPos == Pos("missing", 0)

\* A connection, and what is to be sent on it: transport "tcp" or "udp", hop
\* limits supported or not, strict (the prober, which has no governor).
Operation == [op: STRING, pos: [anchor: STRING, delta: Int], n: Int]
CaseSet   == [msg: Message, spec: Seq(Operation), transport: {"tcp", "udp"}, ttl: BOOLEAN,
              strict: BOOLEAN]
\* The names lie in the message, a label, its colon and then the name, and no
\* byte of it has a code of what is added.
WithinBody(m) ==
    /\ m.body < HdrByte /\ m.have < HdrByte
    /\ \A e \in {m.name, m.label} : e # Nowhere => e[1] < e[2] /\ e[2] <= m.body
    /\ m.name # Nowhere /\ m.label # Nowhere => m.label[2] < m.name[1]
ASSUME CasesType ==
    \A c \in Cases : \A f \in Flows :
        c[f] # Absent => c[f] \in CaseSet /\ WithinBody(c[f].msg)
ASSUME SizesType == ChunkSizes \cup Periods \subseteq Nat \ {0}
ASSUME BudgetType == MaxSegments \in Nat \ {0} /\ Burst \in Nat \ {0}

VARIABLES
    case,    \* case[f]: [msg, spec, transport, ttl, strict]
    pc,      \* start, refused, planned, sending, sent, failed
    plan,    \* plan[f]: [payload, segs, meta]
    left,    \* the writes not yet emitted, after the governor
    hop,     \* the hop limit of the socket; 0 is the default
    stuck,   \* the socket refused to have it restored
    wire,    \* wire[f]: the writes, as [kind, data, ttl]
    tokens   \* the bucket

emitVars == <<case, pc, plan, left, hop, stuck, wire, tokens>>

-----------------------------------------------------------------------------
(* The strategies a run has.                                               *)

Chunk(n)      == Op("chunk", NoPos, n)
Frag(a, d)    == Op("tlsfrag", Pos(a, d), 0)
Every(n)      == Op("tlsevery", NoPos, n)
Cut(op, a, d) == Op(op, Pos(a, d), 1)

\* The rungs of the named ladders.
Ladders ==
    [tr     |-> {<<>>, <<Frag("snimid", 0)>>, <<Cut("oob", "abs", 1)>>}
                  \cup {<<Chunk(n)>> : n \in ChunkSizes},
     global |-> {<<>>, <<Frag("snimid", 0)>>} \cup {<<Every(n)>> : n \in Periods}
                  \cup {<<Chunk(n)>> : n \in ChunkSizes},
     probe  |-> {<<Frag("snistart", d)>> : d \in {-20, -1, 0, 1}}
                  \cup {<<Frag("sniend", -1)>>}
                  \cup {<<Cut(op, "abs", d)>> : op \in {"split", "disorder", "oob"}, d \in {1, 3}}
                  \cup {<<Cut(op, "snimid", 0)>> : op \in {"split", "disorder"}}
                  \cup {<<Frag("snimid", 0), Chunk(n)>> : n \in ChunkSizes}
                  \cup {<<Every(p), Chunk(n)>> : p \in Periods, n \in ChunkSizes}
                  \cup {<<Op("hostcase", NoPos, 0), Op("hostdot", NoPos, 0), Chunk(n)>> : n \in ChunkSizes}
                  \cup {<<Op("hostpad", NoPos, 3)>>}]

\* The operations by kind, in the order of their names: mutate, reframe,
\* schedule, side.  A spec is applied in this order, however it was typed.
Order == <<"hostcase", "hostdot", "hostpad", "hostspell", "tlspad", "tlsevery", "tlsfrag",
           "chunk", "disorder", "fake", "mss", "oob", "split", "quicfake">>
Reframers  == {"tlsevery", "tlsfrag"}
Schedulers == {"chunk", "disorder", "fake", "mss", "oob", "split"}
\* Registered only to say why they cannot work: no sequence numbers, no MSS; a
\* transcript that already covers the unpadded hello.
Unreachable == {"fake", "mss"}
Pointless   == {"tlspad"}
Ops  == ToSet(Order)
Positioned  == {"tlsfrag", "split", "disorder", "oob"}

Uses(spec, op) == \E i \in DOMAIN spec : spec[i].op = op

\* checkComposition
Composes(spec) ==
    /\ ~(Uses(spec, "disorder") /\ Uses(spec, "oob"))
    /\ \A family \in {Reframers, Schedulers} :
         Cardinality({i \in DOMAIN spec : spec[i].op \in family}) <= 1

ArgsGiven(o) ==
    /\ o.op \in Positioned => o.pos # NoPos
    /\ o.op \in {"chunk", "tlsevery", "hostpad", "quicfake", "disorder"} => o.n > 0

\* Registry.Get accepts the expression.
Compiles(spec) ==
    /\ \A i, j \in DOMAIN spec : spec[i].op = spec[j].op => i = j
    /\ \A i \in DOMAIN spec :
         /\ spec[i].op \in Ops \ (Unreachable \cup Pointless)
         /\ ArgsGiven(spec[i])
    /\ Composes(spec)

\* The steps of a compiled strategy.
StepsOf(spec) ==
    LET used == Kept(Order, {op \in Ops : Uses(spec, op)})
    IN  [k \in DOMAIN used |-> spec[CHOOSE i \in DOMAIN spec : spec[i].op = used[k]]]

-----------------------------------------------------------------------------
(* Reading the message.                                                    *)

Upto(n) == [i \in 1..n |-> i]
Header(n) == <<HdrByte, HdrByte, HdrByte, HdrByte, LenByte + n>>
Bytes(m) == IF m.proto = "tls" THEN Header(m.body) \o Upto(m.have) ELSE Upto(m.have)

Magnitude(x) == IF x < 0 THEN -x ELSE x
Index(s, x) == CHOOSE i \in DOMAIN s : Magnitude(s[i]) = x

\* Where an extent of the client's message is in the bytes at hand; a dot written
\* after it belongs to it.
Extent(payload, e) ==
    IF e[2] = e[1] \/ ~\E i \in DOMAIN payload : Magnitude(payload[i]) = e[2] THEN Nowhere
    ELSE LET end == Index(payload, e[2])
         IN  <<Index(payload, e[1] + 1) - 1,
               IF end < Len(payload) /\ payload[end + 1] = Dot THEN end + 1 ELSE end>>

\* The server name is found only if all of it was read.
ClientHelloSNI(m) == IF m.have >= m.name[2] THEN m.name ELSE Nowhere
parseTLS(m) ==
    [proto |-> "tls", complete |-> m.have >= m.body, off |-> RecHdr, len |-> m.body,
     sni |-> ClientHelloSNI(m), host |-> Nowhere, label |-> Nowhere]
\* The first Host header among those that were read, and its value.
HttpHost(m, payload) == [host |-> Extent(payload, m.name), label |-> Extent(payload, m.label)]
parseHTTP(m, payload) ==
    LET found == HttpHost(m, payload)
    IN  [proto |-> "http", complete |-> m.have >= m.body, off |-> 0, len |-> 0,
         sni |-> Nowhere, host |-> found.host, label |-> found.label]
IsInitial(m) == m.proto = "quic"
Parse(m, payload) ==
    IF m.proto = "tls" THEN parseTLS(m)
    ELSE IF m.proto = "http" THEN parseHTTP(m, payload)
    ELSE [proto |-> m.proto, complete |-> IsInitial(m), off |-> 0, len |-> 0,
          sni |-> Nowhere, host |-> Nowhere, label |-> Nowhere]

HasSNI(meta)  == meta.sni # Nowhere
HasHost(meta) == meta.host # Nowhere

-----------------------------------------------------------------------------
(* The builder.  An operation that refuses leaves bad = TRUE and no plan.    *)

Stream(data) == [kind |-> "stream", data |-> data, ttl |-> 0]
Failed(b) == [b EXCEPT !.bad = TRUE]
\* Doing less than asked is noted, or, for the prober, refused.
Downgraded(b, less) == IF b.strict THEN Failed(b) ELSE less

\* Pos.Resolve: an offset, or -1.
Resolve(p, meta) ==
    LET base == CASE p.anchor = "abs" -> 0
                  [] p.anchor = "snistart" /\ HasSNI(meta) -> meta.sni[1]
                  [] p.anchor = "snimid" /\ HasSNI(meta) -> meta.sni[1] + (meta.sni[2] - meta.sni[1]) \div 2
                  [] p.anchor = "sniend" /\ HasSNI(meta) -> meta.sni[2]
                  [] p.anchor = "bodymid" /\ meta.len > 0 -> meta.len \div 2
                  [] p.anchor = "hoststart" /\ HasHost(meta) -> meta.host[1]
                  [] p.anchor = "hostend" /\ HasHost(meta) -> meta.host[2]
                  [] OTHER -> -1
    IN  IF base < 0 \/ base + p.delta < 0 THEN -1 ELSE base + p.delta

\* resolvePayloadPos: record-body anchors are moved into the payload's coordinates.
PayloadPos(p, meta) ==
    IF Resolve(p, meta) >= 0 /\ p.anchor \in {"snistart", "snimid", "sniend", "bodymid"}
    THEN Resolve(p, meta) + meta.off ELSE Resolve(p, meta)

\* A sequence in pieces, cut at offsets.
Pieces(s, cuts) ==
    LET ends == Append(cuts, Len(s))
    IN  [k \in 1..Len(ends) |-> SubSeq(s, (IF k = 1 THEN 0 ELSE ends[k-1]) + 1, ends[k])]

\* tlsmsg.SplitRecord: the body cut at the given offsets, a header on each part.
SplitRecord(body, cuts) ==
    LET parts == Pieces(body, cuts)
    IN  FlattenSeq([k \in 1..Len(parts) |-> Header(Len(parts[k])) \o parts[k]])

\* One record becomes several, in one write; the first must not hold the name.
ReframeFirstRecord(b, cuts) ==
    LET end == b.meta.off + b.meta.len
    IN  IF \/ b.reframed \/ b.segs # <<>> \/ b.meta.proto # "tls" \/ ~b.meta.complete
           \/ cuts = <<>> \/ \E k \in DOMAIN cuts : cuts[k] <= (IF k = 1 THEN 0 ELSE cuts[k-1])
           \/ end > Len(b.payload) \/ (HasSNI(b.meta) /\ cuts[1] > b.meta.sni[2] - 1)
           \/ cuts[Len(cuts)] >= b.meta.len
        THEN Failed(b)
        ELSE [b EXCEPT !.reframed = TRUE,
               !.payload = SplitRecord(SubSeq(b.payload, b.meta.off + 1, end), cuts)
                             \o SubSeq(b.payload, end + 1, Len(b.payload))]

\* The offsets that grow and lie inside the n bytes.
Clean(offsets, n) ==
    LET kept[k \in 0..Len(offsets)] ==
          IF k = 0 THEN <<>>
          ELSE LET q == kept[k - 1]
               IN  IF offsets[k] > (IF q = <<>> THEN 0 ELSE q[Len(q)]) /\ offsets[k] < n
                   THEN Append(q, offsets[k]) ELSE q
    IN  kept[Len(offsets)]

\* A schedule: the payload cut at those offsets.
SplitAt(b, offsets) ==
    LET n     == Len(b.payload)
        clean == Clean(offsets, n)
        parts == Pieces(b.payload, clean)
        segs  == [k \in 1..Len(parts) |-> Stream(parts[k])]
    IN  IF b.segs # <<>> \/ n = 0 \/ Len(segs) > MaxSegments THEN Failed(b)
        ELSE IF Len(clean) < Len(offsets) THEN Downgraded(b, [b EXCEPT !.segs = segs])
        ELSE [b EXCEPT !.segs = segs]

SetSegTTL(b, ttl) == IF "ttl" \in b.caps THEN [b EXCEPT !.segs[1].ttl = ttl] ELSE Failed(b)
MarkOOB(b) ==
    IF "oob" \in b.caps
    THEN [b EXCEPT !.segs = InsertAt(@, 2, [kind |-> "oob", data |-> <<Junk>>, ttl |-> 0])]
    ELSE Failed(b)

-----------------------------------------------------------------------------
(* The operations.                                                         *)

TlsFrag(b, o) ==
    LET cut == Resolve(o.pos, b.meta)
    IN  IF cut < 0 \/ (HasSNI(b.meta) /\ cut > b.meta.sni[2] - 1) THEN Failed(b)
        ELSE ReframeFirstRecord(b, <<cut>>)

TlsEvery(b, o) ==
    IF b.meta.proto = "tls" /\ o.n >= b.meta.len THEN Failed(b)
    ELSE IF HasSNI(b.meta) /\ o.n > b.meta.sni[2] - 1 THEN Failed(b)
    ELSE ReframeFirstRecord(b, [k \in 1..((b.meta.len - 1) \div o.n) |-> k * o.n])

\* (mutant of ChunkOp: the rest is not looked at)
ChunkAnyRest(b, o) ==
    LET n    == Len(b.payload)
        want == (n + o.n - 1) \div o.n
    IN  IF o.n >= n \/ MaxSegments < 2 THEN Failed(b)
        ELSE SplitAt(b, [k \in 1..Min({want - 1, MaxSegments - 1}) |-> k * o.n])

\* As many writes as the budget has, the rest in one: refused if that rest would
\* carry the name.
ChunkOp(b, o) ==
    LET n    == Len(b.payload)
        want == (n + o.n - 1) \div o.n
        offs == [k \in 1..Min({want - 1, MaxSegments - 1}) |-> k * o.n]
    IN  IF \/ o.n >= n \/ MaxSegments < 2
           \/ want > MaxSegments /\ HasSNI(b.meta) /\ offs[Len(offs)] <= b.meta.off + b.meta.sni[2]
        THEN Failed(b) ELSE SplitAt(b, offs)

SplitOp(b, o) ==
    IF PayloadPos(o.pos, b.meta) < 0 THEN Failed(b) ELSE SplitAt(b, <<PayloadPos(o.pos, b.meta)>>)

\* A schedule of one write would send the whole message with the lowered limit.
DisorderOp(b, o) ==
    LET cut == SplitOp(b, o)
    IN  IF cut.bad \/ Len(cut.segs) < 2 THEN Failed(b) ELSE SetSegTTL(cut, o.n)
OobOp(b, o) ==
    LET cut == SplitOp(b, o)
    IN  IF cut.bad \/ Len(cut.segs) < 2 THEN Failed(b) ELSE MarkOOB(cut)

\* Decoys of the real connection ID, with a lowered limit, before the datagram.
QuicFake(b, o) ==
    LET real  == IF b.segs = <<>> THEN <<Stream(b.payload)>> ELSE b.segs
        fakes == [k \in 1..o.n |-> [kind |-> "decoy", data |-> <<Decoy>>, ttl |-> 4]]
    IN  IF ~IsInitial(b.meta) THEN Failed(b) ELSE [b EXCEPT !.segs = fakes \o real]

\* A rewrite of the Host header, after which the message is parsed again.
Mutate(b, m, payload) ==
    IF ~HasHost(b.meta) \/ ~b.meta.complete THEN Failed(b)
    ELSE [b EXCEPT !.payload = payload, !.meta = Parse(m, payload), !.segs = <<>>]
\* (hostspell asks for its default, the spelling of hostcase)
HostSpell(b, m) ==
    LET l == b.meta.label
    IN  IF \E i \in l[1]+1..l[2] : b.payload[i] < 0 THEN Failed(b)
        ELSE Mutate(b, m, [i \in DOMAIN b.payload |->
                             IF i \in l[1]+1..l[2] THEN -b.payload[i] ELSE b.payload[i]])
HostDot(b, m) ==
    IF m.fixed \/ ~HasHost(b.meta) \/ b.payload[b.meta.host[2]] = Dot THEN Failed(b)
    ELSE Mutate(b, m, InsertAt(b.payload, b.meta.host[2] + 1, Dot))
HostPad(b, m, n) ==
    IF ~HasHost(b.meta) THEN Failed(b)
    ELSE Mutate(b, m, SubSeq(b.payload, 1, b.meta.label[1]) \o [i \in 1..n |-> Filler]
                        \o SubSeq(b.payload, b.meta.label[1] + 1, Len(b.payload)))

Apply(b, m, o) ==
    IF b.bad THEN b ELSE
    CASE o.op \in {"hostcase", "hostspell"} -> HostSpell(b, m)
      [] o.op = "hostdot"  -> HostDot(b, m)
      [] o.op = "hostpad"  -> HostPad(b, m, o.n)
      [] o.op = "tlsfrag"  -> TlsFrag(b, o)
      [] o.op = "tlsevery" -> TlsEvery(b, o)
      [] o.op = "chunk"    -> ChunkOp(b, o)
      [] o.op = "split"    -> SplitOp(b, o)
      [] o.op = "disorder" -> DisorderOp(b, o)
      [] o.op = "oob"      -> OobOp(b, o)
      [] o.op = "quicfake" -> QuicFake(b, o)

-----------------------------------------------------------------------------
(* The plan.                                                               *)

SockCaps(ttl) == {"write", "nodelay", "oob"} \cup (IF ttl THEN {"ttl"} ELSE {})
UDPCaps(ttl)  == {"write", "nodelay", "datagram"} \cup (IF ttl THEN {"ttl"} ELSE {})
CapsOf(c) == IF c.transport = "tcp" THEN SockCaps(c.ttl) ELSE UDPCaps(c.ttl)

NeedsOf(op) ==
    CASE op = "disorder" -> {"write", "nodelay", "ttl"}
      [] op = "oob" -> {"write", "nodelay", "oob"}
      [] op = "quicfake" -> {"write", "nodelay", "ttl", "datagram"}
      [] op \in {"hostcase", "hostspell", "hostdot", "hostpad"} -> {"write"}
      [] OTHER -> {"write", "nodelay"}

\* The transport has what the strategy needs, the message what it reads.
CheckAgainst(steps, caps, meta) ==
    \A i \in DOMAIN steps :
        LET op == steps[i].op
        IN  /\ NeedsOf(op) \subseteq caps
            /\ op \in Reframers \cup {"chunk", "hostcase", "hostspell", "hostdot", "hostpad"} => meta.complete
            /\ op = "tlsfrag" => HasSNI(meta)
            /\ op \in {"hostcase", "hostspell", "hostdot", "hostpad"} => HasHost(meta)

PlanCaps(segs) ==
    {"write"} \cup (IF Len(segs) > 1 THEN {"nodelay"} ELSE {})
      \cup (IF \E i \in DOMAIN segs : segs[i].ttl # 0 THEN {"ttl"} ELSE {})
      \cup (IF \E i \in DOMAIN segs : segs[i].kind = "oob" THEN {"oob"} ELSE {})
      \cup (IF \E i \in DOMAIN segs : segs[i].kind = "decoy" THEN {"datagram"} ELSE {})

StreamBytes(segs) ==
    FlattenSeq([i \in DOMAIN segs |-> IF segs[i].kind = "stream" THEN segs[i].data ELSE <<>>])

\* Gate 4: within the budget, and the writes are the payload.
Validate(payload, segs) ==
    /\ Len(segs) <= MaxSegments
    /\ \A i \in DOMAIN segs : segs[i].data # <<>>
    /\ StreamBytes(segs) = payload

BuildWith(c) ==
    LET b0 == [payload |-> Bytes(c.msg), meta |-> Parse(c.msg, Bytes(c.msg)), segs |-> <<>>,
               caps |-> CapsOf(c), strict |-> c.strict, reframed |-> FALSE, bad |-> FALSE]
        steps == StepsOf(c.spec)
        built[k \in 0..Len(steps)] ==
          IF k = 0 THEN b0 ELSE Apply(built[k - 1], c.msg, steps[k])
    IN  IF CheckAgainst(steps, b0.caps, b0.meta) THEN built[Len(steps)] ELSE Failed(b0)

\* With no schedule, the whole payload in one write.
Schedule(b) == IF b.segs = <<>> /\ b.payload # <<>> THEN <<Stream(b.payload)>> ELSE b.segs

Compile(f) ==
    /\ pc[f] = "start"
    /\ LET b == BuildWith(case[f])
           ok == Compiles(case[f].spec) /\ ~b.bad /\ Validate(b.payload, Schedule(b))
       IN  /\ pc' = [pc EXCEPT ![f] = IF ok THEN "planned" ELSE "refused"]
           /\ plan' = IF ok THEN [plan EXCEPT ![f] = [payload |-> b.payload, segs |-> Schedule(b),
                                                      meta |-> b.meta, reframed |-> b.reframed]]
                      ELSE plan
    /\ UNCHANGED <<case, left, hop, stuck, wire, tokens>>

-----------------------------------------------------------------------------
(* The governor and the sender.                                            *)

\* (mutant of Mergeable: any neighbours of one hop limit)
MergeableAny(a, b) == a.ttl = b.ttl
Mergeable(a, b) == a.kind = "stream" /\ b.kind = "stream" /\ a.ttl = b.ttl

\* The last two neighbours that can be one write become one.
MergeLast(segs) ==
    LET pairs == {j \in 2..Len(segs) : Mergeable(segs[j-1], segs[j])}
        j     == Max(pairs)
    IN  IF pairs = {} THEN segs
        ELSE SubSeq(segs, 1, j - 2) \o <<[segs[j-1] EXCEPT !.data = @ \o segs[j].data]>>
               \o SubSeq(segs, j + 1, Len(segs))

Coalesce(segs, max) ==
    LET merged[k \in 0..Len(segs)] == IF k = 0 THEN segs ELSE MergeLast(merged[k-1])
    IN  IF Len(segs) <= max THEN segs ELSE merged[Len(segs) - max]

\* What the bucket grants: never nothing, so that a plan goes out at all.
Granted(n) == Max({1, Min({n, tokens})})

\* Send: the transport's capabilities again, then the governor, which a plan of
\* one write never meets.
Reserve(f) ==
    /\ pc[f] = "planned"
    /\ LET segs == plan[f].segs
           governed == ~case[f].strict /\ Len(segs) > 1
           granted == IF governed THEN Granted(Len(segs)) ELSE Len(segs)
       IN  \/ /\ ~(PlanCaps(segs) \subseteq CapsOf(case[f]))
              /\ pc' = [pc EXCEPT ![f] = "failed"]
              /\ UNCHANGED <<left, tokens>>
           \/ /\ PlanCaps(segs) \subseteq CapsOf(case[f])
              /\ pc' = [pc EXCEPT ![f] = "sending"]
              /\ left' = [left EXCEPT ![f] = IF granted < Len(segs) THEN Coalesce(segs, granted) ELSE segs]
              /\ tokens' = IF governed THEN tokens - granted ELSE tokens
    /\ UNCHANGED <<case, plan, hop, stuck, wire>>

\* The hop limit is restored on every way out; the socket may refuse.
Restore(f) ==
    \/ hop[f] = 0 /\ UNCHANGED <<hop, stuck>>
    \/ hop[f] # 0 /\ hop' = [hop EXCEPT ![f] = 0] /\ UNCHANGED stuck
    \/ hop[f] # 0 /\ stuck' = [stuck EXCEPT ![f] = TRUE] /\ UNCHANGED hop

Sent(f) ==
    /\ pc[f] = "sending" /\ left[f] = <<>>
    /\ pc' = [pc EXCEPT ![f] = "sent"]
    /\ Restore(f)
    /\ UNCHANGED <<case, plan, left, wire, tokens>>

\* The context ends before a write, or the socket refuses the hop limit.
Abort(f) ==
    /\ pc[f] = "sending" /\ left[f] # <<>>
    /\ pc' = [pc EXCEPT ![f] = "failed"]
    /\ Restore(f)
    /\ UNCHANGED <<case, plan, left, wire, tokens>>

\* (mutant of Hop: the limit of one write is left for the next)
HopKept(f) == IF Head(left[f]).ttl # 0 THEN Head(left[f]).ttl ELSE hop[f]
\* The limit of the next write: its own, or the default again.
Hop(f) == Head(left[f]).ttl

EmitSegment(f) ==
    /\ pc[f] = "sending" /\ left[f] # <<>>
    /\ LET seg == Head(left[f])
       IN  /\ hop' = [hop EXCEPT ![f] = Hop(f)]
           /\ wire' = [wire EXCEPT ![f] = Append(@, [seg EXCEPT !.ttl = Hop(f)])]
           /\ left' = [left EXCEPT ![f] = Tail(@)]
    /\ UNCHANGED <<case, pc, plan, stuck, tokens>>

\* The write is cut short: what was taken is on the wire, and the limit restored.
ShortWrite(f) ==
    /\ pc[f] = "sending" /\ left[f] # <<>>
    /\ LET seg == Head(left[f])
       IN  \E n \in 0..(Len(seg.data) - 1) :
             /\ wire' = [wire EXCEPT ![f] = Append(@, [seg EXCEPT !.data = SubSeq(@, 1, n), !.ttl = Hop(f)])]
             /\ \/ hop' = [hop EXCEPT ![f] = 0] /\ UNCHANGED stuck
                \/ /\ Hop(f) # 0
                   /\ hop' = [hop EXCEPT ![f] = Hop(f)] /\ stuck' = [stuck EXCEPT ![f] = TRUE]
    /\ pc' = [pc EXCEPT ![f] = "failed"]
    /\ UNCHANGED <<case, plan, left, tokens>>

\* Time fills the bucket.
Refill ==
    /\ tokens < Burst /\ \E f \in Flows : pc[f] \in {"start", "planned"}
    /\ tokens' = tokens + 1
    /\ UNCHANGED <<case, pc, plan, left, hop, stuck, wire>>

NoPlan == [payload |-> <<>>, segs |-> <<>>, meta |-> <<>>, reframed |-> FALSE]

EmitInit ==
    /\ case \in Cases
    /\ pc = [f \in Flows |-> IF case[f] = Absent THEN "refused" ELSE "start"]
    /\ plan = [f \in Flows |-> NoPlan]
    /\ left = [f \in Flows |-> <<>>]
    /\ hop = [f \in Flows |-> 0]
    /\ stuck = [f \in Flows |-> FALSE]
    /\ wire = [f \in Flows |-> <<>>]
    /\ tokens = Burst

Send(f) == Reserve(f) \/ EmitSegment(f) \/ ShortWrite(f) \/ Abort(f) \/ Sent(f)
EmitNext == (\E f \in Flows : Compile(f) \/ Send(f)) \/ Refill
EmitSpec == EmitInit /\ [][EmitNext]_emitVars

-----------------------------------------------------------------------------
(* Properties.                                                             *)

Planned(f) == pc[f] \notin {"start", "refused"}
OnWire(f) == StreamBytes(wire[f])

\* Where a stream holds bytes of the client's, in whatever case.
Own(s) == {i \in DOMAIN s : ~Added(s[i])}

\* They are the first of its have bytes, in their order and none left out.
Clients(s, have) ==
    \A i \in Own(s) :
        /\ Magnitude(s[i]) \in 1..have
        /\ \A j \in Own(s) : i < j => Magnitude(s[i]) < Magnitude(s[j])
        /\ \A k \in 1..Magnitude(s[i]) : \E j \in Own(s) : Magnitude(s[j]) = k
AllOf(s, have) == \A k \in 1..have : \E i \in Own(s) : Magnitude(s[i]) = k

\* The record headers of a stream declare what follows them.
Framed(s) ==
    \A i \in DOMAIN s : s[i] >= LenByte =>
        \A k \in 1..(s[i] - LenByte) : i + k <= Len(s) => ~Added(s[i + k])

\* Whatever is rewritten, cut, coalesced by the governor or broken off, the peer
\* is never sent in band anything but the client's message from its start, in
\* sound records; and a send that succeeded sent all of it.
StreamIsTheClients ==
    \A f \in Flows : Planned(f) =>
        /\ Clients(OnWire(f), case[f].msg.have)
        /\ Framed(OnWire(f))
        /\ pc[f] = "sent" => AllOf(OnWire(f), case[f].msg.have)

\* The name the censor looks for is where the plan promises it: not whole in the
\* first record once that was re-framed, in no write of a chunked plan longer
\* than a chunk, never before the urgent byte or in the write that is meant to
\* be lost; the last two also after the governor took writes away.
NameIsHidden ==
    \A f \in Flows : Planned(f) /\ HasSNI(plan[f].meta) =>
        LET spec == case[f].spec
            name == (case[f].msg.name[1] + 1)..case[f].msg.name[2]
            s    == plan[f].payload
            Holds(data) == name \subseteq ToSet(data)
        IN  /\ plan[f].reframed => ~Holds(SubSeq(s, RecHdr + 1, RecHdr + s[RecHdr] - LenByte))
            /\ \A o \in ToSet(spec) : o.op = "chunk" /\ ~plan[f].reframed =>
                 \A seg \in ToSet(plan[f].segs) : Len(seg.data) > o.n => ~Holds(seg.data)
            /\ (Uses(spec, "disorder") \/ Uses(spec, "oob")) /\ wire[f] # <<>> => wire[f][1].data # s

\* A socket goes on to the relay with its own hop limit, unless the system would
\* not restore it; and a lowered limit was only ever on the writes it was meant
\* for, so what a lost write carried is all the client has to send again.
HopLimitRestored ==
    \A f \in Flows :
        /\ pc[f] \in {"sent", "failed"} /\ ~stuck[f] => hop[f] = 0
        /\ \A i \in DOMAIN wire[f] : wire[f][i].ttl # 0 =>
             \/ wire[f][i].kind = "decoy"
             \/ /\ Uses(case[f].spec, "disorder") /\ Len(wire[f][i].data) < Len(plan[f].payload)
                /\ \A k \in 1..i - 1 : wire[f][k].kind = "decoy"

=============================================================================

--------------------------- MODULE SessionProofs ----------------------------
(***************************************************************************)
(* Proofs about Session for any number of connections, whatever their      *)
(* clients and origins say and whenever they stop, and for every bound.    *)
EXTENDS Session, FiniteSetTheorems, SequenceTheorems, TLAPS

--------------------------------------------------------------------------
(* What each connection has read, buffered and written.  j is its job, h    *)
(* its handler, n its ends and r the directions of its relay.               *)

Script(j, n, s) == [i \in 1..n[s].sent |-> j[s][i].seg]

\* No byte has been read or written for these.
Early == {"syn", "rejected", "refused", "peek", "socks", "readreq", "open", "body",
          "response", "precheck", "serve"}
Undialled == {"syn", "peek", "socks", "readreq", "open", "precheck", "serve", "first", "dial"}
Reading == {"first", "dial", "ladder"}

Closed(x) == x.fin = TRUE

Shape(j, h, n, r) ==
    /\ DOMAIN h = DOMAIN Handler /\ DOMAIN n = Sides /\ DOMAIN r = Dirs
    /\ h.first \in Seq(Nat) /\ h.pre \in Seq(Nat) /\ h.req \in Nat
    /\ \A s \in Sides :
         /\ DOMAIN n[s] = DOMAIN End
         /\ n[s].sent \in 0..Len(j[s]) /\ n[s].toread \in Seq(Nat) /\ n[s].got \in Seq(Nat)
         /\ Closed(n[s]) => n[s].sent = Len(j[s])
    /\ \A k \in Dirs : DOMAIN r[k] = DOMAIN Direction /\ r[k].held \in Nat

\* Nothing was sent, for nobody was allowed to speak yet.
Silence(j, h, n) ==
    /\ h.first = <<>> /\ h.acked = FALSE
    /\ \A s \in Sides : n[s].sent = 0 /\ n[s].toread = <<>> /\ n[s].got = <<>>

Emitting(h) == h.pc = "ladder" /\ h.dialled # "none"

\* What the client sent is at the origin, in the first-message buffer, or unread.
Buffered(j, h, n) ==
    /\ n["client"].got = <<>> /\ n["origin"].toread = Script(j, n, "origin")
    /\ ~Emitting(h) => /\ n["origin"].got = <<>>
                       /\ h.first \o n["client"].toread = Script(j, n, "client")
    /\ Emitting(h) => n["origin"].got \o n["client"].toread = Script(j, n, "client")

\* The same when the origin's first bytes are in the ladder's hands.
Connected(j, h, n) ==
    /\ n["client"].got = <<>>
    /\ n["origin"].got \o n["client"].toread = Script(j, n, "client")
    /\ h.pre \o n["origin"].toread = Script(j, n, "origin")

Held(x) == IF x.pc \in {"armw", "write"} THEN <<x.held>> ELSE <<>>
Broken(x) == x.pc = "done" /\ x.err # "nil"

\* One direction of the relay: what its source sent is delivered, held or unread,
\* unless the direction has failed; one that ended well has read it all.
Relayed(j, n, x, k) ==
    /\ x.pc \in {"arm", "read", "armw", "write", "done"} /\ x.err # "ok"
    /\ IsPrefix(n[Dst(k)].got, Script(j, n, Src(k)))
    /\ ~Broken(x) => (n[Dst(k)].got \o Held(x)) \o n[Src(k)].toread = Script(j, n, Src(k))
    /\ x.pc = "done" /\ x.err = "nil" => n[Src(k)].toread = <<>> /\ Closed(n[Src(k)])

Over(j, h, n) ==
    /\ IsPrefix(n["client"].got, Script(j, n, "origin"))
    /\ IsPrefix(n["origin"].got, Script(j, n, "client"))
    /\ h.cause = "ok" => /\ n["client"].got = Script(j, n, "origin")
                         /\ n["origin"].got = Script(j, n, "client")

\* An answer of the origin its request was for.
Replied(j) == {a \in [req : Nat, origin : {j.requests[i].origin : i \in Nat},
                      kind : {Head(j.requests[i].replies) : i \in Nat}] :
                 a.origin = j.requests[a.req].origin}

Whole(j, h, n, r) ==
    /\ Shape(j, h, n, r)
    /\ h.pc \in Early \cup Reading \cup {"pre", "pipe", "done"}
    /\ h.pc \in Early => Silence(j, h, n)
    /\ h.pc \in Undialled => h.dialled = "none"
    /\ h.pc \in Reading => Buffered(j, h, n)
    /\ h.pc = "pre" => Connected(j, h, n)
    /\ h.pc = "pipe" => \A k \in Dirs : Relayed(j, n, r[k], k)
    /\ h.reported \in Dirs \cup {"none"}
    /\ h.pc = "done" => Over(j, h, n)
    /\ h.answers \in Seq(Replied(j))
    /\ h.pc \in {"body", "response"} => h.dialled = j.requests[h.req].origin

Streams ==
    /\ job \in Jobs /\ DOMAIN f = Conns /\ DOMAIN e = Conns /\ DOMAIN d = Conns
    /\ \A c \in Conns : Whole(job[c], f[c], e[c], d[c])

--------------------------------------------------------------------------
(* The server's count.                                                      *)

Live == {c \in Conns : Running(c)}

Counted ==
    /\ srv \in [cancelled : BOOLEAN, listening : BOOLEAN, drained : BOOLEAN, active : Nat,
                how : {"serving", "draining", "waited", "grace"}]
    /\ DOMAIN f = Conns /\ \A c \in Conns : DOMAIN f[c] = DOMAIN Handler
    /\ IsFiniteSet(Live) /\ srv.active = Cardinality(Live)
    /\ Mode = "proxy" /\ MaxConns > 0 => srv.active <= MaxConns
    /\ srv.how # "serving" => ~srv.listening /\ (Mode = "tun" => srv.drained)
    /\ srv.how = "waited" => Live = {}

--------------------------------------------------------------------------
(* Sequences.                                                               *)

\* A concatenation begins with its first part.
LEMMA PrefixOfConcat ==
    ASSUME NEW S, NEW s \in Seq(S), NEW t \in Seq(S)
    PROVE  IsPrefix(s, s \o t)
<1>1. Len(s) \in Nat /\ s \o t \in Seq(S) /\ Len(s \o t) = Len(s) + Len(t) /\ Len(t) \in Nat
  BY ConcatProperties, LenProperties
<1>2. SubSeq(s \o t, 1, Len(s)) = SubSeq(s, 1, Len(s))
  <2>1. CASE s = <<>>
    BY <2>1, <1>1, SubSeqEmpty, EmptySeq
  <2>2. CASE s # <<>>
    <3>1. 1 \in 1..Len(s) /\ Len(s) \in 1..Len(s)
      BY <2>2, <1>1, EmptySeq
    <3> QED BY <3>1, SubSeqOfConcat1
  <2> QED BY <2>1, <2>2
<1> QED BY <1>1, <1>2, SubSeqFull DEF IsPrefix

\* A prefix stays one when the sequence grows.
LEMMA PrefixGrows ==
    ASSUME NEW S, NEW s \in Seq(S), NEW t \in Seq(S), NEW x \in S, IsPrefix(s, t)
    PROVE  IsPrefix(s, Append(t, x))
<1>1. Len(s) \in Nat /\ Len(t) \in Nat /\ Len(s) <= Len(t) /\ <<x>> \in Seq(S)
  BY LenProperties DEF IsPrefix
<1>2. Append(t, x) = t \o <<x>> /\ Len(Append(t, x)) = Len(t) + 1
  BY AppendProperties, AppendIsConcat
<1>3. SubSeq(Append(t, x), 1, Len(s)) = SubSeq(t, 1, Len(s))
  <2>1. CASE Len(s) = 0
    BY <2>1, SubSeqEmpty
  <2>2. CASE Len(s) # 0
    <3>1. 1 \in 1..Len(t) /\ Len(s) \in 1..Len(t)
      BY <2>2, <1>1
    <3> QED BY <3>1, <1>1, <1>2, SubSeqOfConcat1
  <2> QED BY <2>1, <2>2
<1> QED BY <1>1, <1>2, <1>3 DEF IsPrefix

\* Moving the head of an unread sequence into what precedes it.
LEMMA HeadMoves ==
    ASSUME NEW S, NEW s \in Seq(S), NEW t \in Seq(S), t # <<>>
    PROVE  /\ Head(t) \in S /\ Tail(t) \in Seq(S)
           /\ (s \o <<Head(t)>>) \o Tail(t) = s \o t
<1>1. Head(t) \in S /\ Tail(t) \in Seq(S) /\ <<Head(t)>> \in Seq(S)
  BY HeadTailProperties
<1>2. t = <<Head(t)>> \o Tail(t)
  <2>1. Len(t) \in Nat \ {0} /\ t \in [1..Len(t) -> S] /\ Len(<<Head(t)>>) = 1
    BY EmptySeq, LenProperties
  <2>2. /\ Len(Tail(t)) = Len(t) - 1 /\ <<Head(t)>> \o Tail(t) \in Seq(S)
        /\ Len(<<Head(t)>> \o Tail(t)) = Len(t)
    BY <1>1, <2>1, HeadTailProperties, ConcatProperties
  <2>3. ASSUME NEW i \in 1..Len(t) PROVE t[i] = (<<Head(t)>> \o Tail(t))[i]
    <3>1. (<<Head(t)>> \o Tail(t))[i] = IF i <= 1 THEN <<Head(t)>>[i] ELSE Tail(t)[i - 1]
      BY <1>1, <2>1, <2>2, ConcatProperties
    <3>2. CASE i = 1
      BY <3>1, <3>2
    <3>3. CASE i # 1
      <4>1. i - 1 \in 1..Len(Tail(t))
        BY <2>1, <2>2, <3>3
      <4>2. Tail(t)[i - 1] = t[i]
        BY <4>1, <2>1, HeadTailProperties
      <4> QED BY <4>2, <3>1, <3>3, <2>1
    <3> QED BY <3>2, <3>3
  <2> QED BY <2>1, <2>2, <2>3, SeqEqual
<1> QED BY <1>1, <1>2, ConcatAssociative

\* What is said next comes at the end of what is unread.
LEMMA SaidLast ==
    ASSUME NEW s \in Seq(Nat), NEW t \in Seq(Nat), NEW x \in Nat
    PROVE  s \o Append(t, x) = Append(s \o t, x)
<1>1. Append(t, x) = t \o <<x>> /\ s \o t \in Seq(Nat) /\ <<x>> \in Seq(Nat)
  BY AppendIsConcat, ConcatProperties
<1>2. Append(s \o t, x) = (s \o t) \o <<x>>
  BY <1>1, AppendIsConcat
<1> QED BY <1>1, <1>2, ConcatAssociative

--------------------------------------------------------------------------
(* A connection's invariant gives the property.                             *)

\* What has been sent is a sequence of segments of the script.
LEMMA ScriptIs ==
    ASSUME NEW j, NEW n, NEW s \in Sides, j[s] \in Seq([seg : Nat, need : Nat]),
           n[s].sent \in 0..Len(j[s])
    PROVE  Script(j, n, s) \in Seq(Nat) /\ Len(Script(j, n, s)) = n[s].sent
<1>1. n[s].sent \in Nat /\ \A i \in 1..n[s].sent : i \in 1..Len(j[s])
  BY LenProperties
<1>2. ASSUME NEW i \in 1..n[s].sent PROVE j[s][i].seg \in Nat
  <2>1. j[s][i] \in [seg : Nat, need : Nat]
    BY <1>1, ElementOfSeq
  <2> QED BY <2>1
<1>3. Script(j, n, s) \in [1..n[s].sent -> Nat]
  BY <1>2 DEF Script
<1> QED BY <1>1, <1>3, SeqDef

\* Streams that are whole are prefixes of what was said, in every state.
LEMMA WholeIsPrefix ==
    ASSUME NEW j, NEW h, NEW n, NEW r, Whole(j, h, n, r),
           \A s \in Sides : j[s] \in Seq([seg : Nat, need : Nat])
    PROVE  /\ IsPrefix(n["client"].got, Script(j, n, "origin"))
           /\ IsPrefix(n["origin"].got, Script(j, n, "client"))
<1> DEFINE Up == Script(j, n, "client")
           Down == Script(j, n, "origin")
<1>0. "client" \in Sides /\ "origin" \in Sides
  BY DEF Sides
<1>1. /\ Up \in Seq(Nat) /\ Down \in Seq(Nat) /\ <<>> \in Seq(Nat)
      /\ h.first \in Seq(Nat) /\ h.pre \in Seq(Nat)
      /\ \A s \in Sides : n[s].toread \in Seq(Nat) /\ n[s].got \in Seq(Nat)
  BY <1>0, ScriptIs, EmptySeq DEF Whole, Shape
<1>2. \A t \in Seq(Nat) : IsPrefix(<<>>, t)
  <2> TAKE t \in Seq(Nat)
  <2>1. <<>> \o t = t
    BY ConcatEmptySeq
  <2> QED BY <2>1, <1>1, PrefixOfConcat
<1> HIDE DEF Up, Down
<1>3. CASE h.pc \in Early
  BY <1>0, <1>1, <1>2, <1>3 DEF Whole, Silence, Up, Down
<1>4. CASE h.pc \in Reading
  <2>1. Buffered(j, h, n)
    BY <1>4 DEF Whole
  <2>2. CASE Emitting(h)
    BY <2>1, <2>2, <1>0, <1>1, <1>2, PrefixOfConcat DEF Buffered, Up, Down
  <2>3. CASE ~Emitting(h)
    BY <2>1, <2>3, <1>0, <1>1, <1>2 DEF Buffered, Up, Down
  <2> QED BY <2>2, <2>3
<1>5. CASE h.pc = "pre"
  <2>1. /\ n["client"].got = <<>>
        /\ n["origin"].got \o n["client"].toread = Up
    BY <1>5 DEF Whole, Connected, Up
  <2>2. IsPrefix(n["origin"].got, Up)
    BY <2>1, <1>0, <1>1, PrefixOfConcat
  <2> QED BY <2>1, <2>2, <1>1, <1>2 DEF Up, Down
<1>6. CASE h.pc = "pipe"
  <2>1. Relayed(j, n, r["up"], "up") /\ Relayed(j, n, r["down"], "down")
    BY <1>6 DEF Whole, Dirs
  <2> QED BY <2>1 DEF Relayed, Src, Dst
<1>7. CASE h.pc = "done"
  BY <1>7 DEF Whole, Over
<1> QED BY <1>3, <1>4, <1>5, <1>6, <1>7 DEF Whole

LEMMA StreamsGive == Streams => StreamsAreWhole
<1> SUFFICES ASSUME Streams, NEW c \in Conns
             PROVE  /\ IsPrefix(e[c].client.got, Segs(c, "origin"))
                    /\ IsPrefix(e[c].origin.got, Segs(c, "client"))
                    /\ f[c].pc = "done" /\ f[c].cause = "ok" =>
                         /\ e[c].client.got = Segs(c, "origin")
                         /\ e[c].origin.got = Segs(c, "client")
                    /\ \A i \in DOMAIN f[c].answers :
                         f[c].answers[i].origin = Requests(c)[f[c].answers[i].req].origin
  BY DEF StreamsAreWhole
<1>1. Whole(job[c], f[c], e[c], d[c])
  BY DEF Streams
<1>2. \A s \in Sides : job[c][s] \in Seq([seg : Nat, need : Nat])
  BY ScriptsAssumption DEF Streams, Sides
<1>3. \A s \in Sides : Segs(c, s) = Script(job[c], e[c], s)
  BY DEF Segs, Script
<1>4. "client" \in Sides /\ "origin" \in Sides
  BY DEF Sides
<1>5. /\ IsPrefix(e[c].client.got, Segs(c, "origin"))
      /\ IsPrefix(e[c].origin.got, Segs(c, "client"))
  BY <1>1, <1>2, <1>3, <1>4, WholeIsPrefix
<1>6. f[c].pc = "done" /\ f[c].cause = "ok" =>
        e[c].client.got = Segs(c, "origin") /\ e[c].origin.got = Segs(c, "client")
  BY <1>1, <1>3, <1>4 DEF Whole, Over
<1>7. ASSUME NEW i \in DOMAIN f[c].answers
      PROVE  f[c].answers[i].origin = Requests(c)[f[c].answers[i].req].origin
  <2>1. f[c].answers \in Seq(Replied(job[c]))
    BY <1>1 DEF Whole
  <2>2. f[c].answers[i] \in Replied(job[c])
    BY <2>1, LenProperties, ElementOfSeq
  <2> QED BY <2>2 DEF Replied, Requests
<1> QED BY <1>5, <1>6, <1>7

--------------------------------------------------------------------------
(* One connection's step leaves the others alone.                           *)

Alone(c) ==
    /\ job' = job /\ DOMAIN f' = Conns /\ DOMAIN e' = Conns /\ DOMAIN d' = Conns
    /\ \A x \in Conns \ {c} : f'[x] = f[x] /\ e'[x] = e[x] /\ d'[x] = d[x]

LEMMA Others ==
    ASSUME Streams, NEW c \in Conns, Alone(c), Whole(job[c], f'[c], e'[c], d'[c])
    PROVE  Streams'
<1>1. ASSUME NEW x \in Conns PROVE Whole(job'[x], f'[x], e'[x], d'[x])
  <2>1. CASE x = c
    BY <2>1 DEF Alone
  <2>2. CASE x # c
    BY <2>2 DEF Alone, Streams
  <2> QED BY <2>1, <2>2
<1> QED BY <1>1 DEF Alone, Streams

\* What the helpers To, SetEnds and Move leave.
LEMMA ToIs ==
    ASSUME DOMAIN f = Conns, NEW c \in Conns, NEW upd, To(c, upd)
    PROVE  /\ DOMAIN f' = Conns /\ f'[c] = Updated(f[c], upd)
           /\ \A x \in Conns \ {c} : f'[x] = f[x]
BY DEF To

LEMMA EndsAre ==
    ASSUME DOMAIN e = Conns, NEW c \in Conns, NEW ends, SetEnds(c, ends)
    PROVE  /\ DOMAIN e' = Conns /\ e'[c] = ends
           /\ \A x \in Conns \ {c} : e'[x] = e[x]
BY DEF SetEnds

LEMMA MoveIs ==
    ASSUME DOMAIN d = Conns, NEW c \in Conns, NEW k, k \in DOMAIN d[c], NEW upd, Move(c, k, upd)
    PROVE  /\ DOMAIN d' = Conns /\ DOMAIN d'[c] = DOMAIN d[c]
           /\ d'[c][k] = Updated(d[c][k], upd)
           /\ \A l \in DOMAIN d[c] \ {k} : d'[c][l] = d[c][l]
           /\ \A x \in Conns \ {c} : d'[x] = d[x]
BY DEF Move

\* Ends whose bytes are the same: only deadlines or a peer's health differ.
SameBytes(n, m) ==
    /\ DOMAIN m = DOMAIN n
    /\ \A s \in Sides : /\ DOMAIN m[s] = DOMAIN n[s] /\ m[s].sent = n[s].sent
                        /\ m[s].toread = n[s].toread /\ m[s].got = n[s].got
                        /\ (Closed(m[s]) <=> Closed(n[s]))

LEMMA DeadlineKeepsBytes ==
    ASSUME NEW j, NEW h, NEW n, NEW r, Shape(j, h, n, r), NEW s \in Sides, NEW x, NEW y
    PROVE  SameBytes(n, Deadline(n, s, x, y))
BY DEF Shape, SameBytes, Deadline, End, Sides, Closed

LEMMA SameScripts ==
    ASSUME NEW j, NEW n, NEW m, SameBytes(n, m), NEW s \in Sides
    PROVE  Script(j, m, s) = Script(j, n, s)
BY DEF SameBytes, Script

\* The steps before a byte is read: the handler moves on, gives up, or starts to
\* read, dial or hand over.
LEMMA EarlyStep ==
    ASSUME NEW j, NEW h, NEW n, NEW r, Whole(j, h, n, r), h.pc \in Early,
           NEW g, DOMAIN g = DOMAIN Handler, NEW m, SameBytes(n, m),
           g.pc \in Early \cup {"first", "dial", "pre", "done"},
           g.first = h.first, g.pre = h.pre \/ g.pre = <<>>, g.req \in Nat,
           g.pc \in Early => g.acked = h.acked,
           g.pc \in Undialled => g.dialled = "none",
           g.pc \in {"body", "response"} => g.dialled = j.requests[g.req].origin,
           g.pc = "pre" => g.pre = <<>>,
           g.answers \in Seq(Replied(j)), g.reported = h.reported
    PROVE  Whole(j, g, m, r)
<1>0. "client" \in Sides /\ "origin" \in Sides /\ <<>> \o <<>> = <<>> /\ <<>> \in Seq(Nat)
  BY EmptySeq, ConcatEmptySeq DEF Sides
<1>1. Shape(j, g, m, r)
  BY <1>0 DEF Whole, Shape, SameBytes
<1>2. h.first = <<>> /\ h.acked = FALSE
      /\ \A s \in Sides : m[s].sent = 0 /\ m[s].toread = <<>> /\ m[s].got = <<>>
  BY DEF Whole, Silence, SameBytes
<1>3. \A s \in Sides : Script(j, m, s) = <<>>
  BY <1>2 DEF Script
<1>4. IsPrefix(<<>>, <<>>)
  BY <1>0, PrefixOfConcat
<1>5. g.pc \in Early => Silence(j, g, m)
  BY <1>2 DEF Silence
<1>6. g.pc \in Reading => Buffered(j, g, m)
  BY <1>0, <1>2, <1>3 DEF Buffered, Emitting, Reading, Early
<1>7. g.pc = "pre" => Connected(j, g, m)
  BY <1>0, <1>2, <1>3 DEF Connected
<1>8. g.pc = "done" => Over(j, g, m)
  BY <1>0, <1>2, <1>3, <1>4 DEF Over
<1>9. g.pc # "pipe"
  BY DEF Early
<1> QED BY <1>1, <1>5, <1>6, <1>7, <1>8, <1>9 DEF Whole, Reading

\* The same, of a handler in its place.
LEMMA EarlyMove ==
    ASSUME Streams, NEW c \in Conns, f[c].pc \in Early, NEW upd, To(c, upd), job' = job, d' = d,
           e' = e \/ \E s \in Sides, x, y \in {"none", "phase"} : SetEnds(c, Deadline(e[c], s, x, y)),
           NEW g, g = Updated(f[c], upd),
           g.pc \in Early \cup {"first", "dial", "pre", "done"},
           g.first = f[c].first, g.pre = f[c].pre \/ g.pre = <<>>, g.req \in Nat,
           g.pc \in Early => g.acked = f[c].acked,
           g.pc \in Undialled => g.dialled = "none",
           g.pc \in {"body", "response"} => g.dialled = job[c].requests[g.req].origin,
           g.pc = "pre" => g.pre = <<>>,
           g.answers \in Seq(Replied(job[c])), g.reported = f[c].reported
    PROVE  Streams'
<1>1. /\ Whole(job[c], f[c], e[c], d[c]) /\ Shape(job[c], f[c], e[c], d[c])
      /\ DOMAIN f = Conns /\ DOMAIN e = Conns /\ DOMAIN d = Conns
  BY DEF Streams, Whole
<1>2. DOMAIN g = DOMAIN Handler
  BY <1>1 DEF Updated, Shape
<1>3. /\ SameBytes(e[c], e'[c]) /\ DOMAIN e' = Conns
      /\ \A x \in Conns \ {c} : e'[x] = e[x]
  <2>1. CASE e' = e
    BY <2>1, <1>1 DEF SameBytes
  <2>2. CASE \E s \in Sides, x, y \in {"none", "phase"} : SetEnds(c, Deadline(e[c], s, x, y))
    BY <2>2, <1>1, EndsAre, DeadlineKeepsBytes
  <2> QED BY <2>1, <2>2
<1>4. f'[c] = g /\ Alone(c)
  BY <1>1, <1>3, ToIs DEF Alone
<1>5. Whole(job[c], g, e'[c], d[c])
  BY <1>1, <1>2, <1>3, EarlyStep
<1> QED BY <1>4, <1>5, Others

\* What a handler has before a byte is read.
LEMMA EarlyHas ==
    ASSUME Streams, NEW c \in Conns
    PROVE  /\ DOMAIN f[c] = DOMAIN Handler /\ f[c].req \in Nat
           /\ f[c].answers \in Seq(Replied(job[c]))
           /\ f[c].pc \in Undialled => f[c].dialled = "none"
           /\ f[c].pc \in {"body", "response"} => f[c].dialled = job[c].requests[f[c].req].origin
BY DEF Streams, Whole, Shape

LEMMA AcceptWhole == ASSUME Streams, NEW c \in Conns, Accept(c) PROVE Streams'
<1>1. f[c].pc \in Early /\ f[c].dialled = "none" /\ job' = job /\ d' = d /\ "client" \in Sides
  BY EarlyHas DEF Accept, Early, Undialled, Sides
<1>2. CASE To(c, [pc |-> "rejected"]) /\ e' = e
  <2> PICK g : g = Updated(f[c], [pc |-> "rejected"])
    OBVIOUS
  <2>1. /\ g.pc = "rejected" /\ g.first = f[c].first /\ g.pre = f[c].pre /\ g.req = f[c].req
        /\ g.acked = f[c].acked /\ g.answers = f[c].answers /\ g.reported = f[c].reported
    BY EarlyHas DEF Updated, Handler
  <2> QED BY <2>1, <1>1, <1>2, EarlyHas, EarlyMove DEF Early, Undialled
<1>3. CASE To(c, [pc |-> "peek"]) /\ SetEnds(c, Deadline(e[c], "client", "phase", "none"))
  <2> PICK g : g = Updated(f[c], [pc |-> "peek"])
    OBVIOUS
  <2>1. /\ g.pc = "peek" /\ g.first = f[c].first /\ g.pre = f[c].pre /\ g.req = f[c].req
        /\ g.acked = f[c].acked /\ g.answers = f[c].answers
        /\ g.reported = f[c].reported /\ g.dialled = f[c].dialled
    BY EarlyHas DEF Updated, Handler
  <2> QED BY <2>1, <1>1, <1>3, EarlyHas, EarlyMove DEF Early, Undialled
<1> QED BY <1>2, <1>3 DEF Accept

\* A handler that gives up before a byte is read.
LEMMA EarlyLeave ==
    ASSUME Streams, NEW c \in Conns, f[c].pc \in Early, NEW cause, Leave(c, cause),
           job' = job, d' = d, e' = e
    PROVE  Streams'
<1>1. To(c, [pc |-> "done", cause |-> cause])
  BY DEF Leave
<1> PICK g : g = Updated(f[c], [pc |-> "done", cause |-> cause])
  OBVIOUS
<1>2. /\ g.pc = "done" /\ g.first = f[c].first /\ g.pre = f[c].pre /\ g.req = f[c].req
      /\ g.answers = f[c].answers /\ g.reported = f[c].reported
  BY EarlyHas DEF Updated, Handler
<1> QED BY <1>1, <1>2, EarlyHas, EarlyMove DEF Early, Undialled

LEMMA TrackWhole == ASSUME Streams, NEW c \in Conns, Track(c) PROVE Streams'
<1>1. f[c].pc \in Early /\ f[c].dialled = "none" /\ job' = job /\ d' = d /\ e' = e
  BY EarlyHas DEF Track, Early, Undialled
<1>2. CASE To(c, [pc |-> "refused"])
  <2> PICK g : g = Updated(f[c], [pc |-> "refused"])
    OBVIOUS
  <2>1. /\ g.pc = "refused" /\ g.first = f[c].first /\ g.pre = f[c].pre
        /\ g.req = f[c].req /\ g.acked = f[c].acked /\ g.answers = f[c].answers
        /\ g.reported = f[c].reported /\ g.dialled = f[c].dialled
    BY EarlyHas DEF Updated, Handler
  <2> QED BY <2>1, <1>1, <1>2, EarlyHas, EarlyMove DEF Early, Undialled
<1>3. CASE To(c, [pc |-> "serve"])
  <2> PICK g : g = Updated(f[c], [pc |-> "serve"])
    OBVIOUS
  <2>1. /\ g.pc = "serve" /\ g.first = f[c].first /\ g.pre = f[c].pre
        /\ g.req = f[c].req /\ g.acked = f[c].acked /\ g.answers = f[c].answers
        /\ g.reported = f[c].reported /\ g.dialled = f[c].dialled
    BY EarlyHas DEF Updated, Handler
  <2> QED BY <2>1, <1>1, <1>3, EarlyHas, EarlyMove DEF Early, Undialled
<1> QED BY <1>2, <1>3 DEF Track

LEMMA PeekWhole == ASSUME Streams, NEW c \in Conns, Peek(c) PROVE Streams'
<1>1. f[c].pc \in Early /\ f[c].dialled = "none" /\ job' = job /\ d' = d /\ "client" \in Sides
  BY EarlyHas DEF Peek, Early, Undialled, Sides
<1>2. CASE To(c, [pc |-> "socks"]) /\ SetEnds(c, Deadline(e[c], "client", "phase", "phase"))
  <2> PICK g : g = Updated(f[c], [pc |-> "socks"])
    OBVIOUS
  <2>1. /\ g.pc = "socks" /\ g.first = f[c].first /\ g.pre = f[c].pre
        /\ g.req = f[c].req /\ g.acked = f[c].acked /\ g.answers = f[c].answers
        /\ g.reported = f[c].reported /\ g.dialled = f[c].dialled
    BY EarlyHas DEF Updated, Handler
  <2> QED BY <2>1, <1>1, <1>2, EarlyHas, EarlyMove DEF Early, Undialled
<1>3. CASE To(c, [pc |-> "readreq"]) /\ SetEnds(c, Deadline(e[c], "client", "phase", "none"))
  <2> PICK g : g = Updated(f[c], [pc |-> "readreq"])
    OBVIOUS
  <2>1. /\ g.pc = "readreq" /\ g.first = f[c].first /\ g.pre = f[c].pre
        /\ g.req = f[c].req /\ g.acked = f[c].acked /\ g.answers = f[c].answers
        /\ g.reported = f[c].reported /\ g.dialled = f[c].dialled
    BY EarlyHas DEF Updated, Handler
  <2> QED BY <2>1, <1>1, <1>3, EarlyHas, EarlyMove DEF Early, Undialled
<1>4. CASE Leave(c, "quiet") /\ e' = e
  BY <1>1, <1>4, EarlyLeave
<1> QED BY <1>2, <1>3, <1>4 DEF Peek

\* The head of a tunnel.
LEMMA TunnelWhole ==
    ASSUME Streams, NEW c \in Conns, f[c].pc \in {"socks", "readreq"}, NEW host, Tunnel(c, host),
           job' = job, d' = d, SetEnds(c, Deadline(e[c], "client", "none", "none"))
    PROVE  Streams'
<1>1. f[c].pc \in Early /\ f[c].dialled = "none" /\ job' = job /\ d' = d /\ "client" \in Sides
      /\ SetEnds(c, Deadline(e[c], "client", "none", "none"))
  BY EarlyHas DEF Early, Undialled, Sides
<1> PICK v : v = VerdictFor(c, host)
  OBVIOUS
<1>2. CASE To(c, [pc |-> "precheck", host |-> host, class |-> v.class])
  <2> PICK g : g = Updated(f[c], [pc |-> "precheck", host |-> host, class |-> v.class])
    OBVIOUS
  <2>1. /\ g.pc = "precheck" /\ g.first = f[c].first /\ g.pre = f[c].pre
        /\ g.req = f[c].req /\ g.acked = f[c].acked /\ g.answers = f[c].answers
        /\ g.reported = f[c].reported /\ g.dialled = f[c].dialled
    BY EarlyHas DEF Updated, Handler
  <2> QED BY <2>1, <1>1, <1>2, EarlyHas, EarlyMove DEF Early, Undialled
<1>3. CASE To(c, [pc |-> "dial", host |-> host, class |-> v.class])
  <2> PICK g : g = Updated(f[c], [pc |-> "dial", host |-> host, class |-> v.class])
    OBVIOUS
  <2>1. /\ g.pc = "dial" /\ g.first = f[c].first /\ g.pre = f[c].pre
        /\ g.req = f[c].req /\ g.acked = f[c].acked /\ g.answers = f[c].answers
        /\ g.reported = f[c].reported /\ g.dialled = f[c].dialled
    BY EarlyHas DEF Updated, Handler
  <2> QED BY <2>1, <1>1, <1>3, EarlyHas, EarlyMove DEF Early, Undialled
<1>4. To(c, [pc |-> IF Judged(v) THEN "precheck" ELSE "dial", host |-> host, class |-> v.class])
  BY DEF Tunnel
<1> QED BY <1>2, <1>3, <1>4

LEMMA SocksRequestWhole == ASSUME Streams, NEW c \in Conns, SocksRequest(c) PROVE Streams'
<1>1. CASE Tunnel(c, job[c].host) /\ SetEnds(c, Deadline(e[c], "client", "none", "none"))
  BY <1>1, TunnelWhole DEF SocksRequest
<1>2. CASE Leave(c, "handshake") /\ e' = e
  BY <1>2, EarlyLeave DEF SocksRequest, Early
<1> QED BY <1>1, <1>2 DEF SocksRequest

LEMMA ReadRequestWhole == ASSUME Streams, NEW c \in Conns, ReadRequest(c) PROVE Streams'
<1>1. f[c].pc \in Early /\ f[c].dialled = "none" /\ job' = job /\ d' = d /\ "client" \in Sides
  BY EarlyHas DEF ReadRequest, Early, Undialled, Sides
<1>2. CASE To(c, [pc |-> "open", req |-> f[c].req + 1]) /\ SetEnds(c, Deadline(e[c], "client", "none", "none"))
  <2> PICK g : g = Updated(f[c], [pc |-> "open", req |-> f[c].req + 1])
    OBVIOUS
  <2>1. /\ g.pc = "open" /\ g.first = f[c].first /\ g.pre = f[c].pre
        /\ g.req = f[c].req + 1 /\ g.acked = f[c].acked /\ g.answers = f[c].answers
        /\ g.reported = f[c].reported /\ g.dialled = f[c].dialled
    BY EarlyHas DEF Updated, Handler
  <2> QED BY <2>1, <1>1, <1>2, EarlyHas, EarlyMove DEF Early, Undialled
<1>3. CASE Tunnel(c, job[c].host) /\ SetEnds(c, Deadline(e[c], "client", "none", "none"))
  BY <1>1, <1>3, TunnelWhole DEF ReadRequest
<1>4. CASE (Leave(c, "ok") \/ Leave(c, "quiet")) /\ e' = e
  BY <1>1, <1>4, EarlyLeave
<1> QED BY <1>2, <1>3, <1>4 DEF ReadRequest

LEMMA OpenHTTPWhole == ASSUME Streams, NEW c \in Conns, OpenHTTP(c) PROVE Streams'
<1>1. f[c].pc \in Early /\ job' = job /\ d' = d /\ e' = e
  BY DEF OpenHTTP, Early
<1> PICK v : v = VerdictFor(c, Request(c).host)
  OBVIOUS
<1> PICK judged : judged = Judged(v)
  OBVIOUS
<1>2. CASE To(c, [pc |-> "body", host |-> Request(c).host, class |-> v.class,
             laddered |-> judged, dialled |-> Request(c).origin])
  <2> PICK g : g = Updated(f[c], [pc |-> "body", host |-> Request(c).host, class |-> v.class,
             laddered |-> judged, dialled |-> Request(c).origin])
    OBVIOUS
  <2>1. /\ g.pc = "body" /\ g.first = f[c].first /\ g.pre = f[c].pre
        /\ g.req = f[c].req /\ g.acked = f[c].acked /\ g.answers = f[c].answers
        /\ g.reported = f[c].reported /\ g.dialled = job[c].requests[f[c].req].origin
    BY EarlyHas DEF Updated, Handler, Request, Requests
  <2> QED BY <2>1, <1>1, <1>2, EarlyHas, EarlyMove DEF Early, Undialled
<1>3. CASE Leave(c, "refused")
  BY <1>1, <1>3, EarlyLeave
<1> QED BY <1>2, <1>3 DEF OpenHTTP

LEMMA WriteBodyWhole == ASSUME Streams, NEW c \in Conns, WriteBody(c) PROVE Streams'
<1>1. f[c].pc \in Early /\ f[c].pc = "body" /\ job' = job /\ d' = d /\ e' = e
  BY DEF WriteBody, Early
<1>2. CASE To(c, [pc |-> "response"])
  <2> PICK g : g = Updated(f[c], [pc |-> "response"])
    OBVIOUS
  <2>1. /\ g.pc = "response" /\ g.first = f[c].first /\ g.pre = f[c].pre
        /\ g.req = f[c].req /\ g.acked = f[c].acked /\ g.answers = f[c].answers
        /\ g.reported = f[c].reported /\ g.dialled = f[c].dialled
    BY EarlyHas DEF Updated, Handler
  <2> QED BY <2>1, <1>1, <1>2, EarlyHas, EarlyMove DEF Early, Undialled
<1>3. CASE Leave(c, "error")
  BY <1>1, <1>3, EarlyLeave
<1> QED BY <1>2, <1>3 DEF WriteBody

\* The client is told what its request was answered with.
LEMMA Answering ==
    ASSUME Streams, NEW c \in Conns, f[c].pc = "response", job' = job, d' = d,
           NEW told \in Seq(Replied(job[c])),
           \/ To(c, [pc |-> "pre", answers |-> told, pre |-> <<>>, acked |-> TRUE]) /\ e' = e
           \/ /\ To(c, [pc |-> "readreq", answers |-> told, dialled |-> "none"])
              /\ SetEnds(c, Deadline(e[c], "client", "phase", "none"))
           \/ To(c, [pc |-> "done", cause |-> "ok", answers |-> told]) /\ e' = e
    PROVE  Streams'
<1>1. f[c].pc \in Early /\ job' = job /\ d' = d /\ "client" \in Sides
  BY DEF Early, Sides
<1>2. CASE To(c, [pc |-> "pre", answers |-> told, pre |-> <<>>, acked |-> TRUE]) /\ e' = e
  <2> PICK g : g = Updated(f[c], [pc |-> "pre", answers |-> told, pre |-> <<>>, acked |-> TRUE])
    OBVIOUS
  <2>1. /\ g.pc = "pre" /\ g.first = f[c].first /\ g.pre = <<>>
        /\ g.req = f[c].req /\ g.acked = TRUE /\ g.answers = told
        /\ g.reported = f[c].reported /\ g.dialled = f[c].dialled
    BY EarlyHas DEF Updated, Handler
  <2> QED BY <2>1, <1>1, <1>2, EarlyHas, EarlyMove DEF Early, Undialled
<1>3. CASE To(c, [pc |-> "readreq", answers |-> told, dialled |-> "none"])
          /\ SetEnds(c, Deadline(e[c], "client", "phase", "none"))
  <2> PICK g : g = Updated(f[c], [pc |-> "readreq", answers |-> told, dialled |-> "none"])
    OBVIOUS
  <2>1. /\ g.pc = "readreq" /\ g.first = f[c].first /\ g.pre = f[c].pre
        /\ g.req = f[c].req /\ g.acked = f[c].acked /\ g.answers = told
        /\ g.reported = f[c].reported /\ g.dialled = "none"
    BY EarlyHas DEF Updated, Handler
  <2> QED BY <2>1, <1>1, <1>3, EarlyHas, EarlyMove DEF Early, Undialled
<1>4. CASE To(c, [pc |-> "done", cause |-> "ok", answers |-> told]) /\ e' = e
  <2> PICK g : g = Updated(f[c], [pc |-> "done", cause |-> "ok", answers |-> told])
    OBVIOUS
  <2>1. /\ g.pc = "done" /\ g.first = f[c].first /\ g.pre = f[c].pre
        /\ g.req = f[c].req /\ g.acked = f[c].acked /\ g.answers = told
        /\ g.reported = f[c].reported /\ g.dialled = f[c].dialled
    BY EarlyHas DEF Updated, Handler
  <2> QED BY <2>1, <1>1, <1>4, EarlyHas, EarlyMove DEF Early, Undialled
<1> QED BY <1>2, <1>3, <1>4

LEMMA ReadResponseWhole == ASSUME Streams, NEW c \in Conns, ReadResponse(c) PROVE Streams'
<1>1. f[c].pc \in Early /\ f[c].pc = "response" /\ job' = job /\ d' = d
  BY SMTT(30) DEF ReadResponse, Early
<1>2. PICK a : a = [req |-> f[c].req, origin |-> f[c].dialled, kind |-> Head(Request(c).replies)]
  OBVIOUS
<1>3. a \in Replied(job[c])
  BY <1>1, <1>2, EarlyHas DEF Replied, Request, Requests
<1>4. Append(f[c].answers, a) \in Seq(Replied(job[c]))
  BY <1>3, EarlyHas, AppendProperties
<1>5. CASE Leave(c, "refused") /\ e' = e
  BY <1>1, <1>5, EarlyLeave
<1> QED BY <1>1, <1>2, <1>4, <1>5, Answering DEF ReadResponse

LEMMA PrecheckWhole == ASSUME Streams, NEW c \in Conns, Precheck(c) PROVE Streams'
<1>1. f[c].pc \in Early /\ f[c].dialled = "none" /\ job' = job /\ d' = d /\ "client" \in Sides
  BY EarlyHas DEF Precheck, Early, Undialled, Sides
<1>2. CASE To(c, [pc |-> "first", acked |-> TRUE, since |-> 0, total |-> 0])
          /\ SetEnds(c, Deadline(e[c], "client", "phase", "none"))
  <2> PICK g : g = Updated(f[c], [pc |-> "first", acked |-> TRUE, since |-> 0, total |-> 0])
    OBVIOUS
  <2>1. /\ g.pc = "first" /\ g.first = f[c].first /\ g.pre = f[c].pre
        /\ g.req = f[c].req /\ g.acked = TRUE /\ g.answers = f[c].answers
        /\ g.reported = f[c].reported /\ g.dialled = f[c].dialled
    BY EarlyHas DEF Updated, Handler
  <2> QED BY <2>1, <1>1, <1>2, EarlyHas, EarlyMove DEF Early, Undialled
<1>3. CASE Leave(c, "refused") /\ e' = e
  BY <1>1, <1>3, EarlyLeave
<1> QED BY <1>2, <1>3 DEF Precheck

LEMMA ServeTCPWhole == ASSUME Streams, NEW c \in Conns, ServeTCP(c) PROVE Streams'
<1>1. f[c].pc \in Early /\ f[c].dialled = "none" /\ job' = job /\ d' = d /\ "client" \in Sides
  BY EarlyHas DEF ServeTCP, Early, Undialled, Sides
<1> PICK name : name = Lookup(job[c].answered, job[c].addr, ReverseMax)
  OBVIOUS
<1> PICK v : v = VerdictFor(c, name)
  OBVIOUS
<1>2. CASE To(c, [pc |-> "first", host |-> name, class |-> v.class, acked |-> TRUE,
             since |-> 0, total |-> 0])
          /\ SetEnds(c, Deadline(e[c], "client", "phase", "none"))
  <2> PICK g : g = Updated(f[c], [pc |-> "first", host |-> name, class |-> v.class, acked |-> TRUE,
             since |-> 0, total |-> 0])
    OBVIOUS
  <2>1. /\ g.pc = "first" /\ g.first = f[c].first /\ g.pre = f[c].pre
        /\ g.req = f[c].req /\ g.acked = TRUE /\ g.answers = f[c].answers
        /\ g.reported = f[c].reported /\ g.dialled = f[c].dialled
    BY EarlyHas DEF Updated, Handler
  <2>2. /\ g.pc \notin Early /\ g.pc \in Early \cup {"first", "dial", "pre", "done"}
        /\ g.pc \notin {"body", "response", "pre"} /\ g.dialled = "none"
    BY <2>1, <1>1 DEF Early
  <2>3. g.req \in Nat /\ g.answers \in Seq(Replied(job[c]))
    BY <2>1, EarlyHas
  <2>4. \E s \in Sides, x, y \in {"none", "phase"} : SetEnds(c, Deadline(e[c], s, x, y))
    BY <1>1, <1>2
  <2> QED BY <2>1, <2>2, <2>3, <2>4, <1>1, <1>2, EarlyMove
<1>3. CASE To(c, [pc |-> "dial", host |-> name, class |-> v.class, acked |-> TRUE,
             since |-> 0, total |-> 0])
          /\ SetEnds(c, Deadline(e[c], "client", "none", "none"))
  <2> PICK g : g = Updated(f[c], [pc |-> "dial", host |-> name, class |-> v.class, acked |-> TRUE,
             since |-> 0, total |-> 0])
    OBVIOUS
  <2>1. /\ g.pc = "dial" /\ g.first = f[c].first /\ g.pre = f[c].pre
        /\ g.req = f[c].req /\ g.acked = TRUE /\ g.answers = f[c].answers
        /\ g.reported = f[c].reported /\ g.dialled = f[c].dialled
    BY EarlyHas DEF Updated, Handler
  <2>2. /\ g.pc \notin Early /\ g.pc \in Early \cup {"first", "dial", "pre", "done"}
        /\ g.pc \notin {"body", "response", "pre"} /\ g.dialled = "none"
    BY <2>1, <1>1 DEF Early
  <2>3. g.req \in Nat /\ g.answers \in Seq(Replied(job[c]))
    BY <2>1, EarlyHas
  <2>4. \E s \in Sides, x, y \in {"none", "phase"} : SetEnds(c, Deadline(e[c], s, x, y))
    BY <1>1, <1>3
  <2> QED BY <2>1, <2>2, <2>3, <2>4, <1>1, <1>3, EarlyMove
<1>4. CASE Leave(c, "refused") /\ e' = e
  BY <1>1, <1>4, EarlyLeave
<1>5. \/ /\ To(c, [pc |-> IF Judged(v) THEN "first" ELSE "dial", host |-> name,
                   class |-> v.class, acked |-> TRUE, since |-> 0, total |-> 0])
         /\ SetEnds(c, Deadline(e[c], "client", IF Judged(v) THEN "phase" ELSE "none", "none"))
      \/ Leave(c, "refused") /\ e' = e
  BY DEF ServeTCP
<1>6. CASE Judged(v)
  BY <1>2, <1>4, <1>5, <1>6
<1>7. CASE ~Judged(v)
  BY <1>3, <1>4, <1>5, <1>7
<1> QED BY <1>6, <1>7

--------------------------------------------------------------------------
(* The peers.                                                               *)

\* A script with one more item said.
LEMMA ScriptGrows ==
    ASSUME NEW j, NEW n, NEW m, NEW s \in Sides, j[s] \in Seq([seg : Nat, need : Nat]),
           n[s].sent \in 0..Len(j[s]), n[s].sent + 1 <= Len(j[s]), m[s].sent = n[s].sent + 1
    PROVE  /\ j[s][n[s].sent + 1].seg \in Nat
           /\ Script(j, m, s) = Append(Script(j, n, s), j[s][n[s].sent + 1].seg)
<1>0. n[s].sent \in Nat /\ n[s].sent + 1 \in 1..Len(j[s]) /\ m[s].sent \in 0..Len(j[s])
  BY LenProperties
<1>1. j[s][n[s].sent + 1].seg \in Nat
  <2>1. j[s][n[s].sent + 1] \in [seg : Nat, need : Nat]
    BY <1>0, ElementOfSeq
  <2> QED BY <2>1
<1> PICK x : x = j[s][n[s].sent + 1].seg
  OBVIOUS
<1>2. /\ Script(j, n, s) \in Seq(Nat) /\ Len(Script(j, n, s)) = n[s].sent
      /\ Script(j, m, s) \in Seq(Nat) /\ Len(Script(j, m, s)) = n[s].sent + 1
  BY <1>0, ScriptIs
<1>3. /\ Append(Script(j, n, s), x) \in Seq(Nat)
      /\ Len(Append(Script(j, n, s), x)) = n[s].sent + 1
      /\ \A i \in 1..n[s].sent : Append(Script(j, n, s), x)[i] = Script(j, n, s)[i]
      /\ Append(Script(j, n, s), x)[n[s].sent + 1] = x
  <2> PICK t : t = Script(j, n, s)
    OBVIOUS
  <2>1. t \in Seq(Nat) /\ Len(t) = n[s].sent /\ x \in Nat
    BY <1>1, <1>2
  <2>2. /\ Append(t, x) \in Seq(Nat) /\ Len(Append(t, x)) = Len(t) + 1
        /\ \A i \in 1..Len(t) : Append(t, x)[i] = t[i]
        /\ Append(t, x)[Len(t) + 1] = x
    BY <2>1, AppendProperties
  <2> QED BY <2>1, <2>2
<1>4. ASSUME NEW i \in 1..(n[s].sent + 1)
      PROVE  Script(j, m, s)[i] = Append(Script(j, n, s), x)[i]
  <2>1. Script(j, m, s)[i] = j[s][i].seg
    BY <1>0 DEF Script
  <2>2. CASE i = n[s].sent + 1
    BY <2>1, <2>2, <1>3
  <2>3. CASE i # n[s].sent + 1
    <3>1. i \in 1..n[s].sent
      BY <2>3, <1>0
    <3>2. Script(j, n, s)[i] = j[s][i].seg
      BY <3>1 DEF Script
    <3> QED BY <3>1, <3>2, <2>1, <1>3
  <2> QED BY <2>2, <2>3
<1>5. Script(j, m, s) = Append(Script(j, n, s), x)
  <2> PICK t : t = Script(j, m, s)
    OBVIOUS
  <2> PICK u : u = Append(Script(j, n, s), x)
    OBVIOUS
  <2>1. t \in Seq(Nat) /\ u \in Seq(Nat) /\ Len(t) = Len(u) /\ \A i \in 1..Len(t) : t[i] = u[i]
    BY <1>2, <1>3, <1>4
  <2>2. t = u
    BY <2>1, SeqEqual
  <2> QED BY <2>2
<1> QED BY <1>1, <1>5

\* One side has said x, and it waits to be read.
Said(j, n, m, s, x) ==
    /\ DOMAIN m = Sides /\ \A t \in Sides : DOMAIN m[t] = DOMAIN End
    /\ m[s].sent = n[s].sent + 1 /\ m[s].toread = Append(n[s].toread, x)
    /\ m[s].got = n[s].got /\ (Closed(m[s]) <=> Closed(n[s]))
    /\ \A t \in Sides \ {s} : m[t] = n[t]
    /\ x \in Nat /\ n[s].sent + 1 <= Len(j[s])
    /\ Script(j, m, s) = Append(Script(j, n, s), x)

LEMMA SaidShape ==
    ASSUME NEW j, NEW h, NEW n, NEW r, Shape(j, h, n, r), NEW s \in Sides, NEW m, NEW x,
           Said(j, n, m, s, x), j[s] \in Seq([seg : Nat, need : Nat])
    PROVE  /\ Shape(j, h, m, r) /\ ~Closed(n[s])
           /\ \A t \in Sides \ {s} : Script(j, m, t) = Script(j, n, t)
<1>1. \A t \in Sides :
        /\ DOMAIN n[t] = DOMAIN End
        /\ n[t].sent \in 0..Len(j[t]) /\ n[t].toread \in Seq(Nat) /\ n[t].got \in Seq(Nat)
        /\ Closed(n[t]) => (n[t].sent = Len(j[t]))
  BY DEF Shape
<1>2. Len(j[s]) \in Nat /\ n[s].sent \in Nat /\ n[s].sent # Len(j[s])
  <2>1. Len(j[s]) \in Nat
    BY LenProperties
  <2>2. n[s].sent \in 0..Len(j[s]) /\ n[s].sent + 1 <= Len(j[s])
    BY <1>1 DEF Said
  <2> QED BY <2>1, <2>2
<1>3. ~Closed(n[s])
  BY <1>1, <1>2
<1>4. Append(n[s].toread, x) \in Seq(Nat)
  BY <1>1, AppendProperties DEF Said
<1>5. \A t \in Sides \ {s} : Script(j, m, t) = Script(j, n, t)
  BY DEF Said, Script
<1>6. ASSUME NEW t \in Sides
      PROVE  /\ DOMAIN m[t] = DOMAIN End
             /\ m[t].sent \in 0..Len(j[t]) /\ m[t].toread \in Seq(Nat) /\ m[t].got \in Seq(Nat)
             /\ Closed(m[t]) => (m[t].sent = Len(j[t]))
  <2>1. CASE t = s
    <3>1. /\ m[s].sent = n[s].sent + 1 /\ m[s].toread = Append(n[s].toread, x)
          /\ m[s].got = n[s].got /\ DOMAIN m[s] = DOMAIN End /\ n[s].sent + 1 <= Len(j[s])
      BY DEF Said
    <3>2. ~Closed(m[s])
      BY <1>3 DEF Said, Closed
    <3>3. m[s].sent \in 0..Len(j[s])
      BY <3>1, <1>2
    <3> QED BY <2>1, <3>1, <3>2, <3>3, <1>1, <1>4
  <2>2. CASE t # s
    <3>1. m[t] = n[t] /\ DOMAIN m[t] = DOMAIN End
      BY <2>2 DEF Said
    <3> QED BY <3>1, <1>1
  <2> QED BY <2>1, <2>2
<1>7. DOMAIN m = Sides
  BY DEF Said
<1> QED BY <1>3, <1>5, <1>6, <1>7 DEF Shape

\* A side that may speak speaks.
LEMMA SaidWhole ==
    ASSUME NEW j, NEW h, NEW n, NEW r, Whole(j, h, n, r), NEW s \in Sides, NEW m, NEW x,
           Said(j, n, m, s, x), \A t \in Sides : j[t] \in Seq([seg : Nat, need : Nat]),
           h.pc \in Reading \cup {"pre", "pipe"},
           s = "origin" => h.dialled # "none"
    PROVE  Whole(j, h, m, r)
<1>1. /\ Shape(j, h, n, r) /\ Shape(j, h, m, r) /\ ~Closed(n[s])
      /\ \A t \in Sides \ {s} : Script(j, m, t) = Script(j, n, t)
  <2>1. Shape(j, h, n, r) /\ j[s] \in Seq([seg : Nat, need : Nat])
    BY DEF Whole
  <2> QED BY <2>1, SaidShape
<1>2. /\ "client" \in Sides /\ "origin" \in Sides /\ "up" \in Dirs /\ "down" \in Dirs
      /\ s = "client" \/ s = "origin"
  BY DEF Sides, Dirs
<1>3. /\ h.first \in Seq(Nat) /\ h.pre \in Seq(Nat) /\ x \in Nat
      /\ \A t \in Sides : n[t].toread \in Seq(Nat) /\ n[t].got \in Seq(Nat)
      /\ \A t \in Sides : m[t].got = n[t].got
      /\ \A t \in Sides \ {s} : m[t] = n[t]
      /\ m[s].toread = Append(n[s].toread, x) /\ Script(j, m, s) = Append(Script(j, n, s), x)
      /\ \A t \in Sides : Script(j, n, t) \in Seq(Nat)
  BY <1>1, ScriptIs DEF Shape, Said
<1>s. \A t \in Seq(Nat) : t \o m[s].toread = Append(t \o n[s].toread, x)
  <2> TAKE t \in Seq(Nat)
  <2> PICK u : u = n[s].toread
    OBVIOUS
  <2>1. u \in Seq(Nat) /\ m[s].toread = Append(u, x) /\ x \in Nat
    BY <1>3
  <2>2. t \o Append(u, x) = Append(t \o u, x)
    BY <2>1, SaidLast
  <2> QED BY <2>1, <2>2
<1>4. h.pc \in Reading => Buffered(j, h, m)
  <2> SUFFICES ASSUME h.pc \in Reading PROVE Buffered(j, h, m)
    OBVIOUS
  <2>1. Buffered(j, h, n)
    BY DEF Whole
  <2>2. CASE s = "client"
    <3>1. m["origin"] = n["origin"] /\ Script(j, m, "origin") = Script(j, n, "origin")
          /\ m["client"].got = n["client"].got
      BY <2>2, <1>1, <1>2, <1>3
    <3>2. \A t \in Seq(Nat) : t \o m["client"].toread = Append(t \o n["client"].toread, x)
      BY <2>2, <1>2, <1>3, <1>s
    <3> QED BY <3>1, <3>2, <2>1, <2>2, <1>2, <1>3 DEF Buffered
  <2>3. CASE s = "origin"
    <3>1. m["client"] = n["client"] /\ Script(j, m, "client") = Script(j, n, "client")
          /\ m["origin"].got = n["origin"].got
      BY <2>3, <1>1, <1>2, <1>3
    <3>2. m["origin"].toread = Script(j, m, "origin")
      BY <2>1, <2>3, <1>3 DEF Buffered
    <3> QED BY <3>1, <3>2, <2>1 DEF Buffered
  <2> QED BY <2>2, <2>3, <1>2
<1>5. h.pc = "pre" => Connected(j, h, m)
  <2> SUFFICES ASSUME h.pc = "pre" PROVE Connected(j, h, m)
    OBVIOUS
  <2>1. Connected(j, h, n)
    BY DEF Whole
  <2>2. CASE s = "client"
    <3>1. m["origin"] = n["origin"] /\ Script(j, m, "origin") = Script(j, n, "origin")
          /\ m["client"].got = n["client"].got
      BY <2>2, <1>1, <1>2, <1>3
    <3>2. n["origin"].got \o m["client"].toread = Append(n["origin"].got \o n["client"].toread, x)
      BY <2>2, <1>2, <1>3, <1>s
    <3> QED BY <3>1, <3>2, <2>1, <2>2, <1>3 DEF Connected
  <2>3. CASE s = "origin"
    <3>1. m["client"] = n["client"] /\ Script(j, m, "client") = Script(j, n, "client")
          /\ m["origin"].got = n["origin"].got
      BY <2>3, <1>1, <1>2, <1>3
    <3>2. h.pre \o m["origin"].toread = Append(h.pre \o n["origin"].toread, x)
      BY <2>3, <1>2, <1>3, <1>s
    <3> QED BY <3>1, <3>2, <2>1, <2>3, <1>3 DEF Connected
  <2> QED BY <2>2, <2>3, <1>2
<1>6. ASSUME h.pc = "pipe", NEW k \in Dirs PROVE Relayed(j, m, r[k], k)
  <2>1. /\ Relayed(j, n, r[k], k) /\ Src(k) \in Sides /\ Dst(k) \in Sides /\ Src(k) # Dst(k)
        /\ r[k].held \in Nat
    BY <1>1, <1>6 DEF Whole, Src, Dst, Sides, Dirs, Shape
  <2>2. Held(r[k]) \in Seq(Nat)
    BY <2>1, EmptySeq DEF Held
  <2>3. CASE Src(k) = s
    <3>1. m[Dst(k)].got = n[Dst(k)].got /\ n[Dst(k)].got \in Seq(Nat)
      BY <2>1, <1>3
    <3>2. IsPrefix(m[Dst(k)].got, Script(j, m, s))
      <4>1. IsPrefix(n[Dst(k)].got, Script(j, n, s))
        BY <2>1, <2>3 DEF Relayed
      <4> QED BY <3>1, <4>1, <1>3, PrefixGrows
    <3>3. ~Broken(r[k]) => (m[Dst(k)].got \o Held(r[k])) \o m[s].toread = Script(j, m, s)
      <4>1. ~Broken(r[k]) => (n[Dst(k)].got \o Held(r[k])) \o n[s].toread = Script(j, n, s)
        BY <2>1, <2>3 DEF Relayed
      <4>2. n[Dst(k)].got \o Held(r[k]) \in Seq(Nat)
        BY <3>1, <2>2, ConcatProperties
      <4>3. (n[Dst(k)].got \o Held(r[k])) \o Append(n[s].toread, x)
              = Append((n[Dst(k)].got \o Held(r[k])) \o n[s].toread, x)
        BY <4>2, <1>3, <1>s
      <4> QED BY <4>1, <4>3, <3>1, <1>3
    <3>4. ~(r[k].pc = "done" /\ r[k].err = "nil")
      BY <2>1, <2>3, <1>1 DEF Relayed
    <3> QED BY <3>2, <3>3, <3>4, <2>1, <2>3 DEF Relayed
  <2>4. CASE Src(k) # s
    <3>1. /\ m[Src(k)] = n[Src(k)] /\ m[Dst(k)].got = n[Dst(k)].got
          /\ Script(j, m, Src(k)) = Script(j, n, Src(k))
      BY <2>1, <2>4, <1>1, <1>3
    <3> QED BY <3>1, <2>1 DEF Relayed
  <2> QED BY <2>3, <2>4
<1>7. h.pc \notin Early /\ h.pc # "done"
  BY DEF Early, Reading
<1> QED BY <1>1, <1>4, <1>5, <1>6, <1>7 DEF Whole

\* The same bytes, whatever happened to deadlines and peers; a side may have
\* closed once it had nothing more to say.
LEMMA BytesKept ==
    ASSUME NEW j, NEW h, NEW n, NEW r, Whole(j, h, n, r), NEW m,
           DOMAIN m = Sides,
           \A s \in Sides :
             /\ DOMAIN m[s] = DOMAIN End /\ m[s].sent = n[s].sent
             /\ m[s].toread = n[s].toread /\ m[s].got = n[s].got
             /\ Closed(n[s]) => Closed(m[s])
             /\ Closed(m[s]) => n[s].sent = Len(j[s])
    PROVE  Whole(j, h, m, r)
<1>1. \A s \in Sides : Script(j, m, s) = Script(j, n, s)
  BY DEF Script
<1>2. Shape(j, h, m, r)
  BY DEF Whole, Shape
<1>3. "client" \in Sides /\ "origin" \in Sides
  BY DEF Sides
<1>4. h.pc \in Early => Silence(j, h, m)
  BY DEF Whole, Silence
<1>5. h.pc \in Reading => Buffered(j, h, m)
  BY <1>1, <1>3 DEF Whole, Buffered
<1>6. h.pc = "pre" => Connected(j, h, m)
  BY <1>1, <1>3 DEF Whole, Connected
<1>7. ASSUME h.pc = "pipe", NEW k \in Dirs PROVE Relayed(j, m, r[k], k)
  <2>1. Src(k) \in Sides /\ Dst(k) \in Sides /\ Relayed(j, n, r[k], k)
    BY <1>7 DEF Src, Dst, Sides, Dirs, Whole
  <2> QED BY <2>1, <1>1 DEF Relayed
<1>8. h.pc = "done" => Over(j, h, m)
  BY <1>1, <1>3 DEF Whole, Over
<1> QED BY <1>2, <1>4, <1>5, <1>6, <1>7, <1>8 DEF Whole

\* The same handler, as far as bytes go.
LEMMA HandlerKept ==
    ASSUME NEW j, NEW h, NEW n, NEW r, Whole(j, h, n, r), NEW g, DOMAIN g = DOMAIN Handler,
           g.pc = h.pc, g.first = h.first, g.pre = h.pre, g.req = h.req, g.acked = h.acked,
           g.answers = h.answers, g.dialled = h.dialled, g.cause = h.cause,
           g.reported \in Dirs \cup {h.reported}
    PROVE  Whole(j, g, n, r)
<1>1. Shape(j, g, n, r)
  BY DEF Whole, Shape
<1>2. g.pc \in Early => Silence(j, g, n)
  BY DEF Whole, Silence
<1>3. g.pc \in Reading => Buffered(j, g, n)
  BY DEF Whole, Buffered, Emitting
<1>4. g.pc = "pre" => Connected(j, g, n)
  BY DEF Whole, Connected
<1>5. g.pc = "done" => Over(j, g, n)
  BY DEF Whole, Over
<1> QED BY <1>1, <1>2, <1>3, <1>4, <1>5 DEF Whole

LEMMA Has ==
    ASSUME Streams, NEW c \in Conns
    PROVE  /\ Whole(job[c], f[c], e[c], d[c]) /\ Shape(job[c], f[c], e[c], d[c])
           /\ DOMAIN f = Conns /\ DOMAIN e = Conns /\ DOMAIN d = Conns
           /\ DOMAIN e[c] = Sides /\ \A s \in Sides : DOMAIN e[c][s] = DOMAIN End
           /\ DOMAIN f[c] = DOMAIN Handler
           /\ \A s \in Sides : job[c][s] \in Seq([seg : Nat, need : Nat])
<1>1. Whole(job[c], f[c], e[c], d[c]) /\ Shape(job[c], f[c], e[c], d[c])
      /\ DOMAIN f = Conns /\ DOMAIN e = Conns /\ DOMAIN d = Conns
  BY DEF Streams, Whole
<1>2. DOMAIN e[c] = Sides /\ \A s \in Sides : DOMAIN e[c][s] = DOMAIN End
  BY <1>1 DEF Shape
<1>3. DOMAIN f[c] = DOMAIN Handler
  BY <1>1 DEF Shape
<1>4. \A s \in Sides : job[c][s] \in Seq([seg : Nat, need : Nat])
  BY ScriptsAssumption DEF Streams, Sides
<1> QED BY <1>1, <1>2, <1>3, <1>4

LEMMA PeerSendsWhole == ASSUME Streams, NEW c \in Conns, NEW s \in Sides, PeerSends(c, s) PROVE Streams'
<1> PICK m : m = e'[c]
  BY Zenon
<1> PICK x : x = job[c][s][e[c][s].sent + 1].seg
  BY Zenon
<1>1. f' = f /\ d' = d /\ job' = job /\ e[c][s].sent + 1 <= Len(job[c][s])
      /\ MaySpeak(c, s) /\ Running(c)
      /\ SetEnds(c, [e[c] EXCEPT ![s].sent = e[c][s].sent + 1, ![s].lull = 0,
                                 ![s].toread = Append(@, job[c][s][e[c][s].sent + 1].seg)])
  BY DEF PeerSends
<1>2. Alone(c) /\ m = [e[c] EXCEPT ![s].sent = e[c][s].sent + 1, ![s].lull = 0,
                                 ![s].toread = Append(@, job[c][s][e[c][s].sent + 1].seg)]
  BY <1>1, Has, EndsAre DEF Alone
<1>3. /\ DOMAIN m = Sides /\ \A t \in Sides : DOMAIN m[t] = DOMAIN End
      /\ m[s].sent = e[c][s].sent + 1
      /\ m[s].toread = Append(e[c][s].toread, job[c][s][e[c][s].sent + 1].seg)
      /\ m[s].got = e[c][s].got /\ (Closed(m[s]) <=> Closed(e[c][s]))
      /\ \A t \in Sides \ {s} : m[t] = e[c][t]
  <2>1. PICK n, y : n = e[c] /\ y = Append(e[c][s].toread, job[c][s][e[c][s].sent + 1].seg)
    BY Zenon
  <2>2. DOMAIN n = Sides /\ \A t \in Sides : DOMAIN n[t] = DOMAIN End
    BY <2>1, Has, SMTT(30)
  <2>3. m = [n EXCEPT ![s].sent = n[s].sent + 1, ![s].lull = 0, ![s].toread = y]
    BY <1>2, <2>1
  <2>4. PICK z : z = [n[s] EXCEPT !.sent = n[s].sent + 1, !.lull = 0, !.toread = y]
    OBVIOUS
  <2>5. DOMAIN m = Sides /\ m[s] = z /\ \A t \in Sides \ {s} : m[t] = n[t]
    BY <2>2, <2>3, <2>4
  <2>6. /\ DOMAIN z = DOMAIN n[s] /\ z.sent = n[s].sent + 1 /\ z.toread = y
        /\ z.got = n[s].got /\ z.fin = n[s].fin
    BY <2>2, <2>4 DEF End
  <2>7. \A t \in Sides : DOMAIN m[t] = DOMAIN End
    BY <2>2, <2>5, <2>6
  <2>8. Closed(m[s]) <=> Closed(n[s])
    BY <2>5, <2>6 DEF Closed
  <2> QED BY <2>1, <2>5, <2>6, <2>7, <2>8
<1>4. /\ job[c][s] \in Seq([seg : Nat, need : Nat]) /\ e[c][s].sent \in 0..Len(job[c][s])
  BY Has DEF Shape
<1>5. Said(job[c], e[c], m, s, x)
  <2> PICK j : j = job[c]
    BY Zenon
  <2> PICK n : n = e[c]
    BY Zenon
  <2>1. /\ j[s] \in Seq([seg : Nat, need : Nat]) /\ n[s].sent \in 0..Len(j[s])
        /\ n[s].sent + 1 <= Len(j[s]) /\ m[s].sent = n[s].sent + 1
        /\ x = j[s][n[s].sent + 1].seg
    BY <1>1, <1>3, <1>4
  <2>2. /\ j[s][n[s].sent + 1].seg \in Nat
        /\ Script(j, m, s) = Append(Script(j, n, s), j[s][n[s].sent + 1].seg)
    BY <2>1, ScriptGrows, ZenonT(40)
  <2>3. x \in Nat /\ Script(j, m, s) = Append(Script(j, n, s), x)
    BY <2>1, <2>2
  <2> QED BY <2>3, <1>1, <1>3, ZenonT(40) DEF Said
<1>6. f[c].pc \in Reading \cup {"pre", "pipe"} /\ (s = "origin" => f[c].dialled # "none")
  <2>1. f[c].pc \in Early => f[c].acked = FALSE
    BY Has DEF Whole, Silence
  <2>2. f[c].pc \in Undialled => f[c].dialled = "none"
    BY Has DEF Whole
  <2>3. f[c].pc \in Early \cup Reading \cup {"pre", "pipe", "done"}
    BY Has DEF Whole
  <2>4. CASE s = "client"
    BY <2>1, <2>3, <2>4, <1>1 DEF MaySpeak, Running, Ended
  <2>5. CASE s = "origin"
    <3>1. f[c].dialled # "none" /\ f[c].pc \notin {"body", "response"}
      BY <2>5, <1>1 DEF MaySpeak
    <3>2. f[c].pc \notin Early \cup {"done"}
      BY <3>1, <2>2, <1>1 DEF Early, Undialled, Running, Ended
    <3> QED BY <3>1, <3>2, <2>3
  <2> QED BY <2>4, <2>5 DEF Sides
<1>7. Whole(job[c], f[c], m, d[c])
  BY <1>5, <1>6, Has, SaidWhole
<1> QED BY <1>1, <1>2, <1>7, Others, ZenonT(40)

\* A step of ends only, which moves no byte.
LEMMA EndsOnly ==
    ASSUME Streams, NEW c \in Conns, job' = job, f' = f, d' = d, NEW m, SetEnds(c, m),
           DOMAIN m = Sides,
           \A s \in Sides :
             /\ DOMAIN m[s] = DOMAIN End /\ m[s].sent = e[c][s].sent
             /\ m[s].toread = e[c][s].toread /\ m[s].got = e[c][s].got
             /\ Closed(e[c][s]) => Closed(m[s])
             /\ Closed(m[s]) => e[c][s].sent = Len(job[c][s])
    PROVE  Streams'
<1>1. Alone(c) /\ e'[c] = m
  BY Has, EndsAre DEF Alone
<1>2. Whole(job[c], f[c], m, d[c])
  BY Has, BytesKept
<1> QED BY <1>1, <1>2, Others

LEMMA PeerClosesWhole ==
    ASSUME Streams, NEW c \in Conns, NEW s \in Sides, PeerCloses(c, s) PROVE Streams'
<1>0. PICK m : m = [e[c] EXCEPT ![s].fin = TRUE]
  OBVIOUS
<1>1. job' = job /\ f' = f /\ d' = d /\ SetEnds(c, m) /\ e[c][s].sent = Len(job[c][s])
  BY <1>0 DEF PeerCloses
<1>2. /\ DOMAIN m = Sides
      /\ \A t \in Sides :
             /\ DOMAIN m[t] = DOMAIN End /\ m[t].sent = e[c][t].sent
             /\ m[t].toread = e[c][t].toread /\ m[t].got = e[c][t].got
             /\ Closed(e[c][t]) => Closed(m[t])
  BY <1>0, Has DEF End, Closed
<1>3. \A t \in Sides : Closed(e[c][t]) => e[c][t].sent = Len(job[c][t])
  BY Has DEF Shape
<1>4. ASSUME NEW t \in Sides, Closed(m[t]) PROVE e[c][t].sent = Len(job[c][t])
  <2>1. CASE t = s
    BY <2>1, <1>1
  <2>2. CASE t # s
    <3>1. m[t] = e[c][t]
      BY <2>2, <1>0, Has
    <3> QED BY <3>1, <1>3, <1>4
  <2> QED BY <2>1, <2>2
<1> QED BY <1>1, <1>2, <1>4, EndsOnly

LEMMA PeerFailsWhole ==
    ASSUME Streams, NEW c \in Conns, NEW s \in Sides, PeerFails(c, s) PROVE Streams'
<1>1. job' = job /\ f' = f /\ d' = d
  BY DEF PeerFails
<1>2. \A t \in Sides : Closed(e[c][t]) => e[c][t].sent = Len(job[c][t])
  BY Has DEF Shape
<1>3. ASSUME NEW m, SetEnds(c, m),
             m = [e[c] EXCEPT ![s].stuck = TRUE] \/ m = [e[c] EXCEPT ![s].rst = TRUE]
      PROVE  Streams'
  <2>1. /\ DOMAIN m = Sides
        /\ \A t \in Sides :
               /\ DOMAIN m[t] = DOMAIN End /\ m[t].sent = e[c][t].sent
               /\ m[t].toread = e[c][t].toread /\ m[t].got = e[c][t].got
               /\ (Closed(e[c][t]) <=> Closed(m[t]))
    <3>1. CASE m = [e[c] EXCEPT ![s].stuck = TRUE]
      BY <3>1, Has DEF End, Closed
    <3>2. CASE m = [e[c] EXCEPT ![s].rst = TRUE]
      BY <3>2, Has DEF End, Closed
    <3> QED BY <3>1, <3>2, <1>3
  <2> QED BY <2>1, <1>1, <1>2, <1>3, EndsOnly
<1> QED BY <1>3 DEF PeerFails

LEMMA PoisonWhole == ASSUME Streams, NEW c \in Conns, Poison(c) PROVE Streams'
<1> PICK m : m = Poisoned(e[c])
  OBVIOUS
<1>1. job' = job /\ f' = f /\ d' = d /\ SetEnds(c, m)
  BY DEF Poison
<1>2. \A t \in Sides : Closed(e[c][t]) => e[c][t].sent = Len(job[c][t])
  BY Has DEF Shape
<1>3. /\ DOMAIN m = Sides
      /\ \A t \in Sides :
             /\ DOMAIN m[t] = DOMAIN End /\ m[t].sent = e[c][t].sent
             /\ m[t].toread = e[c][t].toread /\ m[t].got = e[c][t].got
             /\ (Closed(e[c][t]) <=> Closed(m[t]))
  BY Has DEF Poisoned, End, Closed
<1> QED BY <1>1, <1>2, <1>3, EndsOnly

--------------------------------------------------------------------------
(* The first message.                                                       *)

LEMMA TickWhole == ASSUME Streams, NEW c \in Conns, Tick(c) PROVE Streams'
<1>a. PICK total : total = IF f[c].first = <<>> THEN 0 ELSE f[c].total + 1
  OBVIOUS
<1>b. PICK g : g = Updated(f[c], [since |-> f[c].since + 1, total |-> total])
  OBVIOUS
<1>l. PICK lull : lull = Min({CompleteWait, e[c].client.lull + 1})
  OBVIOUS
<1>m. PICK m : m = [e[c] EXCEPT !.client.lull = lull]
  OBVIOUS
<1>1. job' = job /\ d' = d /\ SetEnds(c, m)
      /\ To(c, [since |-> f[c].since + 1, total |-> total])
  BY <1>a, <1>l, <1>m DEF Tick
<1>2. /\ Alone(c) /\ f'[c] = g /\ e'[c] = m
  BY <1>1, <1>b, Has, ToIs, EndsAre DEF Alone
<1>3. \A t \in Sides : Closed(e[c][t]) => e[c][t].sent = Len(job[c][t])
  BY Has DEF Shape
<1>4. /\ DOMAIN m = Sides
      /\ \A t \in Sides :
             /\ DOMAIN m[t] = DOMAIN End /\ m[t].sent = e[c][t].sent
             /\ m[t].toread = e[c][t].toread /\ m[t].got = e[c][t].got
             /\ (Closed(e[c][t]) <=> Closed(m[t]))
  BY <1>m, Has DEF End, Closed
<1>5. Whole(job[c], f[c], m, d[c])
  BY <1>3, <1>4, Has, BytesKept
<1>6. /\ DOMAIN g = DOMAIN Handler
      /\ g.pc = f[c].pc /\ g.first = f[c].first /\ g.pre = f[c].pre /\ g.req = f[c].req
      /\ g.acked = f[c].acked /\ g.answers = f[c].answers
      /\ g.reported = f[c].reported /\ g.dialled = f[c].dialled
      /\ g.cause = f[c].cause
  BY <1>b, Has DEF Updated, Handler
<1>7. Whole(job[c], g, m, d[c])
  BY <1>5, <1>6, HandlerKept
<1> QED BY <1>1, <1>2, <1>7, Others

\* Reading on, or done reading: nothing was lost between the buffer and the wire.
LEMMA FirstStep ==
    ASSUME NEW j, NEW h, NEW n, NEW r, Whole(j, h, n, r), h.pc = "first",
           NEW g, DOMAIN g = DOMAIN Handler, g.pc \in Reading,
           g.first \in Seq(Nat), g.pre = h.pre, g.req = h.req, g.answers = h.answers,
           g.dialled = h.dialled, g.reported = h.reported,
           NEW m, DOMAIN m = Sides,
           \A s \in Sides :
             /\ DOMAIN m[s] = DOMAIN End /\ m[s].sent = n[s].sent /\ m[s].got = n[s].got
             /\ m[s].toread \in Seq(Nat) /\ (Closed(m[s]) <=> Closed(n[s])),
           m["origin"].toread = n["origin"].toread,
           g.first \o m["client"].toread = h.first \o n["client"].toread
    PROVE  Whole(j, g, m, r)
<1>1. \A s \in Sides : Script(j, m, s) = Script(j, n, s)
  BY DEF Script
<1>2. "client" \in Sides /\ "origin" \in Sides /\ h.dialled = "none"
  BY DEF Sides, Whole, Undialled
<1>3. Shape(j, g, m, r)
  BY DEF Whole, Shape
<1>4. Buffered(j, h, n) /\ ~Emitting(h)
  BY <1>2 DEF Whole, Emitting, Reading
<1>5. Buffered(j, g, m)
  BY <1>1, <1>2, <1>4 DEF Buffered, Emitting
<1>6. g.answers \in Seq(Replied(j)) /\ g.reported \in Dirs \cup {"none"}
  BY DEF Whole
<1> QED BY <1>2, <1>3, <1>5, <1>6 DEF Whole, Reading, Early

\* The handler after the dispatch of a first message.
LEMMA DispatchIs ==
    ASSUME Streams, NEW c \in Conns, NEW first, NEW whole, Dispatch(c, first, whole)
    PROVE  /\ DOMAIN f' = Conns /\ \A x \in Conns \ {c} : f'[x] = f[x]
           /\ DOMAIN f'[c] = DOMAIN Handler /\ f'[c].pc \in {"ladder", "dial"}
           /\ f'[c].first = first /\ f'[c].pre = f[c].pre /\ f'[c].req = f[c].req
           /\ f'[c].answers = f[c].answers
           /\ f'[c].reported = f[c].reported /\ f'[c].dialled = f[c].dialled
<1>h. PICK host : host = IF Overrules(c, whole) THEN job[c].sni ELSE f[c].host
  OBVIOUS
<1>v. PICK v : v = IF Overrules(c, whole) THEN ForName(job[c].policy, host, job[c].port)
                   ELSE Verdict(f[c].class, "kept")
  OBVIOUS
<1>p. PICK pc : pc = IF Judged(v) THEN "ladder" ELSE "dial"
  OBVIOUS
<1>k. PICK class : class = v.class
  OBVIOUS
<1>1. /\ pc \in {"ladder", "dial"}
      /\ To(c, [pc |-> pc, host |-> host, class |-> class, first |-> first, whole |-> whole,
                since |-> 0, total |-> 0])
  BY <1>h, <1>v, <1>p, <1>k DEF Dispatch
<1>2. /\ DOMAIN f' = Conns /\ \A x \in Conns \ {c} : f'[x] = f[x]
      /\ f'[c] = Updated(f[c], [pc |-> pc, host |-> host, class |-> class, first |-> first,
                                whole |-> whole, since |-> 0, total |-> 0])
  BY <1>1, Has, ToIs
<1>3. DOMAIN f[c] = DOMAIN Handler
  BY Has
<1> QED BY <1>1, <1>2, <1>3 DEF Updated, Handler

LEMMA ReadFirstWhole == ASSUME Streams, NEW c \in Conns, ReadFirst(c) PROVE Streams'
<1>a. PICK t : t = e[c].client.toread
  OBVIOUS
<1>b. PICK first : first = Append(f[c].first, Head(t))
  OBVIOUS
<1>r. PICK rest : rest = [e[c] EXCEPT !.client.toread = Tail(@)]
  OBVIOUS
<1>1. job' = job /\ d' = d /\ f[c].pc = "first" /\ t # <<>>
  BY <1>a DEF ReadFirst
<1>2. \/ Dispatch(c, first, TRUE) /\ SetEnds(c, Cleared(rest))
      \/ To(c, [first |-> first, since |-> Renewed(c)]) /\ SetEnds(c, rest)
  BY <1>a, <1>b, <1>r DEF ReadFirst
<1>3. t \in Seq(Nat) /\ f[c].first \in Seq(Nat) /\ "client" \in Sides /\ "origin" \in Sides
      /\ \A s \in Sides : e[c][s].toread \in Seq(Nat)
  BY <1>a, Has DEF Shape, Sides
<1>4. first \in Seq(Nat) /\ Tail(t) \in Seq(Nat) /\ first \o Tail(t) = f[c].first \o t
  <2>0. PICK u : u = f[c].first
    OBVIOUS
  <2>1. u \in Seq(Nat)
    BY <2>0, <1>3
  <2>2. Head(t) \in Nat /\ Tail(t) \in Seq(Nat) /\ (u \o <<Head(t)>>) \o Tail(t) = u \o t
    BY <2>1, <1>1, <1>3, HeadMoves
  <2>3. Append(u, Head(t)) \in Seq(Nat) /\ Append(u, Head(t)) = u \o <<Head(t)>>
    BY <2>1, <2>2, AppendProperties, AppendIsConcat
  <2> QED BY <2>0, <2>2, <2>3, <1>b
<1>5. /\ DOMAIN rest = Sides
      /\ \A s \in Sides :
             /\ DOMAIN rest[s] = DOMAIN End /\ rest[s].sent = e[c][s].sent
             /\ rest[s].got = e[c][s].got /\ (Closed(e[c][s]) <=> Closed(rest[s]))
      /\ rest["client"].toread = Tail(t) /\ rest["origin"].toread = e[c]["origin"].toread
  BY <1>a, <1>r, Has DEF End, Closed, Sides
<1>6. /\ DOMAIN Cleared(rest) = Sides
      /\ \A s \in Sides :
             /\ DOMAIN Cleared(rest)[s] = DOMAIN End /\ Cleared(rest)[s].sent = rest[s].sent
             /\ Cleared(rest)[s].got = rest[s].got /\ (Closed(rest[s]) <=> Closed(Cleared(rest)[s]))
             /\ Cleared(rest)[s].toread = rest[s].toread
  BY <1>5, ZenonT(40) DEF Cleared, End, Closed
<1>7. ASSUME NEW g, g = f'[c], DOMAIN g = DOMAIN Handler, g.pc \in Reading, g.first = first,
             g.pre = f[c].pre, g.req = f[c].req, g.answers = f[c].answers
             /\ g.reported = f[c].reported,
             g.dialled = f[c].dialled,
             DOMAIN f' = Conns, \A x \in Conns \ {c} : f'[x] = f[x],
             NEW m, m = rest \/ m = Cleared(rest), SetEnds(c, m)
      PROVE  Streams'
  <2>1. /\ DOMAIN m = Sides
        /\ \A s \in Sides :
             /\ DOMAIN m[s] = DOMAIN End /\ m[s].sent = e[c][s].sent
             /\ m[s].got = e[c][s].got /\ (Closed(m[s]) <=> Closed(e[c][s]))
        /\ m["client"].toread = Tail(t) /\ m["origin"].toread = e[c]["origin"].toread
    BY <1>3, <1>5, <1>6, <1>7
  <2>2. \A s \in Sides : m[s].toread \in Seq(Nat)
    BY <2>1, <1>3, <1>4 DEF Sides
  <2>3. g.first \in Seq(Nat) /\ g.first \o m["client"].toread = f[c].first \o e[c]["client"].toread
    BY <2>1, <1>4, <1>7, <1>a
  <2>4. Whole(job[c], g, m, d[c])
    BY <2>1, <2>2, <2>3, <1>1, <1>7, Has, FirstStep, ZenonT(40)
  <2>5. Alone(c) /\ e'[c] = m
    BY <1>1, <1>7, Has, EndsAre DEF Alone
  <2> QED BY <2>4, <2>5, <1>1, <1>7, Others
<1>8. CASE Dispatch(c, first, TRUE) /\ SetEnds(c, Cleared(rest))
  <2>1. PICK g : g = f'[c]
    OBVIOUS
  <2>2. PICK m : m = Cleared(rest)
    OBVIOUS
  <2>3. /\ DOMAIN f' = Conns /\ \A x \in Conns \ {c} : f'[x] = f[x]
        /\ DOMAIN g = DOMAIN Handler /\ g.pc \in {"ladder", "dial"}
        /\ g.first = first /\ g.pre = f[c].pre /\ g.req = f[c].req
        /\ g.answers = f[c].answers /\ g.reported = f[c].reported /\ g.dialled = f[c].dialled
    BY <2>1, <1>8, DispatchIs
  <2>4. g.pc \in Reading /\ SetEnds(c, m)
    BY <2>2, <2>3, <1>8 DEF Reading
  <2> QED BY <2>1, <2>2, <2>3, <2>4, <1>7
<1>9. CASE To(c, [first |-> first, since |-> Renewed(c)]) /\ SetEnds(c, rest)
  <2>1. PICK g : g = Updated(f[c], [first |-> first, since |-> Renewed(c)])
    OBVIOUS
  <2>2. /\ DOMAIN g = DOMAIN Handler
        /\ g.pc = f[c].pc /\ g.first = first /\ g.pre = f[c].pre /\ g.req = f[c].req
        /\ g.answers = f[c].answers /\ g.reported = f[c].reported /\ g.dialled = f[c].dialled
    BY <2>1, Has DEF Updated, Handler
  <2>3. DOMAIN f' = Conns /\ f'[c] = g /\ \A x \in Conns \ {c} : f'[x] = f[x]
    BY <2>1, <1>9, Has, ToIs
  <2> QED BY <2>2, <2>3, <1>1, <1>7, <1>9 DEF Reading
<1> QED BY <1>2, <1>8, <1>9

LEMMA FirstTimeoutWhole == ASSUME Streams, NEW c \in Conns, FirstTimeout(c) PROVE Streams'
<1>m. PICK m : m = Cleared(e[c])
  OBVIOUS
<1>1. job' = job /\ d' = d /\ f[c].pc = "first" /\ SetEnds(c, m)
  BY <1>m DEF FirstTimeout
<1>2. f[c].first \in Seq(Nat) /\ \A s \in Sides : e[c][s].toread \in Seq(Nat)
  BY Has DEF Shape
<1>3. /\ DOMAIN m = Sides
      /\ \A s \in Sides :
             /\ DOMAIN m[s] = DOMAIN End /\ m[s].sent = e[c][s].sent
             /\ m[s].got = e[c][s].got /\ (Closed(m[s]) <=> Closed(e[c][s]))
             /\ m[s].toread = e[c][s].toread
  BY <1>m, Has, ZenonT(40) DEF Cleared, End, Closed
<1>4. ASSUME NEW g, g = f'[c], DOMAIN g = DOMAIN Handler, g.pc \in Reading, g.first = f[c].first,
             g.pre = f[c].pre, g.req = f[c].req, g.answers = f[c].answers
             /\ g.reported = f[c].reported,
             g.dialled = f[c].dialled,
             DOMAIN f' = Conns, \A x \in Conns \ {c} : f'[x] = f[x]
      PROVE  Streams'
  <2>1. Whole(job[c], g, m, d[c])
    <3>1. "client" \in Sides /\ "origin" \in Sides
      BY DEF Sides
    <3>2. \A s \in Sides : m[s].toread \in Seq(Nat)
      BY <1>2, <1>3
    <3>3. g.first \in Seq(Nat) /\ g.first \o m["client"].toread = f[c].first \o e[c]["client"].toread
      BY <3>1, <1>2, <1>3, <1>4
    <3> QED BY <3>1, <3>2, <3>3, <1>1, <1>3, <1>4, Has, FirstStep, ZenonT(40)
  <2>2. Alone(c) /\ e'[c] = m
    BY <1>1, <1>4, Has, EndsAre DEF Alone
  <2> QED BY <2>1, <2>2, <1>1, <1>4, Others
<1>5. CASE Dispatch(c, f[c].first, FALSE)
  <2>1. PICK g : g = f'[c]
    OBVIOUS
  <2>2. PICK first : first = f[c].first
    OBVIOUS
  <2>3. /\ DOMAIN f' = Conns /\ \A x \in Conns \ {c} : f'[x] = f[x]
        /\ DOMAIN g = DOMAIN Handler /\ g.pc \in {"ladder", "dial"}
        /\ g.first = first /\ g.pre = f[c].pre /\ g.req = f[c].req
        /\ g.answers = f[c].answers /\ g.reported = f[c].reported /\ g.dialled = f[c].dialled
    BY <2>1, <2>2, <1>5, DispatchIs
  <2>4. g.pc \in Reading
    BY <2>3 DEF Reading
  <2> QED BY <2>1, <2>2, <2>3, <2>4, <1>4
<1>6. CASE To(c, [pc |-> "dial", since |-> 0])
  <2>1. PICK g : g = Updated(f[c], [pc |-> "dial", since |-> 0])
    OBVIOUS
  <2>2. /\ DOMAIN g = DOMAIN Handler
        /\ g.pc = "dial" /\ g.first = f[c].first /\ g.pre = f[c].pre /\ g.req = f[c].req
        /\ g.answers = f[c].answers /\ g.reported = f[c].reported /\ g.dialled = f[c].dialled
    BY <2>1, Has DEF Updated, Handler
  <2>3. DOMAIN f' = Conns /\ f'[c] = g /\ \A x \in Conns \ {c} : f'[x] = f[x]
    BY <2>1, <1>6, Has, ToIs
  <2> QED BY <2>2, <2>3, <1>4 DEF Reading
<1> QED BY <1>5, <1>6 DEF FirstTimeout

\* A flow that ends badly, wherever it is.
LEMMA GiveUp ==
    ASSUME Streams, NEW c \in Conns, NEW cause, cause # "ok", Leave(c, cause),
           job' = job, d' = d, e' = e
    PROVE  Streams'
<1>1. To(c, [pc |-> "done", cause |-> cause])
  BY DEF Leave
<1>g. PICK g : g = Updated(f[c], [pc |-> "done", cause |-> cause])
  OBVIOUS
<1>2. /\ DOMAIN g = DOMAIN Handler
      /\ g.pc = "done" /\ g.cause = cause /\ g.first = f[c].first /\ g.pre = f[c].pre
      /\ g.req = f[c].req /\ g.answers = f[c].answers /\ g.reported = f[c].reported
  BY <1>g, Has DEF Updated, Handler
<1>3. Alone(c) /\ f'[c] = g
  BY <1>1, <1>g, Has, ToIs DEF Alone
<1>4. Over(job[c], g, e[c])
  <2>1. /\ IsPrefix(e[c]["client"].got, Script(job[c], e[c], "origin"))
        /\ IsPrefix(e[c]["origin"].got, Script(job[c], e[c], "client"))
    BY Has, WholeIsPrefix
  <2> QED BY <2>1, <1>2 DEF Over
<1>5. Shape(job[c], g, e[c], d[c]) /\ g.answers \in Seq(Replied(job[c]))
      /\ g.reported \in Dirs \cup {"none"}
  BY <1>2, Has DEF Shape, Whole
<1>6. Whole(job[c], g, e[c], d[c])
  BY <1>2, <1>4, <1>5 DEF Whole, Early, Undialled, Reading
<1> QED BY <1>3, <1>6, Others

LEMMA FirstEOFWhole == ASSUME Streams, NEW c \in Conns, FirstEOF(c) PROVE Streams'
BY GiveUp DEF FirstEOF

--------------------------------------------------------------------------
(* Dialling, the ladder, and the hand-over to the relay.                    *)

LEMMA DialWhole == ASSUME Streams, NEW c \in Conns, Dial(c) PROVE Streams'
<1>m. PICK m : m = [e[c] EXCEPT !.origin.got = @ \o Emitted(f[c].first)]
  OBVIOUS
<1>g. PICK g : g = Updated(f[c], [pc |-> "pre", acked |-> TRUE, dialled |-> "origin", pre |-> <<>>])
  OBVIOUS
<1>1. job' = job /\ d' = d /\ f[c].pc = "dial"
  BY DEF Dial
<1>2. CASE /\ To(c, [pc |-> "pre", acked |-> TRUE, dialled |-> "origin", pre |-> <<>>])
           /\ SetEnds(c, m)
  <2>1. Alone(c) /\ f'[c] = g /\ e'[c] = m
    BY <1>1, <1>2, <1>g, Has, ToIs, EndsAre DEF Alone
  <2>2. /\ DOMAIN g = DOMAIN Handler /\ g.pc = "pre" /\ g.pre = <<>> /\ g.first = f[c].first
        /\ g.req = f[c].req /\ g.answers = f[c].answers /\ g.reported = f[c].reported
    BY <1>g, Has DEF Updated, Handler
  <2>3. /\ DOMAIN m = Sides
        /\ \A s \in Sides :
             /\ DOMAIN m[s] = DOMAIN End /\ m[s].sent = e[c][s].sent
             /\ m[s].toread = e[c][s].toread /\ (Closed(m[s]) <=> Closed(e[c][s]))
        /\ m["client"].got = e[c]["client"].got
        /\ m["origin"].got = e[c]["origin"].got \o f[c].first
    BY <1>m, Has DEF Emitted, End, Closed, Sides
  <2>4. Buffered(job[c], f[c], e[c]) /\ ~Emitting(f[c])
    BY <1>1, Has DEF Whole, Reading, Emitting
  <2>5. "client" \in Sides /\ "origin" \in Sides /\ f[c].first \in Seq(Nat)
        /\ \A s \in Sides : e[c][s].toread \in Seq(Nat) /\ e[c][s].got \in Seq(Nat)
    BY Has DEF Sides, Shape
  <2>6. m["origin"].got = f[c].first /\ <<>> \in Seq(Nat)
        /\ <<>> \o m["origin"].toread = m["origin"].toread
    BY <2>3, <2>4, <2>5, ConcatEmptySeq, EmptySeq DEF Buffered
  <2>7. \A s \in Sides : m[s].got \in Seq(Nat)
    BY <2>3, <2>5, <2>6 DEF Sides
  <2>8. \A s \in Sides : Script(job[c], m, s) = Script(job[c], e[c], s)
    BY <2>3 DEF Script
  <2>9. Shape(job[c], g, m, d[c])
    BY <2>2, <2>3, <2>5, <2>6, <2>7, Has DEF Shape
  <2>10. Connected(job[c], g, m)
    BY <2>2, <2>3, <2>4, <2>5, <2>6, <2>8 DEF Connected, Buffered
  <2>11. g.answers \in Seq(Replied(job[c])) /\ g.reported \in Dirs \cup {"none"}
    BY <2>2, Has DEF Whole
  <2>12. Whole(job[c], g, m, d[c])
    BY <2>2, <2>9, <2>10, <2>11 DEF Whole, Early, Undialled, Reading
  <2> QED BY <2>1, <2>12, <1>1, Others
<1>3. CASE Leave(c, IF srv.cancelled THEN "cancelled" ELSE "refused") /\ e' = e
  <2>1. PICK cause : cause = IF srv.cancelled THEN "cancelled" ELSE "refused"
    OBVIOUS
  <2>2. cause # "ok" /\ Leave(c, cause)
    BY <2>1, <1>3
  <2> QED BY <2>2, <1>1, <1>3, GiveUp
<1> QED BY <1>2, <1>3, <1>m DEF Dial

LEMMA LadderEmitsWhole == ASSUME Streams, NEW c \in Conns, LadderEmits(c) PROVE Streams'
<1>m. PICK m : m = [e[c] EXCEPT !.origin.got = f[c].first]
  OBVIOUS
<1>g. PICK g : g = Updated(f[c], [dialled |-> "origin", laddered |-> TRUE])
  OBVIOUS
<1>1. job' = job /\ d' = d /\ f[c].pc = "ladder" /\ f[c].dialled = "none"
  BY DEF LadderEmits
<1>2. CASE To(c, [dialled |-> "origin", laddered |-> TRUE]) /\ SetEnds(c, m)
  <2>1. Alone(c) /\ f'[c] = g /\ e'[c] = m
    BY <1>1, <1>2, <1>g, Has, ToIs, EndsAre DEF Alone
  <2>2. /\ DOMAIN g = DOMAIN Handler /\ g.pc = "ladder" /\ g.dialled = "origin"
        /\ g.pre = f[c].pre /\ g.first = f[c].first /\ g.req = f[c].req /\ g.answers = f[c].answers
        /\ g.reported = f[c].reported
    BY <1>1, <1>g, Has DEF Updated, Handler
  <2>3. /\ DOMAIN m = Sides
        /\ \A s \in Sides :
             /\ DOMAIN m[s] = DOMAIN End /\ m[s].sent = e[c][s].sent
             /\ m[s].toread = e[c][s].toread /\ (Closed(m[s]) <=> Closed(e[c][s]))
        /\ m["client"].got = e[c]["client"].got /\ m["origin"].got = f[c].first
    BY <1>m, Has DEF End, Closed, Sides
  <2>4. Buffered(job[c], f[c], e[c]) /\ ~Emitting(f[c])
    BY <1>1, Has DEF Whole, Reading, Emitting
  <2>5. "client" \in Sides /\ "origin" \in Sides /\ f[c].first \in Seq(Nat)
        /\ \A s \in Sides : e[c][s].got \in Seq(Nat)
    BY Has DEF Sides, Shape
  <2>7. \A s \in Sides : m[s].got \in Seq(Nat)
    BY <2>3, <2>5 DEF Sides
  <2>8. \A s \in Sides : Script(job[c], m, s) = Script(job[c], e[c], s)
    BY <2>3 DEF Script
  <2>9. Shape(job[c], g, m, d[c])
    BY <2>2, <2>3, <2>5, <2>7, Has DEF Shape
  <2>10. Buffered(job[c], g, m)
    BY <2>2, <2>3, <2>4, <2>5, <2>8 DEF Buffered, Emitting
  <2>11. g.answers \in Seq(Replied(job[c])) /\ g.reported \in Dirs \cup {"none"}
    BY <2>2, Has DEF Whole
  <2>12. Whole(job[c], g, m, d[c])
    BY <2>2, <2>9, <2>10, <2>11 DEF Whole, Early, Undialled, Reading
  <2> QED BY <2>1, <2>12, <1>1, Others
<1>3. CASE Leave(c, IF srv.cancelled THEN "cancelled" ELSE "refused") /\ e' = e
  <2>1. PICK cause : cause = IF srv.cancelled THEN "cancelled" ELSE "refused"
    OBVIOUS
  <2>2. cause # "ok" /\ Leave(c, cause)
    BY <2>1, <1>3
  <2> QED BY <2>2, <1>1, <1>3, GiveUp
<1> QED BY <1>2, <1>3, <1>m DEF LadderEmits

LEMMA LadderJudgesWhole == ASSUME Streams, NEW c \in Conns, LadderJudges(c) PROVE Streams'
<1>m. PICK m : m = [e[c] EXCEPT !.origin.toread = <<>>]
  OBVIOUS
<1>p. PICK pre : pre = e[c].origin.toread
  OBVIOUS
<1>g. PICK g : g = Updated(f[c], [pc |-> "pre", pre |-> pre])
  OBVIOUS
<1>1. job' = job /\ d' = d /\ f[c].pc = "ladder" /\ f[c].dialled # "none"
  BY DEF LadderJudges
<1>2. CASE To(c, [pc |-> "pre", pre |-> e[c].origin.toread]) /\ SetEnds(c, m)
  <2>1. Alone(c) /\ f'[c] = g /\ e'[c] = m
    BY <1>1, <1>2, <1>g, <1>p, Has, ToIs, EndsAre DEF Alone
  <2>2. /\ DOMAIN g = DOMAIN Handler /\ g.pc = "pre" /\ g.pre = pre
        /\ g.first = f[c].first /\ g.req = f[c].req /\ g.answers = f[c].answers
        /\ g.reported = f[c].reported
    BY <1>g, Has DEF Updated, Handler
  <2>3. /\ DOMAIN m = Sides
        /\ \A s \in Sides :
             /\ DOMAIN m[s] = DOMAIN End /\ m[s].sent = e[c][s].sent
             /\ m[s].got = e[c][s].got /\ (Closed(m[s]) <=> Closed(e[c][s]))
        /\ m["client"].toread = e[c]["client"].toread /\ m["origin"].toread = <<>>
    BY <1>m, Has DEF End, Closed, Sides
  <2>4. Buffered(job[c], f[c], e[c]) /\ Emitting(f[c])
    BY <1>1, Has DEF Whole, Reading, Emitting
  <2>5. "client" \in Sides /\ "origin" \in Sides /\ f[c].first \in Seq(Nat) /\ <<>> \in Seq(Nat)
        /\ \A s \in Sides : e[c][s].got \in Seq(Nat) /\ e[c][s].toread \in Seq(Nat)
    BY Has, EmptySeq DEF Sides, Shape
  <2>6. pre \in Seq(Nat) /\ pre \o <<>> = pre /\ pre = e[c]["origin"].toread
    BY <2>5, <1>p, ConcatEmptySeq
  <2>7. \A s \in Sides : m[s].toread \in Seq(Nat)
    BY <2>3, <2>5 DEF Sides
  <2>8. \A s \in Sides : Script(job[c], m, s) = Script(job[c], e[c], s)
    BY <2>3 DEF Script
  <2>9. Shape(job[c], g, m, d[c])
    BY <2>2, <2>3, <2>5, <2>6, <2>7, Has DEF Shape
  <2>10. Connected(job[c], g, m)
    BY <2>2, <2>3, <2>4, <2>5, <2>6, <2>8 DEF Connected, Buffered
  <2>11. g.answers \in Seq(Replied(job[c])) /\ g.reported \in Dirs \cup {"none"}
    BY <2>2, Has DEF Whole
  <2>12. Whole(job[c], g, m, d[c])
    BY <2>2, <2>9, <2>10, <2>11 DEF Whole, Early, Undialled, Reading
  <2> QED BY <2>1, <2>12, <1>1, Others
<1>3. CASE Leave(c, "blocked") /\ e' = e
  BY <1>1, <1>3, GiveUp
<1> QED BY <1>2, <1>3, <1>m DEF LadderJudges

LEMMA RelayWhole == ASSUME Streams, NEW c \in Conns, Relay(c) PROVE Streams'
<1>m. PICK m : m = [e[c] EXCEPT !.client.got = @ \o f[c].pre]
  OBVIOUS
<1>g. PICK g : g = Updated(f[c], [pc |-> "pipe"])
  OBVIOUS
<1>r. PICK r : r = [k \in Dirs |-> [Direction EXCEPT !.pc = "arm"]]
  OBVIOUS
<1>1. /\ job' = job /\ f[c].pc = "pre" /\ To(c, [pc |-> "pipe"]) /\ SetEnds(c, m)
      /\ d' = [d EXCEPT ![c] = r]
  BY <1>m, <1>r DEF Relay
<1>2. Alone(c) /\ f'[c] = g /\ e'[c] = m /\ d'[c] = r
  BY <1>1, <1>g, Has, ToIs, EndsAre DEF Alone
<1>3. /\ DOMAIN g = DOMAIN Handler /\ g.pc = "pipe" /\ g.pre = f[c].pre /\ g.first = f[c].first
      /\ g.req = f[c].req /\ g.answers = f[c].answers /\ g.reported = f[c].reported
  BY <1>1, <1>g, Has DEF Updated, Handler
<1>4. /\ DOMAIN m = Sides
      /\ \A s \in Sides :
             /\ DOMAIN m[s] = DOMAIN End /\ m[s].sent = e[c][s].sent
             /\ m[s].toread = e[c][s].toread /\ (Closed(m[s]) <=> Closed(e[c][s]))
      /\ m["client"].got = e[c]["client"].got \o f[c].pre
      /\ m["origin"].got = e[c]["origin"].got
  BY <1>m, Has DEF End, Closed, Sides
<1>5. Connected(job[c], f[c], e[c])
  BY <1>1, Has DEF Whole
<1>6. /\ "client" \in Sides /\ "origin" \in Sides /\ f[c].pre \in Seq(Nat) /\ <<>> \in Seq(Nat)
      /\ \A s \in Sides : e[c][s].got \in Seq(Nat) /\ e[c][s].toread \in Seq(Nat)
  BY Has, EmptySeq DEF Sides, Shape
<1>7. m["client"].got = f[c].pre
  BY <1>4, <1>5, <1>6, ConcatEmptySeq DEF Connected
<1>8. \A s \in Sides : Script(job[c], m, s) = Script(job[c], e[c], s)
  BY <1>4 DEF Script
<1>9. \A k \in Dirs : /\ DOMAIN r[k] = DOMAIN Direction /\ r[k].pc = "arm" /\ r[k].held = 0
                     /\ r[k].err = "none"
  BY <1>r DEF Direction
<1>10. DOMAIN r = Dirs /\ \A s \in Sides : m[s].got \in Seq(Nat)
  BY <1>r, <1>4, <1>6, <1>7 DEF Sides
<1>11. Shape(job[c], g, m, r)
  BY <1>3, <1>4, <1>6, <1>9, <1>10, Has DEF Shape
<1>12. ASSUME NEW k \in Dirs PROVE Relayed(job[c], m, r[k], k)
  <2>1. m[Dst(k)].got \in Seq(Nat) /\ m[Src(k)].toread \in Seq(Nat) /\ Held(r[k]) = <<>>
    BY <1>4, <1>6, <1>9, <1>10 DEF Src, Dst, Held
  <2>2. m[Dst(k)].got \o m[Src(k)].toread = Script(job[c], m, Src(k))
    BY <1>4, <1>5, <1>6, <1>7, <1>8 DEF Connected, Src, Dst, Dirs
  <2>3. m[Dst(k)].got \o Held(r[k]) = m[Dst(k)].got
    BY <2>1, ConcatEmptySeq
  <2>4. IsPrefix(m[Dst(k)].got, Script(job[c], m, Src(k)))
    <3>1. IsPrefix(m[Dst(k)].got, m[Dst(k)].got \o m[Src(k)].toread)
      BY <2>1, PrefixOfConcat
    <3> QED BY <3>1, <2>2
  <2> QED BY <2>2, <2>3, <2>4, <1>9 DEF Relayed, Broken
<1>13. g.answers \in Seq(Replied(job[c])) /\ g.reported \in Dirs \cup {"none"}
  BY <1>3, Has DEF Whole
<1>14. Whole(job[c], g, m, r)
  BY <1>3, <1>11, <1>12, <1>13 DEF Whole, Early, Undialled, Reading
<1> QED BY <1>2, <1>14, Others

--------------------------------------------------------------------------
(* The relay.                                                               *)

\* One direction is x afterwards, the ends are m, and of the bytes only what the
\* direction reads and what it has delivered may differ.
DirIs(c, k, x) ==
    /\ DOMAIN d' = Conns /\ DOMAIN d'[c] = Dirs /\ d'[c][k] = x
    /\ \A l \in Dirs \ {k} : d'[c][l] = d[c][l]
    /\ \A y \in Conns \ {c} : d'[y] = d[y]

EndsIs(c, m) == DOMAIN e' = Conns /\ e'[c] = m /\ \A y \in Conns \ {c} : e'[y] = e[y]

OnlyBetween(c, k, m) ==
    /\ DOMAIN m = Sides
    /\ \A s \in Sides :
         /\ DOMAIN m[s] = DOMAIN End /\ m[s].sent = e[c][s].sent
         /\ (Closed(m[s]) <=> Closed(e[c][s]))
         /\ m[s].got \in Seq(Nat) /\ m[s].toread \in Seq(Nat)
    /\ m[Src(k)].got = e[c][Src(k)].got /\ m[Dst(k)].toread = e[c][Dst(k)].toread

\* One direction moves; the other finds its bytes as they were.
LEMMA PipeStep ==
    ASSUME Streams, NEW c \in Conns, f[c].pc = "pipe", job' = job, f' = f,
           NEW k \in Dirs, NEW x, DirIs(c, k, x), x.held \in Nat, DOMAIN x = DOMAIN Direction,
           NEW m, EndsIs(c, m), OnlyBetween(c, k, m), Relayed(job[c], m, x, k)
    PROVE  Streams'
<1>1. Alone(c)
  BY Has DEF Alone, DirIs, EndsIs
<1>2. /\ DOMAIN d'[c] = Dirs
      /\ \A l \in Dirs : DOMAIN d'[c][l] = DOMAIN Direction /\ d'[c][l].held \in Nat
  BY Has DEF Shape, DirIs
<1>3. Shape(job[c], f[c], m, d'[c])
  BY <1>2, Has DEF Shape, OnlyBetween
<1>4. \A s \in Sides : Script(job[c], m, s) = Script(job[c], e[c], s)
  BY DEF Script, OnlyBetween
<1>5. ASSUME NEW l \in Dirs, l # k PROVE Relayed(job[c], m, d[c][l], l)
  <2>1. Relayed(job[c], e[c], d[c][l], l)
    BY Has DEF Whole
  <2>2. Src(l) = Dst(k) /\ Dst(l) = Src(k) /\ Src(l) \in Sides
    BY <1>5 DEF Src, Dst, Dirs, Sides
  <2> QED BY <2>1, <2>2, <1>4 DEF Relayed, OnlyBetween
<1>6. \A l \in Dirs : Relayed(job[c], m, d'[c][l], l)
  BY <1>5 DEF DirIs
<1>7. f[c].answers \in Seq(Replied(job[c])) /\ f[c].reported \in Dirs \cup {"none"}
  BY Has DEF Whole
<1>8. Whole(job[c], f[c], m, d'[c])
  BY <1>3, <1>6, <1>7 DEF Whole, Early, Undialled, Reading
<1> QED BY <1>1, <1>8, Others DEF EndsIs

LEMMA MoveGives ==
    ASSUME Streams, NEW c \in Conns, NEW k \in Dirs, NEW u, Move(c, k, u)
    PROVE  DirIs(c, k, Updated(d[c][k], u)) /\ DOMAIN Updated(d[c][k], u) = DOMAIN Direction
<1>1. DOMAIN d[c] = Dirs /\ DOMAIN d[c][k] = DOMAIN Direction
  BY Has DEF Shape
<1> QED BY <1>1, Has, MoveIs DEF DirIs, Updated

LEMMA EndsGive ==
    ASSUME Streams, NEW c \in Conns
    PROVE  /\ e' = e => EndsIs(c, e[c])
           /\ \A m : SetEnds(c, m) => EndsIs(c, m)
BY Has, EndsAre DEF EndsIs

\* What one direction of a relay has.
LEMMA PipeHas ==
    ASSUME Streams, NEW c \in Conns, NEW k \in Dirs, f[c].pc = "pipe"
    PROVE  /\ Relayed(job[c], e[c], d[c][k], k)
           /\ Src(k) \in Sides /\ Dst(k) \in Sides /\ Src(k) # Dst(k)
           /\ DOMAIN d[c][k] = DOMAIN Direction /\ d[c][k].held \in Nat
           /\ DOMAIN e[c] = Sides
           /\ \A s \in Sides : /\ DOMAIN e[c][s] = DOMAIN End
                               /\ e[c][s].got \in Seq(Nat) /\ e[c][s].toread \in Seq(Nat)
BY Has DEF Whole, Shape, Src, Dst, Sides, Dirs

\* A direction that stops on an error, or on an end of what it reads.
LEMMA StopWhole ==
    ASSUME Streams, NEW c \in Conns, f[c].pc = "pipe", job' = job, f' = f,
           NEW k \in Dirs, NEW err, err # "ok", Stop(c, k, err), e' = e, err # "nil"
    PROVE  Streams'
<1>u. PICK u : u = [pc |-> "done", held |-> 0, err |-> err]
  OBVIOUS
<1>x. PICK x : x = Updated(d[c][k], u)
  OBVIOUS
<1>m. PICK m : m = e[c]
  OBVIOUS
<1>1. DirIs(c, k, x) /\ DOMAIN x = DOMAIN Direction
  BY <1>u, <1>x, MoveGives DEF Stop
<1>2. x.pc = "done" /\ x.held \in Nat /\ x.err = err
  BY <1>u, <1>x, PipeHas DEF Updated, Direction
<1>3. Relayed(job[c], m, x, k)
  BY <1>2, <1>m, PipeHas DEF Relayed, Broken
<1>4. OnlyBetween(c, k, m) /\ EndsIs(c, m)
  BY <1>m, PipeHas, EndsGive DEF OnlyBetween
<1> QED BY <1>1, <1>2, <1>3, <1>4, PipeStep

\* A deadline armed on one end.
LEMMA ArmKeeps ==
    ASSUME Streams, NEW c \in Conns, NEW k \in Dirs, f[c].pc = "pipe", NEW s \in Sides, NEW m,
           m = [e[c] EXCEPT ![s].rdl = "idle"] \/ m = [e[c] EXCEPT ![s].wdl = "idle"]
    PROVE  /\ OnlyBetween(c, k, m) /\ \A t \in Sides : m[t].toread = e[c][t].toread
           /\ \A t \in Sides : m[t].got = e[c][t].got
<1>1. /\ DOMAIN m = Sides
      /\ \A t \in Sides :
           /\ DOMAIN m[t] = DOMAIN End /\ m[t].sent = e[c][t].sent
           /\ m[t].toread = e[c][t].toread /\ m[t].got = e[c][t].got
           /\ (Closed(m[t]) <=> Closed(e[c][t]))
  <2>1. CASE m = [e[c] EXCEPT ![s].rdl = "idle"]
    BY <2>1, Has DEF End, Closed
  <2>2. CASE m = [e[c] EXCEPT ![s].wdl = "idle"]
    BY <2>2, Has DEF End, Closed
  <2> QED BY <2>1, <2>2
<1> QED BY <1>1, PipeHas DEF OnlyBetween

\* Nothing changes for a direction whose bytes and held byte are the same.
LEMMA RelayedSame ==
    ASSUME NEW j, NEW n, NEW m, NEW x, NEW y, NEW k \in Dirs, Relayed(j, n, y, k),
           \A t \in Sides : /\ m[t].sent = n[t].sent /\ m[t].toread = n[t].toread
                            /\ m[t].got = n[t].got /\ (Closed(m[t]) <=> Closed(n[t])),
           Held(x) = Held(y), x.pc \in {"arm", "read", "armw", "write"}, x.err # "ok", ~Broken(y)
    PROVE  Relayed(j, m, x, k)
<1>1. Src(k) \in Sides /\ Dst(k) \in Sides
  BY DEF Src, Dst, Sides, Dirs
<1>2. Script(j, m, Src(k)) = Script(j, n, Src(k))
  BY <1>1 DEF Script
<1> QED BY <1>1, <1>2 DEF Relayed, Broken

LEMMA ArmReadWhole ==
    ASSUME Streams, NEW c \in Conns, NEW k \in Dirs, ArmRead(c, k) PROVE Streams'
<1>x. PICK x : x = Updated(d[c][k], [pc |-> "read"])
  OBVIOUS
<1>m. PICK m : m = [e[c] EXCEPT ![Src(k)].rdl = "idle"]
  OBVIOUS
<1>1. job' = job /\ f' = f /\ f[c].pc = "pipe" /\ d[c][k].pc = "arm"
  BY DEF ArmRead, At
<1>2. DirIs(c, k, x) /\ DOMAIN x = DOMAIN Direction /\ EndsIs(c, m)
  BY <1>x, <1>m, MoveGives, EndsGive DEF ArmRead
<1>3. x.pc = "read" /\ x.held \in Nat /\ x.err = d[c][k].err
  BY <1>1, <1>x, PipeHas DEF Updated, Direction
<1>s. PICK s : s = Src(k)
  OBVIOUS
<1>r. s \in Sides
  BY <1>s DEF Src, Sides
<1>n. m = [e[c] EXCEPT ![s].rdl = "idle"]
  BY <1>m, <1>s
<1>4. /\ OnlyBetween(c, k, m) /\ \A t \in Sides : m[t].toread = e[c][t].toread
      /\ \A t \in Sides : m[t].got = e[c][t].got
  BY <1>1, <1>n, <1>r, ArmKeeps
<1>5. /\ Relayed(job[c], e[c], d[c][k], k) /\ d[c][k].err # "ok"
      /\ Held(x) = Held(d[c][k]) /\ ~Broken(d[c][k])
  BY <1>1, <1>3, PipeHas DEF Held, Broken, Relayed
<1>6. Relayed(job[c], m, x, k)
  BY <1>3, <1>4, <1>5, RelayedSame DEF OnlyBetween
<1> QED BY <1>1, <1>2, <1>3, <1>4, <1>6, PipeStep

LEMMA ArmWriteWhole ==
    ASSUME Streams, NEW c \in Conns, NEW k \in Dirs, ArmWrite(c, k) PROVE Streams'
<1>x. PICK x : x = Updated(d[c][k], [pc |-> "write"])
  OBVIOUS
<1>m. PICK m : m = [e[c] EXCEPT ![Dst(k)].wdl = "idle"]
  OBVIOUS
<1>1. job' = job /\ f' = f /\ f[c].pc = "pipe" /\ d[c][k].pc = "armw"
  BY DEF ArmWrite, At
<1>2. DirIs(c, k, x) /\ DOMAIN x = DOMAIN Direction /\ EndsIs(c, m)
  BY <1>x, <1>m, MoveGives, EndsGive DEF ArmWrite
<1>3. x.pc = "write" /\ x.held \in Nat /\ x.held = d[c][k].held /\ x.err = d[c][k].err
  BY <1>1, <1>x, PipeHas DEF Updated, Direction
<1>s. PICK s : s = Dst(k)
  OBVIOUS
<1>r. s \in Sides
  BY <1>s DEF Dst, Sides
<1>n. m = [e[c] EXCEPT ![s].wdl = "idle"]
  BY <1>m, <1>s
<1>4. /\ OnlyBetween(c, k, m) /\ \A t \in Sides : m[t].toread = e[c][t].toread
      /\ \A t \in Sides : m[t].got = e[c][t].got
  BY <1>1, <1>n, <1>r, ArmKeeps
<1>5. /\ Relayed(job[c], e[c], d[c][k], k) /\ d[c][k].err # "ok"
      /\ Held(x) = Held(d[c][k]) /\ ~Broken(d[c][k])
  BY <1>1, <1>3, PipeHas DEF Held, Broken, Relayed
<1>6. Relayed(job[c], m, x, k)
  BY <1>3, <1>4, <1>5, RelayedSame DEF OnlyBetween
<1> QED BY <1>1, <1>2, <1>3, <1>4, <1>6, PipeStep

LEMMA IdleExpiresWhole ==
    ASSUME Streams, NEW c \in Conns, NEW k \in Dirs, IdleExpires(c, k) PROVE Streams'
<1>1. f[c].pc = "pipe" /\ job' = job /\ f' = f /\ e' = e /\ Stop(c, k, "idle")
  BY DEF IdleExpires, At
<1> QED BY <1>1, StopWhole

LEMMA ReadWhole ==
    ASSUME Streams, NEW c \in Conns, NEW k \in Dirs, Read(c, k) PROVE Streams'
<1>t. PICK t : t = e[c][Src(k)].toread
  OBVIOUS
<1>g. PICK got : got = e[c][Dst(k)].got
  OBVIOUS
<1>s. PICK script : script = Script(job[c], e[c], Src(k))
  OBVIOUS
<1>1. job' = job /\ f' = f /\ f[c].pc = "pipe" /\ d[c][k].pc = "read"
  BY DEF Read, At
<1>2. /\ Relayed(job[c], e[c], d[c][k], k) /\ ~Broken(d[c][k]) /\ Held(d[c][k]) = <<>>
      /\ t \in Seq(Nat) /\ got \in Seq(Nat) /\ d[c][k].err # "ok"
  BY <1>1, <1>t, <1>g, PipeHas DEF Broken, Held, Relayed
<1>3. got \o <<>> = got /\ got \o t = script /\ IsPrefix(got, script)
  BY <1>2, <1>t, <1>g, <1>s, ConcatEmptySeq DEF Relayed
<1>4. CASE (Stop(c, k, "idle") \/ Stop(c, k, "reset")) /\ e' = e
  BY <1>1, <1>4, StopWhole
<1>5. CASE /\ t # <<>>
           /\ Move(c, k, [pc |-> "armw", held |-> Head(t)])
           /\ SetEnds(c, [e[c] EXCEPT ![Src(k)].toread = Tail(@)])
  <2>x. PICK x : x = Updated(d[c][k], [pc |-> "armw", held |-> Head(t)])
    OBVIOUS
  <2>m. PICK m : m = [e[c] EXCEPT ![Src(k)].toread = Tail(@)]
    OBVIOUS
  <2>1. DirIs(c, k, x) /\ DOMAIN x = DOMAIN Direction /\ EndsIs(c, m)
    BY <2>x, <2>m, <1>5, MoveGives, EndsGive
  <2>2. Head(t) \in Nat /\ Tail(t) \in Seq(Nat) /\ (got \o <<Head(t)>>) \o Tail(t) = got \o t
    BY <1>2, <1>5, HeadMoves
  <2>3. x.pc = "armw" /\ x.held = Head(t) /\ x.err = d[c][k].err
    BY <1>1, <2>x, PipeHas DEF Updated, Direction
  <2>4. /\ DOMAIN m = Sides
        /\ \A s \in Sides :
             /\ DOMAIN m[s] = DOMAIN End /\ m[s].sent = e[c][s].sent
             /\ m[s].got = e[c][s].got /\ (Closed(m[s]) <=> Closed(e[c][s]))
        /\ \A s \in Sides \ {Src(k)} : m[s].toread = e[c][s].toread
        /\ m[Src(k)].toread = Tail(t)
    BY <1>1, <1>t, <2>m, PipeHas DEF End, Closed
  <2>5. OnlyBetween(c, k, m)
    BY <1>1, <2>2, <2>4, PipeHas DEF OnlyBetween
  <2>6. m[Dst(k)].got = got /\ Script(job[c], m, Src(k)) = script
    BY <1>1, <1>g, <1>s, <2>4, PipeHas DEF Script
  <2>7. Relayed(job[c], m, x, k)
    BY <1>2, <1>3, <2>2, <2>3, <2>4, <2>6 DEF Relayed, Held
  <2> QED BY <1>1, <2>1, <2>2, <2>3, <2>5, <2>7, PipeStep
<1>6. CASE /\ t = <<>> /\ Closed(e[c][Src(k)])
           /\ Stop(c, k, "nil") /\ SetEnds(c, HalfClose(e[c], Dst(k)))
  <2>x. PICK x : x = Updated(d[c][k], [pc |-> "done", held |-> 0, err |-> "nil"])
    OBVIOUS
  <2>m. PICK m : m = HalfClose(e[c], Dst(k))
    OBVIOUS
  <2>1. DirIs(c, k, x) /\ DOMAIN x = DOMAIN Direction /\ EndsIs(c, m)
    BY <2>x, <2>m, <1>6, MoveGives, EndsGive DEF Stop
  <2>2. x.pc = "done" /\ x.held \in Nat /\ x.err = "nil"
    BY <1>1, <2>x, PipeHas DEF Updated, Direction
  <2>3. /\ DOMAIN m = Sides
        /\ \A s \in Sides :
             /\ DOMAIN m[s] = DOMAIN End /\ m[s].sent = e[c][s].sent
             /\ m[s].got = e[c][s].got /\ (Closed(m[s]) <=> Closed(e[c][s]))
             /\ m[s].toread = e[c][s].toread
    BY <1>1, <2>m, PipeHas DEF HalfClose, End, Closed
  <2>4. OnlyBetween(c, k, m)
    BY <1>1, <2>3, PipeHas DEF OnlyBetween
  <2>5. /\ m[Dst(k)].got = got /\ m[Src(k)].toread = t /\ Closed(m[Src(k)])
        /\ Script(job[c], m, Src(k)) = script
    BY <1>1, <1>g, <1>s, <1>t, <1>6, <2>3, PipeHas DEF Script
  <2>6. Relayed(job[c], m, x, k)
    BY <1>3, <1>6, <2>2, <2>5 DEF Relayed, Held
  <2> QED BY <1>1, <2>1, <2>2, <2>4, <2>6, PipeStep
<1>7. \/ (Stop(c, k, "idle") \/ Stop(c, k, "reset")) /\ e' = e
      \/ /\ t # <<>>
         /\ Move(c, k, [pc |-> "armw", held |-> Head(t)])
         /\ SetEnds(c, [e[c] EXCEPT ![Src(k)].toread = Tail(@)])
      \/ /\ t = <<>> /\ Closed(e[c][Src(k)])
         /\ Stop(c, k, "nil") /\ SetEnds(c, HalfClose(e[c], Dst(k)))
  BY <1>t DEF Read, Closed
<1> QED BY <1>4, <1>5, <1>6, <1>7

LEMMA WriteWhole ==
    ASSUME Streams, NEW c \in Conns, NEW k \in Dirs, Write(c, k) PROVE Streams'
<1>t. PICK t : t = e[c][Src(k)].toread
  OBVIOUS
<1>g. PICK got : got = e[c][Dst(k)].got
  OBVIOUS
<1>b. PICK b : b = d[c][k].held
  OBVIOUS
<1>s. PICK script : script = Script(job[c], e[c], Src(k))
  OBVIOUS
<1>1. job' = job /\ f' = f /\ f[c].pc = "pipe" /\ d[c][k].pc = "write"
  BY DEF Write, At
<1>2. /\ Relayed(job[c], e[c], d[c][k], k) /\ ~Broken(d[c][k]) /\ Held(d[c][k]) = <<b>>
      /\ t \in Seq(Nat) /\ got \in Seq(Nat) /\ b \in Nat /\ d[c][k].err # "ok"
  BY <1>1, <1>t, <1>g, <1>b, PipeHas DEF Broken, Held, Relayed
<1>3. (got \o <<b>>) \o t = script
  BY <1>2, <1>t, <1>g, <1>s DEF Relayed
<1>4. CASE (Stop(c, k, "idle") \/ Stop(c, k, "reset")) /\ e' = e
  BY <1>1, <1>4, StopWhole
<1>5. CASE /\ Move(c, k, [pc |-> "arm", held |-> 0])
           /\ SetEnds(c, [e[c] EXCEPT ![Dst(k)].got = Append(@, d[c][k].held)])
  <2>x. PICK x : x = Updated(d[c][k], [pc |-> "arm", held |-> 0])
    OBVIOUS
  <2>m. PICK m : m = [e[c] EXCEPT ![Dst(k)].got = Append(@, d[c][k].held)]
    OBVIOUS
  <2>1. DirIs(c, k, x) /\ DOMAIN x = DOMAIN Direction /\ EndsIs(c, m)
    BY <2>x, <2>m, <1>5, MoveGives, EndsGive
  <2>2. /\ Append(got, b) = got \o <<b>> /\ Append(got, b) \in Seq(Nat)
        /\ Append(got, b) \o <<>> = Append(got, b)
    BY <1>2, AppendIsConcat, AppendProperties, ConcatEmptySeq
  <2>3. IsPrefix(Append(got, b), script)
    BY <1>2, <1>3, <2>2, PrefixOfConcat
  <2>4. x.pc = "arm" /\ x.held = 0 /\ x.err = d[c][k].err
    BY <1>1, <2>x, PipeHas DEF Updated, Direction
  <2>5. /\ DOMAIN m = Sides
        /\ \A s \in Sides :
             /\ DOMAIN m[s] = DOMAIN End /\ m[s].sent = e[c][s].sent
             /\ m[s].toread = e[c][s].toread /\ (Closed(m[s]) <=> Closed(e[c][s]))
        /\ \A s \in Sides \ {Dst(k)} : m[s].got = e[c][s].got
        /\ m[Dst(k)].got = Append(got, b)
    BY <1>1, <1>g, <1>b, <2>m, PipeHas DEF End, Closed
  <2>6. OnlyBetween(c, k, m)
    BY <1>1, <2>2, <2>5, PipeHas DEF OnlyBetween
  <2>7. m[Src(k)].toread = t /\ Script(job[c], m, Src(k)) = script
    BY <1>1, <1>t, <1>s, <2>5, PipeHas DEF Script
  <2>8. Relayed(job[c], m, x, k)
    BY <1>2, <1>3, <2>2, <2>3, <2>4, <2>5, <2>7 DEF Relayed, Held, Broken
  <2> QED BY <1>1, <2>1, <2>4, <2>6, <2>8, PipeStep
<1>6. \/ (Stop(c, k, "idle") \/ Stop(c, k, "reset")) /\ e' = e
      \/ /\ Move(c, k, [pc |-> "arm", held |-> 0])
         /\ SetEnds(c, [e[c] EXCEPT ![Dst(k)].got = Append(@, d[c][k].held)])
  BY DEF Write
<1> QED BY <1>4, <1>5, <1>6

LEMMA PipeReportWhole ==
    ASSUME Streams, NEW c \in Conns, NEW k \in Dirs, PipeReport(c, k) PROVE Streams'
<1>u. PICK u : u = [reported |-> k, forced |-> d[c][k].err # "nil"]
  OBVIOUS
<1>g. PICK g : g = Updated(f[c], u)
  OBVIOUS
<1>1. job' = job /\ e' = e /\ d' = d /\ f[c].pc = "pipe" /\ To(c, u)
  BY <1>u DEF PipeReport, At
<1>2. Alone(c) /\ f'[c] = g
  BY <1>1, <1>g, Has, ToIs DEF Alone
<1>3. /\ DOMAIN g = DOMAIN Handler /\ g.pc = "pipe" /\ g.pre = f[c].pre /\ g.first = f[c].first
      /\ g.req = f[c].req /\ g.answers = f[c].answers /\ g.reported = k
  BY <1>1, <1>u, <1>g, Has DEF Updated, Handler
<1>4. /\ Shape(job[c], g, e[c], d[c]) /\ g.answers \in Seq(Replied(job[c]))
      /\ \A l \in Dirs : Relayed(job[c], e[c], d[c][l], l)
  BY <1>1, <1>3, Has DEF Shape, Whole
<1>5. Whole(job[c], g, e[c], d[c])
  BY <1>3, <1>4 DEF Whole, Early, Undialled, Reading
<1> QED BY <1>1, <1>2, <1>5, Others

\* What the relay returns: an error, or the end of both directions.
LEMMA PipeReturnsWhole == ASSUME Streams, NEW c \in Conns, PipeReturns(c) PROVE Streams'
<1>0. "client" \in Sides /\ "origin" \in Sides /\ "up" \in Dirs /\ "down" \in Dirs
  BY DEF Sides, Dirs
<1>r. PICK result : result = (CASE srv.cancelled -> "cancelled"
                    [] d[c][f[c].reported].err # "nil" -> d[c][f[c].reported].err
                    [] OTHER -> d[c][Other(f[c].reported)].err)
  OBVIOUS
<1>1. /\ job' = job /\ e' = e /\ d' = d /\ f[c].pc = "pipe" /\ f[c].reported # "none"
      /\ Leave(c, IF result = "nil" THEN "ok" ELSE result)
  BY <1>r DEF PipeReturns
<1>2. \A k \in Dirs : d[c][k].pc = "done" /\ Relayed(job[c], e[c], d[c][k], k)
  BY PipeHas DEF PipeReturns, At
<1>3. f[c].reported \in Dirs /\ Other(f[c].reported) \in Dirs /\ Other(f[c].reported) # f[c].reported
  BY <1>1, Has DEF Whole, Other, Dirs
<1>4. result # "ok"
  BY <1>r, <1>2, <1>3 DEF Relayed
<1>5. CASE result # "nil"
  BY <1>1, <1>4, <1>5, GiveUp
<1>6. CASE result = "nil"
  <2>g. PICK g : g = Updated(f[c], [pc |-> "done", cause |-> "ok"])
    OBVIOUS
  <2>1. Alone(c) /\ f'[c] = g
    BY <1>1, <1>6, <2>g, Has, ToIs DEF Alone, Leave
  <2>2. \A k \in Dirs : d[c][k].err = "nil"
    BY <1>r, <1>3, <1>6 DEF Other, Dirs
  <2>3. ASSUME NEW k \in Dirs PROVE e[c][Dst(k)].got = Script(job[c], e[c], Src(k))
    <3>1. /\ e[c][Dst(k)].got \in Seq(Nat) /\ Held(d[c][k]) = <<>>
          /\ e[c][Src(k)].toread = <<>>
          /\ (e[c][Dst(k)].got \o Held(d[c][k])) \o e[c][Src(k)].toread
               = Script(job[c], e[c], Src(k))
      BY <1>1, <1>2, <2>2, PipeHas DEF Relayed, Held, Broken
    <3> QED BY <3>1, ConcatEmptySeq
  <2>4. /\ e[c]["origin"].got = Script(job[c], e[c], "client")
        /\ e[c]["client"].got = Script(job[c], e[c], "origin")
    BY <1>0, <2>3 DEF Src, Dst
  <2>5. /\ DOMAIN g = DOMAIN Handler /\ g.pc = "done" /\ g.pre = f[c].pre
        /\ g.first = f[c].first /\ g.req = f[c].req /\ g.answers = f[c].answers
        /\ g.reported = f[c].reported
    BY <2>g, Has DEF Updated, Handler
  <2>6. Over(job[c], g, e[c])
    <3>1. /\ IsPrefix(e[c]["client"].got, Script(job[c], e[c], "origin"))
          /\ IsPrefix(e[c]["origin"].got, Script(job[c], e[c], "client"))
      BY Has, WholeIsPrefix
    <3> QED BY <3>1, <2>4 DEF Over
  <2>7. Shape(job[c], g, e[c], d[c]) /\ g.answers \in Seq(Replied(job[c]))
        /\ g.reported \in Dirs \cup {"none"}
    BY <2>5, Has DEF Shape, Whole
  <2>8. Whole(job[c], g, e[c], d[c])
    BY <2>5, <2>6, <2>7 DEF Whole, Early, Undialled, Reading
  <2> QED BY <1>1, <2>1, <2>8, Others
<1> QED BY <1>5, <1>6

--------------------------------------------------------------------------
(* The streams, in every state.                                             *)

LEMMA StreamsInit == Init => Streams
<1> SUFFICES ASSUME Init PROVE Streams
  OBVIOUS
<1>1. /\ job \in Jobs /\ DOMAIN f = Conns /\ DOMAIN e = Conns /\ DOMAIN d = Conns
      /\ \A c \in Conns : /\ f[c] = Handler /\ DOMAIN e[c] = Sides /\ DOMAIN d[c] = Dirs
                          /\ \A s \in Sides : e[c][s] = End
                          /\ \A k \in Dirs : d[c][k] = Direction
  BY DEF Init
<1>2. ASSUME NEW c \in Conns PROVE Whole(job[c], f[c], e[c], d[c])
  <2>1. /\ f[c].pc = "syn" /\ f[c].first = <<>> /\ f[c].pre = <<>> /\ f[c].req = 0
        /\ f[c].acked = FALSE /\ f[c].dialled = "none" /\ f[c].answers = <<>>
        /\ f[c].reported = "none"
    BY <1>1 DEF Handler
  <2>2. \A s \in Sides : /\ e[c][s].sent = 0 /\ e[c][s].toread = <<>> /\ e[c][s].got = <<>>
                         /\ ~Closed(e[c][s])
    BY <1>1 DEF End, Closed
  <2>3. /\ \A s \in Sides : Len(job[c][s]) \in Nat
        /\ <<>> \in Seq(Nat) /\ <<>> \in Seq(Replied(job[c]))
    BY <1>1, ScriptsAssumption, LenProperties, EmptySeq DEF Sides
  <2>4. \A k \in Dirs : d[c][k].held = 0
    BY <1>1 DEF Direction
  <2>5. Shape(job[c], f[c], e[c], d[c])
    <3>1. ASSUME NEW s \in Sides
          PROVE  /\ DOMAIN e[c][s] = DOMAIN End /\ e[c][s].sent \in 0..Len(job[c][s])
                 /\ e[c][s].toread \in Seq(Nat) /\ e[c][s].got \in Seq(Nat)
                 /\ Closed(e[c][s]) => e[c][s].sent = Len(job[c][s])
      <4>1. e[c][s] = End
        BY <1>1
      <4>2. DOMAIN e[c][s] = DOMAIN End
        BY <4>1
      <4>3. 0 \in 0..Len(job[c][s])
        BY <2>3
      <4> QED BY <2>2, <2>3, <4>2, <4>3
    <3>2. \A k \in Dirs : DOMAIN d[c][k] = DOMAIN Direction /\ d[c][k].held \in Nat
      BY <1>1, <2>4
    <3>3. /\ DOMAIN f[c] = DOMAIN Handler /\ DOMAIN e[c] = Sides /\ DOMAIN d[c] = Dirs
          /\ f[c].first \in Seq(Nat) /\ f[c].pre \in Seq(Nat) /\ f[c].req \in Nat
      BY <1>1, <2>1, <2>3
    <3> QED BY <3>1, <3>2, <3>3 DEF Shape
  <2>6. Silence(job[c], f[c], e[c])
    BY <2>1, <2>2 DEF Silence
  <2> QED BY <2>1, <2>3, <2>5, <2>6 DEF Whole, Early, Undialled, Reading
<1> QED BY <1>1, <1>2 DEF Streams

LEMMA StreamsInductive == Streams /\ [Next]_vars => Streams'
<1> SUFFICES ASSUME Streams, [Next]_vars PROVE Streams'
  OBVIOUS
<1>1. CASE job' = job /\ f' = f /\ e' = e /\ d' = d
  BY <1>1 DEF Streams
<1>2. CASE Cancel \/ StopAdmitting \/ Drain
  BY <1>1, <1>2 DEF Cancel, StopAdmitting, Drain
<1>3. ASSUME NEW c \in Conns, Admit(c) PROVE Streams'
  BY <1>3, AcceptWhole, TrackWhole DEF Admit
<1>4. ASSUME NEW c \in Conns, Handle(c) PROVE Streams'
  BY <1>4, PeekWhole, SocksRequestWhole, ReadRequestWhole, OpenHTTPWhole, WriteBodyWhole,
     ReadResponseWhole, PrecheckWhole, ServeTCPWhole, ReadFirstWhole, FirstTimeoutWhole,
     FirstEOFWhole, DialWhole, LadderEmitsWhole, LadderJudgesWhole, RelayWhole DEF Handle
<1>5. ASSUME NEW c \in Conns, Tick(c) \/ Poison(c) \/ PipeReturns(c) PROVE Streams'
  BY <1>5, TickWhole, PoisonWhole, PipeReturnsWhole
<1>6. ASSUME NEW c \in Conns, Peers(c) PROVE Streams'
  BY <1>6, PeerSendsWhole, PeerClosesWhole, PeerFailsWhole DEF Peers
<1>7. ASSUME NEW c \in Conns, NEW k \in Dirs, Copy(c, k) \/ IdleExpires(c, k) \/ PipeReport(c, k)
      PROVE  Streams'
  BY <1>7, ArmReadWhole, ReadWhole, ArmWriteWhole, WriteWhole, IdleExpiresWhole,
     PipeReportWhole DEF Copy
<1>8. CASE UNCHANGED vars
  BY <1>1, <1>8 DEF vars
<1> QED BY <1>2, <1>3, <1>4, <1>5, <1>6, <1>7, <1>8 DEF Next

\* Neither peer ever gets a byte out of place, a flow that ended well delivered
\* all of both streams, and an answer is from the origin of its request, for any
\* number of connections and any scripts (firstmsg.go, relay.go, httpfront.go).
THEOREM WholeStreams == Spec => []StreamsAreWhole
<1>1. Spec => []Streams
  BY StreamsInit, StreamsInductive, PTL DEF Spec
<1> QED BY <1>1, StreamsGive, PTL

--------------------------------------------------------------------------
(* The count, the cap and the drain.                                        *)

Going(pc) == pc \notin Ended \cup {"syn"}

\* What a step of c's handler leaves of the handlers.
LEMMA ToGoes ==
    ASSUME Counted, NEW c \in Conns, NEW u, To(c, u)
    PROVE  /\ DOMAIN f' = Conns /\ DOMAIN f'[c] = DOMAIN Handler
           /\ \A x \in Conns \ {c} : f'[x] = f[x]
           /\ f'[c].pc = IF "pc" \in DOMAIN u THEN u.pc ELSE f[c].pc
<1>1. DOMAIN f = Conns /\ DOMAIN f[c] = DOMAIN Handler
  BY DEF Counted
<1>2. DOMAIN f' = Conns /\ f'[c] = Updated(f[c], u) /\ \A x \in Conns \ {c} : f'[x] = f[x]
  BY <1>1, ToIs
<1>3. "pc" \in DOMAIN Handler
  BY DEF Handler
<1> QED BY <1>1, <1>2, <1>3 DEF Updated

\* What a step of a running handler does to the count.
Carries(c) ==
    /\ job' = job /\ DOMAIN f' = Conns /\ DOMAIN f'[c] = DOMAIN Handler
    /\ \A x \in Conns \ {c} : f'[x] = f[x]
    /\ \/ Going(f'[c].pc) /\ srv' = srv
       \/ f'[c].pc = "done" /\ srv' = [srv EXCEPT !.active = @ - 1]

LEMMA CarriesCounts ==
    ASSUME Counted, NEW c \in Conns, Running(c), Carries(c)
    PROVE  Counted'
<1>1. /\ srv \in [cancelled : BOOLEAN, listening : BOOLEAN, drained : BOOLEAN, active : Nat,
                  how : {"serving", "draining", "waited", "grace"}]
      /\ IsFiniteSet(Live) /\ srv.active = Cardinality(Live) /\ c \in Live
  BY DEF Counted, Live
<1>2. Mode' = Mode /\ DOMAIN f' = Conns /\ \A x \in Conns : DOMAIN f'[x] = DOMAIN Handler
  BY DEF Carries, Mode, Counted
<1>3. CASE Going(f'[c].pc) /\ srv' = srv
  <2>1. Live' = Live
    BY <1>1, <1>2, <1>3 DEF Live, Running, Going, Carries, Ended
  <2> QED BY <1>2, <1>3, <2>1 DEF Counted
<1>4. CASE f'[c].pc = "done" /\ srv' = [srv EXCEPT !.active = @ - 1]
  <2>1. Live' = Live \ {c}
    BY <1>1, <1>2, <1>4 DEF Live, Running, Carries, Ended
  <2>2. IsFiniteSet(Live \ {c}) /\ Cardinality(Live \ {c}) = Cardinality(Live) - 1
    BY <1>1, FS_RemoveElement
  <2>3. Cardinality(Live) \in Nat /\ Cardinality(Live) # 0
    BY <1>1, FS_CardinalityType, FS_EmptySet
  <2>4. srv'.active = srv.active - 1 /\ srv'.active \in Nat
    BY <1>1, <1>4, <2>3
  <2>5. /\ srv' \in [cancelled : BOOLEAN, listening : BOOLEAN, drained : BOOLEAN, active : Nat,
                     how : {"serving", "draining", "waited", "grace"}]
        /\ srv'.how = srv.how /\ srv'.listening = srv.listening /\ srv'.drained = srv.drained
    BY <1>1, <1>4, <2>4
  <2>6. Mode' = "proxy" /\ MaxConns > 0 => srv'.active <= MaxConns
    BY <1>1, <1>2, <2>4, BoundsAssumption DEF Counted
  <2>7. srv'.how = "waited" => Live' = {}
    BY <1>1, <2>1, <2>5 DEF Counted
  <2>8. srv'.how # "serving" => ~srv'.listening /\ (Mode' = "tun" => srv'.drained)
    BY <1>2, <2>5 DEF Counted
  <2> QED BY <1>1, <1>2, <2>1, <2>2, <2>4, <2>5, <2>6, <2>7, <2>8 DEF Counted
<1> QED BY <1>3, <1>4 DEF Carries

\* A connection is admitted: counted before it runs, and only while serving.
Admitted(c) ==
    /\ job' = job /\ DOMAIN f' = Conns /\ DOMAIN f'[c] = DOMAIN Handler
    /\ \A x \in Conns \ {c} : f'[x] = f[x]
    /\ \/ f'[c].pc \in Ended /\ srv' = srv
       \/ /\ Going(f'[c].pc) /\ srv' = [srv EXCEPT !.active = @ + 1] /\ srv.how = "serving"
          /\ Mode = "proxy" /\ MaxConns > 0 => srv.active < MaxConns

LEMMA AdmittedCounts ==
    ASSUME Counted, NEW c \in Conns, f[c].pc = "syn", Admitted(c)
    PROVE  Counted'
<1>1. /\ srv \in [cancelled : BOOLEAN, listening : BOOLEAN, drained : BOOLEAN, active : Nat,
                  how : {"serving", "draining", "waited", "grace"}]
      /\ IsFiniteSet(Live) /\ srv.active = Cardinality(Live) /\ c \notin Live
  BY DEF Counted, Live, Running
<1>2. Mode' = Mode /\ DOMAIN f' = Conns /\ \A x \in Conns : DOMAIN f'[x] = DOMAIN Handler
  BY DEF Admitted, Mode, Counted
<1>3. CASE f'[c].pc \in Ended /\ srv' = srv
  <2>1. Live' = Live
    BY <1>1, <1>2, <1>3 DEF Live, Running, Admitted, Ended
  <2> QED BY <1>2, <1>3, <2>1 DEF Counted
<1>4. CASE /\ Going(f'[c].pc) /\ srv' = [srv EXCEPT !.active = @ + 1] /\ srv.how = "serving"
           /\ Mode = "proxy" /\ MaxConns > 0 => srv.active < MaxConns
  <2>1. Live' = Live \cup {c}
    BY <1>1, <1>2, <1>4 DEF Live, Running, Admitted, Going, Ended
  <2>2. IsFiniteSet(Live \cup {c}) /\ Cardinality(Live \cup {c}) = Cardinality(Live) + 1
    BY <1>1, FS_AddElement
  <2>3. srv'.active = srv.active + 1 /\ srv'.active \in Nat
    BY <1>1, <1>4
  <2>4. /\ srv' \in [cancelled : BOOLEAN, listening : BOOLEAN, drained : BOOLEAN, active : Nat,
                     how : {"serving", "draining", "waited", "grace"}]
        /\ srv'.how = "serving"
    BY <1>1, <1>4, <2>3
  <2>5. Mode' = "proxy" /\ MaxConns > 0 => srv'.active <= MaxConns
    BY <1>1, <1>2, <1>4, <2>3, BoundsAssumption
  <2> QED BY <1>1, <1>2, <2>1, <2>2, <2>3, <2>4, <2>5 DEF Counted
<1> QED BY <1>3, <1>4 DEF Admitted

LEMMA AdmitCounts == ASSUME Counted, NEW c \in Conns, Admit(c) PROVE Counted'
<1>1. f[c].pc = "syn" /\ job' = job
  BY DEF Admit, Accept, Track
<1>2. srv.active \in Nat /\ MaxConns \in Nat
  BY BoundsAssumption DEF Counted
<1>3. CASE Accept(c)
  <2>1. srv.listening /\ srv.how = "serving"
    BY <1>3 DEF Accept, Counted
  <2>2. ASSUME To(c, [pc |-> "rejected"]), srv' = srv PROVE Admitted(c)
    BY <1>1, <2>2, ToGoes DEF Admitted, Ended
  <2>3. ASSUME ~(MaxConns > 0 /\ srv.active >= MaxConns), To(c, [pc |-> "peek"]),
               srv' = [srv EXCEPT !.active = @ + 1]
        PROVE  Admitted(c)
    <3>1. MaxConns > 0 => srv.active < MaxConns
      BY <1>2, <2>3
    <3> QED BY <1>1, <2>1, <2>3, <3>1, ToGoes DEF Admitted, Going, Ended
  <2>4. Admitted(c)
    BY <1>3, <2>2, <2>3 DEF Accept
  <2> QED BY <1>1, <2>4, AdmittedCounts
<1>4. CASE Track(c)
  <2>1. ASSUME To(c, [pc |-> "refused"]), srv' = srv PROVE Admitted(c)
    BY <1>1, <2>1, ToGoes DEF Admitted, Ended
  <2>2. ASSUME ~srv.drained, To(c, [pc |-> "serve"]), srv' = [srv EXCEPT !.active = @ + 1]
        PROVE  Admitted(c)
    <3>1. Mode = "tun" /\ srv.how = "serving"
      BY <1>4, <2>2 DEF Track, Counted
    <3> QED BY <1>1, <2>2, <3>1, ToGoes DEF Admitted, Going, Ended
  <2>3. Admitted(c)
    BY <1>4, <2>1, <2>2 DEF Track
  <2> QED BY <1>1, <2>3, AdmittedCounts
<1> QED BY <1>3, <1>4 DEF Admit

\* A handler that leaves, and one that goes on.
LEMMA LeaveCarries ==
    ASSUME Counted, NEW c \in Conns, job' = job, NEW cause, Leave(c, cause)
    PROVE  Carries(c)
<1>1. To(c, [pc |-> "done", cause |-> cause]) /\ srv' = [srv EXCEPT !.active = @ - 1]
  BY DEF Leave
<1> QED BY <1>1, ToGoes DEF Carries

LEMMA GoesOn ==
    ASSUME Counted, NEW c \in Conns, job' = job, srv' = srv, NEW u, To(c, u),
           Running(c), "pc" \in DOMAIN u => Going(u.pc)
    PROVE  Carries(c)
BY ToGoes DEF Carries, Running, Going

LEMMA TunnelCarries ==
    ASSUME Counted, NEW c \in Conns, job' = job, srv' = srv, Running(c), NEW host, Tunnel(c, host)
    PROVE  Carries(c)
<1> PICK u : u = [pc |-> IF Judged(VerdictFor(c, host)) THEN "precheck" ELSE "dial",
                  host |-> host, class |-> VerdictFor(c, host).class]
  OBVIOUS
<1>1. To(c, u)
  BY DEF Tunnel
<1>2. u.pc \in {"precheck", "dial"}
  OBVIOUS
<1> QED BY <1>1, <1>2, GoesOn DEF Going, Ended

LEMMA DispatchCarries ==
    ASSUME Counted, NEW c \in Conns, job' = job, srv' = srv, Running(c), NEW first, NEW whole,
           Dispatch(c, first, whole)
    PROVE  Carries(c)
<1>1. PICK u : To(c, u) /\ u.pc \in {"ladder", "dial"}
  BY DEF Dispatch
<1> QED BY <1>1, GoesOn DEF Going, Ended

\* The handlers' steps before a connection is dialled.
LEMMA FrontCarries ==
    ASSUME Counted, NEW c \in Conns,
           \/ Peek(c) \/ SocksRequest(c) \/ ReadRequest(c) \/ OpenHTTP(c) \/ WriteBody(c)
           \/ ReadResponse(c) \/ Precheck(c) \/ ServeTCP(c)
    PROVE  Running(c) /\ Carries(c)
<1>1. Running(c) /\ job' = job
  BY DEF Peek, SocksRequest, ReadRequest, OpenHTTP, WriteBody, ReadResponse, Precheck, ServeTCP,
     Running, Ended
<1>2. CASE Peek(c)
  <2>1. ASSUME NEW pc \in {"socks", "readreq"}, To(c, [pc |-> pc]), srv' = srv PROVE Carries(c)
    BY <1>1, <2>1, GoesOn DEF Going, Ended
  <2> QED BY <1>1, <1>2, <2>1, LeaveCarries DEF Peek
<1>3. CASE SocksRequest(c)
  BY <1>1, <1>3, TunnelCarries, LeaveCarries DEF SocksRequest
<1>4. CASE ReadRequest(c)
  <2>1. ASSUME To(c, [pc |-> "open", req |-> f[c].req + 1]), srv' = srv PROVE Carries(c)
    BY <1>1, <2>1, GoesOn DEF Going, Ended
  <2> QED BY <1>1, <1>4, <2>1, TunnelCarries, LeaveCarries DEF ReadRequest
<1>5. CASE OpenHTTP(c)
  <2>1. CASE Leave(c, "refused")
    BY <1>1, <2>1, LeaveCarries
  <2>2. CASE ~Leave(c, "refused")
    <3>1. PICK u : To(c, u) /\ u.pc = "body" /\ srv' = srv
      BY <1>5, <2>2 DEF OpenHTTP
    <3> QED BY <1>1, <3>1, GoesOn DEF Going, Ended
  <2> QED BY <2>1, <2>2
<1>6. CASE WriteBody(c)
  <2>1. ASSUME To(c, [pc |-> "response"]), srv' = srv PROVE Carries(c)
    BY <1>1, <2>1, GoesOn DEF Going, Ended
  <2> QED BY <1>1, <1>6, <2>1, LeaveCarries DEF WriteBody
<1>7. CASE ReadResponse(c)
  <2>1. CASE Leave(c, "refused")
    BY <1>1, <2>1, LeaveCarries
  <2>2. CASE ~Leave(c, "refused")
    <3>1. PICK u : /\ To(c, u)
                   /\ \/ u.pc \in {"pre", "readreq"} /\ srv' = srv
                      \/ u.pc = "done" /\ srv' = [srv EXCEPT !.active = @ - 1]
                   /\ "pc" \in DOMAIN u
      BY <1>7, <2>2 DEF ReadResponse
    <3> QED BY <1>1, <3>1, ToGoes DEF Carries, Going, Ended
  <2> QED BY <2>1, <2>2
<1>8. CASE Precheck(c)
  <2>1. ASSUME To(c, [pc |-> "first", acked |-> TRUE, since |-> 0, total |-> 0]), srv' = srv
        PROVE  Carries(c)
    BY <1>1, <2>1, GoesOn DEF Going, Ended
  <2> QED BY <1>1, <1>8, <2>1, LeaveCarries DEF Precheck
<1>9. CASE ServeTCP(c)
  <2>1. CASE Leave(c, "refused")
    BY <1>1, <2>1, LeaveCarries
  <2>2. CASE ~Leave(c, "refused")
    <3>1. PICK u : To(c, u) /\ u.pc \in {"first", "dial"} /\ srv' = srv
      BY <1>9, <2>2 DEF ServeTCP
    <3> QED BY <1>1, <3>1, GoesOn DEF Going, Ended
  <2> QED BY <2>1, <2>2
<1> QED BY <1>1, <1>2, <1>3, <1>4, <1>5, <1>6, <1>7, <1>8, <1>9

\* The steps from the first message to the relay's end.
LEMMA FlowCarries ==
    ASSUME Counted, NEW c \in Conns,
           \/ ReadFirst(c) \/ FirstTimeout(c) \/ FirstEOF(c) \/ Dial(c) \/ LadderEmits(c)
           \/ LadderJudges(c) \/ Relay(c) \/ Tick(c) \/ PipeReturns(c)
           \/ \E k \in Dirs : PipeReport(c, k)
    PROVE  Running(c) /\ Carries(c)
<1>1. Running(c) /\ job' = job
  BY DEF ReadFirst, FirstTimeout, FirstEOF, Dial, LadderEmits, LadderJudges, Relay, Tick,
     PipeReturns, PipeReport, At, Running, Ended
<1>2. CASE ReadFirst(c)
  <2>1. srv' = srv
    BY <1>2 DEF ReadFirst
  <2> DEFINE u == [first |-> Append(f[c].first, Head(e[c].client.toread)),
                  since |-> Renewed(c)]
  <2>2. \/ \E first, whole : Dispatch(c, first, whole)
        \/ To(c, u)
    BY <1>2 DEF ReadFirst
  <2>3. CASE \E first, whole : Dispatch(c, first, whole)
    BY <1>1, <2>1, <2>3, DispatchCarries
  <2>4. CASE To(c, u)
    <3>1. DOMAIN u = {"first", "since"}
      OBVIOUS
    <3> HIDE DEF u
    <3> QED BY <1>1, <2>1, <2>4, <3>1, GoesOn
  <2> QED BY <2>2, <2>3, <2>4
<1>3. CASE FirstTimeout(c)
  <2>1. ASSUME To(c, [pc |-> "dial", since |-> 0]), srv' = srv PROVE Carries(c)
    BY <1>1, <2>1, GoesOn DEF Going, Ended
  <2> QED BY <1>1, <1>3, <2>1, DispatchCarries DEF FirstTimeout
<1>4. CASE FirstEOF(c)
  BY <1>1, <1>4, LeaveCarries DEF FirstEOF
<1>5. CASE Dial(c)
  <2>1. ASSUME To(c, [pc |-> "pre", acked |-> TRUE, dialled |-> "origin", pre |-> <<>>]),
               srv' = srv
        PROVE  Carries(c)
    BY <1>1, <2>1, GoesOn DEF Going, Ended
  <2> QED BY <1>1, <1>5, <2>1, LeaveCarries DEF Dial
<1>6. CASE LadderEmits(c)
  <2>1. ASSUME To(c, [dialled |-> "origin", laddered |-> TRUE]), srv' = srv PROVE Carries(c)
    BY <1>1, <2>1, GoesOn
  <2> QED BY <1>1, <1>6, <2>1, LeaveCarries DEF LadderEmits
<1>7. CASE LadderJudges(c)
  <2>1. ASSUME To(c, [pc |-> "pre", pre |-> e[c].origin.toread]), srv' = srv PROVE Carries(c)
    BY <1>1, <2>1, GoesOn DEF Going, Ended
  <2> QED BY <1>1, <1>7, <2>1, LeaveCarries DEF LadderJudges
<1>8. CASE Relay(c)
  <2>1. To(c, [pc |-> "pipe"]) /\ srv' = srv
    BY <1>8 DEF Relay
  <2> QED BY <1>1, <2>1, GoesOn DEF Going, Ended
<1>9. CASE Tick(c)
  <2>1. PICK u : To(c, u) /\ DOMAIN u = {"since", "total"} /\ srv' = srv
    BY <1>9 DEF Tick
  <2> QED BY <1>1, <2>1, GoesOn
<1>10. CASE PipeReturns(c)
  <2>1. \E cause : Leave(c, cause)
    BY <1>10 DEF PipeReturns
  <2> QED BY <1>1, <2>1, LeaveCarries
<1>11. CASE \E k \in Dirs : PipeReport(c, k)
  <2>1. PICK u : To(c, u) /\ DOMAIN u = {"reported", "forced"} /\ srv' = srv
    BY <1>11 DEF PipeReport
  <2> QED BY <1>1, <2>1, GoesOn
<1> QED BY <1>1, <1>2, <1>3, <1>4, <1>5, <1>6, <1>7, <1>8, <1>9, <1>10, <1>11, SMTT(30)

\* The server's own steps.
LEMMA ServerCounts == Counted /\ (Cancel \/ StopAdmitting \/ Drain) => Counted'
<1> SUFFICES ASSUME Counted, Cancel \/ StopAdmitting \/ Drain PROVE Counted'
  OBVIOUS
<1>1. /\ srv \in [cancelled : BOOLEAN, listening : BOOLEAN, drained : BOOLEAN, active : Nat,
                  how : {"serving", "draining", "waited", "grace"}]
      /\ IsFiniteSet(Live) /\ srv.active = Cardinality(Live)
      /\ f' = f /\ job' = job
  BY DEF Counted, Cancel, StopAdmitting, Drain
<1>2. Live' = Live /\ Mode' = Mode
  BY <1>1 DEF Live, Running, Mode
<1>3. CASE Cancel
  <2>1. srv' = [srv EXCEPT !.cancelled = TRUE]
    BY <1>3 DEF Cancel
  <2>2. /\ srv' \in [cancelled : BOOLEAN, listening : BOOLEAN, drained : BOOLEAN, active : Nat,
                     how : {"serving", "draining", "waited", "grace"}]
        /\ srv'.how = srv.how /\ srv'.listening = srv.listening /\ srv'.drained = srv.drained
        /\ srv'.active = srv.active
    BY <1>1, <2>1
  <2> QED BY <1>1, <1>2, <2>2 DEF Counted
<1>4. CASE StopAdmitting
  <2>1. srv' = [srv EXCEPT !.listening = FALSE, !.drained = (Mode = "tun"), !.how = "draining"]
    BY <1>4 DEF StopAdmitting
  <2>2. /\ srv' \in [cancelled : BOOLEAN, listening : BOOLEAN, drained : BOOLEAN, active : Nat,
                     how : {"serving", "draining", "waited", "grace"}]
        /\ srv'.how = "draining" /\ srv'.listening = FALSE /\ srv'.drained = (Mode = "tun")
        /\ srv'.active = srv.active
    BY <1>1, <2>1
  <2> QED BY <1>1, <1>2, <2>2 DEF Counted
<1>5. CASE Drain
  <2>1. srv' = [srv EXCEPT !.how = IF srv.active = 0 THEN "waited" ELSE "grace"]
    BY <1>5 DEF Drain
  <2>2. /\ srv' \in [cancelled : BOOLEAN, listening : BOOLEAN, drained : BOOLEAN, active : Nat,
                     how : {"serving", "draining", "waited", "grace"}]
        /\ srv'.how = (IF srv.active = 0 THEN "waited" ELSE "grace")
        /\ srv'.listening = srv.listening /\ srv'.drained = srv.drained
        /\ srv'.active = srv.active
    BY <1>1, <2>1
  <2>3. srv.how # "serving"
    BY <1>5 DEF Drain
  <2>4. srv.active = 0 => Live = {}
    BY <1>1, FS_EmptySet
  <2> QED BY <1>1, <1>2, <2>2, <2>3, <2>4 DEF Counted
<1> QED BY <1>3, <1>4, <1>5

LEMMA CountedInit == Init => Counted
<1> SUFFICES ASSUME Init PROVE Counted
  OBVIOUS
<1>1. DOMAIN f = Conns /\ \A c \in Conns : DOMAIN f[c] = DOMAIN Handler /\ f[c].pc = "syn"
  BY DEF Init, Handler
<1>2. Live = {}
  BY <1>1 DEF Live, Running
<1>3. IsFiniteSet(Live) /\ Cardinality(Live) = 0
  BY <1>2, FS_EmptySet
<1>4. /\ srv \in [cancelled : BOOLEAN, listening : BOOLEAN, drained : BOOLEAN, active : Nat,
                  how : {"serving", "draining", "waited", "grace"}]
      /\ srv.active = 0 /\ srv.how = "serving"
  BY DEF Init
<1> QED BY <1>1, <1>2, <1>3, <1>4, BoundsAssumption DEF Counted

LEMMA CountedInductive == Counted /\ [Next]_vars => Counted'
<1> SUFFICES ASSUME Counted, [Next]_vars PROVE Counted'
  OBVIOUS
<1>1. CASE job' = job /\ f' = f /\ srv' = srv
  BY <1>1 DEF Counted, Live, Running, Mode
<1>2. CASE Cancel \/ StopAdmitting \/ Drain
  BY <1>2, ServerCounts
<1>3. ASSUME NEW c \in Conns, Admit(c) PROVE Counted'
  BY <1>3, AdmitCounts
<1>4. ASSUME NEW c \in Conns, Handle(c) \/ Tick(c) \/ PipeReturns(c) PROVE Counted'
  BY <1>4, FrontCarries, FlowCarries, CarriesCounts DEF Handle
<1>5. ASSUME NEW c \in Conns, Peers(c) \/ Poison(c) PROVE Counted'
  BY <1>1, <1>5 DEF Peers, PeerSends, PeerCloses, PeerFails, Poison
<1>6. ASSUME NEW c \in Conns, NEW k \in Dirs, Copy(c, k) \/ IdleExpires(c, k) PROVE Counted'
  BY <1>1, <1>6 DEF Copy, ArmRead, Read, ArmWrite, Write, IdleExpires
<1>7. ASSUME NEW c \in Conns, NEW k \in Dirs, PipeReport(c, k) PROVE Counted'
  BY <1>7, FlowCarries, CarriesCounts
<1>8. CASE UNCHANGED vars
  BY <1>1, <1>8 DEF vars
<1> QED BY <1>2, <1>3, <1>4, <1>5, <1>6, <1>7, <1>8 DEF Next

\* The server's count is what runs, within the cap, and a drain that saw it at
\* zero is final, for any number of connections and any cap: admission and the
\* count are one step, and neither happens once the drain waits
\* (proxyfe/server.go, tunfe track).
THEOREM FinalDrain == Spec => []DrainIsFinal
<1>1. Spec => []Counted
  BY CountedInit, CountedInductive, PTL DEF Spec
<1>2. Counted => DrainIsFinal
  BY DEF Counted, DrainIsFinal, Live
<1> QED BY <1>1, <1>2, PTL

--------------------------------------------------------------------------
(* The two clocks of a read: the handler's since its last bytes, and the    *)
(* client's since it last said anything.                                    *)

Waiting == Early \cup {"first"}

\* The client has been silent as long as the read of the rest of its message has
\* waited, unless there is something to read.
Patient(h, n) ==
    h.pc \in Waiting =>
      /\ n["client"].lull \in 0..CompleteWait
      /\ h.pc = "first" =>
           /\ h.since \in Nat
           /\ h.first # <<>> /\ n["client"].toread = <<>> =>
                 n["client"].lull >= h.since \/ n["client"].lull >= CompleteWait

AllPatient == \A c \in Conns : Patient(f[c], e[c])

LEMMA OthersPatient ==
    ASSUME AllPatient, NEW c \in Conns, Patient(f'[c], e'[c]),
           \A x \in Conns \ {c} : f'[x] = f[x] /\ e'[x] = e[x]
    PROVE  AllPatient'
<1>1. ASSUME NEW x \in Conns PROVE Patient(f'[x], e'[x])
  <2>1. CASE x = c
    BY <2>1
  <2>2. CASE x # c
    BY <2>2 DEF AllPatient
  <2> QED BY <2>1, <2>2
<1> QED BY <1>1 DEF AllPatient

\* The ends of the others are left alone.
OnlyEndsOf(c) == e' = e \/ \E m : SetEnds(c, m)

LEMMA FarAlready ==
    ASSUME Streams, AllPatient, NEW c \in Conns, OnlyEndsOf(c), NEW u, To(c, u),
           IF "pc" \in DOMAIN u THEN u.pc \notin Waiting ELSE f[c].pc \notin Waiting
    PROVE  AllPatient'
<1>1. f'[c] = Updated(f[c], u) /\ \A x \in Conns \ {c} : f'[x] = f[x]
  BY Has, ToIs
<1>2. \A x \in Conns \ {c} : e'[x] = e[x]
  BY Has, EndsAre DEF OnlyEndsOf
<1>3. f'[c].pc \notin Waiting
  BY <1>1, Has DEF Updated, Handler
<1>4. Patient(f'[c], e'[c])
  BY <1>3 DEF Patient
<1> QED BY <1>1, <1>2, <1>4, OthersPatient

\* Before the first message: a handler begins to read it with a clock at zero and
\* an empty buffer, and only deadlines are set.
Begins(u) ==
    /\ "pc" \in DOMAIN u /\ "first" \notin DOMAIN u
    /\ u.pc = "first" => "since" \in DOMAIN u /\ u.since = 0
SetsDeadlines(c) ==
    e' = e \/ \E x, y : SetEnds(c, Deadline(e[c], "client", x, y))

LEMMA EarlyPatient ==
    ASSUME Streams, AllPatient, NEW c \in Conns, f[c].pc \in Early, SetsDeadlines(c),
           NEW u, To(c, u), Begins(u)
    PROVE  AllPatient'
<1>1. /\ f'[c] = Updated(f[c], u) /\ DOMAIN f[c] = DOMAIN Handler
      /\ \A x \in Conns \ {c} : f'[x] = f[x]
  BY Has, ToIs
<1>2. (\A x \in Conns \ {c} : e'[x] = e[x]) /\ e'[c]["client"].lull = e[c]["client"].lull
  <2>1. CASE e' = e
    BY <2>1
  <2>2. ASSUME NEW x, NEW y, SetEnds(c, Deadline(e[c], "client", x, y))
        PROVE  (\A z \in Conns \ {c} : e'[z] = e[z]) /\ e'[c]["client"].lull = e[c]["client"].lull
    <3> PICK m : m = Deadline(e[c], "client", x, y)
      OBVIOUS
    <3>1. e'[c] = m /\ \A z \in Conns \ {c} : e'[z] = e[z]
      BY <2>2, Has, EndsAre
    <3>2. m["client"].lull = e[c]["client"].lull
      BY Has DEF Deadline, End, Sides
    <3> QED BY <3>1, <3>2
  <2> QED BY <2>1, <2>2 DEF SetsDeadlines
<1>3. f[c].first = <<>>
  BY Has DEF Whole, Silence
<1>4. e[c]["client"].lull \in 0..CompleteWait
  BY DEF AllPatient, Patient, Waiting
<1>5. f'[c].first = <<>> /\ (f'[c].pc = "first" => f'[c].since = 0)
  BY <1>1, <1>3 DEF Updated, Handler, Begins
<1>6. Patient(f'[c], e'[c])
  BY <1>2, <1>4, <1>5 DEF Patient
<1> QED BY <1>1, <1>2, <1>6, OthersPatient

LEMMA LeavePatient ==
    ASSUME Streams, AllPatient, NEW c \in Conns, OnlyEndsOf(c), NEW cause, Leave(c, cause)
    PROVE  AllPatient'
<1>1. To(c, [pc |-> "done", cause |-> cause])
  BY DEF Leave
<1> QED BY <1>1, FarAlready DEF Waiting, Early

Begun(c) == \E u : To(c, u) /\ Begins(u)

LEMMA TunnelBegins ==
    ASSUME NEW c \in Conns, NEW host, Tunnel(c, host)
    PROVE  Begun(c)
<1> PICK u : u = [pc |-> IF Judged(VerdictFor(c, host)) THEN "precheck" ELSE "dial",
                  host |-> host, class |-> VerdictFor(c, host).class]
  OBVIOUS
<1>1. To(c, u)
  BY DEF Tunnel
<1>2. Begins(u)
  BY DEF Begins
<1> QED BY <1>1, <1>2 DEF Begun

\* Every step up to the first message is such a beginning, or the end.
LEMMA FrontBegins ==
    ASSUME NEW c \in Conns,
           \/ Accept(c) \/ Track(c) \/ Peek(c) \/ SocksRequest(c) \/ ReadRequest(c)
           \/ OpenHTTP(c) \/ WriteBody(c) \/ ReadResponse(c) \/ Precheck(c) \/ ServeTCP(c)
    PROVE  f[c].pc \in Early /\ SetsDeadlines(c) /\ Begun(c)
<1>0. ASSUME NEW cause, Leave(c, cause) PROVE Begun(c)
  <2>1. To(c, [pc |-> "done", cause |-> cause])
    BY <1>0 DEF Leave
  <2>2. Begins([pc |-> "done", cause |-> cause])
    BY DEF Begins
  <2> QED BY <2>1, <2>2 DEF Begun
<1>1. f[c].pc \in Early
  BY DEF Accept, Track, Peek, SocksRequest, ReadRequest, OpenHTTP, WriteBody, ReadResponse,
     Precheck, ServeTCP, Early
<1>2. SetsDeadlines(c)
  BY DEF Accept, Track, Peek, SocksRequest, ReadRequest, OpenHTTP, WriteBody, ReadResponse,
     Precheck, ServeTCP, SetsDeadlines
<1> SUFFICES Begun(c)
  BY <1>1, <1>2
<1>3. CASE Accept(c) \/ Track(c)
  <2>1. \E pc : To(c, [pc |-> pc]) /\ pc # "first"
    BY <1>3 DEF Accept, Track
  <2> QED BY <2>1 DEF Begun, Begins
<1>4. CASE Peek(c)
  <2>1. ASSUME NEW pc \in {"socks", "readreq"}, To(c, [pc |-> pc])
        PROVE  Begun(c)
    BY <2>1 DEF Begun, Begins
  <2> QED BY <1>0, <1>4, <2>1 DEF Peek
<1>5. CASE SocksRequest(c)
  BY <1>0, <1>5, TunnelBegins DEF SocksRequest
<1>6. CASE ReadRequest(c)
  <2>1. ASSUME To(c, [pc |-> "open", req |-> f[c].req + 1])
        PROVE  Begun(c)
    BY <2>1 DEF Begun, Begins
  <2> QED BY <1>0, <1>6, <2>1, TunnelBegins DEF ReadRequest
<1>7. CASE OpenHTTP(c)
  <2>1. CASE Leave(c, "refused")
    BY <1>0, <2>1
  <2>2. CASE ~Leave(c, "refused")
    <3>1. PICK u : /\ To(c, u) /\ u.pc = "body"
                   /\ DOMAIN u = {"pc", "host", "class", "laddered", "dialled"}
      BY <1>7, <2>2 DEF OpenHTTP
    <3> QED BY <3>1 DEF Begun, Begins
  <2> QED BY <2>1, <2>2
<1>8. CASE WriteBody(c)
  <2>1. ASSUME To(c, [pc |-> "response"]) PROVE Begun(c)
    BY <2>1 DEF Begun, Begins
  <2> QED BY <1>0, <1>8, <2>1 DEF WriteBody
<1>9. CASE ReadResponse(c)
  <2>1. CASE Leave(c, "refused")
    BY <1>0, <2>1
  <2>2. CASE ~Leave(c, "refused")
    <3>1. ASSUME NEW told,
                 \/ To(c, [pc |-> "pre", answers |-> told, pre |-> <<>>, acked |-> TRUE])
                 \/ To(c, [pc |-> "readreq", answers |-> told, dialled |-> "none"])
                 \/ To(c, [pc |-> "done", cause |-> "ok", answers |-> told])
          PROVE  Begun(c)
      <4>1. /\ Begins([pc |-> "pre", answers |-> told, pre |-> <<>>, acked |-> TRUE])
            /\ Begins([pc |-> "readreq", answers |-> told, dialled |-> "none"])
            /\ Begins([pc |-> "done", cause |-> "ok", answers |-> told])
        BY DEF Begins
      <4> QED BY <3>1, <4>1 DEF Begun
    <3> QED BY <1>9, <2>2, <3>1 DEF ReadResponse
  <2> QED BY <2>1, <2>2
<1>10. CASE Precheck(c)
  <2>1. ASSUME To(c, [pc |-> "first", acked |-> TRUE, since |-> 0, total |-> 0])
        PROVE  Begun(c)
    BY <2>1 DEF Begun, Begins
  <2> QED BY <1>0, <1>10, <2>1 DEF Precheck
<1>11. CASE ServeTCP(c)
  <2>1. CASE Leave(c, "refused")
    BY <1>0, <2>1
  <2>2. CASE ~Leave(c, "refused")
    <3>1. PICK u : /\ To(c, u) /\ u.pc \in {"first", "dial"} /\ u.since = 0
                   /\ DOMAIN u = {"pc", "host", "class", "acked", "since", "total"}
      BY <1>11, <2>2 DEF ServeTCP
    <3> QED BY <3>1 DEF Begun, Begins
  <2> QED BY <2>1, <2>2
<1> QED BY <1>3, <1>4, <1>5, <1>6, <1>7, <1>8, <1>9, <1>10, <1>11

LEMMA FrontPatient ==
    ASSUME Streams, AllPatient, NEW c \in Conns,
           \/ Accept(c) \/ Track(c) \/ Peek(c) \/ SocksRequest(c) \/ ReadRequest(c)
           \/ OpenHTTP(c) \/ WriteBody(c) \/ ReadResponse(c) \/ Precheck(c) \/ ServeTCP(c)
    PROVE  AllPatient'
BY FrontBegins, EarlyPatient DEF Begun

\* Handing the message on, and every step after that, leaves nobody waiting.
LEMMA DispatchPatient ==
    ASSUME Streams, AllPatient, NEW c \in Conns, OnlyEndsOf(c), NEW first, NEW whole,
           Dispatch(c, first, whole)
    PROVE  AllPatient'
<1>1. PICK u : To(c, u) /\ u.pc \in {"ladder", "dial"} /\ "pc" \in DOMAIN u
  BY DEF Dispatch
<1> QED BY <1>1, FarAlready DEF Waiting, Early

LEMMA MinOfTwo ==
    ASSUME NEW a \in Nat, NEW b \in Nat
    PROVE  Min({a, b}) = IF a <= b THEN a ELSE b
<1>1. \E x \in {a, b} : \A y \in {a, b} : x <= y
  OBVIOUS
<1>2. Min({a, b}) \in {a, b} /\ \A y \in {a, b} : Min({a, b}) <= y
  BY <1>1 DEF Min
<1> QED BY <1>2

LEMMA TickPatient ==
    ASSUME Streams, AllPatient, NEW c \in Conns, Tick(c) PROVE AllPatient'
<1>u. PICK u : u = [since |-> f[c].since + 1,
                    total |-> IF f[c].first = <<>> THEN 0 ELSE f[c].total + 1]
  OBVIOUS
<1>l. PICK lull : lull = Min({CompleteWait, e[c]["client"].lull + 1})
  OBVIOUS
<1>m. PICK m : m = [e[c] EXCEPT !["client"].lull = lull]
  OBVIOUS
<1>1. f[c].pc = "first" /\ ~FirstDue(c) /\ To(c, u) /\ SetEnds(c, m)
  BY <1>u, <1>l, <1>m DEF Tick
<1>2. /\ f'[c] = Updated(f[c], u) /\ e'[c] = m
      /\ \A x \in Conns \ {c} : f'[x] = f[x] /\ e'[x] = e[x]
  BY <1>1, Has, ToIs, EndsAre
<1>3. /\ DOMAIN u = {"since", "total"} /\ u.since = f[c].since + 1
  BY <1>u
<1>4. f'[c].pc = "first" /\ f'[c].first = f[c].first /\ f'[c].since = f[c].since + 1
  BY <1>1, <1>2, <1>3, Has DEF Updated, Handler
<1>5. m["client"].lull = lull /\ m["client"].toread = e[c]["client"].toread
  BY <1>m, Has DEF End, Sides
<1>6. /\ e[c]["client"].lull \in 0..CompleteWait /\ f[c].since \in Nat
      /\ f[c].first # <<>> /\ e[c]["client"].toread = <<>> =>
            e[c]["client"].lull >= f[c].since \/ e[c]["client"].lull >= CompleteWait
  BY <1>1 DEF AllPatient, Patient, Waiting
<1>7. CompleteWait \in Nat
  BY BoundsAssumption
<1>8. lull = IF CompleteWait <= e[c]["client"].lull + 1 THEN CompleteWait
             ELSE e[c]["client"].lull + 1
  BY <1>l, <1>6, <1>7, MinOfTwo
<1>9. Patient(f'[c], e'[c])
  <2>1. PICK old, since : old = e[c]["client"].lull /\ since = f[c].since
    OBVIOUS
  <2>2. /\ old \in 0..CompleteWait /\ since \in Nat /\ CompleteWait \in Nat
        /\ lull = IF CompleteWait <= old + 1 THEN CompleteWait ELSE old + 1
    BY <1>6, <1>7, <1>8, <2>1
  <2>3. /\ lull \in 0..CompleteWait /\ since + 1 \in Nat
        /\ old >= since \/ old >= CompleteWait => lull >= since + 1 \/ lull >= CompleteWait
    BY <2>2
  <2>4. PICK h, n : h = f'[c] /\ n = e'[c]
    OBVIOUS
  <2>5. /\ h.first = f[c].first /\ h.since = since + 1
        /\ n["client"].lull = lull /\ n["client"].toread = e[c]["client"].toread
    BY <1>2, <1>4, <1>5, <2>1, <2>4
  <2>6. h.first # <<>> /\ n["client"].toread = <<>> =>
          n["client"].lull >= h.since \/ n["client"].lull >= CompleteWait
    BY <1>6, <2>1, <2>3, <2>5
  <2>7. Patient(h, n)
    BY <2>3, <2>5, <2>6 DEF Patient
  <2> QED BY <2>4, <2>7
<1> QED BY <1>2, <1>9, OthersPatient

LEMMA ReadFirstPatient ==
    ASSUME Streams, AllPatient, NEW c \in Conns, ReadFirst(c) PROVE AllPatient'
<1>f. PICK first : first = Append(f[c].first, Head(e[c].client.toread))
  OBVIOUS
<1>r. PICK rest : rest = [e[c] EXCEPT !["client"].toread = Tail(@)]
  OBVIOUS
<1>u. PICK u : u = [first |-> first, since |-> 0]
  OBVIOUS
<1>1. /\ f[c].pc = "first" /\ OnlyEndsOf(c)
      /\ (\E whole : Dispatch(c, first, whole)) \/ (To(c, u) /\ SetEnds(c, rest))
  BY <1>f, <1>r, <1>u DEF ReadFirst, Renewed, OnlyEndsOf
<1>2. CASE \E whole : Dispatch(c, first, whole)
  BY <1>1, <1>2, DispatchPatient
<1>3. CASE To(c, u) /\ SetEnds(c, rest)
  <2>1. /\ f'[c] = Updated(f[c], u) /\ e'[c] = rest
        /\ \A x \in Conns \ {c} : f'[x] = f[x] /\ e'[x] = e[x]
    BY <1>3, Has, ToIs, EndsAre
  <2>2. f'[c].since = 0
    BY <1>u, <2>1, Has DEF Updated, Handler
  <2>3. rest["client"].lull = e[c]["client"].lull
    BY <1>r, Has DEF End, Sides
  <2>4. e[c]["client"].lull \in 0..CompleteWait
    BY <1>1 DEF AllPatient, Patient, Waiting
  <2>5. Patient(f'[c], e'[c])
    BY <2>1, <2>2, <2>3, <2>4 DEF Patient
  <2> QED BY <2>1, <2>5, OthersPatient
<1> QED BY <1>1, <1>2, <1>3

LEMMA FlowPatient ==
    ASSUME Streams, AllPatient, NEW c \in Conns,
           \/ FirstTimeout(c) \/ FirstEOF(c) \/ Dial(c) \/ LadderEmits(c)
           \/ LadderJudges(c) \/ Relay(c) \/ PipeReturns(c)
           \/ \E k \in Dirs : PipeReport(c, k)
    PROVE  AllPatient'
<1>1. OnlyEndsOf(c)
  BY DEF OnlyEndsOf, FirstTimeout, FirstEOF, Dial, LadderEmits, LadderJudges, Relay,
     PipeReturns, PipeReport
<1>2. CASE FirstTimeout(c)
  <2>1. ASSUME To(c, [pc |-> "dial", since |-> 0]) PROVE AllPatient'
    BY <1>1, <2>1, FarAlready DEF Waiting, Early
  <2> QED BY <1>1, <1>2, <2>1, DispatchPatient DEF FirstTimeout
<1>3. CASE FirstEOF(c)
  BY <1>1, <1>3, LeavePatient DEF FirstEOF
<1>4. CASE Dial(c)
  <2>1. ASSUME To(c, [pc |-> "pre", acked |-> TRUE, dialled |-> "origin", pre |-> <<>>])
        PROVE  AllPatient'
    BY <1>1, <2>1, FarAlready DEF Waiting, Early
  <2> QED BY <1>1, <1>4, <2>1, LeavePatient DEF Dial
<1>5. CASE LadderEmits(c)
  <2>1. ASSUME To(c, [dialled |-> "origin", laddered |-> TRUE]) PROVE AllPatient'
    <3>1. f[c].pc \notin Waiting
      BY <1>5 DEF LadderEmits, Waiting, Early
    <3> QED BY <1>1, <2>1, <3>1, FarAlready
  <2> QED BY <1>1, <1>5, <2>1, LeavePatient DEF LadderEmits
<1>6. CASE LadderJudges(c)
  <2>1. ASSUME To(c, [pc |-> "pre", pre |-> e[c].origin.toread]) PROVE AllPatient'
    BY <1>1, <2>1, FarAlready DEF Waiting, Early
  <2> QED BY <1>1, <1>6, <2>1, LeavePatient DEF LadderJudges
<1>7. CASE Relay(c)
  <2>1. To(c, [pc |-> "pipe"])
    BY <1>7 DEF Relay
  <2> QED BY <1>1, <2>1, FarAlready DEF Waiting, Early
<1>8. CASE PipeReturns(c)
  <2>1. \E cause : Leave(c, cause)
    BY <1>8 DEF PipeReturns
  <2> QED BY <1>1, <2>1, LeavePatient
<1>9. CASE \E k \in Dirs : PipeReport(c, k)
  <2>1. PICK u : To(c, u) /\ DOMAIN u = {"reported", "forced"} /\ f[c].pc = "pipe"
    BY <1>9 DEF PipeReport, At
  <2>2. "pc" \notin DOMAIN u /\ f[c].pc \notin Waiting
    BY <2>1 DEF Waiting, Early
  <2> QED BY <1>1, <2>1, <2>2, FarAlready
<1> QED BY <1>2, <1>3, <1>4, <1>5, <1>6, <1>7, <1>8, <1>9

\* The peers: what one says ends its lull and leaves something to read.
LEMMA PeersPatient ==
    ASSUME Streams, AllPatient, NEW c \in Conns, Peers(c) PROVE AllPatient'
<1>1. PICK s \in Sides : PeerSends(c, s) \/ PeerCloses(c, s) \/ PeerFails(c, s)
  BY DEF Peers
<1>2. f' = f /\ \E m : SetEnds(c, m)
  BY <1>1 DEF PeerSends, PeerCloses, PeerFails
<1>3. PICK m : SetEnds(c, m) /\ m = e'[c]
  BY <1>2, Has, EndsAre
<1>4. \A x \in Conns \ {c} : f'[x] = f[x] /\ e'[x] = e[x]
  BY <1>2, <1>3, Has, EndsAre
<1>5. CASE PeerSends(c, s)
  <2>0. PICK x : x = job[c][s][e[c][s].sent + 1].seg
    OBVIOUS
  <2>1. m = [e[c] EXCEPT ![s].sent = e[c][s].sent + 1, ![s].lull = 0,
                         ![s].toread = Append(@, x)]
    BY <1>3, <1>5, <2>0, Has, EndsAre DEF PeerSends
  <2>2. /\ s = "client" => m["client"].lull = 0
                           /\ m["client"].toread = Append(e[c]["client"].toread, x)
        /\ s # "client" => m["client"] = e[c]["client"]
    BY <2>1, Has DEF End, Sides
  <2>3. Append(e[c]["client"].toread, x) # <<>>
    <3>1. e[c]["client"].toread \in Seq(Nat)
      BY Has DEF Shape, Sides
    <3>2. PICK q : q = e[c]["client"].toread
      OBVIOUS
    <3>3. Len(Append(q, x)) = Len(q) + 1 /\ Len(q) \in Nat
      BY <3>1, <3>2
    <3>4. Len(<<>>) = 0
      BY EmptySeq
    <3>5. Len(Append(q, x)) # 0
      BY <3>3
    <3>6. Append(q, x) # <<>>
      BY <3>4, <3>5, Zenon
    <3> QED BY <3>2, <3>6, Zenon
  <2>4. CompleteWait \in Nat
    BY BoundsAssumption
  <2>5. Patient(f[c], e[c])
    BY DEF AllPatient
  <2>6. Patient(f[c], m)
    <3>1. CASE s = "client"
      BY <2>2, <2>3, <2>4, <2>5, <3>1 DEF Patient
    <3>2. CASE s # "client"
      BY <2>2, <2>5, <3>2 DEF Patient
    <3> QED BY <3>1, <3>2
  <2> QED BY <1>2, <1>3, <1>4, <2>6, OthersPatient
<1>6. CASE PeerCloses(c, s)
  <2>1. m = [e[c] EXCEPT ![s].fin = TRUE]
    BY <1>3, <1>6, Has, EndsAre DEF PeerCloses
  <2>2. m["client"].lull = e[c]["client"].lull /\ m["client"].toread = e[c]["client"].toread
    BY <2>1, Has DEF End, Sides
  <2>3. Patient(f[c], m)
    BY <2>2 DEF AllPatient, Patient
  <2> QED BY <1>2, <1>3, <1>4, <2>3, OthersPatient
<1>7. CASE PeerFails(c, s)
  <2>1. f[c].pc = "pipe"
    BY <1>7 DEF PeerFails
  <2>2. Patient(f[c], m)
    BY <2>1 DEF Patient, Waiting, Early
  <2> QED BY <1>2, <1>3, <1>4, <2>2, OthersPatient
<1> QED BY <1>1, <1>5, <1>6, <1>7

\* Within a relay nobody waits for a first message.
LEMMA PipePatient ==
    ASSUME Streams, AllPatient, NEW c \in Conns,
           Poison(c) \/ \E k \in Dirs : Copy(c, k) \/ IdleExpires(c, k)
    PROVE  AllPatient'
<1>1. f' = f /\ f[c].pc = "pipe" /\ OnlyEndsOf(c)
  BY DEF Poison, Copy, ArmRead, Read, ArmWrite, Write, IdleExpires, At, OnlyEndsOf
<1>2. \A x \in Conns \ {c} : f'[x] = f[x] /\ e'[x] = e[x]
  BY <1>1, Has, EndsAre DEF OnlyEndsOf
<1>3. Patient(f'[c], e'[c])
  BY <1>1 DEF Patient, Waiting, Early
<1> QED BY <1>2, <1>3, OthersPatient

LEMMA PatientInit == Init => AllPatient
<1> SUFFICES ASSUME Init, NEW c \in Conns PROVE Patient(f[c], e[c])
  BY DEF AllPatient
<1>1. f[c].pc = "syn" /\ e[c]["client"].lull = 0
  BY DEF Init, Handler, Sides, End
<1> QED BY <1>1, BoundsAssumption DEF Patient

LEMMA PatientInductive == Streams /\ AllPatient /\ [Next]_vars => AllPatient'
<1> SUFFICES ASSUME Streams, AllPatient, [Next]_vars PROVE AllPatient'
  OBVIOUS
<1>1. CASE f' = f /\ e' = e
  BY <1>1 DEF AllPatient
<1>2. CASE Cancel \/ StopAdmitting \/ Drain
  BY <1>1, <1>2 DEF Cancel, StopAdmitting, Drain
<1>3. ASSUME NEW c \in Conns, Admit(c) \/ Handle(c) \/ Tick(c) \/ Peers(c) PROVE AllPatient'
  BY <1>3, FrontPatient, FlowPatient, ReadFirstPatient, TickPatient, PeersPatient
     DEF Admit, Handle
<1>4. ASSUME NEW c \in Conns, Poison(c) \/ PipeReturns(c) PROVE AllPatient'
  BY <1>4, PipePatient, FlowPatient
<1>5. ASSUME NEW c \in Conns, NEW k \in Dirs, Copy(c, k) \/ IdleExpires(c, k) \/ PipeReport(c, k)
      PROVE  AllPatient'
  BY <1>5, PipePatient, FlowPatient
<1>6. CASE UNCHANGED vars
  BY <1>1, <1>6 DEF vars
<1> QED BY <1>2, <1>3, <1>4, <1>5, <1>6 DEF Next

\* A client that says the next piece of its hello sooner than CompleteWait after
\* the last is not cut off before MaxAssembly is over, for any waits and scripts:
\* whenever the reader's own clock runs out with nothing unread, the client's
\* silence is as old (firstmsg.go, the renewed deadline).
THEOREM PatientReader == Spec => SteadyHelloIsWhole
<1>1. Spec => [](Streams /\ AllPatient)
  BY StreamsInit, StreamsInductive, PatientInit, PatientInductive, PTL DEF Spec
<1>2. ASSUME AllPatient, NEW c \in Conns, f[c].pc = "first", f[c].first # <<>>, FirstTimeout(c)
      PROVE  \/ f[c].total >= MaxAssembly
             \/ e[c].client.lull >= CompleteWait
             \/ e[c].client.toread # <<>>
  <2>1. f[c].since >= CompleteWait \/ f[c].total >= MaxAssembly
    BY <1>2 DEF FirstTimeout, FirstDue
  <2>2. /\ f[c].since \in Nat /\ e[c]["client"].lull \in 0..CompleteWait
        /\ e[c]["client"].toread = <<>> =>
              e[c]["client"].lull >= f[c].since \/ e[c]["client"].lull >= CompleteWait
    BY <1>2 DEF AllPatient, Patient, Waiting
  <2>3. CompleteWait \in Nat
    BY BoundsAssumption
  <2> QED BY <2>1, <2>2, <2>3
<1>3. AllPatient /\ [Next]_vars =>
        [\A c \in Conns :
           (f[c].pc = "first" /\ f[c].first # <<>> /\ FirstTimeout(c))
             => \/ f[c].total >= MaxAssembly
                \/ e[c].client.lull >= CompleteWait
                \/ e[c].client.toread # <<>>]_vars
  BY <1>2
<1> QED BY <1>1, <1>3, PTL DEF Spec, SteadyHelloIsWhole

--------------------------------------------------------------------------
(* Which names a rule covers, and which rule decides.                       *)

\* What is left of a name when its root dot is off.
Bare(l) == IF Last(l) = "" THEN Front(l) ELSE l

LEMMA BareIsSeq ==
    ASSUME NEW l \in Seq(Label), l # <<>> PROVE Bare(l) \in Seq(Label)
<1>1. Len(l) \in Nat \ {0}
  BY EmptySeq
<1>2. SubSeq(l, 1, Len(l) - 1) \in Seq(Label)
  BY <1>1, SubSeqProperties
<1> QED BY <1>2 DEF Bare, Front

\* A name folded label by label.
LEMMA FoldedSeq ==
    ASSUME NEW b \in Seq(Label)
    PROVE  /\ [i \in DOMAIN b |-> Fold(b[i])] \in Seq(Label)
           /\ Len([i \in DOMAIN b |-> Fold(b[i])]) = Len(b)
<1>1. Len(b) \in Nat /\ DOMAIN b = 1..Len(b) /\ \A i \in 1..Len(b) : b[i] \in Label
  BY LenProperties
<1>2. \A i \in 1..Len(b) : Fold(b[i]) \in Label
  BY <1>1, FoldingAssumption DEF Fold
<1>3. [i \in DOMAIN b |-> Fold(b[i])] \in [1..Len(b) -> Label]
  BY <1>1, <1>2
<1> DEFINE low == [i \in DOMAIN b |-> Fold(b[i])]
<1> HIDE DEF low
<1>4. low \in [1..Len(b) -> Label] /\ Len(b) \in Nat
  BY <1>1, <1>3 DEF low
<1>5. low \in Seq(Label) /\ Len(low) = Len(b)
  BY <1>4
<1> QED BY <1>5 DEF low

\* The form of a usable name, all of whose labels are folded.
LEMMA UsableForm ==
    ASSUME NEW h \in Host, h.form = "name", h.labels # <<>>, Normalize(h) # NoHost
    PROVE  /\ Normalize(h).form = "name" /\ Normalize(h).bits = <<>>
           /\ Normalize(h).labels \in Seq(Label) /\ Normalize(h).labels # <<>>
           /\ Normalize(h).labels
                 = [i \in DOMAIN Bare(h.labels) |-> Fold(Bare(h.labels)[i])]
           /\ \A i \in DOMAIN Normalize(h).labels : Normalize(h).labels[i] # ""
<1> DEFINE b   == Bare(h.labels)
           low == [i \in DOMAIN b |-> Fold(b[i])]
<1>1. b \in Seq(Label)
  BY BareIsSeq DEF Host
<1>2. low \in Seq(Label)
  BY <1>1, FoldedSeq
<1>3. Normalize(h) = IF low = <<>> \/ \E i \in DOMAIN low : low[i] = ""
                     THEN NoHost ELSE Named(low)
  BY DEF Normalize, Bare
<1>4. PICK l : l = low
  OBVIOUS
<1> HIDE DEF low
<1>5. l # <<>> /\ Normalize(h) = Named(l) /\ \A i \in DOMAIN l : l[i] # ""
  BY <1>3, <1>4
<1>6. /\ Normalize(h).labels = l /\ Normalize(h).form = "name"
      /\ Normalize(h).bits = <<>>
  <2>1. Named(l).labels = l /\ Named(l).form = "name" /\ Named(l).bits = <<>>
    BY DEF Named
  <2> QED BY <1>5, <2>1
<1> QED BY <1>2, <1>4, <1>5, <1>6 DEF low

LEMMA NormalIsHost ==
    ASSUME NEW h \in Host
    PROVE  /\ Normalize(h) \in Host /\ Normalize(h).labels \in Seq(Label)
           /\ h.form # "name" => Normalize(h) = h
<1>1. CASE h.form # "name" \/ h.labels = <<>>
  BY <1>1 DEF Normalize, Host
<1>2. CASE Normalize(h) = NoHost
  <2>1. <<>> \in Seq(Label) /\ <<>> \in Seq(Bit)
    BY EmptySeq
  <2>2. NoHost \in Host /\ NoHost.labels \in Seq(Label)
    BY <2>1 DEF NoHost, Host
  <2>3. h.form # "name" => Normalize(h) = h
    BY DEF Normalize
  <2> QED BY <1>2, <2>2, <2>3
<1>3. CASE h.form = "name" /\ h.labels # <<>> /\ Normalize(h) # NoHost
  <2>1. PICK n : n = Normalize(h)
    OBVIOUS
  <2>2. /\ n.form = "name" /\ n.bits = <<>>
        /\ n.labels \in Seq(Label) /\ n.labels # <<>>
    BY <1>3, <2>1, UsableForm
  <2>3. n = Named(n.labels)
    BY <1>3, <2>1 DEF Normalize, Named
  <2>4. <<>> \in Seq(Bit)
    BY EmptySeq
  <2>5. n \in Host
    BY <2>2, <2>3, <2>4 DEF Named, Host
  <2> QED BY <1>3, <2>1, <2>2, <2>5
<1> QED BY <1>1, <1>2, <1>3

LEMMA NormalTwice ==
    ASSUME NEW h \in Host PROVE Normalize(Normalize(h)).labels = Normalize(h).labels
<1>1. CASE h.form # "name" \/ h.labels = <<>>
  BY <1>1 DEF Normalize
<1>2. CASE Normalize(h) = NoHost
  <2>1. Normalize(NoHost) = NoHost
    BY DEF Normalize, NoHost
  <2> QED BY <1>2, <2>1
<1>3. CASE h.form = "name" /\ h.labels # <<>> /\ Normalize(h) # NoHost
  <2>1. PICK n : n = Normalize(h)
    OBVIOUS
  <2>2. PICK b : b = Bare(h.labels)
    OBVIOUS
  <2>3. PICK l : l = n.labels
    OBVIOUS
  <2>4. /\ n.form = "name" /\ l # <<>> /\ l \in Seq(Label)
        /\ l = [i \in DOMAIN b |-> Fold(b[i])]
        /\ \A i \in DOMAIN l : l[i] # ""
    BY <1>3, <2>1, <2>2, <2>3, UsableForm
  <2>5. b \in Seq(Label)
    BY <1>3, <2>2, BareIsSeq DEF Host
  <2>6. Len(l) \in Nat \ {0} /\ DOMAIN l = 1..Len(l)
    BY <2>4, EmptySeq, LenProperties
  <2>7. Last(l) # ""
    <3>1. Len(l) \in DOMAIN l
      BY <2>6
    <3> QED BY <2>4, <3>1 DEF Last
  <2>8. ASSUME NEW i \in DOMAIN l PROVE Fold(l[i]) = l[i]
    <3>1. i \in DOMAIN b /\ l[i] = Fold(b[i])
      BY <2>4, <2>8
    <3>2. b[i] \in Label
      BY <2>5, <3>1, LenProperties
    <3> QED BY <3>1, <3>2, FoldingAssumption DEF Fold
  <2>9. [i \in DOMAIN l |-> Fold(l[i])] = l
    <3>1. l = [i \in DOMAIN l |-> l[i]]
      BY <2>4
    <3> QED BY <2>8, <3>1
  <2>10. Normalize(n) = Named(l)
    BY <2>3, <2>4, <2>7, <2>9 DEF Normalize
  <2> QED BY <2>1, <2>3, <2>10 DEF Named
<1> QED BY <1>1, <1>2, <1>3

\* What MatchLabel and the script both ask of the labels of a name.
Covering(kind, l, base) ==
  CASE kind = "exact"    -> l = base
    [] kind = "wildcard" -> IsSubdomain(l, base)
    [] OTHER             -> l = base \/ IsSubdomain(l, base)

\* A pattern covers a name exactly when it is written on a suffix of it and
\* matches there.
LEMMA CoveredIsMatched ==
    ASSUME NEW l \in Seq(Label), l # <<>>, NEW base \in Seq(Label), base # <<>>,
           NEW kind
    PROVE  (\E i \in DOMAIN l : base = SubSeq(l, i, Len(l)) /\ MatchesAt(kind, i = 1))
             <=> Covering(kind, l, base)
<1>1. /\ Len(l) \in Nat \ {0} /\ Len(base) \in Nat \ {0}
      /\ DOMAIN l = 1..Len(l)
  BY EmptySeq, LenProperties
<1>2. SubSeq(l, 1, Len(l)) = l
  BY <1>1, SubSeqFull
<1>3. \A i \in 1..Len(l) : Len(SubSeq(l, i, Len(l))) = Len(l) - i + 1
  BY <1>1, SubSeqProperties
<1>4. (\E i \in 2..Len(l) : base = SubSeq(l, i, Len(l))) <=> IsSubdomain(l, base)
  <2>1. ASSUME NEW i \in 2..Len(l), base = SubSeq(l, i, Len(l)) PROVE IsSubdomain(l, base)
    <3>1. Len(base) = Len(l) - i + 1
      BY <1>1, <1>3, <2>1
    <3>2. Len(l) - Len(base) + 1 = i /\ Len(l) > Len(base)
      BY <1>1, <3>1
    <3> QED BY <2>1, <3>2 DEF IsSubdomain
  <2>2. ASSUME IsSubdomain(l, base) PROVE \E i \in 2..Len(l) : base = SubSeq(l, i, Len(l))
    <3>1. Len(l) - Len(base) + 1 \in 2..Len(l)
      BY <1>1, <2>2 DEF IsSubdomain
    <3> QED BY <2>2, <3>1 DEF IsSubdomain
  <2> QED BY <2>1, <2>2
<1>5. (\E i \in DOMAIN l : base = SubSeq(l, i, Len(l)) /\ MatchesAt(kind, i = 1))
        <=> \/ base = l /\ MatchesAt(kind, TRUE)
            \/ MatchesAt(kind, FALSE) /\ \E i \in 2..Len(l) : base = SubSeq(l, i, Len(l))
  <2>1. ASSUME NEW i \in DOMAIN l, base = SubSeq(l, i, Len(l)) /\ MatchesAt(kind, i = 1)
        PROVE  \/ base = l /\ MatchesAt(kind, TRUE)
               \/ MatchesAt(kind, FALSE) /\ \E k \in 2..Len(l) : base = SubSeq(l, k, Len(l))
    <3>1. CASE i = 1
      BY <1>2, <2>1, <3>1
    <3>2. CASE i # 1
      <4>1. i \in 2..Len(l)
        BY <1>1, <3>2
      <4>2. (i = 1) = FALSE
        BY <3>2
      <4> QED BY <2>1, <4>1, <4>2
    <3> QED BY <3>1, <3>2
  <2>2. ASSUME base = l /\ MatchesAt(kind, TRUE)
        PROVE  \E i \in DOMAIN l : base = SubSeq(l, i, Len(l)) /\ MatchesAt(kind, i = 1)
    <3>1. 1 \in DOMAIN l
      BY <1>1
    <3> QED BY <1>2, <2>2, <3>1
  <2>3. ASSUME MatchesAt(kind, FALSE), NEW k \in 2..Len(l), base = SubSeq(l, k, Len(l))
        PROVE  \E i \in DOMAIN l : base = SubSeq(l, i, Len(l)) /\ MatchesAt(kind, i = 1)
    <3>1. k \in DOMAIN l /\ (k = 1) = FALSE
      BY <1>1
    <3> QED BY <2>3, <3>1
  <2> QED BY <2>1, <2>2, <2>3
<1> QED BY <1>4, <1>5 DEF MatchesAt, Covering

\* A set of natural numbers that is not empty has a least one.
LEMMA LeastOf ==
    ASSUME NEW T \in SUBSET Nat, T # {}
    PROVE  \E x \in T : \A y \in T : x <= y
<1> DEFINE Below == {0..x : x \in T}
           R == StrictSubsetOrdering(Nat)
<1>1. \A x \in T : 0..x \in SUBSET Nat /\ IsFiniteSet(0..x)
  BY FS_Interval
<1>2. Below \subseteq FiniteSubsetsOf(Nat) /\ Below # {}
  BY <1>1 DEF FiniteSubsetsOf
<1>3. PICK B \in Below : \A C \in Below : ~ (<<C, B>> \in R)
  <2>1. IsWellFoundedOn(R, FiniteSubsetsOf(Nat))
    BY FS_StrictSubsetOrderingWellFounded
  <2> HIDE DEF Below, R
  <2> QED BY <1>2, <2>1, WFMin
<1>4. PICK x \in T : B = 0..x
  OBVIOUS
<1>5. ASSUME NEW y \in T, y < x PROVE FALSE
  <2>1. 0..y \subseteq 0..x /\ 0..y # 0..x
    <3>1. x \in 0..x /\ x \notin 0..y
      BY <1>5
    <3>2. \A z \in 0..y : z \in 0..x
      BY <1>5
    <3> QED BY <3>1, <3>2
  <2>2. <<0..y, 0..x>> \in R
    BY <2>1 DEF StrictSubsetOrdering
  <2> QED BY <1>3, <1>4, <2>2
<1> QED BY <1>5

\* The rule that decides: as specific as any that matches, and read before
\* those as specific.
LEMMA FirstIs ==
    ASSUME NEW m, m # {}, NEW top \in Nat,
           \A r \in m : Size(r) \in Nat /\ Size(r) <= top /\ r.turn \in Nat
    PROVE  /\ First(m) \in m
           /\ \A s \in m : Size(s) <= Size(First(m))
           /\ \A s \in m : Size(s) = Size(First(m)) => First(m).turn <= s.turn
<1>2. Longest(m) # {}
  <2> DEFINE T == {top - Size(r) : r \in m}
  <2>1. T \in SUBSET Nat /\ T # {}
    OBVIOUS
  <2>2. PICK x \in T : \A y \in T : x <= y
    BY <2>1, LeastOf
  <2>3. PICK r \in m : x = top - Size(r)
    OBVIOUS
  <2>4. \A s \in m : top - Size(r) <= top - Size(s)
    BY <2>2, <2>3
  <2>5. \A s \in m : Size(s) <= Size(r)
    BY <2>4
  <2> QED BY <2>5 DEF Longest
<1>3. \E r \in Longest(m) : \A s \in Longest(m) : r.turn <= s.turn
  <2> DEFINE T == {r.turn : r \in Longest(m)}
  <2>1. T \in SUBSET Nat /\ T # {}
    BY <1>2 DEF Longest
  <2>2. PICK x \in T : \A y \in T : x <= y
    BY <2>1, LeastOf
  <2> QED BY <2>2
<1>4. /\ First(m) \in Longest(m)
      /\ \A s \in Longest(m) : First(m).turn <= s.turn
  BY <1>3 DEF First
<1>5. \A s \in m : Size(s) = Size(First(m)) => s \in Longest(m)
  BY <1>4 DEF Longest
<1> QED BY <1>4, <1>5 DEF Longest

\* A typed policy: sequences of patterns, the compiled-in ones of names.
PolicyTyped(p) ==
  /\ {p.mandatory, p.bypass, p.include} \subseteq Seq(Pattern)
  /\ \A i \in DOMAIN p.mandatory : ~IsAddress(p.mandatory[i])

LEMMA BaseIsSeq ==
    ASSUME NEW q \in Pattern
    PROVE  /\ Base(q) \in Seq(Label) /\ Len(Base(q)) \in Nat
           /\ q.host \in Host /\ (IsAddress(q) => Base(q) = <<>>)
<1>1. q.host \in Host /\ q.host.form # "none"
  BY DEF Pattern
<1>2. Base(q) \in Seq(Label)
  BY <1>1, NormalIsHost DEF Base
<1>3. ASSUME IsAddress(q) PROVE Base(q) = <<>>
  <2>1. q.host.labels = <<>> /\ Normalize(q.host) = q.host
    BY <1>1, <1>3, NormalIsHost DEF IsAddress, Host
  <2> QED BY <2>1 DEF Base
<1> QED BY <1>1, <1>2, <1>3, LenProperties

\* What the rules of names are made of.
LEMMA RulesAre ==
    ASSUME NEW p, PolicyTyped(p), NEW r \in Rules(p)
    PROVE  /\ r.pattern \in Pattern /\ r.turn \in 1..3
           /\ r.class = "bypass" => r.turn < 3
           /\ r.class # "bypass" => /\ r.turn = 3 /\ r.class = "watch"
                                    /\ \E i \in DOMAIN p.include : r.pattern = p.include[i]
<1>1. \A i \in DOMAIN p.mandatory : p.mandatory[i] \in Pattern
  BY LenProperties DEF PolicyTyped
<1>2. \A i \in DOMAIN p.bypass : p.bypass[i] \in Pattern
  BY LenProperties DEF PolicyTyped
<1>3. \A i \in DOMAIN p.include : p.include[i] \in Pattern
  BY LenProperties DEF PolicyTyped
<1> QED BY <1>1, <1>2, <1>3 DEF Rules, Compiled, Rule

\* Every bypass of names that covers a name is a rule that matches it.
LEMMA BypassIsRule ==
    ASSUME NEW p, NEW q \in BypassPatterns(p), ~IsAddress(q)
    PROVE  \E r \in Rules(p) : r.pattern = q /\ r.class = "bypass"
<1>1. PICK r \in Rules(p) \cup IPRules(p) : r.pattern = q /\ r.class = "bypass"
  BY DEF BypassPatterns
<1>2. r \notin IPRules(p)
  BY <1>1 DEF IPRules
<1> QED BY <1>1, <1>2

\* A rule matches the folded name exactly when its pattern covers the name.
LEMMA MatchIsCover ==
    ASSUME NEW h \in Host, NEW rules, NEW r \in rules, r.pattern \in Pattern
    PROVE  r \in Match(rules, Normalize(h)) <=> Covers(r.pattern, h)
<1> DEFINE l == Normalize(h).labels
           base == Base(r.pattern)
           kind == PatternKind(r.pattern)
           suffix == \E i \in DOMAIN l : base = SubSeq(l, i, Len(l)) /\ MatchesAt(kind, i = 1)
<1>1. l \in Seq(Label) /\ base \in Seq(Label) /\ (IsAddress(r.pattern) => base = <<>>)
  BY NormalIsHost, BaseIsSeq
<1>2. r \in Match(rules, Normalize(h)) <=> suffix
  BY NormalTwice DEF Match
<1>3. Covers(r.pattern, h)
        <=> ~IsAddress(r.pattern) /\ l # <<>> /\ base # <<>> /\ Covering(kind, l, base)
  BY DEF Covers, MatchLabel, Covering
<1> HIDE DEF l, base, kind
<1>4. suffix => l # <<>> /\ base # <<>>
  <2>1. ASSUME NEW i \in DOMAIN l, base = SubSeq(l, i, Len(l)) PROVE l # <<>> /\ base # <<>>
    <3>1. i \in 1..Len(l) /\ Len(l) \in Nat
      BY <1>1, <2>1, LenProperties
    <3>2. Len(SubSeq(l, i, Len(l))) = Len(l) - i + 1
      BY <1>1, <3>1, SubSeqProperties
    <3>3. Len(base) > 0 /\ Len(l) > 0
      BY <2>1, <3>1, <3>2
    <3> QED BY <3>3, EmptySeq
  <2> QED BY <2>1
<1>5. ASSUME l # <<>>, base # <<>>
      PROVE  suffix <=> Covering(kind, l, base)
  BY <1>1, <1>5, CoveredIsMatched
<1> HIDE DEF suffix
<1> QED BY <1>1, <1>2, <1>3, <1>4, <1>5

\* How long the suffix is that a rule was written on.
LEMMA SizeBounds ==
    ASSUME NEW h \in Host, NEW q \in Pattern, Covers(q, h)
    PROVE  Len(Base(q)) \in 0..Len(Normalize(h).labels)
<1> DEFINE l == Normalize(h).labels
<1>1. l \in Seq(Label) /\ Base(q) \in Seq(Label)
  BY NormalIsHost, BaseIsSeq
<1>2. l = Base(q) \/ IsSubdomain(l, Base(q))
  BY DEF Covers, MatchLabel
<1> HIDE DEF l
<1>3. Len(l) \in Nat /\ Len(Base(q)) \in Nat /\ Len(Base(q)) <= Len(l)
  BY <1>1, <1>2, LenProperties DEF IsSubdomain
<1> QED BY <1>3 DEF l

\* A judged name is not excluded.
LEMMA NameSpared ==
    ASSUME NEW p, PolicyTyped(p), NEW h \in Host, h.form = "name",
           NEW port, Judged(ForName(p, h, port)), NEW addr
    PROVE  ~Excluded(p, h, addr)
<1> DEFINE n == Normalize(h)
           M == Match(Rules(p), n)
<1>1. SUFFICES ASSUME NEW q \in BypassPatterns(p), Covers(q, h)
               PROVE  \E i \in DOMAIN p.include :
                        Covers(p.include[i], h) /\ Len(Base(p.include[i])) > Len(Base(q))
  BY DEF Excluded
<1>2. n # NoHost /\ n.form = "name"
  <2>1. n.labels # <<>>
    BY <1>1 DEF Covers, MatchLabel
  <2>2. n \in Host
    BY NormalIsHost
  <2> QED BY <2>1, <2>2 DEF Host, NoHost
<1>3. PICK rq \in Rules(p) : rq.pattern = q /\ rq.class = "bypass"
  BY <1>1, BypassIsRule DEF Covers
<1>4. rq \in M
  BY <1>1, <1>3, RulesAre, MatchIsCover
<1>5. ~RuleDecides(M)
  <2>1. ASSUME RuleDecides(M) PROVE FALSE
    <3>1. Normalize(h) = n
      OBVIOUS
    <3>2. \/ ForName(p, h, port) = Verdict("direct", "default")
          \/ ForName(p, h, port) = RuleVerdict(First(M))
      BY <1>2, <2>1 DEF ForName
    <3>3. First(M).class \in {"bypass", "direct"}
      BY <2>1 DEF RuleDecides
    <3>4. ForName(p, h, port).class \in {"bypass", "direct"}
      BY <3>2, <3>3 DEF RuleVerdict, Verdict
    <3> QED BY <3>4 DEF Judged
  <2> QED BY <2>1
<1>6. ASSUME NEW r \in M
      PROVE  /\ r \in Rules(p) /\ Covers(r.pattern, h) /\ r.pattern \in Pattern
             /\ Size(r) = Len(Base(r.pattern))
             /\ Size(r) \in Nat /\ Size(r) <= Len(n.labels) /\ r.turn \in Nat
  <2>1. r \in Rules(p)
    BY DEF Match
  <2>2. r.pattern \in Pattern /\ r.turn \in Nat
    BY <2>1, RulesAre
  <2>3. Covers(r.pattern, h)
    BY <2>1, <2>2, MatchIsCover
  <2>4. Size(r) = Len(Base(r.pattern))
    BY <2>3 DEF Size, Covers
  <2>5. Len(n.labels) \in Nat
    BY NormalIsHost, LenProperties
  <2>6. Len(Base(r.pattern)) \in 0..Len(n.labels)
    BY <2>2, <2>3, SizeBounds
  <2> QED BY <2>1, <2>2, <2>3, <2>4, <2>5, <2>6
<1>7. Len(n.labels) \in Nat
  BY NormalIsHost, LenProperties
<1> HIDE DEF n, M
<1>8. PICK top : top = First(M)
  OBVIOUS
<1>9. top \in M /\ Size(rq) <= Size(top) /\ (Size(rq) = Size(top) => top.turn <= rq.turn)
  <2>1. \A r \in M : Size(r) \in Nat /\ Size(r) <= Len(n.labels) /\ r.turn \in Nat
    BY <1>6
  <2>2. M # {}
    BY <1>4
  <2> QED BY <1>4, <1>7, <1>8, <2>1, <2>2, FirstIs
<1>10. top.class # "bypass"
  BY <1>4, <1>5, <1>8 DEF RuleDecides
<1>11. top \in Rules(p) /\ Covers(top.pattern, h) /\ Size(top) = Len(Base(top.pattern))
       /\ Size(top) \in Nat
  BY <1>6, <1>9
<1>12. /\ top.turn = 3
       /\ \E i \in DOMAIN p.include : top.pattern = p.include[i]
  BY <1>10, <1>11, RulesAre
<1>13. rq.turn < 3 /\ rq.turn \in Nat
  BY <1>3, RulesAre
<1>14. Size(rq) = Len(Base(q)) /\ Size(rq) \in Nat
  BY <1>3, <1>4, <1>6
<1>15. Size(rq) < Size(top)
  BY <1>9, <1>11, <1>12, <1>13, <1>14
<1> QED BY <1>11, <1>12, <1>14, <1>15

\* A judged address has no bypass and no bogon before it.
LEMMA AddrSpared ==
    ASSUME NEW p, PolicyTyped(p), NEW bits \in Seq(Bit),
           NEW port, Judged(ForAddr(p, bits, port))
    PROVE  /\ \A i \in DOMAIN Bogons : ~IsPrefix(Bogons[i], bits)
           /\ \A q \in BypassPatterns(p) : IsAddress(q) => ~IsPrefix(q.host.bits, bits)
<1> DEFINE rules == WithBogons(IPRules(p))
           M == IPMatch(rules, bits)
<1>1. ASSUME NEW r \in rules
      PROVE  /\ r.class = "bypass" /\ r.turn \in Nat
             /\ IsAddress(r.pattern) /\ r.pattern.host.bits \in Seq(Bit)
  <2>1. CASE r \in IPRules(p)
    <3>1. PICK i \in DOMAIN p.bypass : r = Rule(p.bypass[i], "bypass", "config", 1)
      BY <2>1 DEF IPRules, Compiled
    <3>2. p.bypass[i] \in Pattern
      BY LenProperties DEF PolicyTyped
    <3>3. r.pattern = p.bypass[i] /\ r.class = "bypass" /\ r.turn = 1
      BY <3>1 DEF Rule
    <3>4. r.pattern.host.bits \in Seq(Bit)
      BY <3>2, <3>3 DEF Pattern, Host
    <3> QED BY <2>1, <3>3, <3>4 DEF IPRules
  <2>2. CASE r \notin IPRules(p)
    <3>1. PICK i \in DOMAIN Bogons :
            r = Rule([mark |-> "", host |-> Literal(Bogons[i])], "bypass", "compiled-in", 2)
      BY <2>2 DEF WithBogons
    <3>2. Bogons[i] \in Seq(Bit)
      BY BogonsAssumption, LenProperties
    <3> QED BY <3>1, <3>2 DEF Rule, Literal, IsAddress
  <2> QED BY <2>1, <2>2
<1>2. M = {}
  <2>1. SUFFICES ASSUME M # {} PROVE FALSE
    OBVIOUS
  <2>2. Len(bits) \in Nat
    BY LenProperties
  <2>3. \A r \in M : Size(r) \in Nat /\ Size(r) <= Len(bits) /\ r.turn \in Nat
    <3>1. ASSUME NEW r \in M PROVE Size(r) \in Nat /\ Size(r) <= Len(bits) /\ r.turn \in Nat
      <4>1. r \in rules /\ IsPrefix(r.pattern.host.bits, bits)
        BY DEF IPMatch
      <4>2. IsAddress(r.pattern) /\ r.pattern.host.bits \in Seq(Bit) /\ r.turn \in Nat
        BY <1>1, <4>1
      <4>3. Len(r.pattern.host.bits) \in Nat /\ Len(r.pattern.host.bits) <= Len(bits)
        BY <4>1, <4>2, LenProperties DEF IsPrefix
      <4> QED BY <4>2, <4>3 DEF Size
    <3> QED BY <3>1
  <2>4. First(M) \in M
    <3> HIDE DEF M
    <3> QED BY <2>1, <2>2, <2>3, FirstIs
  <2>5. First(M).class = "bypass"
    BY <1>1, <2>4 DEF IPMatch
  <2>6. RuleDecides(M)
    <3> HIDE DEF M
    <3> QED BY <2>1, <2>5 DEF RuleDecides
  <2>7. \/ ForAddr(p, bits, port) = Verdict("direct", "default")
        \/ ForAddr(p, bits, port) = RuleVerdict(First(M))
    BY <2>6 DEF ForAddr
  <2>8. ForAddr(p, bits, port).class \in {"direct", "bypass"}
    <3> HIDE DEF M
    <3> QED BY <2>5, <2>7 DEF RuleVerdict, Verdict
  <2> QED BY <2>8 DEF Judged
<1>3. ASSUME NEW i \in DOMAIN Bogons PROVE ~IsPrefix(Bogons[i], bits)
  <2>1. PICK r : r = Rule([mark |-> "", host |-> Literal(Bogons[i])], "bypass", "compiled-in", 2)
    OBVIOUS
  <2>2. r \in rules /\ r.pattern.host.bits = Bogons[i]
    BY <2>1 DEF WithBogons, Rule, Literal
  <2> QED BY <1>2, <2>2 DEF IPMatch
<1>4. ASSUME NEW q \in BypassPatterns(p), IsAddress(q) PROVE ~IsPrefix(q.host.bits, bits)
  <2>1. PICK r \in Rules(p) \cup IPRules(p) : r.pattern = q /\ r.class = "bypass"
    BY DEF BypassPatterns
  <2>2. CASE r \in IPRules(p)
    <3>1. r \in rules
      BY <2>2 DEF WithBogons
    <3> QED BY <1>2, <2>1, <3>1 DEF IPMatch
  <2>3. CASE r \in Rules(p)
    <3>1. CASE \E i \in DOMAIN p.mandatory : r.pattern = p.mandatory[i]
      BY <1>4, <2>1, <3>1 DEF PolicyTyped
    <3>2. CASE \E i \in DOMAIN p.include : r.class = "watch"
      BY <2>1, <3>2
    <3>3. CASE ~IsAddress(r.pattern)
      BY <1>4, <2>1, <3>3
    <3> QED BY <2>3, <3>1, <3>2, <3>3 DEF Rules, Compiled, Rule
  <2> QED BY <2>1, <2>2, <2>3
<1> QED BY <1>3, <1>4

\* A host the front judges by its policy is not one the policy excludes.
LEMMA HostSpared ==
    ASSUME NEW p, PolicyTyped(p), NEW h \in Host, NEW port, NEW addr \in Seq(Bit),
           \/ h.form # "none" /\ Judged(ForName(p, h, port))
           \/ h.form = "addr" /\ Judged(ForAddr(p, h.bits, port))
           \/ h.form = "none" /\ Judged(ForAddr(p, addr, port))
    PROVE  ~Excluded(p, h, addr)
<1>1. CASE h.form = "name"
  BY <1>1, NameSpared
<1>2. CASE h.form = "none"
  BY <1>2, AddrSpared DEF Excluded
<1>3. CASE h.form = "addr"
  <2>1. Normalize(h) = h /\ h # NoHost /\ h.bits \in Seq(Bit)
    BY <1>3, NormalIsHost DEF NoHost, Host
  <2>2. Judged(ForAddr(p, h.bits, port))
    <3>1. \/ ForName(p, h, port) = Verdict("direct", "default")
          \/ ForName(p, h, port) = ForAddr(p, h.bits, port)
      BY <1>3, <2>1 DEF ForName
    <3>2. ~Judged(Verdict("direct", "default"))
      BY DEF Judged, Verdict
    <3> QED BY <1>3, <3>1, <3>2
  <2> QED BY <1>3, <2>1, <2>2, AddrSpared DEF Excluded
<1> QED BY <1>1, <1>2, <1>3 DEF Host

\* Hosts equal but for the case of their letters are excluded alike.
LEMMA FoldSpared ==
    ASSUME NEW g \in Host, NEW h \in Host, EqualFold(g, h), NEW p, NEW addr
    PROVE  Excluded(p, g, addr) <=> Excluded(p, h, addr)
<1>1. g.form = h.form /\ Lower(g.labels) = Lower(h.labels) /\ g.bits = h.bits
  BY DEF EqualFold
<1>2. CASE g.form # "name"
  BY <1>1, <1>2 DEF Excluded
<1>3. CASE g.form = "name"
  <2>1. PICK a, b : a = g.labels /\ b = h.labels
    OBVIOUS
  <2>2. /\ a \in Seq(Label) /\ b \in Seq(Label) /\ a # <<>> /\ b # <<>>
    BY <1>1, <1>3, <2>1 DEF Host
  <2>3. /\ Len(a) \in Nat \ {0} /\ DOMAIN a = 1..Len(a)
        /\ Len(b) \in Nat \ {0} /\ DOMAIN b = 1..Len(b)
        /\ \A i \in DOMAIN a : a[i] \in Label
        /\ \A i \in DOMAIN b : b[i] \in Label
    BY <2>2, EmptySeq, LenProperties
  <2>4. DOMAIN a = DOMAIN b /\ Len(a) = Len(b)
    <3>1. DOMAIN Lower(a) = DOMAIN a /\ DOMAIN Lower(b) = DOMAIN b
      BY DEF Lower
    <3>2. 1..Len(a) = 1..Len(b)
      BY <1>1, <2>1, <2>3, <3>1
    <3>3. Len(a) \in 1..Len(b) /\ Len(b) \in 1..Len(a)
      <4>1. Len(a) \in 1..Len(a) /\ Len(b) \in 1..Len(b)
        BY <2>3
      <4> QED BY <3>2, <4>1
    <3>4. PICK m, n : m = Len(a) /\ n = Len(b)
      OBVIOUS
    <3>5. m = n
      <4>1. m \in Nat /\ n \in Nat /\ m \in 1..n /\ n \in 1..m
        BY <2>3, <3>3, <3>4
      <4> QED BY <4>1
    <3>6. DOMAIN a = 1..m /\ DOMAIN b = 1..n
      BY <2>3, <3>4
    <3> QED BY <3>4, <3>5, <3>6
  <2>5. ASSUME NEW i \in DOMAIN a
        PROVE  Fold(a[i]) = Fold(b[i]) /\ (a[i] = "" <=> b[i] = "")
    <3>1. Lowered[a[i]] = Lowered[b[i]]
      <4>1. Lower(a)[i] = Lowered[a[i]] /\ Lower(b)[i] = Lowered[b[i]]
        BY <2>4 DEF Lower
      <4> QED BY <1>1, <2>1, <4>1
    <3>2. a[i] \in Label /\ b[i] \in Label
      BY <2>3, <2>4
    <3> QED BY <3>1, <3>2, FoldingAssumption DEF Fold
  <2>6. PICK x, y : x = Bare(a) /\ y = Bare(b)
    OBVIOUS
  <2>7. x \in Seq(Label) /\ y \in Seq(Label)
    BY <2>2, <2>6, BareIsSeq
  <2>8. /\ DOMAIN x = DOMAIN y
        /\ \A i \in DOMAIN x : Fold(x[i]) = Fold(y[i])
    <3>1. Last(a) = "" <=> Last(b) = ""
      <4>1. Len(a) \in DOMAIN a
        BY <2>3
      <4> QED BY <2>4, <2>5, <4>1 DEF Last
    <3>2. CASE Last(a) = ""
      <4>1. x = SubSeq(a, 1, Len(a) - 1) /\ y = SubSeq(b, 1, Len(b) - 1)
        BY <2>6, <3>1, <3>2 DEF Bare, Front
      <4>2. /\ Len(x) = Len(a) - 1 /\ Len(y) = Len(a) - 1
            /\ \A i \in 1..(Len(a) - 1) : x[i] = a[i] /\ y[i] = b[i]
        BY <2>2, <2>3, <2>4, <4>1, SubSeqProperties
      <4>3. DOMAIN x = 1..(Len(a) - 1) /\ DOMAIN y = 1..(Len(a) - 1)
        BY <2>7, <4>2, LenProperties
      <4>4. \A i \in 1..(Len(a) - 1) : i \in DOMAIN a
        BY <2>3
      <4>5. \A i \in 1..(Len(a) - 1) : Fold(a[i]) = Fold(b[i])
        BY <2>5, <4>4
      <4> QED BY <4>2, <4>3, <4>5
    <3>3. CASE Last(a) # ""
      BY <2>4, <2>5, <2>6, <3>1, <3>3 DEF Bare
    <3> QED BY <3>2, <3>3
  <2>9. [i \in DOMAIN x |-> Fold(x[i])] = [i \in DOMAIN y |-> Fold(y[i])]
    BY <2>8
  <2>10. Normalize(g) = Normalize(h)
    <3> DEFINE Form(z) == LET low == [i \in DOMAIN z |-> Fold(z[i])]
                          IN IF low = <<>> \/ \E i \in DOMAIN low : low[i] = ""
                             THEN NoHost ELSE Named(low)
    <3>1. Normalize(g) = Form(Bare(g.labels)) /\ Normalize(h) = Form(Bare(h.labels))
      BY <1>1, <1>3, <2>1, <2>2 DEF Normalize, Bare
    <3>2. Form(x) = Form(y)
      BY <2>9
    <3> HIDE DEF Form
    <3> QED BY <2>1, <2>6, <3>1, <3>2
  <2>11. \A q : Covers(q, g) <=> Covers(q, h)
    BY <2>10 DEF Covers, MatchLabel
  <2> QED BY <1>1, <1>3, <2>11 DEF Excluded
<1> QED BY <1>2, <1>3

\* A name lowered label by label.
LEMMA LowerSeq ==
    ASSUME NEW a \in Seq(Label)
    PROVE  /\ Lower(a) \in Seq(Label) /\ Len(Lower(a)) = Len(a)
           /\ \A i \in 1..Len(a) : Lower(a)[i] = Lowered[a[i]] /\ a[i] \in Label
<1>1. Len(a) \in Nat /\ DOMAIN a = 1..Len(a) /\ \A i \in 1..Len(a) : a[i] \in Label
  BY LenProperties
<1>2. \A i \in 1..Len(a) : Lowered[a[i]] \in Label
  BY <1>1, FoldingAssumption
<1>3. PICK low : low = Lower(a)
  OBVIOUS
<1>4. low \in [1..Len(a) -> Label] /\ \A i \in 1..Len(a) : low[i] = Lowered[a[i]]
  BY <1>1, <1>2, <1>3 DEF Lower
<1>5. low \in Seq(Label) /\ Len(low) = Len(a)
  BY <1>1, <1>4
<1> QED BY <1>1, <1>3, <1>4, <1>5

\* Lowering a name and taking its root dot off go in either order.
LEMMA LowerBare ==
    ASSUME NEW a \in Seq(Label), a # <<>>
    PROVE  Lower(Bare(a)) = (IF Last(Lower(a)) = "" THEN Front(Lower(a)) ELSE Lower(a))
<1>1. PICK low : low = Lower(a)
  OBVIOUS
<1>2. /\ Len(a) \in Nat \ {0} /\ low \in Seq(Label) /\ Len(low) = Len(a)
      /\ \A i \in 1..Len(a) : low[i] = Lowered[a[i]] /\ a[i] \in Label
  BY <1>1, EmptySeq, LowerSeq
<1>3. Last(low) = "" <=> Last(a) = ""
  <2>1. Len(a) \in 1..Len(a)
    BY <1>2
  <2> QED BY <1>2, <2>1, FoldingAssumption, ZenonT(40) DEF Last
<1>4. CASE Last(a) # ""
  BY <1>1, <1>3, <1>4 DEF Bare
<1>5. CASE Last(a) = ""
  <2>1. PICK x, y : x = Front(a) /\ y = Front(low)
    OBVIOUS
  <2>2. /\ x \in Seq(Label) /\ Len(x) = Len(a) - 1
        /\ \A i \in 1..(Len(a) - 1) : x[i] = a[i]
    BY <1>2, <2>1, SubSeqProperties DEF Front
  <2>3. /\ y \in Seq(Label) /\ Len(y) = Len(a) - 1
        /\ \A i \in 1..(Len(a) - 1) : y[i] = low[i]
    <3>1. \A i \in 1..(Len(a) - 1) : low[i] \in Label
      BY <1>2, ElementOfSeq
    <3> QED BY <1>2, <2>1, <3>1, SubSeqProperties DEF Front
  <2>4. PICK z : z = Lower(x)
    OBVIOUS
  <2>5. /\ z \in Seq(Label) /\ Len(z) = Len(x)
        /\ \A i \in 1..Len(x) : z[i] = Lowered[x[i]]
    BY <2>2, <2>4, LowerSeq
  <2>6. \A i \in 1..Len(z) : z[i] = y[i]
    BY <1>2, <2>2, <2>3, <2>5, SMTT(30)
  <2>7. z = y
    BY <2>2, <2>3, <2>5, <2>6, SeqEqual
  <2> QED BY <1>1, <1>3, <1>5, <2>1, <2>4, <2>7 DEF Bare
<1> QED BY <1>4, <1>5

\* No label is empty.
Filled(l) == \A i \in DOMAIN l : l[i] # ""

\* A pattern whose lowered name is a lowered suffix of a usable name folds to
\* that suffix of the folded name.
LEMMA SuffixFolds ==
    ASSUME NEW b \in Seq(Label), NEW low \in Seq(Label), NEW n \in Seq(Label),
           Len(low) = Len(b), Len(n) = Len(b),
           \A i \in 1..Len(b) : low[i] = Lowered[b[i]] /\ n[i] = Folded[b[i]], Filled(n),
           NEW q \in Pattern, ~IsAddress(q),
           NEW k \in 1..Len(b), Lower(q.host.labels) = SubSeq(low, k, Len(b))
    PROVE  Base(q) = SubSeq(n, k, Len(b))
<1>1. PICK r, t : r = q.host.labels /\ t = Lower(q.host.labels)
  OBVIOUS
<1>2. r \in Seq(Label) /\ r # <<>> /\ q.host.form = "name"
  BY <1>1 DEF Pattern, Host, IsAddress
<1>3. PICK z : z = Len(b)
  OBVIOUS
<1>4. z \in Nat /\ k \in 1..z /\ z - k + 1 \in Nat
  BY <1>3, LenProperties
<1>5. /\ t \in Seq(Label) /\ Len(t) = z - k + 1
      /\ \A m \in 1..(z - k + 1) : t[m] = low[k + m - 1]
  <2>1. \A i \in k..z : low[i] \in Label
    BY <1>3, <1>4, ElementOfSeq
  <2> QED BY <1>1, <1>3, <1>4, <2>1, SubSeqProperties
<1>6. /\ Len(r) = z - k + 1 /\ DOMAIN r = 1..(z - k + 1)
      /\ \A m \in 1..(z - k + 1) : t[m] = Lowered[r[m]] /\ r[m] \in Label
  <2>1. t = Lower(r)
    BY <1>1
  <2>2. /\ Len(t) = Len(r) /\ DOMAIN r = 1..Len(r)
        /\ \A m \in 1..Len(r) : t[m] = Lowered[r[m]] /\ r[m] \in Label
    BY <1>2, <2>1, LowerSeq, LenProperties
  <2> QED BY <1>5, <2>2
<1>7. ASSUME NEW m \in 1..(z - k + 1)
      PROVE  Folded[r[m]] = n[k + m - 1] /\ r[m] # "" /\ Folded[r[m]] # ""
  <2>1. k + m - 1 \in 1..z
    BY <1>4
  <2>2. /\ low[k + m - 1] = Lowered[b[k + m - 1]] /\ b[k + m - 1] \in Label
        /\ n[k + m - 1] = Folded[b[k + m - 1]] /\ k + m - 1 \in DOMAIN n
    BY <1>3, <2>1, ElementOfSeq, LenProperties
  <2>3. Lowered[r[m]] = Lowered[b[k + m - 1]] /\ r[m] \in Label
    BY <1>5, <1>6, <2>2
  <2>4. Folded[r[m]] = Folded[b[k + m - 1]]
    BY <2>2, <2>3, FoldingAssumption
  <2>5. Folded[r[m]] = n[k + m - 1]
    BY <2>2, <2>4
  <2>6. Folded[r[m]] # ""
    BY <2>2, <2>5 DEF Filled
  <2>7. r[m] # ""
    BY <2>3, <2>6, FoldingAssumption
  <2> QED BY <2>5, <2>6, <2>7
<1>8. Bare(r) = r
  <2>1. Len(r) \in 1..(z - k + 1)
    <3>1. z - k + 1 \in 1..(z - k + 1)
      BY <1>4
    <3> QED BY <1>6, <3>1
  <2> QED BY <1>7, <2>1 DEF Bare, Last
<1>9. PICK g : g = [i \in DOMAIN r |-> Fold(r[i])]
  OBVIOUS
<1>10. /\ g \in Seq(Label) /\ Len(g) = z - k + 1 /\ g # <<>>
       /\ \A m \in 1..(z - k + 1) : g[m] = n[k + m - 1]
  <2>1. g \in Seq(Label) /\ Len(g) = z - k + 1
    BY <1>2, <1>6, <1>9, FoldedSeq
  <2>2. g # <<>>
    BY <1>4, <2>1, EmptySeq
  <2>3. \A m \in 1..(z - k + 1) : g[m] = Folded[r[m]]
    BY <1>6, <1>9 DEF Fold
  <2> QED BY <1>7, <2>1, <2>2, <2>3
<1>11. Base(q) = g
  <2>1. Filled(g)
    <3>1. DOMAIN g = 1..(z - k + 1)
      BY <1>10, LenProperties
    <3>2. \A m \in 1..(z - k + 1) : g[m] = Folded[r[m]]
      BY <1>7, <1>10
    <3> QED BY <1>7, <3>1, <3>2 DEF Filled
  <2>2. Normalize(q.host)
          = (IF g = <<>> \/ \E i \in DOMAIN g : g[i] = "" THEN NoHost ELSE Named(g))
    <3> DEFINE Form(x) == LET y == [i \in DOMAIN x |-> Fold(x[i])]
                          IN IF y = <<>> \/ \E i \in DOMAIN y : y[i] = ""
                             THEN NoHost ELSE Named(y)
    <3>1. Normalize(q.host) = Form(Bare(q.host.labels))
      BY <1>1, <1>2 DEF Normalize, Bare
    <3>2. Form(r) = (IF g = <<>> \/ \E i \in DOMAIN g : g[i] = "" THEN NoHost ELSE Named(g))
      BY <1>9
    <3> HIDE DEF Form
    <3> QED BY <1>1, <1>8, <3>1, <3>2
  <2>3. Named(g).labels = g
    BY DEF Named
  <2> QED BY <1>10, <2>1, <2>2, <2>3 DEF Base, Filled
<1>12. PICK u : u = SubSeq(n, k, z)
  OBVIOUS
<1>13. /\ u \in Seq(Label) /\ Len(u) = z - k + 1
       /\ \A m \in 1..(z - k + 1) : u[m] = n[k + m - 1]
  <2>1. \A i \in k..z : n[i] \in Label
    BY <1>3, <1>4, ElementOfSeq
  <2> QED BY <1>4, <1>12, <2>1, SubSeqProperties
<1>14. g = u
  BY <1>10, <1>13, SeqEqual
<1> QED BY <1>3, <1>11, <1>12, <1>14

\* A name the script of the browsers lets past the proxy is one some bypass
\* covers: lower case and the root dot are all that script knows of names, and
\* neither parts what folding joins.
LEMMA ScriptSparesBypasses ==
    ASSUME NEW p, PolicyTyped(p), NEW h \in Host, h.form = "name",
           Len(Normalize(h).labels) > 1, ~p.suspended,
           FindProxyForURL(p, h) = "DIRECT"
    PROVE  \E q \in BypassPatterns(p) : Covers(q, h)
<1>1. PICK a, n : a = h.labels /\ n = Normalize(h)
  OBVIOUS
<1>2. a \in Seq(Label) /\ a # <<>>
  BY <1>1 DEF Host
<1>3. PICK b : b = Bare(a)
  OBVIOUS
<1>4. b \in Seq(Label)
  BY <1>2, <1>3, BareIsSeq
<1>5. n # NoHost
  <2>1. NoHost.labels = <<>> /\ Len(<<>>) = 0
    BY DEF NoHost
  <2> QED BY <1>1, <2>1
<1>6. PICK nl : nl = n.labels
  OBVIOUS
<1>7. /\ nl \in Seq(Label) /\ nl # <<>>
      /\ nl = [i \in DOMAIN b |-> Fold(b[i])]
      /\ \A i \in DOMAIN nl : nl[i] # ""
  BY <1>1, <1>2, <1>3, <1>5, <1>6, UsableForm
<1>8. Len(b) \in Nat /\ Len(b) > 1 /\ Len(nl) = Len(b) /\ DOMAIN b = 1..Len(b)
  <2>1. Len(nl) = Len(b)
    BY <1>4, <1>7, FoldedSeq
  <2> QED BY <1>1, <1>4, <1>6, <2>1, LenProperties
<1>9. PICK l : l = Lower(b)
  OBVIOUS
<1>10. l \in Seq(Label) /\ Len(l) = Len(b) /\ l # <<>>
  <2>1. l \in Seq(Label) /\ Len(l) = Len(b)
    BY <1>4, <1>9, LowerSeq
  <2> QED BY <1>8, <2>1, EmptySeq
<1>11. l = (IF Lower(a) # <<>> /\ Last(Lower(a)) = "" THEN Front(Lower(a)) ELSE Lower(a))
  <2>1. Lower(a) # <<>>
    <3>1. Len(Lower(a)) = Len(a) /\ Len(a) \in Nat \ {0}
      BY <1>2, LowerSeq, EmptySeq
    <3> QED BY <3>1, EmptySeq
  <2> QED BY <1>2, <1>3, <1>9, <2>1, LowerBare
<1>12. PICK q \in BypassPatterns(p) : ~IsAddress(q) /\ PacCovers(q, l)
  <2>1. ~ (Len(l) <= 1)
    BY <1>8, <1>10
  <2>2. \E q \in NamePatterns(BypassPatterns(p)) : PacCovers(q, l)
    BY <1>1, <1>11, <2>1 DEF FindProxyForURL
  <2> QED BY <2>2 DEF NamePatterns
<1>13. q \in Pattern
  <2>1. PICK r \in Rules(p) : r.pattern = q
    BY <1>12, BypassIsRule
  <2> QED BY <2>1, RulesAre
<1>14. PICK base, kind : base = Lower(q.host.labels) /\ kind = PatternKind(q)
  OBVIOUS
<1>15. base \in Seq(Label) /\ base # <<>>
  <2>1. q.host.labels \in Seq(Label) /\ q.host.labels # <<>>
    BY <1>12, <1>13 DEF Pattern, Host, IsAddress
  <2>2. Len(base) = Len(q.host.labels) /\ base \in Seq(Label)
    BY <1>14, <2>1, LowerSeq
  <2> QED BY <2>1, <2>2, EmptySeq
<1>16. Covering(kind, l, base)
  BY <1>12, <1>14 DEF PacCovers, Covering
<1>17. PICK k \in DOMAIN l : base = SubSeq(l, k, Len(l)) /\ MatchesAt(kind, k = 1)
  BY <1>10, <1>15, <1>16, CoveredIsMatched
<1>18. k \in 1..Len(b) /\ k \in DOMAIN nl
  <2>1. DOMAIN l = 1..Len(l) /\ DOMAIN nl = 1..Len(nl)
    BY <1>7, <1>10, LenProperties
  <2> QED BY <1>8, <1>10, <1>17, <2>1
<1>19. Base(q) = SubSeq(nl, k, Len(nl))
  <2>1. /\ \A i \in 1..Len(b) : l[i] = Lowered[b[i]] /\ nl[i] = Folded[b[i]]
        /\ Filled(nl)
    <3>1. \A i \in 1..Len(b) : nl[i] = Folded[b[i]]
      BY <1>7, <1>8 DEF Fold
    <3>2. Filled(nl)
      BY <1>7 DEF Filled
    <3> QED BY <1>4, <1>9, <3>1, <3>2, LowerSeq
  <2>2. Lower(q.host.labels) = SubSeq(l, k, Len(b))
    BY <1>10, <1>14, <1>17
  <2>3. nl \in Seq(Label) /\ l \in Seq(Label) /\ Len(l) = Len(b) /\ Len(nl) = Len(b)
    BY <1>7, <1>8, <1>10
  <2>4. Base(q) = SubSeq(nl, k, Len(b))
    BY <1>4, <1>12, <1>13, <1>18, <2>1, <2>2, <2>3, SuffixFolds
  <2> QED BY <2>3, <2>4
<1>20. Base(q) # <<>> /\ Base(q) \in Seq(Label)
  <2>1. \A i \in k..Len(nl) : nl[i] \in Label
    <3>1. nl \in Seq(Label)
      BY <1>7
    <3> QED BY <1>8, <1>18, <3>1, ElementOfSeq
  <2>2. Len(SubSeq(nl, k, Len(nl))) = Len(nl) - k + 1
    BY <1>8, <1>18, <2>1, SubSeqProperties
  <2>3. Len(Base(q)) # 0
    BY <1>8, <1>18, <1>19, <2>2
  <2> QED BY <1>13, <2>3, EmptySeq, BaseIsSeq
<1>21. Covering(kind, nl, Base(q))
  BY <1>7, <1>17, <1>18, <1>19, <1>20, CoveredIsMatched
<1>22. MatchLabel(q, h)
  BY <1>1, <1>6, <1>7, <1>14, <1>20, <1>21 DEF MatchLabel, Covering
<1> QED BY <1>12, <1>22 DEF Covers
--------------------------------------------------------------------------
(* What policy a handler has passed, and what it has read.                  *)

\* The client's message is not read whole yet; the ladder has not been asked.
Unread == {"syn", "peek", "socks", "serve", "readreq", "open", "body", "response",
           "precheck", "first"}
Unjudged == {"syn", "peek", "socks", "serve", "precheck", "first"}
OfRequests == {"open", "body", "response"}

Spares(j, host) == ~Excluded(j.policy, host, j.addr)

\* Neither the host of the flow is excluded nor the one its hello names.
Allowed(j, h) ==
    /\ Spares(j, h.host)
    /\ h.whole /\ j.front = "tun" /\ j.sni # NoHost => Spares(j, j.sni)

Scoped(j, h) ==
    /\ h.pc \in Unread => ~h.whole
    /\ h.pc \in Unjudged => ~h.laddered
    /\ h.pc \in OfRequests => j.proto = "http"
    /\ h.pc = "readreq" /\ j.proto # "http" => ~h.laddered
    /\ h.pc \in {"precheck", "first"} => h.host \in Host /\ Spares(j, h.host)
    /\ h.pc = "ladder" \/ h.laddered => Allowed(j, h)
    /\ h.req \in Nat /\ (h.pc = "open" => h.req \in 1..Len(j.requests))

AllScoped ==
    /\ job \in Jobs /\ DOMAIN f = Conns
    /\ \A c \in Conns : DOMAIN f[c] = DOMAIN Handler /\ Scoped(job[c], f[c])

LEMMA ScopedStep ==
    ASSUME AllScoped, NEW c \in Conns, job' = job, NEW u, To(c, u),
           Scoped(job[c], Updated(f[c], u))
    PROVE  AllScoped'
<1>1. DOMAIN f = Conns /\ f' = [f EXCEPT ![c] = Updated(@, u)] /\ job' = job
  BY DEF AllScoped, To
<1>2. f'[c] = Updated(f[c], u) /\ DOMAIN Updated(f[c], u) = DOMAIN f[c]
  BY <1>1 DEF Updated
<1>3. \A x \in Conns \ {c} : f'[x] = f[x]
  BY <1>1
<1>4. ASSUME NEW x \in Conns PROVE DOMAIN f'[x] = DOMAIN Handler /\ Scoped(job[x], f'[x])
  <2>1. CASE x = c
    BY <1>2, <2>1 DEF AllScoped
  <2>2. CASE x # c
    BY <1>3, <2>2 DEF AllScoped
  <2> QED BY <2>1, <2>2
<1> QED BY <1>1, <1>4 DEF AllScoped

\* Where a handler may go with its host, its message and its verdict untouched.
Follows(j, x, y) ==
    /\ y \in Unread => x \in Unread
    /\ y \in Unjudged => x \in Unjudged
    /\ y \in OfRequests => j.proto = "http"
    /\ y = "readreq" => x = "peek" \/ j.proto = "http"
    /\ y \in {"precheck", "first"} => x = "precheck"
    /\ y \notin {"ladder", "open"}

Untouched(u) == {"host", "whole", "laddered", "req"} \cap DOMAIN u = {}

LEMMA ScopedMove ==
    ASSUME AllScoped, NEW c \in Conns, job' = job, NEW u, To(c, u), Untouched(u),
           "pc" \in DOMAIN u => Follows(job[c], f[c].pc, u.pc)
    PROVE  AllScoped'
<1> PICK h : h = Updated(f[c], u)
  OBVIOUS
<1>1. DOMAIN f[c] = DOMAIN Handler /\ Scoped(job[c], f[c])
  BY DEF AllScoped
<1>2. /\ h.host = f[c].host /\ h.whole = f[c].whole /\ h.laddered = f[c].laddered
      /\ h.req = f[c].req
      /\ h.req = f[c].req
      /\ h.pc = IF "pc" \in DOMAIN u THEN u.pc ELSE f[c].pc
  BY <1>1 DEF Updated, Handler, Untouched
<1>3. Allowed(job[c], f[c]) <=> Allowed(job[c], h)
  BY <1>2 DEF Allowed
<1>4. CASE "pc" \notin DOMAIN u
  <2>1. h.pc = f[c].pc
    BY <1>2, <1>4
  <2>2. Scoped(job[c], h)
    BY <1>1, <1>2, <1>3, <2>1, Zenon DEF Scoped
  <2> QED BY <2>2, ScopedStep
<1>5. CASE "pc" \in DOMAIN u
  <2>1. Follows(job[c], f[c].pc, h.pc)
    BY <1>2, <1>5
  <2>2. Scoped(job[c], h)
    BY <1>1, <1>2, <1>3, <2>1 DEF Scoped, Follows, Unjudged
  <2> QED BY <2>2, ScopedStep
<1> QED BY <1>4, <1>5, ScopedStep

LEMMA ScopedLeave ==
    ASSUME AllScoped, NEW c \in Conns, job' = job, NEW cause, Leave(c, cause)
    PROVE  AllScoped'
<1>1. To(c, [pc |-> "done", cause |-> cause])
  BY DEF Leave
<1>2. Untouched([pc |-> "done", cause |-> cause])
  BY DEF Untouched
<1>3. Follows(job[c], f[c].pc, "done")
  BY DEF Follows, Unread, Unjudged, OfRequests
<1> QED BY <1>1, <1>2, <1>3, ScopedMove

\* What JobsAssumption says of the job of a connection.
LEMMA JobIs ==
    ASSUME job \in Jobs, NEW c \in Conns
    PROVE  /\ job[c].host \in Host /\ job[c].sni \in Host /\ job[c].addr \in Seq(Bit)
           /\ Len(job[c].requests) \in Nat
           /\ \A i \in 1..Len(job[c].requests) : job[c].requests[i].host \in Host
           /\ \A i \in DOMAIN job[c].answered : job[c].answered[i].name \in Host
           /\ PolicyTyped(job[c].policy)
<1>1. Typed(job[c])
  BY JobsAssumption
<1>2. PICK r : r = job[c].requests
  OBVIOUS
<1> DEFINE R == [host : Host, origin : STRING, replies : Seq(STRING),
                 body : BOOLEAN, close : BOOLEAN]
<1>3. r \in Seq(R)
  BY <1>1, <1>2 DEF Typed
<1>4. \A x \in R : x.host \in Host
  OBVIOUS
<1> HIDE DEF R
<1>5. Len(r) \in Nat /\ \A i \in 1..Len(r) : r[i].host \in Host
  BY <1>3, <1>4, LenProperties, ElementOfSeq
<1> QED BY <1>1, <1>2, <1>5 DEF Typed, PolicyTyped

\* A host the policy judges is spared, whichever way the front asks.
LEMMA VerdictSpares ==
    ASSUME job \in Jobs, NEW c \in Conns, NEW host \in Host, Judged(VerdictFor(c, host))
    PROVE  Spares(job[c], host)
<1>1. PICK p, port, addr : p = job[c].policy /\ port = job[c].port /\ addr = job[c].addr
  OBVIOUS
<1>2. PolicyTyped(p) /\ addr \in Seq(Bit)
  BY <1>1, JobIs
<1>3. \/ host.form # "none" /\ Judged(ForName(p, host, port))
      \/ host.form = "addr" /\ Judged(ForAddr(p, host.bits, port))
      \/ host.form = "none" /\ Judged(ForAddr(p, addr, port))
  <2>1. CASE host.form = "name"
    BY <1>1, <2>1 DEF VerdictFor
  <2>2. CASE host.form = "addr"
    BY <1>1, <2>2 DEF VerdictFor
  <2>3. CASE host.form = "none"
    BY <1>1, <2>3 DEF VerdictFor
  <2> QED BY <2>1, <2>2, <2>3 DEF Host
<1>4. ~Excluded(p, host, addr)
  BY <1>2, <1>3, HostSpared
<1> QED BY <1>1, <1>4 DEF Spares

LEMMA NameVerdictSpares ==
    ASSUME job \in Jobs, NEW c \in Conns, NEW host \in Host, host # NoHost,
           Judged(ForName(job[c].policy, host, job[c].port))
    PROVE  Spares(job[c], host)
<1>1. host.form # "none"
  <2>1. ASSUME host.form = "none" PROVE FALSE
    <3>1. host.labels = <<>> /\ host.bits = <<>>
      BY <2>1 DEF Host
    <3>2. host = [form |-> "none", labels |-> <<>>, bits |-> <<>>]
      BY <2>1, <3>1 DEF Host
    <3> QED BY <3>2 DEF NoHost
  <2> QED BY <2>1
<1>2. PICK p, port, addr : p = job[c].policy /\ port = job[c].port /\ addr = job[c].addr
  OBVIOUS
<1>3. PolicyTyped(p) /\ addr \in Seq(Bit)
  BY <1>2, JobIs
<1>4. Judged(ForName(p, host, port))
  BY <1>2
<1>5. ~Excluded(p, host, addr)
  BY <1>1, <1>3, <1>4, HostSpared
<1> QED BY <1>2, <1>5 DEF Spares

\* The reverse table holds usable names.
LEMMA LookupIsHost ==
    ASSUME NEW answered, \A i \in DOMAIN answered : answered[i].name \in Host,
           NEW bits, NEW max
    PROVE  Lookup(answered, bits, max) \in Host
<1>1. NoHost \in Host
  <2>1. <<>> \in Seq(Label) /\ <<>> \in Seq(Bit)
    BY EmptySeq
  <2> QED BY <2>1 DEF NoHost, Host
<1> DEFINE Since(p) == {q \in Learnt(answered) : Later(q, p)}
           hit == {p \in Learnt(answered) :
                     /\ Of(answered, p) = bits /\ \A q \in Since(p) : Of(answered, q) # bits
                     /\ Cardinality({Of(answered, q) : q \in Since(p)}) < max}
<1>2. Lookup(answered, bits, max)
        = IF hit = {} THEN NoHost ELSE Normalize(answered[(CHOOSE p \in hit : TRUE)[1]].name)
  BY DEF Lookup
<1>3. \A p \in hit : p[1] \in DOMAIN answered
  BY DEF Learnt
<1> HIDE DEF hit
<1>4. CASE hit = {}
  BY <1>1, <1>2, <1>4
<1>5. CASE hit # {}
  <2>1. PICK p : p = (CHOOSE x \in hit : TRUE)
    OBVIOUS
  <2>2. p \in hit
    BY <1>5, <2>1
  <2>3. answered[p[1]].name \in Host
    BY <1>3, <2>2
  <2> QED BY <1>2, <1>5, <2>1, <2>3, NormalIsHost
<1> QED BY <1>4, <1>5

\* A tunnel is judged by the name its client asked for.
LEMMA TunnelScoped ==
    ASSUME AllScoped, NEW c \in Conns, job' = job, f[c].pc \in {"socks", "readreq"},
           f[c].pc = "readreq" => job[c].proto # "http",
           Tunnel(c, job[c].host)
    PROVE  AllScoped'
<1>1. PICK host : host = job[c].host
  OBVIOUS
<1>2. PICK pc, class : /\ pc = (IF Judged(VerdictFor(c, host)) THEN "precheck" ELSE "dial")
                       /\ class = VerdictFor(c, host).class
  OBVIOUS
<1>3. PICK u : u = [pc |-> pc, host |-> host, class |-> class]
  OBVIOUS
<1>4. To(c, u)
  BY <1>1, <1>2, <1>3 DEF Tunnel
<1>5. host \in Host /\ (pc = "precheck" => Spares(job[c], host)) /\ pc \in {"precheck", "dial"}
  BY <1>1, <1>2, JobIs, VerdictSpares DEF AllScoped
<1>6. PICK h : h = Updated(f[c], u)
  OBVIOUS
<1>7. DOMAIN f[c] = DOMAIN Handler /\ Scoped(job[c], f[c])
  BY DEF AllScoped
<1>8. /\ h.pc = pc /\ h.host = host /\ h.whole = f[c].whole /\ h.laddered = f[c].laddered
      /\ h.req = f[c].req
  BY <1>3, <1>6, <1>7 DEF Updated, Handler
<1>9. Scoped(job[c], h)
  BY <1>5, <1>7, <1>8 DEF Scoped, Unread, Unjudged, OfRequests
<1> QED BY <1>4, <1>6, <1>9, ScopedStep

\* The handlers' steps before a connection is dialled.
LEMMA FrontScoped ==
    ASSUME AllScoped, NEW c \in Conns,
           \/ Accept(c) \/ Track(c) \/ Peek(c) \/ SocksRequest(c) \/ ReadRequest(c)
           \/ WriteBody(c) \/ ReadResponse(c) \/ Precheck(c)
    PROVE  AllScoped'
<1>1. job' = job /\ DOMAIN f[c] = DOMAIN Handler /\ Scoped(job[c], f[c])
  BY DEF AllScoped, Accept, Track, Peek, SocksRequest, ReadRequest, WriteBody, ReadResponse,
     Precheck
<1>2. ASSUME NEW pc, To(c, [pc |-> pc]), Follows(job[c], f[c].pc, pc) PROVE AllScoped'
  <2>1. Untouched([pc |-> pc])
    BY DEF Untouched
  <2> QED BY <1>1, <1>2, <2>1, ScopedMove
<1> USE DEF Follows, Unread, Unjudged, OfRequests
<1>3. CASE Accept(c) \/ Track(c)
  <2>1. PICK pc : To(c, [pc |-> pc]) /\ pc \in {"rejected", "refused", "peek", "serve"}
    BY <1>3 DEF Accept, Track
  <2>2. f[c].pc = "syn"
    BY <1>3 DEF Accept, Track
  <2> QED BY <1>2, <2>1, <2>2
<1>4. CASE Peek(c)
  <2>1. f[c].pc = "peek"
    BY <1>4 DEF Peek
  <2>2. ASSUME NEW pc \in {"socks", "readreq"}, To(c, [pc |-> pc]) PROVE AllScoped'
    BY <1>2, <2>1, <2>2
  <2> QED BY <1>1, <1>4, <2>2, ScopedLeave DEF Peek
<1>5. CASE SocksRequest(c)
  <2>1. f[c].pc = "socks"
    BY <1>5 DEF SocksRequest
  <2> QED BY <1>1, <1>5, <2>1, TunnelScoped, ScopedLeave DEF SocksRequest
<1>6. CASE ReadRequest(c)
  <2>1. f[c].pc = "readreq"
    BY <1>6 DEF ReadRequest
  <2>2. ASSUME job[c].proto = "http", f[c].req < Len(Requests(c)),
               To(c, [pc |-> "open", req |-> f[c].req + 1])
        PROVE  AllScoped'
    <3>1. PICK n : n = f[c].req + 1
      OBVIOUS
    <3>2. n \in Nat /\ n \in 1..Len(job[c].requests)
      BY <1>1, <2>2, <3>1, JobIs DEF AllScoped, Scoped, Requests
    <3>3. PICK h : h = Updated(f[c], [pc |-> "open", req |-> n])
      OBVIOUS
    <3>4. /\ h.pc = "open" /\ h.host = f[c].host /\ h.whole = f[c].whole
          /\ h.laddered = f[c].laddered /\ h.req = n
      BY <1>1, <3>3 DEF Updated, Handler
    <3>5. Scoped(job[c], h)
      BY <1>1, <2>1, <2>2, <3>2, <3>4 DEF Scoped, Allowed
    <3> QED BY <1>1, <2>2, <3>1, <3>3, <3>5, ScopedStep
  <2>3. ASSUME job[c].proto = "connect", Tunnel(c, job[c].host) PROVE AllScoped'
    BY <1>1, <2>1, <2>3, TunnelScoped
  <2> QED BY <1>1, <1>6, <2>2, <2>3, ScopedLeave DEF ReadRequest
<1>7. CASE WriteBody(c)
  <2>1. f[c].pc = "body" /\ job[c].proto = "http"
    BY <1>1, <1>7 DEF WriteBody, Scoped
  <2>2. ASSUME To(c, [pc |-> "response"]) PROVE AllScoped'
    BY <1>2, <2>1, <2>2
  <2> QED BY <1>1, <1>7, <2>2, ScopedLeave DEF WriteBody
<1>8. CASE ReadResponse(c)
  <2>1. f[c].pc = "response" /\ job[c].proto = "http"
    BY <1>1, <1>8 DEF ReadResponse, Scoped
  <2>2. ASSUME NEW u, To(c, u), u.pc \in {"pre", "readreq", "done"}, Untouched(u)
        PROVE  AllScoped'
    BY <1>1, <2>1, <2>2, ScopedMove
  <2>3. ASSUME NEW told,
               \/ To(c, [pc |-> "pre", answers |-> told, pre |-> <<>>, acked |-> TRUE])
               \/ To(c, [pc |-> "readreq", answers |-> told, dialled |-> "none"])
               \/ To(c, [pc |-> "done", cause |-> "ok", answers |-> told])
        PROVE  AllScoped'
    <3>1. /\ Untouched([pc |-> "pre", answers |-> told, pre |-> <<>>, acked |-> TRUE])
          /\ Untouched([pc |-> "readreq", answers |-> told, dialled |-> "none"])
          /\ Untouched([pc |-> "done", cause |-> "ok", answers |-> told])
      BY DEF Untouched
    <3> QED BY <2>2, <2>3, <3>1
  <2>4. CASE ~Leave(c, "refused")
    <3> HIDE DEF Follows, Unread, Unjudged, OfRequests
    <3> QED BY <1>8, <2>3, <2>4 DEF ReadResponse
  <2> QED BY <1>1, <2>4, ScopedLeave
<1>9. CASE Precheck(c)
  <2>1. f[c].pc = "precheck"
    BY <1>9 DEF Precheck
  <2> DEFINE u == [pc |-> "first", acked |-> TRUE, since |-> 0, total |-> 0]
  <2>2. Untouched(u) /\ u.pc = "first"
    BY DEF Untouched
  <2>3. To(c, u) \/ Leave(c, "refused")
    BY <1>9 DEF Precheck
  <2> HIDE DEF u
  <2>4. ASSUME To(c, u) PROVE AllScoped'
    BY <1>1, <2>1, <2>2, <2>4, ScopedMove
  <2> QED BY <1>1, <2>3, <2>4, ScopedLeave
<1> QED BY <1>3, <1>4, <1>5, <1>6, <1>7, <1>8, <1>9

\* A plain request is judged by the host it names, and asks the ladder only then.
LEMMA OpenHTTPScoped == ASSUME AllScoped, NEW c \in Conns, OpenHTTP(c) PROVE AllScoped'
<1>1. /\ job' = job /\ DOMAIN f[c] = DOMAIN Handler /\ Scoped(job[c], f[c])
      /\ f[c].pc = "open" /\ job \in Jobs
  BY DEF AllScoped, OpenHTTP
<1>2. CASE Leave(c, "refused")
  BY <1>1, <1>2, ScopedLeave
<1>3. CASE ~Leave(c, "refused")
  <2>1. PICK host : host = Request(c).host
    OBVIOUS
  <2>2. PICK v : v = VerdictFor(c, host)
    OBVIOUS
  <2>3. PICK u : /\ To(c, u)
                 /\ u = [pc |-> "body", host |-> host, class |-> v.class,
                         laddered |-> Judged(v), dialled |-> Request(c).origin]
    BY <1>3, <2>1, <2>2 DEF OpenHTTP
  <2>4. PICK h : h = Updated(f[c], u)
    OBVIOUS
  <2>5. /\ h.pc = "body" /\ h.host = host /\ h.whole = f[c].whole /\ h.laddered = Judged(v)
        /\ h.req = f[c].req
    BY <1>1, <2>3, <2>4 DEF Updated, Handler
  <2>6. ~f[c].whole /\ job[c].proto = "http" /\ f[c].req \in Nat
    BY <1>1 DEF Scoped, Unread, OfRequests
  <2>7. Judged(v) => Spares(job[c], host)
    <3>1. f[c].req \in 1..Len(job[c].requests)
      BY <1>1 DEF Scoped
    <3>2. host \in Host
      BY <1>1, <2>1, <3>1, JobIs DEF Request, Requests
    <3> QED BY <1>1, <2>2, <3>2, VerdictSpares
  <2>8. Scoped(job[c], h)
    BY <2>5, <2>6, <2>7 DEF Scoped, Unread, Unjudged, OfRequests, Allowed
  <2> QED BY <1>1, <2>3, <2>4, <2>8, ScopedStep
<1> QED BY <1>2, <1>3

\* A flow of the TUN is judged by the name the reverse table gives its address.
LEMMA ServeTCPScoped == ASSUME AllScoped, NEW c \in Conns, ServeTCP(c) PROVE AllScoped'
<1>1. /\ job' = job /\ DOMAIN f[c] = DOMAIN Handler /\ Scoped(job[c], f[c])
      /\ f[c].pc = "serve" /\ job \in Jobs
  BY DEF AllScoped, ServeTCP
<1>2. CASE Leave(c, "refused")
  BY <1>1, <1>2, ScopedLeave
<1>3. CASE ~Leave(c, "refused")
  <2>1. PICK name : name = Lookup(job[c].answered, job[c].addr, ReverseMax)
    OBVIOUS
  <2>2. PICK v : v = VerdictFor(c, name)
    OBVIOUS
  <2>3. PICK pc : pc = (IF Judged(v) THEN "first" ELSE "dial")
    OBVIOUS
  <2>4. PICK u : /\ To(c, u)
                 /\ u = [pc |-> pc, host |-> name, class |-> v.class, acked |-> TRUE,
                         since |-> 0, total |-> 0]
    BY <1>3, <2>1, <2>2, <2>3 DEF ServeTCP
  <2>5. PICK h : h = Updated(f[c], u)
    OBVIOUS
  <2>6. /\ h.pc = pc /\ h.host = name /\ h.whole = f[c].whole /\ h.laddered = f[c].laddered
        /\ h.req = f[c].req
    BY <1>1, <2>4, <2>5 DEF Updated, Handler
  <2>7. name \in Host
    BY <1>1, <2>1, JobIs, LookupIsHost
  <2>8. pc = "first" => Spares(job[c], name)
    BY <1>1, <2>2, <2>3, <2>7, VerdictSpares
  <2>9. ~f[c].whole /\ ~f[c].laddered /\ pc \in {"first", "dial"} /\ f[c].req \in Nat
    BY <1>1, <2>3 DEF Scoped, Unread, Unjudged
  <2>10. Scoped(job[c], h)
    BY <2>6, <2>7, <2>8, <2>9 DEF Scoped, Unread, Unjudged, OfRequests, Allowed
  <2> QED BY <1>1, <2>4, <2>5, <2>10, ScopedStep
<1> QED BY <1>2, <1>3

\* The message goes to the ladder only for a host that is spared, and so is the
\* one it names: either it overruled the host and was judged, or it is that host
\* but for the case of its letters.
LEMMA DispatchScoped ==
    ASSUME AllScoped, NEW c \in Conns, job' = job, f[c].pc = "first",
           NEW first, NEW whole \in BOOLEAN, Dispatch(c, first, whole)
    PROVE  AllScoped'
<1>1. /\ DOMAIN f[c] = DOMAIN Handler /\ Scoped(job[c], f[c]) /\ job \in Jobs
      /\ ~f[c].laddered /\ f[c].host \in Host /\ Spares(job[c], f[c].host) /\ f[c].req \in Nat
  BY DEF AllScoped, Scoped, Unjudged
<1>2. PICK over : over = Overrules(c, whole)
  OBVIOUS
<1>3. PICK host : host = IF over THEN job[c].sni ELSE f[c].host
  OBVIOUS
<1>4. PICK v : v = IF over THEN ForName(job[c].policy, host, job[c].port)
                   ELSE Verdict(f[c].class, "kept")
  OBVIOUS
<1>5. PICK pc : pc = IF Judged(v) THEN "ladder" ELSE "dial"
  OBVIOUS
<1>6. PICK u : /\ To(c, u)
               /\ u = [pc |-> pc, host |-> host, class |-> v.class, first |-> first,
                       whole |-> whole, since |-> 0, total |-> 0]
  BY <1>2, <1>3, <1>4, <1>5 DEF Dispatch
<1>7. PICK h : h = Updated(f[c], u)
  OBVIOUS
<1>8. /\ h.pc = pc /\ h.host = host /\ h.whole = whole /\ h.laddered = f[c].laddered
      /\ h.req = f[c].req
  BY <1>1, <1>6, <1>7 DEF Updated, Handler
<1>9. PICK sni : sni = job[c].sni
  OBVIOUS
<1>10. sni \in Host
  BY <1>1, <1>9, JobIs
<1>11. ASSUME pc = "ladder"
       PROVE  /\ Spares(job[c], host)
              /\ whole /\ job[c].front = "tun" /\ sni # NoHost => Spares(job[c], sni)
  <2>1. CASE over
    <3>1. sni # NoHost /\ host = sni
      BY <1>2, <1>3, <1>9, <2>1 DEF Overrules
    <3>2. Judged(ForName(job[c].policy, host, job[c].port))
      BY <1>4, <1>5, <1>11, <2>1
    <3>3. Spares(job[c], host)
      BY <1>1, <1>10, <3>1, <3>2, NameVerdictSpares
    <3> QED BY <3>1, <3>3
  <2>2. CASE ~over
    <3>1. host = f[c].host
      BY <1>3, <2>2
    <3>2. ASSUME whole, job[c].front = "tun", sni # NoHost PROVE Spares(job[c], sni)
      <4>1. EqualFold(sni, f[c].host)
        BY <1>2, <1>9, <2>2, <3>2 DEF Overrules
      <4> QED BY <1>1, <1>10, <4>1, FoldSpared DEF Spares
    <3> QED BY <1>1, <3>1, <3>2
  <2> QED BY <2>1, <2>2
<1>12. pc \in {"ladder", "dial"}
  BY <1>5
<1>13. pc = "ladder" => Allowed(job[c], h)
  BY <1>8, <1>9, <1>11 DEF Allowed
<1>14. Scoped(job[c], h)
  BY <1>1, <1>8, <1>12, <1>13 DEF Scoped, Unread, Unjudged, OfRequests
<1> QED BY <1>6, <1>7, <1>14, ScopedStep

\* The steps from the first message to the relay's end.
LEMMA FlowScoped ==
    ASSUME AllScoped, NEW c \in Conns,
           \/ ReadFirst(c) \/ FirstTimeout(c) \/ FirstEOF(c) \/ Dial(c) \/ LadderEmits(c)
           \/ LadderJudges(c) \/ Relay(c) \/ Tick(c) \/ PipeReturns(c)
           \/ \E k \in Dirs : PipeReport(c, k)
    PROVE  AllScoped'
<1>1. job' = job /\ DOMAIN f[c] = DOMAIN Handler /\ Scoped(job[c], f[c])
  BY DEF AllScoped, ReadFirst, FirstTimeout, FirstEOF, Dial, LadderEmits, LadderJudges, Relay,
     Tick, PipeReturns, PipeReport
<1>2. ASSUME NEW u, To(c, u), Untouched(u), u.pc \in {"pre", "pipe", "dial"} PROVE AllScoped'
  <2>1. Follows(job[c], f[c].pc, u.pc)
    BY <1>2 DEF Follows, Unread, Unjudged, OfRequests
  <2> QED BY <1>1, <1>2, <2>1, ScopedMove
<1>3. CASE ReadFirst(c)
  <2>1. f[c].pc = "first"
    BY <1>3 DEF ReadFirst
  <2>2. PICK first : first = Append(f[c].first, Head(e[c].client.toread))
    OBVIOUS
  <2>3. Dispatch(c, first, TRUE) \/ To(c, [first |-> first, since |-> Renewed(c)])
    BY <1>3, <2>2 DEF ReadFirst
  <2>4. ASSUME To(c, [first |-> first, since |-> Renewed(c)]) PROVE AllScoped'
    <3>1. PICK u : u = [first |-> first, since |-> Renewed(c)]
      OBVIOUS
    <3>2. Untouched(u) /\ "pc" \notin DOMAIN u
      BY <3>1 DEF Untouched
    <3> QED BY <1>1, <2>4, <3>1, <3>2, ScopedMove
  <2> QED BY <1>1, <2>1, <2>3, <2>4, DispatchScoped
<1>4. CASE FirstTimeout(c)
  <2>1. f[c].pc = "first"
    BY <1>4 DEF FirstTimeout
  <2>2. To(c, [pc |-> "dial", since |-> 0]) \/ Dispatch(c, f[c].first, FALSE)
    BY <1>4 DEF FirstTimeout
  <2>3. Untouched([pc |-> "dial", since |-> 0])
    BY DEF Untouched
  <2> QED BY <1>1, <1>2, <2>1, <2>2, <2>3, DispatchScoped
<1>5. CASE FirstEOF(c)
  BY <1>1, <1>5, ScopedLeave DEF FirstEOF
<1>6. CASE Dial(c)
  <2>1. Untouched([pc |-> "pre", acked |-> TRUE, dialled |-> "origin", pre |-> <<>>])
    BY DEF Untouched
  <2>2. \/ To(c, [pc |-> "pre", acked |-> TRUE, dialled |-> "origin", pre |-> <<>>])
        \/ \E cause : Leave(c, cause)
    BY <1>6 DEF Dial
  <2> QED BY <1>1, <1>2, <2>1, <2>2, ScopedLeave
<1>7. CASE LadderEmits(c)
  <2>1. f[c].pc = "ladder"
    BY <1>7 DEF LadderEmits
  <2>2. \/ To(c, [dialled |-> "origin", laddered |-> TRUE])
        \/ \E cause : Leave(c, cause)
    BY <1>7 DEF LadderEmits
  <2>3. ASSUME To(c, [dialled |-> "origin", laddered |-> TRUE]) PROVE AllScoped'
    <3>1. PICK h : h = Updated(f[c], [dialled |-> "origin", laddered |-> TRUE])
      OBVIOUS
    <3>2. h.pc = "ladder" /\ h.host = f[c].host /\ h.whole = f[c].whole /\ h.req = f[c].req
      BY <1>1, <2>1, <3>1 DEF Updated, Handler
    <3>3. Allowed(job[c], h) /\ f[c].req \in Nat
      BY <1>1, <2>1, <3>2 DEF Scoped, Allowed
    <3>4. Scoped(job[c], h)
      BY <3>2, <3>3 DEF Scoped, Unread, Unjudged, OfRequests
    <3> QED BY <1>1, <2>3, <3>1, <3>4, ScopedStep
  <2> QED BY <1>1, <2>2, <2>3, ScopedLeave
<1>8. CASE LadderJudges(c)
  <2>1. Untouched([pc |-> "pre", pre |-> e[c].origin.toread])
    BY DEF Untouched
  <2>2. \/ To(c, [pc |-> "pre", pre |-> e[c].origin.toread])
        \/ \E cause : Leave(c, cause)
    BY <1>8 DEF LadderJudges
  <2> QED BY <1>1, <1>2, <2>1, <2>2, ScopedLeave
<1>9. CASE Relay(c)
  <2>1. To(c, [pc |-> "pipe"]) /\ Untouched([pc |-> "pipe"])
    BY <1>9 DEF Relay, Untouched
  <2> QED BY <1>2, <2>1
<1>10. CASE Tick(c) \/ \E k \in Dirs : PipeReport(c, k)
  <2>1. PICK u : To(c, u) /\ DOMAIN u \subseteq {"since", "total", "reported", "forced"}
    <3>1. CASE Tick(c)
      BY <3>1 DEF Tick
    <3>2. CASE \E k \in Dirs : PipeReport(c, k)
      BY <3>2 DEF PipeReport
    <3> QED BY <1>10, <3>1, <3>2
  <2>2. Untouched(u) /\ "pc" \notin DOMAIN u
    BY <2>1 DEF Untouched
  <2> QED BY <1>1, <2>1, <2>2, ScopedMove
<1>11. CASE PipeReturns(c)
  <2>1. \E cause : Leave(c, cause)
    BY <1>11 DEF PipeReturns
  <2> QED BY <1>1, <2>1, ScopedLeave
<1> QED BY <1>3, <1>4, <1>5, <1>6, <1>7, <1>8, <1>9, <1>10, <1>11

LEMMA ScopedInit == Init => AllScoped
<1> SUFFICES ASSUME Init PROVE AllScoped
  OBVIOUS
<1>1. job \in Jobs /\ DOMAIN f = Conns
  BY DEF Init
<1>2. ASSUME NEW c \in Conns PROVE DOMAIN f[c] = DOMAIN Handler /\ Scoped(job[c], f[c])
  <2>1. f[c] = Handler
    BY DEF Init
  <2>2. /\ Handler.pc = "syn" /\ ~Handler.whole /\ ~Handler.laddered /\ Handler.req = 0
    BY DEF Handler
  <2> QED BY <2>1, <2>2 DEF Scoped, OfRequests
<1> QED BY <1>1, <1>2 DEF AllScoped

LEMMA ScopedInductive == AllScoped /\ [Next]_vars => AllScoped'
<1> SUFFICES ASSUME AllScoped, [Next]_vars PROVE AllScoped'
  OBVIOUS
<1>1. CASE job' = job /\ f' = f
  BY <1>1 DEF AllScoped
<1>2. CASE Cancel \/ StopAdmitting \/ Drain \/ UNCHANGED vars
  BY <1>1, <1>2 DEF Cancel, StopAdmitting, Drain, vars
<1>3. ASSUME NEW c \in Conns, Admit(c) \/ Handle(c) \/ Tick(c) \/ PipeReturns(c)
      PROVE  AllScoped'
  BY <1>3, FrontScoped, OpenHTTPScoped, ServeTCPScoped, FlowScoped DEF Admit, Handle
<1>4. ASSUME NEW c \in Conns, Peers(c) \/ Poison(c) PROVE AllScoped'
  BY <1>1, <1>4 DEF Peers, PeerSends, PeerCloses, PeerFails, Poison
<1>5. ASSUME NEW c \in Conns, NEW k \in Dirs, Copy(c, k) \/ IdleExpires(c, k) PROVE AllScoped'
  BY <1>1, <1>5 DEF Copy, ArmRead, Read, ArmWrite, Write, IdleExpires
<1>6. ASSUME NEW c \in Conns, NEW k \in Dirs, PipeReport(c, k) PROVE AllScoped'
  BY <1>6, FlowScoped
<1> QED BY <1>2, <1>3, <1>4, <1>5, <1>6 DEF Next

\* A host the user or the compiled-in list excludes never reaches the ladder, in
\* either front, and the script of the browsers lets only such names past: for
\* every policy, bogon table and folding of labels (policy/engine.go, matcher.go
\* and ipset.go; tunfe/tcp.go, where the name in the hello overrules the table;
\* proxyfe/pac.go).
THEOREM ExcludedStayOut == Spec => []ExclusionHolds
<1>1. Spec => []AllScoped
  BY ScopedInit, ScopedInductive, PTL DEF Spec
<1>2. AllScoped => ExclusionHolds
  <2> SUFFICES ASSUME AllScoped, NEW c \in Conns
               PROVE  /\ f[c].laddered => ~Excluded(job[c].policy, f[c].host, job[c].addr)
                      /\ f[c].laddered /\ f[c].whole /\ job[c].front = "tun"
                           /\ job[c].sni # NoHost
                           => ~Excluded(job[c].policy, job[c].sni, job[c].addr)
                      /\ (/\ job[c].host.form = "name"
                          /\ Len(Normalize(job[c].host).labels) > 1
                          /\ ~job[c].policy.suspended
                          /\ FindProxyForURL(job[c].policy, job[c].host) = "DIRECT")
                           => \E q \in BypassPatterns(job[c].policy) : Covers(q, job[c].host)
    BY DEF ExclusionHolds
  <2>1. f[c].laddered => Allowed(job[c], f[c])
    BY DEF AllScoped, Scoped
  <2>2. PICK p, h : p = job[c].policy /\ h = job[c].host
    OBVIOUS
  <2>3. PolicyTyped(p) /\ h \in Host
    BY <2>2, JobIs DEF AllScoped
  <2>4. (/\ h.form = "name" /\ Len(Normalize(h).labels) > 1 /\ ~p.suspended
         /\ FindProxyForURL(p, h) = "DIRECT")
          => \E q \in BypassPatterns(p) : Covers(q, h)
    BY <2>3, ScriptSparesBypasses
  <2> QED BY <2>1, <2>2, <2>4 DEF Allowed, Spares
<1> QED BY <1>1, <1>2, PTL
=============================================================================

------------------------------- MODULE Session ------------------------------
(***************************************************************************)
(* One client connection from the moment a front end sees it to its end:    *)
(* proxyfe (CONNECT, SOCKS5, plain HTTP requests, the PAC fetch) and tunfe's *)
(* TCP flows, the bounded read of the client's first message, and flow.Pipe, *)
(* the relay both fronts end in; around them the accept loop, its cap, and   *)
(* the drain at shutdown.  What a host or an address may have done to it is  *)
(* Scope's answer.  The ladder and the sockets are the environment: the      *)
(* ladder ends with a connection and the bytes it read while judging it, or  *)
(* with an error (module Ladder); a peer sends what its script says.         *)
(*                                                                          *)
(* A byte stream is a sequence of segment numbers.  An item of a script is   *)
(* [seg, need]: the peer sends seg once it has got need segments, a          *)
(* half-close counting as one.  Time passes only inside ReadFirstMessage,    *)
(* where three bounds are compared; every other deadline that is armed may   *)
(* expire at any moment, or never.                                          *)
(***************************************************************************)
EXTENDS Scope, Integers

CONSTANTS Conns,          \* the client connections
          Jobs,           \* the assignments of a job to every connection
          MaxConns,       \* Options.MaxConns, 0 for no cap
          ReverseMax,     \* the reverse table's size
          FirstByteWait, CompleteWait, MaxAssembly   \* FirstMsgOpts, in ticks

ASSUME BoundsAssumption ==
  /\ MaxConns \in Nat /\ ReverseMax \in Nat
  /\ {FirstByteWait, CompleteWait, MaxAssembly} \subseteq Nat \ {0}

(* What a peer says is its script, a sequence of items.                     *)
ASSUME ScriptsAssumption ==
  \A j \in Jobs, c \in Conns, s \in {"client", "origin"} :
    j[c][s] \in Seq([seg : Nat, need : Nat])

(* What a job names: hosts, addresses, requests, and the patterns of its    *)
(* policy, of which the compiled-in ones are names.                         *)
Typed(j) ==
  /\ {j.host, j.sni} \subseteq Host /\ j.addr \in Seq(Bit)
  /\ j.requests \in Seq([host : Host, origin : STRING, replies : Seq(STRING),
                          body : BOOLEAN, close : BOOLEAN])
  /\ \A i \in DOMAIN j.answered : j.answered[i].name \in Host
  /\ {j.policy.mandatory, j.policy.bypass, j.policy.include} \subseteq Seq(Pattern)
  /\ \A i \in DOMAIN j.policy.mandatory : ~IsAddress(j.policy.mandatory[i])
ASSUME JobsAssumption == \A j \in Jobs, c \in Conns : Typed(j[c])

VARIABLES job,   \* what each connection asks for, and how its peers behave
          f,     \* the handler of each connection
          e,     \* its two ends: the client's connection and the upstream one
          d,     \* the two directions of its relay
          srv    \* the server: cancelled, listening, drained, active, how it returned

vars == <<job, f, e, d, srv>>

Sides == {"client", "origin"}
Dirs == {"up", "down"}
Src(k) == IF k = "up" THEN "client" ELSE "origin"
Dst(k) == IF k = "up" THEN "origin" ELSE "client"
Other(k) == IF k = "up" THEN "down" ELSE "up"

End == [sent |-> 0, toread |-> <<>>, fin |-> FALSE, got |-> <<>>, eof |-> FALSE,
        stuck |-> FALSE, rst |-> FALSE, lull |-> 0, rdl |-> "none", wdl |-> "none"]

Handler == [pc |-> "syn", host |-> NoHost, class |-> "none", first |-> <<>>,
            whole |-> FALSE, acked |-> FALSE, laddered |-> FALSE, since |-> 0, total |-> 0,
            pre |-> <<>>, forced |-> FALSE, reported |-> "none", cause |-> "none",
            req |-> 0, dialled |-> "none", answers |-> <<>>]

Direction == [pc |-> "off", held |-> 0, err |-> "none"]

Init ==
  /\ job \in Jobs
  /\ f = [c \in Conns |-> Handler]
  /\ e = [c \in Conns |-> [s \in Sides |-> End]]
  /\ d = [c \in Conns |-> [k \in Dirs |-> Direction]]
  /\ srv = [cancelled |-> FALSE, listening |-> TRUE, drained |-> FALSE, active |-> 0,
            how |-> "serving"]

Mode == job[CHOOSE c \in Conns : TRUE].front
Ended == {"rejected", "refused", "done"}
Running(c) == f[c].pc \notin Ended \cup {"syn"}

(* The record r with the fields of upd in the place of its own.             *)
Updated(r, upd) == [x \in DOMAIN r |-> IF x \in DOMAIN upd THEN upd[x] ELSE r[x]]

(* The handler of c takes the fields upd; a deadline of one end is set.     *)
To(c, upd) == f' = [f EXCEPT ![c] = Updated(@, upd)]
Deadline(ends, side, r, w) == [ends EXCEPT ![side].rdl = r, ![side].wdl = w]
SetEnds(c, ends) == e' = [e EXCEPT ![c] = ends]

(* The deferred end of every handler: the connections are closed, the count *)
(* is taken back, wg.Done.  cause is the error it ended with.               *)
Leave(c, cause) ==
  /\ To(c, [pc |-> "done", cause |-> cause])
  /\ srv' = [srv EXCEPT !.active = @ - 1]

--------------------------------------------------------------------------
(* The peers.                                                               *)

Progress(c, s) == Len(e[c][s].got) + (IF e[c][s].eof THEN 1 ELSE 0)

(* The client of a proxied tunnel speaks once it has been acknowledged, the *)
(* origin once something is connected to it; what it answers to a plain     *)
(* request is in the request's replies, not in its script.                  *)
MaySpeak(c, s) ==
  CASE s = "client" -> f[c].acked
    [] OTHER        -> /\ f[c].dialled # "none" /\ Running(c)
                       /\ f[c].pc \notin {"body", "response"}

PeerSends(c, s) ==
  LET n == e[c][s].sent + 1
  IN /\ MaySpeak(c, s) /\ Running(c) /\ ~e[c][s].rst
     /\ n <= Len(job[c][s]) /\ job[c][s][n].need <= Progress(c, s)
     /\ SetEnds(c, [e[c] EXCEPT ![s].sent = n, ![s].lull = 0,
                                ![s].toread = Append(@, job[c][s][n].seg)])
     /\ UNCHANGED <<job, f, d, srv>>

PeerCloses(c, s) ==
  /\ MaySpeak(c, s) /\ Running(c) /\ ~e[c][s].rst /\ ~e[c][s].fin
  /\ e[c][s].sent = Len(job[c][s]) /\ s \in DOMAIN job[c].fin
  /\ job[c].fin[s] <= Progress(c, s)
  /\ SetEnds(c, [e[c] EXCEPT ![s].fin = TRUE])
  /\ UNCHANGED <<job, f, d, srv>>

(* A peer may stop reading, or reset the connection, in mid-relay.          *)
PeerFails(c, s) ==
  /\ f[c].pc = "pipe" /\ ~e[c][s].rst /\ ~e[c][s].stuck
  /\ \/ s \in job[c].stalls /\ SetEnds(c, [e[c] EXCEPT ![s].stuck = TRUE])
     \/ s \in job[c].resets /\ SetEnds(c, [e[c] EXCEPT ![s].rst = TRUE])
  /\ UNCHANGED <<job, f, d, srv>>

--------------------------------------------------------------------------
(* The server: proxyfe.Serve's accept loop, tunfe's handleTCP and track, the *)
(* shutdown of both.                                                        *)

Cancel ==
  /\ ~srv.cancelled /\ \E c \in Conns : job[c].shutdown
  /\ srv' = [srv EXCEPT !.cancelled = TRUE]
  /\ UNCHANGED <<job, f, e, d>>

Accept(c) ==
  /\ Mode = "proxy" /\ srv.listening /\ f[c].pc = "syn" /\ job[c].arrives
  /\ IF MaxConns > 0 /\ srv.active >= MaxConns
     THEN /\ To(c, [pc |-> "rejected"]) /\ UNCHANGED <<e, srv>>
     ELSE /\ To(c, [pc |-> "peek"])
          /\ SetEnds(c, Deadline(e[c], "client", "phase", "none"))
          /\ srv' = [srv EXCEPT !.active = @ + 1]
  /\ UNCHANGED <<job, d>>

(* (mutant of Track: the counter is not closed before it is waited on)      *)
TrackLate(c) ==
  /\ Mode = "tun" /\ f[c].pc = "syn" /\ job[c].arrives
  /\ To(c, [pc |-> "serve"]) /\ srv' = [srv EXCEPT !.active = @ + 1]
  /\ UNCHANGED <<job, e, d>>

(* tunfe.track: admitted and counted under one lock, or refused for good.   *)
Track(c) ==
  /\ Mode = "tun" /\ f[c].pc = "syn" /\ job[c].arrives
  /\ IF srv.drained
     THEN To(c, [pc |-> "refused"]) /\ UNCHANGED srv
     ELSE To(c, [pc |-> "serve"]) /\ srv' = [srv EXCEPT !.active = @ + 1]
  /\ UNCHANGED <<job, e, d>>

(* The accept loop breaks, or the TUN supervisor closes its counter; either *)
(* then waits for the live flows, but only for the grace.                   *)
StopAdmitting ==
  /\ srv.cancelled /\ srv.how = "serving"
  /\ srv' = [srv EXCEPT !.listening = FALSE, !.drained = (Mode = "tun"), !.how = "draining"]
  /\ UNCHANGED <<job, f, e, d>>

Drain ==
  /\ srv.how = "draining"
  /\ srv' = [srv EXCEPT !.how = IF srv.active = 0 THEN "waited" ELSE "grace"]
  /\ UNCHANGED <<job, f, e, d>>

--------------------------------------------------------------------------
(* proxyfe.handle: one byte decides the protocol.                           *)

Peek(c) ==
  /\ f[c].pc = "peek"
  /\ \/ /\ job[c].proto # "silent"
        /\ LET socks == job[c].proto = "socks"
           IN /\ To(c, [pc |-> IF socks THEN "socks" ELSE "readreq"])
              /\ SetEnds(c, Deadline(e[c], "client", "phase", IF socks THEN "phase" ELSE "none"))
              /\ UNCHANGED srv
     \/ Leave(c, "quiet") /\ UNCHANGED e          \* it said nothing in ClientIdle
  /\ UNCHANGED <<job, d>>

VerdictFor(c, host) ==
  CASE host.form = "name" -> ForName(job[c].policy, host, job[c].port)
    [] host.form = "addr" -> ForAddr(job[c].policy, host.bits, job[c].port)
    [] OTHER              -> ForAddr(job[c].policy, job[c].addr, job[c].port)

(* The head of tunnel: a flow that is not judged dials at once, one that is *)
(* resolves its name first.                                                 *)
Tunnel(c, host) ==
  LET v == VerdictFor(c, host)
  IN To(c, [pc |-> IF Judged(v) THEN "precheck" ELSE "dial",
            host |-> host, class |-> v.class])

(* socksGreet and socksRequest, under the handshake's deadline.             *)
SocksRequest(c) ==
  /\ f[c].pc = "socks"
  /\ \/ /\ job[c].request = "ok"
        /\ Tunnel(c, job[c].host)
        /\ SetEnds(c, Deadline(e[c], "client", "none", "none"))
        /\ UNCHANGED srv
     \/ Leave(c, "handshake") /\ UNCHANGED e     \* refused, unsupported, or too slow
  /\ UNCHANGED <<job, d>>

Requests(c) == job[c].requests
Answered(c) == Cardinality({i \in DOMAIN f[c].answers : f[c].answers[i].kind # "interim"})

(* serveHTTP's loop: one request at a time, a fresh upstream for each.  The *)
(* client sends its next request when the last one has been answered.       *)
ReadRequest(c) ==
  /\ f[c].pc = "readreq"
  /\ \/ /\ job[c].proto = "connect" /\ job[c].request = "ok"
        /\ Tunnel(c, job[c].host)
        /\ SetEnds(c, Deadline(e[c], "client", "none", "none"))
        /\ UNCHANGED srv
     \/ /\ job[c].proto = "http" /\ f[c].req < Len(Requests(c)) /\ Answered(c) = f[c].req
        /\ To(c, [pc |-> "open", req |-> f[c].req + 1])
        /\ SetEnds(c, Deadline(e[c], "client", "none", "none"))
        /\ UNCHANGED srv
     \/ /\ job[c].proto = "local"                \* the PAC, a 404 or a 405: then it closes
        /\ Leave(c, "ok") /\ UNCHANGED e
     \/ Leave(c, "quiet") /\ UNCHANGED e         \* closed, idle, or no request at all
  /\ UNCHANGED <<job, d>>

--------------------------------------------------------------------------
(* One plain request: openHTTP, writeBody, ReadResponse, and the loop.      *)

Request(c) == Requests(c)[f[c].req]

OpenHTTP(c) ==
  /\ f[c].pc = "open"
  /\ \/ LET v == VerdictFor(c, Request(c).host)
        IN /\ To(c, [pc |-> "body", host |-> Request(c).host, class |-> v.class,
                     laddered |-> Judged(v), dialled |-> Request(c).origin])
           /\ UNCHANGED srv
     \/ Leave(c, "refused")                      \* 502: no dial, no name, ladder exhausted
  /\ UNCHANGED <<job, e, d>>

WriteBody(c) ==
  /\ f[c].pc = "body"
  /\ \/ To(c, [pc |-> "response"]) /\ UNCHANGED srv
     \/ Request(c).body /\ Leave(c, "error")     \* either side gave up in the middle
  /\ UNCHANGED <<job, e, d>>

(* Whatever ReadResponse finds first is what the client is answered with:   *)
(* 101 turns the rest into a relay, anything else ends this upstream.       *)
ReadResponse(c) ==
  LET kind == Head(Request(c).replies)
      told == Append(f[c].answers, [req |-> f[c].req, origin |-> f[c].dialled, kind |-> kind])
  IN /\ f[c].pc = "response"
     /\ \/ /\ Request(c).replies # <<>> /\ kind = "upgrade"
           /\ To(c, [pc |-> "pre", answers |-> told, pre |-> <<>>, acked |-> TRUE])
           /\ UNCHANGED <<e, srv>>
        \/ /\ Request(c).replies # <<>> /\ kind # "upgrade" /\ ~Request(c).close
           /\ ~srv.cancelled
           /\ To(c, [pc |-> "readreq", answers |-> told, dialled |-> "none"])
           /\ SetEnds(c, Deadline(e[c], "client", "phase", "none"))
           /\ UNCHANGED srv
        \/ /\ Request(c).replies # <<>> /\ kind # "upgrade"
           /\ Request(c).close \/ srv.cancelled
           /\ To(c, [pc |-> "done", cause |-> "ok", answers |-> told])
           /\ srv' = [srv EXCEPT !.active = @ - 1]
           /\ UNCHANGED e
        \/ Leave(c, "refused") /\ UNCHANGED e    \* 502: no usable response
     /\ UNCHANGED <<job, d>>

--------------------------------------------------------------------------
(* The tunnel: the front end's order of naming, acknowledging, reading the  *)
(* first message and connecting.                                            *)

(* precheck, then the acknowledgement, then the read that needs it.         *)
Precheck(c) ==
  /\ f[c].pc = "precheck"
  /\ \/ /\ To(c, [pc |-> "first", acked |-> TRUE, since |-> 0, total |-> 0])
        /\ SetEnds(c, Deadline(e[c], "client", "phase", "none"))
        /\ UNCHANGED srv
     \/ f[c].host.form = "name" /\ Leave(c, "refused") /\ UNCHANGED e
  /\ UNCHANGED <<job, d>>

(* tunfe.serveTCP: the address names the flow, if a DNS answer of ours did. *)
ServeTCP(c) ==
  /\ f[c].pc = "serve"
  /\ \/ LET name == Lookup(job[c].answered, job[c].addr, ReverseMax)
            v    == VerdictFor(c, name)
        IN /\ To(c, [pc |-> IF Judged(v) THEN "first" ELSE "dial", host |-> name,
                     class |-> v.class, acked |-> TRUE, since |-> 0, total |-> 0])
           /\ SetEnds(c, Deadline(e[c], "client", IF Judged(v) THEN "phase" ELSE "none", "none"))
           /\ UNCHANGED srv
     \/ Leave(c, "refused") /\ UNCHANGED e       \* CreateEndpoint failed
  /\ UNCHANGED <<job, d>>

(* ReadFirstMessage.  A read that brings bytes renews the deadline, up to   *)
(* MaxAssembly after the first; hello is how many segments the client's     *)
(* message declares.                                                        *)
FirstDue(c) ==
  \/ f[c].since >= (IF f[c].first = <<>> THEN FirstByteWait ELSE CompleteWait)
  \/ f[c].first # <<>> /\ f[c].total >= MaxAssembly

Tick(c) ==
  /\ f[c].pc = "first" /\ ~FirstDue(c)
  /\ To(c, [since |-> f[c].since + 1,
            total |-> IF f[c].first = <<>> THEN 0 ELSE f[c].total + 1])
  /\ SetEnds(c, [e[c] EXCEPT !.client.lull = Min({CompleteWait, @ + 1})])
  /\ UNCHANGED <<job, d, srv>>

(* (mutant of Renewed: CompleteWait is a budget for the whole message)      *)
ArmedOnce(c) == IF f[c].first = <<>> THEN 0 ELSE f[c].since
Renewed(c) == 0

Cleared(ends) == [ends EXCEPT !.client.rdl = "none", !.client.lull = 0]

(* What the front does with the message: proxyfe hands it to the ladder;    *)
(* tunfe lets the name inside it overrule the reverse table, and sends a    *)
(* flow its policy does not judge straight on, as it was read.              *)
(* (mutant of Overrules: only an unnamed flow takes the name of its hello)  *)
OverrulesNoName(c, whole) ==
  job[c].front = "tun" /\ whole /\ job[c].sni # NoHost /\ f[c].host = NoHost
Overrules(c, whole) ==
  /\ job[c].front = "tun" /\ whole /\ job[c].sni # NoHost
  /\ ~EqualFold(job[c].sni, f[c].host)

Dispatch(c, first, whole) ==
  LET host == IF Overrules(c, whole) THEN job[c].sni ELSE f[c].host
      v    == IF Overrules(c, whole) THEN ForName(job[c].policy, host, job[c].port)
              ELSE Verdict(f[c].class, "kept")
  IN To(c, [pc |-> IF Judged(v) THEN "ladder" ELSE "dial", host |-> host,
            class |-> v.class, first |-> first, whole |-> whole, since |-> 0, total |-> 0])

ReadFirst(c) ==
  LET first == Append(f[c].first, Head(e[c].client.toread))
      rest  == [e[c] EXCEPT !.client.toread = Tail(@)]
      whole == Len(first) >= job[c].hello
  IN /\ f[c].pc = "first" /\ e[c].client.toread # <<>>
     /\ IF whole
        THEN Dispatch(c, first, TRUE) /\ SetEnds(c, Cleared(rest))
        ELSE To(c, [first |-> first, since |-> Renewed(c)]) /\ SetEnds(c, rest)
     /\ UNCHANGED <<job, d, srv>>

(* A deadline: nothing at all means the server speaks first; part of a      *)
(* message goes on truncated.  An EOF in the middle ends the flow.          *)
FirstTimeout(c) ==
  /\ f[c].pc = "first" /\ FirstDue(c)
  /\ IF f[c].first = <<>> THEN To(c, [pc |-> "dial", since |-> 0]) ELSE Dispatch(c, f[c].first, FALSE)
  /\ SetEnds(c, Cleared(e[c]))
  /\ UNCHANGED <<job, d, srv>>

FirstEOF(c) ==
  /\ f[c].pc = "first" /\ e[c].client.toread = <<>> /\ e[c].client.fin
  /\ Leave(c, "error")
  /\ UNCHANGED <<job, e, d>>

(* DialTCP on the unjudged path; the proxy acknowledges here if it has not, *)
(* and what was already read goes to the origin before the relay starts.    *)
(* (mutant of Emitted: what was buffered is forgotten)                      *)
Forgotten(first) == <<>>
Emitted(first) == first

Dial(c) ==
  /\ f[c].pc = "dial"
  /\ \/ /\ ~srv.cancelled
        /\ To(c, [pc |-> "pre", acked |-> TRUE, dialled |-> "origin", pre |-> <<>>])
        /\ SetEnds(c, [e[c] EXCEPT !.origin.got = @ \o Emitted(f[c].first)])
        /\ UNCHANGED srv
     \/ Leave(c, IF srv.cancelled THEN "cancelled" ELSE "refused") /\ UNCHANGED e
  /\ UNCHANGED <<job, d>>

(* LadderRunner.Run, external: it emits the first message, and judges by    *)
(* what comes back, which it hands over as Pre.                             *)
LadderEmits(c) ==
  /\ f[c].pc = "ladder" /\ f[c].dialled = "none"
  /\ \/ /\ ~srv.cancelled
        /\ To(c, [dialled |-> "origin", laddered |-> TRUE])
        /\ SetEnds(c, [e[c] EXCEPT !.origin.got = f[c].first])
        /\ UNCHANGED srv
     \/ Leave(c, IF srv.cancelled THEN "cancelled" ELSE "refused") /\ UNCHANGED e
  /\ UNCHANGED <<job, d>>

LadderJudges(c) ==
  /\ f[c].pc = "ladder" /\ f[c].dialled # "none"
  /\ \/ /\ To(c, [pc |-> "pre", pre |-> e[c].origin.toread])
        /\ SetEnds(c, [e[c] EXCEPT !.origin.toread = <<>>])
        /\ UNCHANGED srv
     \/ Leave(c, "blocked") /\ UNCHANGED e
  /\ UNCHANGED <<job, d>>

--------------------------------------------------------------------------
(* relay and flow.Pipe.                                                     *)

(* The bytes the ladder read go to the client before anything else does.    *)
Relay(c) ==
  /\ f[c].pc = "pre"
  /\ To(c, [pc |-> "pipe"])
  /\ SetEnds(c, [e[c] EXCEPT !.client.got = @ \o f[c].pre])
  /\ d' = [d EXCEPT ![c] = [k \in Dirs |-> [Direction EXCEPT !.pc = "arm"]]]
  /\ UNCHANGED <<job, srv>>

Move(c, k, upd) == d' = [d EXCEPT ![c][k] = Updated(@, upd)]
At(c, k, pc) == f[c].pc = "pipe" /\ d[c][k].pc = pc
Stop(c, k, err) == Move(c, k, [pc |-> "done", held |-> 0, err |-> err])

ArmRead(c, k) ==
  /\ At(c, k, "arm")
  /\ Move(c, k, [pc |-> "read"])
  /\ SetEnds(c, [e[c] EXCEPT ![Src(k)].rdl = "idle"])
  /\ UNCHANGED <<job, f, srv>>

(* closeWrite on a clean EOF: the half-close the other side may wait for.   *)
HalfClose(ends, side) == [ends EXCEPT ![side].eof = TRUE]

Read(c, k) ==
  LET src == e[c][Src(k)]
  IN /\ At(c, k, "read")
     /\ \/ /\ src.rdl = "past" /\ Stop(c, k, "idle") /\ UNCHANGED e
        \/ /\ src.rdl # "past" /\ src.rst /\ Stop(c, k, "reset") /\ UNCHANGED e
        \/ /\ src.rdl # "past" /\ ~src.rst /\ src.toread # <<>>
           /\ Move(c, k, [pc |-> "armw", held |-> Head(src.toread)])
           /\ SetEnds(c, [e[c] EXCEPT ![Src(k)].toread = Tail(@)])
        \/ /\ src.rdl # "past" /\ ~src.rst /\ src.toread = <<>> /\ src.fin
           /\ Stop(c, k, "nil")
           /\ SetEnds(c, HalfClose(e[c], Dst(k)))
     /\ UNCHANGED <<job, f, srv>>

ArmWrite(c, k) ==
  /\ At(c, k, "armw")
  /\ Move(c, k, [pc |-> "write"])
  /\ SetEnds(c, [e[c] EXCEPT ![Dst(k)].wdl = "idle"])
  /\ UNCHANGED <<job, f, srv>>

Write(c, k) ==
  LET dst == e[c][Dst(k)]
  IN /\ At(c, k, "write")
     /\ \/ /\ dst.wdl = "past" /\ Stop(c, k, "idle") /\ UNCHANGED e
        \/ /\ dst.wdl # "past" /\ dst.rst /\ Stop(c, k, "reset") /\ UNCHANGED e
        \/ /\ dst.wdl # "past" /\ ~dst.rst /\ ~dst.stuck
           /\ Move(c, k, [pc |-> "arm", held |-> 0])
           /\ SetEnds(c, [e[c] EXCEPT ![Dst(k)].got = Append(@, d[c][k].held)])
     /\ UNCHANGED <<job, f, srv>>

(* The idle bound passes with this direction parked.                        *)
IdleExpires(c, k) ==
  /\ \/ /\ At(c, k, "read") /\ e[c][Src(k)].rdl = "idle"
        /\ e[c][Src(k)].toread = <<>> /\ ~e[c][Src(k)].fin /\ ~e[c][Src(k)].rst
     \/ At(c, k, "write") /\ e[c][Dst(k)].wdl = "idle" /\ e[c][Dst(k)].stuck
  /\ job[c].idle
  /\ Stop(c, k, "idle")
  /\ UNCHANGED <<job, f, e, srv>>

(* Pipe takes the first report.  A clean end of one direction leaves the    *)
(* other its half; an error forces both down.                               *)
PipeReport(c, k) ==
  /\ At(c, k, "done") /\ f[c].reported = "none"
  /\ To(c, [reported |-> k, forced |-> d[c][k].err # "nil"])
  /\ UNCHANGED <<job, e, d, srv>>

(* unblock: every deadline of both connections goes into the past; repoison *)
(* does it again on every tick until the directions have reported.          *)
(* (mutant of Poisoned: only the reads are released)                        *)
ReadsPoisoned(ends) == [s \in Sides |-> [ends[s] EXCEPT !.rdl = "past"]]
Poisoned(ends) == [s \in Sides |-> [ends[s] EXCEPT !.rdl = "past", !.wdl = "past"]]

Poison(c) ==
  /\ f[c].pc = "pipe" /\ (f[c].forced \/ srv.cancelled)
  /\ e[c] # Poisoned(e[c])
  /\ SetEnds(c, Poisoned(e[c]))
  /\ UNCHANGED <<job, f, d, srv>>

(* Pipe's own return, relay's closing of the upstream, and the handler's    *)
(* end.  An idle relay and a cancelled one are not errors.                  *)
PipeReturns(c) ==
  LET first  == d[c][f[c].reported].err
      second == d[c][Other(f[c].reported)].err
      result == CASE srv.cancelled -> "cancelled"
                  [] first # "nil" -> first
                  [] OTHER         -> second
  IN /\ f[c].pc = "pipe" /\ f[c].reported # "none"
     /\ \A k \in Dirs : At(c, k, "done")
     /\ Leave(c, IF result = "nil" THEN "ok" ELSE result)
     /\ UNCHANGED <<job, e, d>>

--------------------------------------------------------------------------
Admit(c) == Accept(c) \/ Track(c)

Handle(c) ==
  \/ Peek(c) \/ SocksRequest(c) \/ ReadRequest(c) \/ OpenHTTP(c) \/ WriteBody(c)
  \/ ReadResponse(c) \/ Precheck(c) \/ ServeTCP(c) \/ ReadFirst(c) \/ FirstTimeout(c)
  \/ FirstEOF(c) \/ Dial(c) \/ LadderEmits(c) \/ LadderJudges(c) \/ Relay(c)

Copy(c, k) == ArmRead(c, k) \/ Read(c, k) \/ ArmWrite(c, k) \/ Write(c, k)

Peers(c) ==
  \E s \in Sides : PeerSends(c, s) \/ PeerCloses(c, s) \/ PeerFails(c, s)

Next ==
  \/ Cancel \/ StopAdmitting \/ Drain
  \/ \E c \in Conns :
       \/ Admit(c) \/ Handle(c) \/ Tick(c) \/ Peers(c)
       \/ Poison(c) \/ PipeReturns(c)
       \/ \E k \in Dirs : Copy(c, k) \/ IdleExpires(c, k) \/ PipeReport(c, k)

(* Goroutines that can run do run, the ticker ticks.  Peers, clocks and the *)
(* idle bound owe nothing: a relay's end must not depend on them.           *)
Fairness ==
  \A c \in Conns :
    /\ WF_vars(Poison(c)) /\ WF_vars(PipeReturns(c))
    /\ \A k \in Dirs : WF_vars(Copy(c, k)) /\ WF_vars(PipeReport(c, k))

Spec == Init /\ [][Next]_vars /\ Fairness

--------------------------------------------------------------------------
(* PROPERTIES *)

Segs(c, s) == [i \in 1..e[c][s].sent |-> job[c][s][i].seg]

(* Neither peer ever gets bytes with a hole, a repeat or another order in    *)
(* them, whatever was read ahead of the relay by the first-message read or   *)
(* the ladder; a flow that ended well has delivered everything both sent,    *)
(* the reply to a half-close included; and an answer a client gets comes     *)
(* from the origin of the request it answers.                                *)
StreamsAreWhole ==
  \A c \in Conns :
    /\ IsPrefix(e[c].client.got, Segs(c, "origin"))
    /\ IsPrefix(e[c].origin.got, Segs(c, "client"))
    /\ f[c].pc = "done" /\ f[c].cause = "ok" =>
         /\ e[c].client.got = Segs(c, "origin")
         /\ e[c].origin.got = Segs(c, "client")
    /\ \A i \in DOMAIN f[c].answers :
         LET a == f[c].answers[i] IN a.origin = Requests(c)[a.req].origin

(* Whether the configuration excludes a host: some bypass covers its name    *)
(* on label boundaries, and no longer include; or a bypass or a bogon, its   *)
(* address, which for an unnamed flow is addr.                               *)
Covers(p, h) == ~IsAddress(p) /\ MatchLabel(p, h)
Excluded(p, h, addr) ==
  LET bits == IF h.form = "addr" THEN h.bits ELSE addr
      Included(q) == \E i \in DOMAIN p.include :
                        Covers(p.include[i], h) /\ Len(Base(p.include[i])) > Len(Base(q))
  IN IF h.form = "name"
     THEN \E q \in BypassPatterns(p) : Covers(q, h) /\ ~Included(q)
     ELSE \/ \E i \in DOMAIN Bogons : IsPrefix(Bogons[i], bits)
          \/ \E q \in BypassPatterns(p) : IsAddress(q) /\ IsPrefix(q.host.bits, bits)

(* A host the user or the compiled-in list excludes never reaches the       *)
(* ladder, in either front: not when only the client's own hello names it,  *)
(* nor when the reverse table names the flow after another host.  And the   *)
(* script the browsers fetch sends round dpb only names that are excluded.  *)
ExclusionHolds ==
  \A c \in Conns :
    /\ f[c].laddered => ~Excluded(job[c].policy, f[c].host, job[c].addr)
    /\ f[c].laddered /\ f[c].whole /\ job[c].front = "tun" /\ job[c].sni # NoHost =>
         ~Excluded(job[c].policy, job[c].sni, job[c].addr)
    /\ LET h == job[c].host
       IN (/\ h.form = "name" /\ Len(Normalize(h).labels) > 1
           /\ ~job[c].policy.suspended
           /\ FindProxyForURL(job[c].policy, h) = "DIRECT")
          => \E q \in BypassPatterns(job[c].policy) : Covers(q, h)

(* What the server counts is what runs, never more than the cap, and once   *)
(* the drain has seen the count at zero no flow runs ever again.            *)
DrainIsFinal ==
  /\ srv.active = Cardinality({c \in Conns : Running(c)})
  /\ Mode = "proxy" /\ MaxConns > 0 => srv.active <= MaxConns
  /\ srv.how = "waited" => \A c \in Conns : ~Running(c)

(* A client that keeps handing over its hello, each piece sooner than       *)
(* CompleteWait after the last, has it judged whole unless MaxAssembly is   *)
(* over: the bound on a pause is not a bound on the message.                *)
SteadyHelloIsWhole ==
  [][\A c \in Conns :
       (f[c].pc = "first" /\ f[c].first # <<>> /\ FirstTimeout(c))
         => \/ f[c].total >= MaxAssembly
            \/ e[c].client.lull >= CompleteWait
            \/ e[c].client.toread # <<>>]_vars

(* A relay one of whose directions failed, or whose server is shutting      *)
(* down, ends: whether the other direction is between its reads, in a read  *)
(* or wedged in a write to a peer that has stopped reading.                 *)
RelayEnds ==
  \A c \in Conns :
    (f[c].pc = "pipe" /\ (f[c].forced \/ srv.cancelled)) ~> (f[c].pc = "done")

=============================================================================

---------------------------- MODULE UdpSessions ----------------------------
(***************************************************************************)
(* Datagrams through the two front ends: a SOCKS5 UDP association          *)
(* (proxyfe/socks5udp.go), whose one reader serves every client port and   *)
(* every destination, and the tunnel's forwarder (tunfe/udp.go, dns.go),   *)
(* which gives every four-tuple a goroutine.  Both ask the QUIC policy,    *)
(* answer DNS inside the process and send a first datagram through         *)
(* flow/udpflow.go.                                                        *)
(*                                                                         *)
(* A deadline may expire whenever the code waits on it, and nothing        *)
(* obliges it to: a peer that keeps talking re-arms it for ever.           *)
(***************************************************************************)
EXTENDS Naturals, Sequences, FiniteSets

CONSTANTS
  Clients, Hosts,  \* client ports; destinations, "addr" an address as it is
  Jobs,     \* the workloads, each a record (see JobType)
  FlowIds   \* 1..n, n the most flows a workload opens

(* What a datagram is.  "initial" and "initial2" are the Initials of QUIC  *)
(* versions 1 and 2; "retry" has a version 2 header with version 1's type  *)
(* number of an Initial; the last three a SOCKS header nobody relays.      *)
Kinds == {"query", "initial", "initial2", "retry", "data", "fragment", "truncated", "nowhere"}
Initial(d) == d.kind \in {"initial", "initial2"}
Failures == {"bind", "resolve", "dial", "emit", "write"}

Datagram == [from : Clients, host : Hosts, kind : Kinds]

(* front: which front end; quic: the policy; dns: a resolver is wired;     *)
(* max: the session cap; mine: the client ports that belong to the owner   *)
(* of the association; judged: the hosts the policy judges.                *)
JobType == [front : {"socks", "tun"}, quic : {"refuse", "relay", "desync"},
            dns : BOOLEAN, max : Nat, mine : SUBSET Clients, judged : SUBSET Hosts,
            inbox : Seq(Datagram), may : SUBSET Failures]

ASSUME UdpAssumption == Jobs \subseteq JobType

VARIABLES
  job,
  inbox,      \* datagrams the clients have still to send, in order
  reader,     \* the association's reader: [at, d, flow]
  table,      \* the association's sessions: key -> flow, 0 for none
  flows,      \* every upstream socket or tunnel session, oldest first
  ended,      \* the control connection ended, or the datapath was cancelled
  closed,     \* closeAll, or drain, has run
  refused     \* datagrams and sessions counted as refused

vars == <<job, inbox, reader, table, flows, ended, closed, refused>>

(* Ports: 53, 443, and anything else.                                      *)
Port(d) == CASE d.kind = "query" -> 53 [] d.kind = "nowhere" -> 0 [] OTHER -> 443

(* parseSOCKSUDP: no fragments, nothing cut short, a destination.          *)
Parsed(d) == d.kind \notin {"fragment", "truncated"} /\ Port(d) # 0

(* ParseQUICInitial: a long header, whole, of a version we know, with that *)
(* version's type number.                                                  *)
Header(d) ==
  CASE d.kind = "initial"  -> [long |-> TRUE,  version |-> 1, type |-> 0]
    [] d.kind = "initial2" -> [long |-> TRUE,  version |-> 2, type |-> 1]
    [] d.kind = "retry"    -> [long |-> TRUE,  version |-> 2, type |-> 0]
    [] OTHER               -> [long |-> FALSE, version |-> 0, type |-> 0]
ParseQUICInitial(d) ==
  LET h == Header(d) IN h.long /\ <<h.version, h.type>> \in {<<1, 0>>, <<2, 1>>}

\* (mutant of SessionKey: one socket per destination)
SessionKeyHost(d) == <<d.host, Port(d)>>
(* One session per client source and destination.                          *)
SessionKey(d) == <<d.from, d.host, Port(d)>>

NoDatagram == [from |-> "none", host |-> "none", kind |-> "nowhere"]
Keys(j)    == {SessionKey(j.inbox[i]) : i \in DOMAIN j.inbox}
Socks == job.front = "socks"
May(f) == f \in job.may
Judged(d) == d.host \in job.judged

(* A flow: its client port, the state of its goroutine, what waits to be   *)
(* read on its client side (tunnel only), which sockets are open, and what *)
(* its upstream socket carried: the sources, and decoys.                   *)
NewFlow(d, at, up) ==
  [key |-> SessionKey(d), to |-> d.from, at |-> at, queue |-> <<>>, client |-> TRUE,
   up |-> up, carried |-> {}, decoyed |-> FALSE, leaked |-> FALSE, late |-> FALSE]

TypeOK ==
  /\ job \in Jobs
  /\ reader.at \in {"bind", "read", "lookup", "dial", "insert", "send", "ended"}
  /\ \A k \in DOMAIN table : table[k] \in 0..Len(flows)
  /\ \A i \in DOMAIN flows :
       flows[i].at \in {"new", "pump", "closing", "dns", "first", "dial", "send", "relay", "done"}

Init ==
  /\ job \in Jobs
  /\ inbox = job.inbox
  /\ reader = [at |-> "bind", d |-> NoDatagram, flow |-> 0]
  /\ table = [k \in Keys(job) |-> 0]
  /\ flows = <<>>
  /\ ended = FALSE /\ closed = FALSE /\ refused = 0

-----------------------------------------------------------------------------
(* The policy, the same in both front ends.                                *)

(* Only an Initial to 443 for a name we judge is acted on.                 *)
QuicAction(d) ==
  IF job.quic = "relay" \/ Port(d) # 443 \/ ~Judged(d) \/ ~ParseQUICInitial(d) THEN "pass"
  ELSE IF job.quic = "desync" THEN "desync"
  ELSE "refuse"

(* What one datagram does to the flow whose socket it leaves by.  It leaks *)
(* if it is a query, or an Initial for a judged name that no decoy covers. *)
Carries(f, d, decoys) ==
  [f EXCEPT !.carried = @ \cup {d.from},
            !.decoyed = @ \/ decoys,
            !.leaked  = @ \/ (d.kind = "query" /\ (job.dns \/ ~Socks))
                          \/ (Initial(d) /\ Judged(d) /\ job.quic # "relay"
                                /\ ~(f.decoyed \/ decoys))]

\* (mutant of SendFirst: the first write does not look at the action)
SendFirstPlain(f, d) == Carries(f, d, FALSE)
(* SendFirstDatagram: through the strategy, or one plain write.            *)
SendFirst(f, d) == Carries(f, d, QuicAction(d) = "desync")

(* flow.SendFirstDatagram refuses what its transport cannot emit, and      *)
(* DialUDP a destination it has no route to in time.                       *)
SendFirstDatagramFails(d) == QuicAction(d) = "desync" /\ (ended \/ May("emit"))
DialUDPFails == ended \/ May("dial")

-----------------------------------------------------------------------------
(* The SOCKS5 association: one reader.                                     *)

ReaderAt(p) == Socks /\ reader.at = p
ReaderTo(p) == reader' = [at |-> p, d |-> NoDatagram, flow |-> 0]
(* serve looks at the context after each datagram.                         *)
BackToRead  == ReaderTo(IF ended THEN "ended" ELSE "read")
Refuse      == refused' = refused + 1

AcceptFrom(d) == d.from \in job.mine
Answered(d)   == d.kind = "query" /\ job.dns

(* serveUDPAssociate: bind the relay socket and tell the client its        *)
(* address, or refuse the association.                                     *)
Associate ==
  /\ ReaderAt("bind")
  /\ \/ ReaderTo("read")
     \/ May("bind") /\ ReaderTo("ended")
  /\ UNCHANGED <<job, inbox, table, flows, ended, closed, refused>>

(* handle: strangers, malformed datagrams, queries and refused Initials    *)
(* cost no socket.                                                         *)
Handle ==
  /\ ReaderAt("read") /\ inbox # <<>>
  /\ inbox' = Tail(inbox)
  /\ LET d == Head(inbox) IN
     \/ /\ ~AcceptFrom(d) \/ ~Parsed(d)
        /\ Refuse /\ BackToRead
     \/ /\ AcceptFrom(d) /\ Parsed(d) /\ Answered(d)
        /\ UNCHANGED refused /\ BackToRead
     \/ /\ AcceptFrom(d) /\ Parsed(d) /\ QuicAction(d) = "refuse"
        /\ Refuse /\ BackToRead
     \/ /\ AcceptFrom(d) /\ Parsed(d) /\ ~Answered(d) /\ QuicAction(d) # "refuse"
        /\ reader' = [at |-> "lookup", d |-> d, flow |-> 0]
        /\ UNCHANGED refused
  /\ UNCHANGED <<job, table, flows, ended, closed>>

Held == {k \in DOMAIN table : table[k] # 0}
Room == Cardinality(Held) < job.max

(* session, under the lock: a session that is there, no room, or a dial.   *)
Lookup ==
  /\ ReaderAt("lookup")
  /\ LET k == SessionKey(reader.d) IN
     \/ /\ ~closed /\ table[k] # 0
        /\ reader' = [reader EXCEPT !.at = "send", !.flow = table[k]]
        /\ UNCHANGED refused
     \/ /\ closed \/ (table[k] = 0 /\ ~Room)
        /\ BackToRead /\ Refuse
     \/ /\ ~closed /\ table[k] = 0 /\ Room
        /\ reader' = [reader EXCEPT !.at = "dial"]
        /\ UNCHANGED refused
  /\ UNCHANGED <<job, inbox, table, flows, ended, closed>>

(* resolveUDP: an address as it is, a name through the chain only.         *)
ResolveUDPFails(d) == d.host # "addr" /\ (ended \/ May("resolve"))

(* The lock is dropped for the resolution and the dial.                    *)
Dial ==
  /\ ReaderAt("dial")
  /\ \/ /\ ~ended
        /\ flows' = Append(flows, NewFlow(reader.d, "new", TRUE))
        /\ reader' = [reader EXCEPT !.at = "insert", !.flow = Len(flows) + 1]
        /\ UNCHANGED refused
     \/ /\ ResolveUDPFails(reader.d) \/ DialUDPFails
        /\ BackToRead /\ Refuse
        /\ UNCHANGED flows
  /\ UNCHANGED <<job, inbox, table, ended, closed>>

(* Under the lock again: closed meanwhile, or another socket in the table, *)
(* and the new socket is closed.                                           *)
Insert ==
  /\ ReaderAt("insert")
  /\ LET k == SessionKey(reader.d) IN
     IF closed \/ table[k] # 0
     THEN /\ flows' = [flows EXCEPT ![reader.flow].up = FALSE, ![reader.flow].at = "done"]
          /\ IF closed THEN BackToRead
             ELSE reader' = [reader EXCEPT !.at = "send", !.flow = table[k]]
          /\ UNCHANGED table
     ELSE /\ table' = [table EXCEPT ![k] = reader.flow]
          /\ reader' = [reader EXCEPT !.at = "send"]
          /\ flows' = [flows EXCEPT ![reader.flow].at = "pump"]
  /\ UNCHANGED <<job, inbox, ended, closed, refused>>

(* The table forgets a session only if it still is that session.           *)
Drop(k, i) == table' = IF table[k] = i THEN [table EXCEPT ![k] = 0] ELSE table

(* The datagram goes out, or - an Initial that could not be desynced, a    *)
(* socket closed by its pump, a failed write - the session is closed.      *)
Send ==
  /\ ReaderAt("send")
  /\ BackToRead
  /\ LET i == reader.flow
         f == flows[i]
         desync == QuicAction(reader.d) = "desync" IN
     \/ /\ f.up
        /\ flows' = [flows EXCEPT ![i] = SendFirst(f, reader.d)]
        /\ UNCHANGED <<table, refused>>
     \/ /\ ~f.up \/ May("write") \/ SendFirstDatagramFails(reader.d)
        /\ flows' = [flows EXCEPT ![i].up = FALSE]
        /\ Drop(SessionKey(reader.d), i)
        /\ refused' = refused + (IF desync THEN 1 ELSE 0)
  /\ UNCHANGED <<job, inbox, ended, closed>>

(* pump: it ends when it has been idle, or its socket was closed; it       *)
(* closes the socket, and only then takes the lock.                        *)
PumpEnds(i) ==
  /\ flows[i].at = "pump"
  /\ flows' = [flows EXCEPT ![i].at = "closing", ![i].up = FALSE]
  /\ UNCHANGED <<job, inbox, reader, table, ended, closed, refused>>

PumpForgets(i) ==
  /\ flows[i].at = "closing"
  /\ flows' = [flows EXCEPT ![i].at = "done"]
  /\ Drop(flows[i].key, i)
  /\ UNCHANGED <<job, inbox, reader, ended, closed, refused>>

(* The control connection has ended: the reader's socket is closed, the    *)
(* reader ends, and every session in the table is closed.                  *)
ReaderEnds ==
  /\ ReaderAt("read") /\ ended
  /\ ReaderTo("ended")
  /\ UNCHANGED <<job, inbox, table, flows, ended, closed, refused>>

CloseAll ==
  /\ ReaderAt("ended") /\ ~closed
  /\ closed' = TRUE
  /\ flows' = [i \in DOMAIN flows |->
                 IF \E k \in DOMAIN table : table[k] = i
                 THEN [flows[i] EXCEPT !.up = FALSE] ELSE flows[i]]
  /\ table' = [k \in DOMAIN table |-> 0]
  /\ UNCHANGED <<job, inbox, reader, ended, refused>>

(* The client hangs up, or the server shuts down; the datapath of a tunnel *)
(* is cancelled.                                                           *)
End ==
  /\ ~ended /\ ended' = TRUE
  /\ UNCHANGED <<job, inbox, reader, table, flows, closed, refused>>

Association ==
  \/ Associate \/ Handle \/ Lookup \/ Dial \/ Insert \/ Send \/ ReaderEnds \/ CloseAll

-----------------------------------------------------------------------------
(* The tunnel: the device's read loop, and a goroutine per four-tuple.     *)

Live(k) == {i \in DOMAIN flows : flows[i].key = k /\ flows[i].client}
Set(i, f) == flows' = [flows EXCEPT ![i] = f]
tunnelRest == <<job, reader, table, ended, closed>>

(* handleUDP, inline in the read loop: a datagram for an endpoint that is  *)
(* there waits on it; else an endpoint is made, and given back if drain    *)
(* has closed the counter.                                                 *)
Arrive ==
  /\ ~Socks /\ inbox # <<>>
  /\ inbox' = Tail(inbox)
  /\ LET d == Head(inbox)
         new == NewFlow(d, IF Port(d) = 53 THEN "dns" ELSE "first", FALSE) IN
     \/ \E i \in Live(SessionKey(d)) :
          /\ Set(i, [flows[i] EXCEPT !.queue = Append(@, d)])
          /\ UNCHANGED refused
     \/ /\ Live(SessionKey(d)) = {} /\ ~closed
        /\ flows' = Append(flows, [new EXCEPT !.queue = <<d>>])
        /\ UNCHANGED refused
     \/ /\ Live(SessionKey(d)) = {} /\ closed
        /\ Refuse /\ UNCHANGED flows
  /\ UNCHANGED tunnelRest

At(i, p) == ~Socks /\ flows[i].at = p
Finished(f) == [f EXCEPT !.at = "done", !.client = FALSE, !.up = FALSE, !.queue = <<>>]

(* serveDNSDatagrams: each query is answered here or, with no resolver,    *)
(* dropped; nothing is relayed.                                            *)
AnswerQuery(i) ==
  /\ At(i, "dns") /\ flows[i].queue # <<>> /\ flows[i].client
  /\ Set(i, IF job.dns THEN [flows[i] EXCEPT !.queue = Tail(@)] ELSE Finished(flows[i]))
  /\ UNCHANGED <<inbox, refused>> /\ UNCHANGED tunnelRest

(* serveUDP: the first datagram is judged - a refused Initial is answered  *)
(* with an ICMP unreachable - and a socket opened for it.                  *)
ServeFirst(i) ==
  /\ At(i, "first") /\ flows[i].queue # <<>> /\ flows[i].client
  /\ IF QuicAction(Head(flows[i].queue)) = "refuse"
     THEN Refuse /\ Set(i, Finished(flows[i]))
     ELSE UNCHANGED refused /\ Set(i, [flows[i] EXCEPT !.at = "dial"])
  /\ UNCHANGED inbox /\ UNCHANGED tunnelRest

DialFirst(i) ==
  /\ At(i, "dial")
  /\ \/ ~ended /\ Set(i, [flows[i] EXCEPT !.at = "send", !.up = TRUE])
     \/ DialUDPFails /\ Set(i, Finished(flows[i]))
  /\ UNCHANGED <<inbox, refused>> /\ UNCHANGED tunnelRest

(* An Initial that cannot be desynced is refused, not relayed plain.       *)
RelayFirst(i) ==
  /\ At(i, "send")
  /\ LET f == flows[i]
         d == Head(f.queue)
         desync == QuicAction(d) = "desync" IN
     \/ /\ Set(i, [SendFirst(f, d) EXCEPT !.at = "relay", !.queue = Tail(@)])
        /\ UNCHANGED refused
     \/ /\ May("write") \/ SendFirstDatagramFails(d)
        /\ Set(i, Finished(f))
        /\ refused' = refused + (IF desync THEN 1 ELSE 0)
  /\ UNCHANGED inbox /\ UNCHANGED tunnelRest

(* relayDatagrams: one datagram up, on the socket of the first.  Nobody    *)
(* judges it: an Initial here that no decoy covers is late.                *)
RelayUp(i) ==
  /\ At(i, "relay") /\ flows[i].queue # <<>> /\ flows[i].client
  /\ LET f == Carries(flows[i], Head(flows[i].queue), FALSE) IN
     Set(i, [f EXCEPT !.queue = Tail(@), !.leaked = flows[i].leaked,
                      !.late = flows[i].late \/ f.leaked])
  /\ UNCHANGED <<inbox, refused>> /\ UNCHANGED tunnelRest

(* Idle in one direction, whatever the other does: the reader of that      *)
(* direction ends and closes both ends.                                    *)
Idle(i) ==
  /\ At(i, flows[i].at) /\ flows[i].at \in {"dns", "first", "relay"}
  /\ Set(i, Finished(flows[i]))
  /\ UNCHANGED <<inbox, refused>> /\ UNCHANGED tunnelRest

\* (mutant of CloseOnCancel: the idle deadline is left to end the session)
CloseOnCancelNever(i) == FALSE /\ UNCHANGED vars
(* closeOnCancel closes the client's end; whoever reads it unwinds.        *)
CloseOnCancel(i) ==
  /\ ~Socks /\ ended /\ flows[i].client
  /\ Set(i, [flows[i] EXCEPT !.client = FALSE])
  /\ UNCHANGED <<inbox, refused>> /\ UNCHANGED tunnelRest

ReadFails(i) ==
  /\ At(i, flows[i].at) /\ flows[i].at \in {"dns", "first", "relay"} /\ ~flows[i].client
  /\ Set(i, Finished(flows[i]))
  /\ UNCHANGED <<inbox, refused>> /\ UNCHANGED tunnelRest

(* drain closes the counter: no session is started after it.               *)
Drain ==
  /\ ~Socks /\ ended /\ ~closed
  /\ closed' = TRUE
  /\ UNCHANGED <<job, inbox, reader, table, flows, ended, refused>>

Session(i) ==
  \/ AnswerQuery(i) \/ ServeFirst(i) \/ DialFirst(i) \/ RelayFirst(i) \/ RelayUp(i)
  \/ ReadFails(i)

Next ==
  \/ Association \/ Arrive \/ Drain \/ End
  \/ \E i \in DOMAIN flows :
       \/ PumpEnds(i) \/ PumpForgets(i)
       \/ Session(i) \/ Idle(i) \/ CloseOnCancel(i)

(* The goroutines run; a deadline on an open socket may be re-armed for    *)
(* ever.  A closed socket ends the read that waits on it.                  *)
Fairness ==
  /\ WF_vars(Association) /\ WF_vars(Drain)
  /\ \A i \in FlowIds :
       /\ WF_vars(i \in DOMAIN flows /\ ~flows[i].up /\ PumpEnds(i))
       /\ WF_vars(i \in DOMAIN flows /\ PumpForgets(i))
       /\ WF_vars(i \in DOMAIN flows /\ Session(i))
       /\ WF_vars(i \in DOMAIN flows /\ CloseOnCancel(i))

Spec == Init /\ [][Next]_vars /\ Fairness

-----------------------------------------------------------------------------
(* The properties.                                                         *)

(* No query leaves the process when a resolver can answer it, and no       *)
(* Initial for a judged name leaves without its decoys: what cannot be     *)
(* desynced is refused (udp.go QUICDesync: "Failure is refusal, never a    *)
(* plain relay"; socks5udp.go handle: "Fail closed").  The association     *)
(* judges every datagram; the tunnel the first of a session, so a second   *)
(* Initial on a relayed session is not claimed (late).                     *)
NothingLeaks == \A i \in DOMAIN flows : ~flows[i].leaked

(* An upstream socket carries one client port's datagrams, the port its    *)
(* answers go back to (socks5udp.go session: "each reply goes back to the  *)
(* port that asked").                                                      *)
RepliesGoHome == \A i \in DOMAIN flows : flows[i].carried \subseteq {flows[i].to}

(* Every socket is closed and every goroutine gone once the association's  *)
(* control connection or the datapath has ended, however busy the peers:   *)
(* no session escapes the table (closeAll, pump) and none waits for its    *)
(* idle deadline (udp.go closeOnCancel).                                   *)
SessionsEnd ==
  ended ~> (\A i \in DOMAIN flows : flows[i].at = "done" /\ ~flows[i].up)
=============================================================================

--------------------------- MODULE MCUdpSessions ---------------------------
(* UdpSessions on seven workloads of a few datagrams each.                 *)
EXTENDS UdpSessions

D(from, host, kind) == [from |-> from, host |-> host, kind |-> kind]
Job(front, quic, max, sent, may) ==
  [front |-> front, quic |-> quic, dns |-> TRUE, max |-> max,
   mine |-> {"p1", "p2"}, judged |-> {"blocked"}, inbox |-> sent, may |-> may]

TwoPorts == << D("p1", "open", "data"), D("p2", "open", "data"), D("p1", "open", "data"),
               D("p1", "blocked", "data"), D("p1", "open", "data") >>
Initials == << D("p1", "blocked", "initial"), D("p1", "blocked", "data"),
               D("p1", "blocked", "initial2"), D("p2", "open", "initial"),
               D("p1", "", "query") >>
Noise    == << D("x", "open", "data"), D("p1", "open", "fragment"), D("p1", "addr", "retry"), D("p1", "", "query"),
               D("p1", "blocked", "initial"), D("p1", "open", "data") >>

MCJobs == {
  Job("socks", "refuse", 2, TwoPorts, {"write"}),
  Job("socks", "desync", 3, Initials, {"emit", "resolve"}),
  Job("socks", "refuse", 1, Noise, {"bind", "dial"}),
  [Job("socks", "relay", 3, Initials, {}) EXCEPT !.dns = FALSE],
  Job("tun", "refuse", 9, Initials, {"dial"}),
  Job("tun", "desync", 9, Initials, {"emit"}),
  [Job("tun", "relay", 9, << D("p1", "", "query"), D("p1", "", "query"),
     D("p1", "blocked", "initial"), D("p1", "blocked", "data") >>, {"write"}) EXCEPT !.dns = FALSE]
}
MCClients == {"p1", "p2", "x"}
MCHosts   == {"open", "blocked", "addr", ""}
MCFlowIds == 1..5
=============================================================================

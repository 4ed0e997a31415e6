----------------------------- MODULE MCSession -----------------------------
(* Small instances of Session: a few names, four-bit addresses, and the      *)
(* client and origin behaviours the front ends are written for.             *)
EXTENDS Session, TLC

Labels == {"", "www", "bank", "BANK", "evilbank", "site", "com", "home", "bank-u", "xn-bank"}
MCFolded == [l \in Labels |-> CASE l = "BANK" -> "bank" [] l = "bank-u" -> "xn-bank" [] OTHER -> l]
MCLowered == [l \in Labels |-> IF l = "BANK" THEN "bank" ELSE l]
MCBogons == << <<0, 0>>, <<0, 1, 0>>, <<1, 1, 0, 0>> >>
MCLoopback == <<0, 0>>
MCV6 == <<1, 1>>

bank == Named(<<"bank", "com">>)
wwwbank == Named(<<"www", "bank", "com">>)
evil == Named(<<"evilbank", "com">>)
shouted == Named(<<"www", "BANK", "com", "">>)
site == Named(<<"site", "com">>)
public == <<1, 0, 1, 1>>
private == <<0, 1, 0, 1>>
office == <<1, 0, 0, 1>>

Pat(mark, host) == [mark |-> mark, host |-> host]
Policy == [mandatory |-> <<Pat("", bank)>>,
           bypass |-> <<Pat("=", site), Pat("", Literal(<<1, 0, 0>>)), Pat("*.", Named(<<"bank-u", "com">>))>>,
           include |-> <<>>, inspect |-> {443}, suspended |-> FALSE, cache |-> <<>>]
Chosen == [Policy EXCEPT !.include = <<Pat("", wwwbank), Pat("", evil)>>]
Nothing == [Policy EXCEPT !.bypass = <<>>]
Learned == [Nothing EXCEPT !.cache = evil :> "desync" @@ site :> "plain"]

Item(seg, need) == [seg |-> seg, need |-> need]
Ask == <<Item(1, 0)>>
Hello == <<Item(1, 0), Item(2, 0)>>
Plain == [arrives |-> TRUE, front |-> "proxy", proto |-> "connect", request |-> "ok",
         host |-> evil, addr |-> public, port |-> 443, sni |-> NoHost, answered |-> <<>>,
         policy |-> Nothing, requests |-> <<>>, hello |-> 1,
         client |-> Ask, origin |-> <<Item(1, 1)>>, fin |-> [client |-> 1, origin |-> 1],
         stalls |-> {}, resets |-> {}, shutdown |-> FALSE, idle |-> FALSE]
Absent == [Plain EXCEPT !.arrives = FALSE]
On(o) == o @@ Plain

Req(host, origin, replies, close) ==
  [host |-> host, origin |-> origin, body |-> TRUE, replies |-> replies, close |-> close]

(* One connection: every protocol, and every way its peers may behave.      *)
Singles ==
  { On([hello |-> 2, client |-> Hello, origin |-> <<Item(1, 2)>>, fin |-> [origin |-> 2]]),
    On([origin |-> <<Item(1, 1), Item(2, 1)>>, fin |-> [origin |-> 1],
        idle |-> TRUE, shutdown |-> TRUE]),
    On([client |-> <<Item(1, 1)>>, origin |-> <<Item(1, 0), Item(2, 1)>>, host |-> site,
        policy |-> Learned, stalls |-> {"client"}, shutdown |-> TRUE]),
    On([client |-> <<Item(1, 1)>>, origin |-> <<Item(1, 0), Item(2, 1)>>,
        fin |-> [client |-> 2, origin |-> 2]]),
    On([client |-> Hello, origin |-> <<Item(1, 3)>>, fin |-> [client |-> 0, origin |-> 2],
        proto |-> "socks", host |-> Literal(office), addr |-> office,
        policy |-> Policy, resets |-> {"origin"}]),
    On([client |-> Hello, origin |-> <<Item(1, 3)>>, fin |-> [client |-> 0, origin |-> 2],
        host |-> Literal(office), addr |-> office, proto |-> "socks"]),
    On([hello |-> 2, fin |-> [client |-> 0]]),   \* gives up inside its hello
    On([host |-> shouted, stalls |-> {"client", "origin"}, resets |-> {"client"},
        shutdown |-> TRUE, policy |-> Policy]),
    On([host |-> wwwbank, policy |-> Chosen, shutdown |-> TRUE]),
    On([host |-> Named(<<"bank-u", "com">>), policy |-> Policy]),
    On([host |-> Named(<<"www", "bank-u", "com">>), policy |-> Chosen]),
    On([host |-> evil, policy |-> Chosen, proto |-> "socks", stalls |-> {"origin"}, shutdown |-> TRUE]),
    On([host |-> Literal(private), addr |-> private]),
    On([proto |-> "local", client |-> <<>>, origin |-> <<>>]),
    On([proto |-> "silent", client |-> <<>>, origin |-> <<>>, shutdown |-> TRUE]),
    On([proto |-> "http", port |-> 443, client |-> Ask, origin |-> <<Item(1, 1)>>,
        requests |-> <<Req(evil, "one", <<"final">>, FALSE), Req(site, "two", <<"final">>, FALSE),
                       Req(bank, "three", <<"upgrade">>, FALSE)>>, policy |-> Policy]),
    On([proto |-> "http", client |-> <<>>, origin |-> <<>>, shutdown |-> TRUE,
        requests |-> <<Req(evil, "one", <<"interim", "final">>, FALSE),
                       Req(site, "two", <<"final">>, TRUE)>>]),
    On([proto |-> "http", client |-> <<>>, origin |-> <<>>,
        requests |-> <<Req(evil, "one", <<"final">>, FALSE), Req(site, "two", <<>>, TRUE)>>]) }

OnTun(o) == o @@ [Plain EXCEPT !.front = "tun"]
Tunnels ==
  { OnTun([sni |-> shouted, policy |-> Policy, hello |-> 2, client |-> Hello \o <<Item(3, 0)>>,
           origin |-> <<Item(1, 3)>>, fin |-> [client |-> 1, origin |-> 4],
           answered |-> <<[name |-> bank, addrs |-> <<public>>], [name |-> evil, addrs |-> <<office, public>>]>>]),
    OnTun([sni |-> evil, policy |-> Policy, hello |-> 3,
           client |-> Hello \o <<Item(3, 0)>>, origin |-> <<Item(1, 3)>>,
           answered |-> <<[name |-> evil, addrs |-> <<public>>], [name |-> site, addrs |-> <<office>>],
                          [name |-> bank, addrs |-> <<private>>]>>]),
    OnTun([sni |-> site, addr |-> private, shutdown |-> TRUE]),
    OnTun([sni |-> bank, policy |-> Learned, addr |-> public, shutdown |-> TRUE]) }

(* A flow nobody says anything on: only a shutdown ends it.                 *)
Quiet == [policy |-> [Nothing EXCEPT !.suspended = TRUE], shutdown |-> TRUE,
          client |-> <<>>, origin |-> <<>>, fin |-> <<>>]

Pair(a, b) == LET one == CHOOSE c \in Conns : TRUE
              IN [c \in Conns |-> IF c = one THEN a ELSE b]

MCJobs ==
  {Pair(a, Absent) : a \in Singles}
  \cup {Pair(a, [Absent EXCEPT !.front = "tun"]) : a \in Tunnels}
  \cup {Pair(On([client |-> <<>>, fin |-> [origin |-> 1], proto |-> "silent", shutdown |-> TRUE]),
              On([client |-> <<>>, fin |-> [origin |-> 1], proto |-> "local", shutdown |-> TRUE])),
         Pair(OnTun(Quiet), OnTun(Quiet))}
=============================================================================

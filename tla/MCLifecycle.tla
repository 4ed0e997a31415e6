---------------------------- MODULE MCLifecycle ----------------------------
(* Lifecycle on ten runs, each with a few of the things that can happen. *)
EXTENDS Lifecycle

Run(styles, tun, may) ==
  [styles |-> styles, tun |-> tun, v6 |-> FALSE, dns |-> FALSE, root |-> TRUE,
   dry |-> FALSE, vpn |-> FALSE, present |-> {}, flushes |-> {},
   may |-> may]

MCJobs == {
  \* proxy mode: every way to be told to stop, to be refused and to be killed
  Run({"pac", "explicit"}, FALSE,
      {"signal", "again", "kill", "panic", "refuse", "stuck", "listener"}),
  [Run({"pac", "env"}, FALSE, {"reapply", "signal", "kill", "refuse", "stuck", "listener"})
     EXCEPT !.flushes = {"autoproxy", "launchenv"}],
  \* the tunnel alone, with IPv6 and DNS
  [Run({}, TRUE, {"signal", "again", "kill", "refuse", "stuck", "nospawn", "datapath"})
     EXCEPT !.v6 = TRUE, !.dns = TRUE, !.present = {"scope4"}],
  [Run({}, TRUE, {"datapath", "vpn", "noopen", "stuck"}) EXCEPT !.v6 = TRUE],
  \* both halves, on one Manager
  [Run({"pac"}, TRUE, {"panic", "signal", "kill", "datapath", "stuck"})
     EXCEPT !.flushes = {"scope4", "cap4a"}],
  [Run({"pac"}, TRUE, {"reapply", "signal", "kill", "listener"})
     EXCEPT !.v6 = TRUE, !.flushes = {"autoproxy", "cap4b"}],
  \* refused before anything is changed
  [Run({"pac"}, TRUE, {}) EXCEPT !.root = FALSE],
  [Run({"pac"}, TRUE, {"signal"}) EXCEPT !.vpn = TRUE],
  Run({"pac"}, FALSE, {"held", "nojournal", "inuse", "nobuild", "nosocket", "panic", "kill"}),
  \* a dry run
  [Run({"pac"}, TRUE, {"signal", "panic"}) EXCEPT !.dry = TRUE]
}

=============================================================================

------------------------------- MODULE MCTune -------------------------------
(* Tune on twelve measurements of one or two blocked targets and a control.  *)
EXTENDS Tune

S(works, breaks, family, det, segs, lex) ==
  [works |-> works, breaks |-> breaks, builds |-> TRUE, family |-> family,
   det |-> det, margin |-> 0, segs |-> segs, lex |-> lex]
MCRegistry == [
  plain  |-> S(FALSE, {}, "plain", 1, 1, 1),
  frag   |-> S(TRUE, {"fragile"}, "frag", 1, 1, 5),
  frag2  |-> [S(TRUE, {"fragile"}, "frag", 1, 1, 6) EXCEPT !.margin = 3],
  chunk  |-> S(TRUE, {}, "chunk", 0, 4, 2),
  oob    |-> S(TRUE, {"control", "fragile"}, "oob", 1, 1, 4),
  split  |-> S(FALSE, {}, "split", 1, 2, 7),
  tiny   |-> [S(TRUE, {}, "chunk", 0, 9, 3) EXCEPT !.builds = FALSE]]

T_(host, kind, truth) == [host |-> host, kind |-> kind, truth |-> truth, pin |-> "origin"]
Sni == T_("b1", "blocked", "sni")
Open == T_("b2", "blocked", "open")
Ip == T_("b3", "blocked", "ip")
Fragile == T_("f1", "fragile", "open")
Control == T_("c1", "control", "open")

Job(targets, specs, reps, lost, outs, may) ==
  [cmd |-> "tune", force |-> FALSE, targets |-> targets, resolvers |-> <<"live", "clean">>,
   specs |-> specs, reps |-> reps, limit |-> 6, loss |-> lost, outages |-> outs, may |-> may]
Apply(targets, spec, force, lost) ==
  [Job(targets, <<"plain", spec>>, 0, lost, 0, {"crash"}) EXCEPT !.cmd = "apply", !.force = force]

\* One round of each strategy, that Ctrl-C may reach.
Interrupted == Job(<<Sni, [Sni EXCEPT !.host = "b4"], Control>>,
                   <<"plain", "frag", "oob">>, 1, 0, 0, {"interrupt"})

MCJobs == {
  Job(<<Sni, Fragile, Control>>, <<"plain", "oob", "chunk">>, 3, 0, 2, {}),
  Job(<<Sni, Open, Control>>, <<"plain", "split", "frag">>, 2, 1, 0, {}),
  Job(<<Sni, Control>>, <<"plain", "split", "tlspad", "tiny", "frag", "frag2">>, 3, 0, 1, {"budget", "crash", "diskfull"}),
  Job(<<Ip, Open, Control>>, <<"plain", "frag">>, 2, 1, 0, {"interrupt"}),
  Job(<<Ip>>, <<"plain", "frag">>, 2, 0, 0, {}),
  Interrupted,
  [Job(<<Sni, [Open EXCEPT !.pin = "sinkhole"]>>, <<"plain", "frag", "chunk">>, 1, 0, 1, {"interrupt"})
     EXCEPT !.resolvers = <<>>],
  [Job(<<Sni, Control>>, <<"plain", "frag">>, 2, 0, 0, {}) EXCEPT !.resolvers = <<"poisoned", "dead">>],
  Apply(<<Sni, Open, Control>>, "frag", FALSE, 1),
  Apply(<<Sni, Open, Control>>, "split", TRUE, 1),
  Apply(<<Sni, Control>>, "split", FALSE, 0),
  Apply(<<Open, Control>>, "frag", FALSE, 1)
}
=============================================================================

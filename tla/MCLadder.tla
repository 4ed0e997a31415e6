------------------------------ MODULE MCLadder ------------------------------
(* Values of Ladder's constants for TLC: two connections to one host, and *)
(* a configured ladder that does not begin with plain.                      *)
EXTENDS Ladder

CONSTANTS c1, c2, home, cafe

Two   == {c1, c2}
TwoNets == {home, cafe}

\* A record-splitting rung, which needs a whole ClientHello, and an urgent-byte
\* rung, which applies to anything and poisons the stream it is sent on.
MCSpecs   == {"plain", "frag", "oob"}
MCRisky   == {"oob"}
FragFirst == <<"frag", "oob", "plain">>
MCCached  == {"frag"}

\* A complete ClientHello; an idempotent request; one with side effects.
MCKinds      == {"hello", "get", "post"}
MCReplayable == {"hello", "get"}
MCApplies    == [k \in MCKinds |-> IF k = "hello" THEN MCSpecs ELSE {"plain", "oob"}]
=============================================================================

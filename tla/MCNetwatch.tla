----------------------------- MODULE MCNetwatch -----------------------------
(* Values of Netwatch's constants for TLC: a home network, a cafe that      *)
(* begins behind a portal, and a debounce capped after one extension.       *)
EXTENDS Netwatch

CONSTANTS home, cafe

MCNets    == {home, cafe}
MCPortals == {cafe}
=============================================================================

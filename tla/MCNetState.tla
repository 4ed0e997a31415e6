----------------------------- MODULE MCNetState -----------------------------
(* Values of NetState's constants for TLC.  Two runs, one after the other; a *)
(* repairer; the system proxy of one service; one route.                     *)
EXTENDS NetState, TLC

CONSTANTS run1, run2, fixer, svc1, corp, mitm, self1, self2

MCRuns      == {run1, run2}
MCRepairers == {fixer}
MCServices  == {svc1}
MCPrimary   == svc1
MCAbsolute  == {"proxy"}
MCAdoptable == {"route"}
MCUserVals  == {corp}
MCLoopback  == {mitm}
MCListener  == [p \in MCRuns |-> IF p = run1 THEN self1 ELSE self2]

\* The two runs are interchangeable, each together with its listener.
Symmetry ==
    {f \in Permutations(MCRuns \cup {self1, self2}) :
        \A p \in MCRuns : f[p] \in MCRuns /\ f[MCListener[p]] = MCListener[f[p]]}
=============================================================================

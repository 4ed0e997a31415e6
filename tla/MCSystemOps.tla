----------------------------- MODULE MCSystemOps -----------------------------
(* Values of SystemOps' constants for TLC.                                   *)
EXTENDS SystemOps

Both == {"wifi", "ethernet"}
One  == {"wifi"}

\* Every kind from every start that tells it something, but for the one that
\* the code does not recover from.
MCWorkloads ==
    {<<"pac", "fresh", {}>>, <<"pac", "fresh", Both>>, <<"pac", "residue", Both>>,
     <<"pac", "elsewhere", One>>, <<"web", "fresh", One>>, <<"web", "residue", One>>,
     <<"dns", "fresh", Both>>, <<"dns", "elsewhere", One>>}
    \cup ({"env", "pacfile"} \X {"fresh", "residue", "elsewhere"} \X {{}})
    \cup ({"route", "ifconfig"} \X {"fresh", "residue"} \X {{}})
DnsResidue  == {<<"dns", "residue", Both>>}
=============================================================================

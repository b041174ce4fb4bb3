------------------------------ MODULE MCNetIdent ------------------------------
(***************************************************************************)
(* NetIdent for TLC: tasks, workloads, socks and peers are                 *)
(* interchangeable.                                                        *)
(***************************************************************************)
EXTENDS NetIdent, TLC

Symmetry ==
    Permutations(Tasks) \cup Permutations(Workloads) \cup Permutations(Socks)
    \cup Permutations(Peers)
=============================================================================

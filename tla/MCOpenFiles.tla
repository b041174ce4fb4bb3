----------------------------- MODULE MCOpenFiles -----------------------------
(***************************************************************************)
(* OpenFiles for TLC: files, elements and CPUs are interchangeable.        *)
(***************************************************************************)
EXTENDS OpenFiles, TLC

Symmetry == Permutations(Files) \cup Permutations(Slots) \cup Permutations(Cpus)
=============================================================================

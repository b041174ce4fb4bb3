----------------------------- MODULE MCWorkspace -----------------------------
(***************************************************************************)
(* Workspace for TLC: two repositories that may be learned, three that may *)
(* not (a home directory, a system directory, one too near the root), a    *)
(* file in a repository and one beside it.                                 *)
(***************************************************************************)
EXTENDS Workspace, TLC

MCPaths == {
    <<"home", "ann", "app", ".git", "HEAD">>,
    <<"home", "ann", ".git", "HEAD">>,
    <<"etc", "deep", ".git", "HEAD">>,
    <<"srv", ".git", "HEAD">>,
    <<"srv", "app", ".git", "HEAD">>,
    <<"home", "ann", "app", "src">>,
    <<"home", "bob", "src">>}

Symmetry == Permutations(Cpus) \cup Permutations(Ids) \cup Permutations(Slots)
=============================================================================

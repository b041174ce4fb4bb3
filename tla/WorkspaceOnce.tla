---------------------------- MODULE WorkspaceOnce ----------------------------
(***************************************************************************)
(* What the workspace of an identity promises (bpf/mon_files.bpf.c:82-85,  *)
(* 148, 526-530): a register that is set once.                             *)
(*                                                                         *)
(* The first call that opens the HEAD of a repository that may be learned  *)
(* sets the root of its workload, in one step.  Every call answers with    *)
(* the root if its path lies under it; a call that began before the root   *)
(* was set may miss it.                                                    *)
(***************************************************************************)
EXTENDS Naturals, Sequences

CONSTANTS
    Cpus, Ids, Paths,
    RepoOf,    \* the repository of each HEAD path that may be learned
    None       \* no root; no call; no verdict

VARIABLES
    root,      \* the root of each workload
    call,      \* the call of each CPU
    verdict    \* what its latest call answered

vars == <<root, call, verdict>>

Within(p, d) == Len(p) > Len(d) /\ SubSeq(p, 1, Len(d)) = d

Init ==
    /\ root = [id \in Ids |-> None]
    /\ call = [c \in Cpus |-> None]
    /\ verdict = [c \in Cpus |-> None]

\* late: the call may miss a root that is set while it runs.
Begin(c) ==
    /\ call[c] = None
    /\ call'[c] \in [id : Ids, path : Paths, late : BOOLEAN]
    /\ call'[c].late => root[call'[c].id] = None
    /\ call' = [call EXCEPT ![c] = call'[c]]
    /\ verdict' = [verdict EXCEPT ![c] = None]
    /\ UNCHANGED root

Learn(c) ==
    /\ call[c] # None /\ call[c].path \in DOMAIN RepoOf
    /\ root[call[c].id] = None
    /\ root' = [root EXCEPT ![call[c].id] = RepoOf[call[c].path]]
    /\ call' = [call EXCEPT ![c].late = FALSE]
    /\ UNCHANGED verdict

Answer(c, id, p, d) ==
    /\ verdict' = [verdict EXCEPT ![c] = [id |-> id, path |-> p, ws |-> d]]
    /\ call' = [call EXCEPT ![c] = None]
    /\ UNCHANGED root

End(c) ==
    LET k == call[c]
        d == root[k.id]
    IN
    /\ k # None
    /\ \/ Answer(c, k.id, k.path, IF d # None /\ Within(k.path, d) THEN d ELSE None)
       \/ k.late /\ Answer(c, k.id, k.path, None)

\* A call without a root to be found or set.
Miss(c) ==
    /\ call[c] = None
    /\ verdict'[c] \in [id : Ids, path : Paths \ DOMAIN RepoOf, ws : {None}]
    /\ root[verdict'[c].id] = None
    /\ verdict' = [verdict EXCEPT ![c] = verdict'[c]]
    /\ UNCHANGED <<root, call>>

Next == \E c \in Cpus : Begin(c) \/ Learn(c) \/ End(c) \/ Miss(c)

Spec == Init /\ [][Next]_vars
=============================================================================

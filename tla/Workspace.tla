------------------------------ MODULE Workspace ------------------------------
(***************************************************************************)
(* The workspace of an identity (bpf/mon_files.bpf.c): the first           *)
(* repository whose .git/HEAD a task of the workload opens becomes the     *)
(* root under which the workload's files are classified as WS.             *)
(*                                                                         *)
(* file_open runs on every CPU at once and ws_roots has no lock: the CPU   *)
(* whose insert succeeds fills the element field by field, the others may  *)
(* read it meanwhile.  The map is an LRU hash: an insert into a full map   *)
(* recycles the element of another identity.                               *)
(*                                                                         *)
(* A path is the sequence of its components, the file name last; the byte  *)
(* compare of in_ws, with the root's trailing '/', is a compare of leading *)
(* components.  The first component has three letters or more.             *)
(***************************************************************************)
EXTENDS Naturals, Sequences, Roots

CONSTANTS
    Cpus,
    Ids,       \* workload ids
    NoId,      \* an element not in use
    Slots,     \* elements of ws_roots: max_entries
    Paths,     \* paths that tasks open
    NoOp       \* the CPU is not in ws_apply

ASSUME NoIdAssumption == NoId \notin Ids
ASSUME PathsAssumption == \A p \in Paths : p \in Seq(STRING) /\ Len(p) > 0

VARIABLES
    elem,     \* ws_roots: key, path, depth and len of each element
    op,       \* ws_apply on each CPU
    coded     \* root and depth of the path each CPU has classified

vars == <<elem, op, coded>>

Leading(p, n) == SubSeq(p, 1, IF n < Len(p) THEN n ELSE Len(p))

\* <dir>/.git/HEAD
IsHead(p) == Len(p) > 2 /\ p[Len(p) - 1] = ".git" /\ p[Len(p)] = "HEAD"
Dir(p) == Leading(p, Len(p) - 2)

\* A bug: home directories may be learned.
MayLearnHome(p) ==
    IsHead(p) /\ Len(p) >= 4 /\ RootOf(p[1]) \in {"HOME", "MNT", "TMP", "OTHER"}

\* ws_learn's guards: no root above /x/y, no home directory, no system root.
MayLearn(p) ==
    /\ IsHead(p)
    /\ Len(p) >= 4
    /\ p[1] = "home" => Len(p) >= 5
    /\ RootOf(p[1]) \in {"HOME", "MNT", "TMP", "OTHER"}

\* ws_zero under a key.
Blank(k) == [key |-> k, path |-> <<>>, depth |-> 0, len |-> 0]

SlotsOf(k) == {s \in Slots : elem[s].key = k}

Init ==
    /\ elem = [s \in Slots |-> Blank(NoId)]
    /\ op = [c \in Cpus |-> NoOp]
    /\ coded = [c \in Cpus |-> NoOp]

\* The classification of a path of the workload is over.
Code(c, id, p, root, depth) ==
    /\ coded' = [coded EXCEPT ![c] = [id |-> id, path |-> p, root |-> root, depth |-> depth]]
    /\ op' = [op EXCEPT ![c] = NoOp]

Plain(c, id, p) == Code(c, id, p, RootOf(p[1]), Len(p))

\* ws_apply looks the identity's root up.  With none, a path that is no
\* repository's HEAD, or of one that may not be learned, stays as it is.
Apply(c, id, p) ==
    /\ op[c] = NoOp
    /\ \/ \E s \in SlotsOf(id) :
             /\ op' = [op EXCEPT ![c] = [id |-> id, path |-> p, at |-> "len", slot |-> s]]
             /\ coded' = [coded EXCEPT ![c] = NoOp]
       \/ /\ SlotsOf(id) = {} /\ MayLearn(p)
          /\ \E s \in Slots :
                op' = [op EXCEPT ![c] = [id |-> id, path |-> p, at |-> "insert", slot |-> s]]
          /\ coded' = [coded EXCEPT ![c] = NoOp]
       \/ /\ SlotsOf(id) = {} /\ ~MayLearn(p)
          /\ Plain(c, id, p)
    /\ UNCHANGED elem

\* The element an insert may take: an unused one, else the one of another
\* identity.
Target == IF SlotsOf(NoId) # {} THEN SlotsOf(NoId) ELSE Slots

\* A bug: every insert takes an element of its own.
InsertTwice(c) ==
    LET o == op[c] IN
    /\ o # NoOp /\ o.at = "insert"
    /\ \E s \in Target : elem' = [elem EXCEPT ![s] = Blank(o.id)]
    /\ op' = [op EXCEPT ![c].at = "find"]
    /\ UNCHANGED coded

\* bpf_map_update_elem with BPF_NOEXIST: another CPU may have been first, and
\* then the path stays as it is.
Insert(c) ==
    LET o == op[c] IN
    /\ o # NoOp /\ o.at = "insert"
    /\ IF SlotsOf(o.id) # {}
       THEN Plain(c, o.id, o.path) /\ UNCHANGED elem
       ELSE \E s \in Target :
               /\ elem' = [elem EXCEPT ![s] = Blank(o.id)]
               /\ op' = [op EXCEPT ![c].at = "find"]
               /\ UNCHANGED coded

\* The lookup of the element just inserted.
Find(c) ==
    LET o == op[c] IN
    /\ o # NoOp /\ o.at = "find"
    /\ \/ \E s \in SlotsOf(o.id) :
             /\ op' = [op EXCEPT ![c].at = "fill_path", ![c].slot = s]
             /\ UNCHANGED coded
       \/ SlotsOf(o.id) = {} /\ Plain(c, o.id, o.path)
    /\ UNCHANGED elem

\* A bug: len is written with the path, before depth.
FillPathAndLen(c) ==
    LET o == op[c] IN
    /\ o # NoOp /\ o.at = "fill_path"
    /\ elem' = [elem EXCEPT ![o.slot].path = Dir(o.path), ![o.slot].len = Len(Dir(o.path))]
    /\ op' = [op EXCEPT ![c].at = "fill_depth"]
    /\ UNCHANGED coded

\* The fields are written in this order, len last.
FillPath(c) ==
    LET o == op[c] IN
    /\ o # NoOp /\ o.at = "fill_path"
    /\ elem' = [elem EXCEPT ![o.slot].path = Dir(o.path)]
    /\ op' = [op EXCEPT ![c].at = "fill_depth"]
    /\ UNCHANGED coded

FillDepth(c) ==
    LET o == op[c] IN
    /\ o # NoOp /\ o.at = "fill_depth"
    /\ elem' = [elem EXCEPT ![o.slot].depth = Len(o.path) - 2]
    /\ op' = [op EXCEPT ![c].at = "fill_len"]
    /\ UNCHANGED coded

FillLen(c) ==
    LET o == op[c] IN
    /\ o # NoOp /\ o.at = "fill_len"
    /\ elem' = [elem EXCEPT ![o.slot].len = Len(Dir(o.path))]
    /\ op' = [op EXCEPT ![c].at = "len"]
    /\ UNCHANGED coded

\* in_ws loads len first: 0 means that the root is being set.
LoadLen(c) ==
    LET o == op[c]
        n == elem[o.slot].len
    IN
    /\ o # NoOp /\ o.at = "len"
    /\ IF n = 0
       THEN Plain(c, o.id, o.path)
       ELSE /\ op' = [op EXCEPT ![c] = [id |-> o.id, path |-> o.path, at |-> "compare",
                                        slot |-> o.slot, len |-> n]]
            /\ UNCHANGED coded
    /\ UNCHANGED elem

\* The rest of in_ws, and ws_apply's reclassification.
Compare(c) ==
    LET o == op[c]
        ws == elem[o.slot]
    IN
    /\ o # NoOp /\ o.at = "compare"
    /\ IF Len(o.path) > o.len /\ Leading(o.path, o.len) = Leading(ws.path, o.len)
       THEN Code(c, o.id, o.path, "WS", Len(o.path) - ws.depth)
       ELSE Plain(c, o.id, o.path)
    /\ UNCHANGED elem

Next ==
    \/ \E c \in Cpus, id \in Ids, p \in Paths : Apply(c, id, p)
    \/ \E c \in Cpus :
          \/ Insert(c) \/ Find(c)
          \/ FillPath(c) \/ FillDepth(c) \/ FillLen(c)
          \/ LoadLen(c) \/ Compare(c)

Spec == Init /\ [][Next]_vars

-----------------------------------------------------------------------------
\* Properties.  They need a map that holds an element for every identity.

Op == [id : Ids, path : Paths, at : {"insert", "find", "fill_path", "fill_depth", "fill_len", "len"},
       slot : Slots]
ReadOp == [id : Ids, path : Paths, at : {"compare"}, slot : Slots, len : Nat \ {0}]

ASSUME NoOpAssumption ==
    /\ NoOp \notin Op \cup ReadOp
    /\ NoOp \notin [id : Ids, path : Paths, depth : Nat, root :
                       {"HOME", "USR", "VAR", "MNT", "ETC", "TMP", "PROC", "SYS", "OTHER", "WS"}]
    /\ NoOp \notin [id : Ids, path : Paths, late : BOOLEAN]
    /\ \A p \in Paths : MayLearn(p) => NoOp # Dir(p)

TypeOK ==
    /\ \A s \in Slots :
          /\ elem[s].key \in Ids \cup {NoId}
          /\ elem[s].depth \in Nat /\ elem[s].len \in {0, Len(elem[s].path)}
    /\ op \in [Cpus -> Op \cup ReadOp \cup {NoOp}]
    /\ \A s, t \in Slots : elem[s].key = elem[t].key /\ elem[s].key # NoId => s = t

\* No workspace takes in a system root, a whole home directory or the files
\* of two users (mon_files.bpf.c:526-530): two paths of one workload that are
\* both WS share at least two leading components, three below /home.
WsNarrow ==
    \A b, c \in Cpus :
        LET x == coded[b]
            y == coded[c]
            Ws(z) == z # NoOp /\ z.root = "WS"
        IN
        Ws(x) /\ Ws(y) /\ x.id = y.id =>
            LET k == IF x.path[1] = "home" THEN 3 ELSE 2 IN
            /\ Len(x.path) > k /\ Len(y.path) > k
            /\ Leading(x.path, k) = Leading(y.path, k)
            /\ RootOf(x.path[1]) \notin {"ETC", "VAR", "PROC", "SYS", "USR"}

\* The first repository wins, and is all a reader ever sees: filled field by
\* field under readers on other CPUs, the map behaves like a register that is
\* set in one step, once (mon_files.bpf.c:148, 530, 572).  What is coded WS
\* lies under that repository, its depth counted from there; what lies there
\* is coded WS unless the root was set while the hook ran.
RootSet(id) == \E s \in Slots : elem[s].key = id /\ elem[s].len > 0

Repos == [p \in {p \in Paths : MayLearn(p)} |-> Dir(p)]

Register == [id \in Ids |-> IF RootSet(id) THEN elem[CHOOSE s \in Slots : elem[s].key = id].path
                            ELSE NoOp]
Call == [c \in Cpus |-> IF op[c] = NoOp THEN NoOp
                        ELSE [id |-> op[c].id, path |-> op[c].path,
                              late |-> op[c].at \notin {"len", "compare"}]]
Verdict == [c \in Cpus |-> IF coded[c] = NoOp THEN NoOp
                           ELSE [id |-> coded[c].id, path |-> coded[c].path,
                                 ws |-> IF coded[c].root = "WS"
                                        THEN Leading(coded[c].path, Len(coded[c].path) - coded[c].depth)
                                        ELSE NoOp]]

Once == INSTANCE WorkspaceOnce WITH
    RepoOf <- Repos, None <- NoOp, root <- Register, call <- Call, verdict <- Verdict

ImplementsOnce == Once!Spec
=============================================================================

---------------------------- MODULE WorkspaceProofs ----------------------------
(***************************************************************************)
(* Workspace implements WorkspaceOnce, and no workspace is too wide, for   *)
(* every number of CPUs and workloads and all paths, as long as the map    *)
(* has an element for every workload (Room).                               *)
(*                                                                         *)
(* The argument: with room no element is recycled, so the slot a CPU has   *)
(* looked up stays its workload's; only one CPU fills an element, and len, *)
(* which is written last, tells the readers that path and depth are there. *)
(***************************************************************************)
EXTENDS Workspace, FiniteSetTheorems, SequenceTheorems, TLAPS

Room == IsFiniteSet(Slots) /\ IsFiniteSet(Ids) /\ Cardinality(Ids) <= Cardinality(Slots)

-----------------------------------------------------------------------------
\* Paths.

\* The first elements of a sequence.
LEMMA LeadingSeq ==
    ASSUME NEW S, NEW p \in Seq(S), NEW n \in Nat, n <= Len(p)
    PROVE  /\ Leading(p, n) = SubSeq(p, 1, n)
           /\ Leading(p, n) \in Seq(S) /\ Len(Leading(p, n)) = n
           /\ \A i \in 1 .. n : Leading(p, n)[i] = p[i]
  <1>1. Len(p) \in Nat
    BY LenProperties
  <1>2. Leading(p, n) = SubSeq(p, 1, n)
    BY <1>1 DEF Leading
  <1>3. /\ SubSeq(p, 1, n) \in Seq(S) /\ Len(SubSeq(p, 1, n)) = n
        /\ \A i \in 1 .. n : SubSeq(p, 1, n)[i] = p[i]
    BY <1>1, SubSeqProperties
  <1> QED  BY <1>2, <1>3

\* All of a sequence.
LEMMA LeadingAll ==
    ASSUME NEW S, NEW p \in Seq(S)
    PROVE  Leading(p, Len(p)) = p
  <1>1. Len(p) \in Nat
    BY LenProperties
  <1> DEFINE q == Leading(p, Len(p))
  <1>2. q \in Seq(S) /\ Len(q) = Len(p) /\ \A i \in 1 .. Len(p) : q[i] = p[i]
    BY <1>1, LeadingSeq
  <1> HIDE DEF q
  <1>3. q = p
    BY <1>2, SeqEqual
  <1> QED  BY <1>3 DEF q

\* What is common to the leading components of two paths is so for fewer of them.
LEMMA LeadingLess ==
    ASSUME NEW S, NEW p \in Seq(S), NEW q \in Seq(S), NEW n \in Nat, NEW k \in Nat,
           n <= Len(p), n <= Len(q), k <= n, Leading(p, n) = Leading(q, n)
    PROVE  Leading(p, k) = Leading(q, k)
  <1>1. k <= Len(p) /\ k <= Len(q)
    BY LenProperties
  <1>2. \A i \in 1 .. n : p[i] = q[i]
    BY LeadingSeq
  <1> DEFINE a == Leading(p, k)
             b == Leading(q, k)
  <1>3. /\ a \in Seq(S) /\ Len(a) = k /\ \A i \in 1 .. k : a[i] = p[i]
    BY <1>1, LeadingSeq
  <1>4. /\ b \in Seq(S) /\ Len(b) = k /\ \A i \in 1 .. k : b[i] = q[i]
    BY <1>1, LeadingSeq
  <1> HIDE DEF a, b
  <1>5. \A i \in 1 .. k : a[i] = b[i]
    BY <1>2, <1>3, <1>4
  <1>6. a = b
    BY <1>3, <1>4, <1>5, SeqEqual
  <1> QED  BY <1>6 DEF a, b

\* The repository of a path that may be learned.
LEMMA DirFacts ==
    ASSUME NEW p \in Paths, MayLearn(p)
    PROVE  /\ p \in Seq(STRING) /\ Len(p) \in Nat /\ Len(p) >= 4
           /\ p[1] = "home" => Len(p) >= 5
           /\ Dir(p) \in Seq(STRING) /\ Len(Dir(p)) = Len(p) - 2 /\ Dir(p)[1] = p[1]
           /\ RootOf(p[1]) \in {"HOME", "MNT", "TMP", "OTHER"}
  <1>1. p \in Seq(STRING) /\ Len(p) \in Nat
    BY PathsAssumption, LenProperties
  <1>2. Len(p) >= 4 /\ (p[1] = "home" => Len(p) >= 5) /\ RootOf(p[1]) \in {"HOME", "MNT", "TMP", "OTHER"}
    BY DEF MayLearn
  <1> DEFINE n == Len(p) - 2
  <1>3. n \in Nat /\ n <= Len(p) /\ 1 \in 1 .. n
    BY <1>1, <1>2
  <1> HIDE DEF n
  <1>4. Leading(p, n) \in Seq(STRING) /\ Len(Leading(p, n)) = n /\ Leading(p, n)[1] = p[1]
    BY <1>1, <1>3, LeadingSeq
  <1> QED  BY <1>1, <1>2, <1>4 DEF Dir, n

LEMMA RootNames ==
    ASSUME NEW x
    PROVE  RootOf(x) \in {"HOME", "USR", "VAR", "MNT", "ETC", "TMP", "PROC", "SYS", "OTHER"}
  BY DEF RootOf

-----------------------------------------------------------------------------
\* The invariant.

Fillers == {"find", "fill_path", "fill_depth", "fill_len"}

\* The element with the repository of p, complete.
Holds(e, p) ==
    /\ MayLearn(p) /\ e.path = Dir(p)
    /\ e.len = Len(p) - 2 /\ e.depth = Len(p) - 2

ElemOK ==
    /\ elem \in [Slots -> [key : Ids \cup {NoId}, path : {<<>>} \cup {Dir(p) : p \in Paths},
                           depth : Nat, len : Nat]]
    /\ \A s \in Slots : elem[s].len = 0 \/ \E p \in Paths : Holds(elem[s], p)
    /\ \A s \in Slots : elem[s].key = NoId => elem[s].len = 0
    /\ \A s, t \in Slots : elem[s].key = elem[t].key /\ elem[s].key # NoId => s = t

\* What a CPU in ws_apply relies on.
Right(o) ==
    /\ o.at \in {"len", "compare"} => elem[o.slot].key = o.id
    /\ o.at = "compare" => elem[o.slot].len = o.len
    /\ o.at \notin {"len", "compare"} => MayLearn(o.path)
    /\ o.at = "find" => \E s \in Slots : elem[s] = Blank(o.id)
    /\ o.at \in Fillers \ {"find"} => elem[o.slot].key = o.id /\ elem[o.slot].len = 0
    /\ o.at \in {"fill_depth", "fill_len"} => elem[o.slot].path = Dir(o.path)
    /\ o.at = "fill_len" => elem[o.slot].depth = Len(o.path) - 2

OpOK ==
    /\ op \in [Cpus -> Op \cup ReadOp \cup {NoOp}]
    /\ \A c \in Cpus : op[c] # NoOp => Right(op[c])

\* One CPU fills the element of a workload.
OneFiller ==
    \A b, c \in Cpus :
        /\ op[b] # NoOp /\ op[b].at \in Fillers
        /\ op[c] # NoOp /\ op[c].at \in Fillers
        /\ op[b].id = op[c].id
        => b = c

\* A path coded WS lies under the repository of its workload.
Under(z) ==
    \E s \in Slots, p \in Paths :
        /\ elem[s].key = z.id /\ elem[s].len > 0 /\ Holds(elem[s], p)
        /\ Len(z.path) > Len(p) - 2 /\ Leading(z.path, Len(p) - 2) = Dir(p)
        /\ z.depth = Len(z.path) - (Len(p) - 2)

Codes == [id : Ids, path : Paths, depth : Nat, root :
             {"HOME", "USR", "VAR", "MNT", "ETC", "TMP", "PROC", "SYS", "OTHER", "WS"}]

CodedOK ==
    /\ coded \in [Cpus -> Codes \cup {NoOp}]
    /\ \A c \in Cpus : coded[c] # NoOp /\ coded[c].root = "WS" => Under(coded[c])

Inv == ElemOK /\ OpOK /\ OneFiller /\ CodedOK

LEMMA InitInv == Init => Inv
  <1> SUFFICES ASSUME Init PROVE Inv
    OBVIOUS
  <1>1. ElemOK
    BY DEF Init, ElemOK, Blank
  <1>2. OpOK /\ OneFiller /\ CodedOK
    BY DEF Init, OpOK, OneFiller, CodedOK
  <1> QED  BY <1>1, <1>2 DEF Inv

\* What is known of a CPU in ws_apply.
LEMMA OpFacts ==
    ASSUME Inv, NEW c \in Cpus, op[c] # NoOp
    PROVE  /\ op[c] \in Op \cup ReadOp /\ Right(op[c])
           /\ op[c].id \in Ids /\ op[c].path \in Paths /\ op[c].slot \in Slots
           /\ op[c].at \in {"insert", "find", "fill_path", "fill_depth", "fill_len", "len", "compare"}
           /\ op[c].at = "compare" => op[c].len \in Nat \ {0}
           /\ op[c].id # NoId
  <1> PICK o : o = op[c]
    OBVIOUS
  <1>1. o \in Op \cup ReadOp /\ Right(o)
    BY DEF Inv, OpOK
  <1>2. /\ o.id \in Ids /\ o.path \in Paths /\ o.slot \in Slots
        /\ o.at \in {"insert", "find", "fill_path", "fill_depth", "fill_len", "len", "compare"}
        /\ o.at = "compare" => o.len \in Nat \ {0}
    BY <1>1 DEF Op, ReadOp
  <1> QED  BY <1>1, <1>2, NoIdAssumption

\* With room, a workload without an element finds one that is not in use.
LEMMA RoomLeft ==
    ASSUME Room, ElemOK, NEW id \in Ids, SlotsOf(id) = {}
    PROVE  SlotsOf(NoId) # {}
  <1> SUFFICES ASSUME SlotsOf(NoId) = {} PROVE FALSE
    OBVIOUS
  <1> DEFINE f == [s \in Slots |-> elem[s].key]
             T == Ids \ {id}
  <1>1. \A s \in Slots : elem[s].key \in T
    BY DEF ElemOK, SlotsOf
  <1>2. f \in [Slots -> T]
    BY <1>1
  <1>3. \A s, t \in Slots : f[s] = f[t] => s = t
    BY <1>1, NoIdAssumption DEF ElemOK
  <1>4. IsFiniteSet(T) /\ Cardinality(T) = Cardinality(Ids) - 1
    BY FS_RemoveElement DEF Room
  <1>5. Cardinality(Ids) \in Nat /\ Cardinality(Slots) \in Nat
    BY FS_CardinalityType DEF Room
  <1>6. Cardinality(T) < Cardinality(Slots)
    BY <1>4, <1>5 DEF Room
  <1> HIDE DEF f, T
  <1>7. \E s, t \in Slots : s # t /\ f[s] = f[t]
    BY <1>2, <1>4, <1>6, FS_PigeonHole DEF Room
  <1> QED  BY <1>3, <1>7

-----------------------------------------------------------------------------
\* The steps that leave the map alone.

LEMMA OpStep ==
    ASSUME Inv, UNCHANGED elem, NEW c \in Cpus,
           NEW o \in Op \cup ReadOp \cup {NoOp}, op' = [op EXCEPT ![c] = o],
           o # NoOp => Right(o),
           o # NoOp /\ o.at \in Fillers =>
               op[c] # NoOp /\ op[c].at \in Fillers /\ op[c].id = o.id,
           NEW z \in Codes \cup {NoOp},
           coded' = coded \/ coded' = [coded EXCEPT ![c] = z],
           z # NoOp /\ z.root = "WS" => Under(z)
    PROVE  Inv'
  <1>1. ElemOK'
    BY DEF Inv, ElemOK
  <1>2. /\ op'[c] = o /\ \A b \in Cpus : b # c => op'[b] = op[b]
        /\ op' \in [Cpus -> Op \cup ReadOp \cup {NoOp}]
    BY DEF Inv, OpOK
  <1>3. OpOK'
    <2> SUFFICES ASSUME NEW b \in Cpus, NEW q, q = op'[b], q # NoOp PROVE Right(q)'
      BY <1>2 DEF OpOK, Right
    <2>1. Right(q)
      BY <1>2 DEF Inv, OpOK
    <2> QED  BY <2>1 DEF Right
  <1>4. OneFiller'
    BY <1>2 DEF Inv, OneFiller
  <1>5. CodedOK'
    <2>1. coded' \in [Cpus -> Codes \cup {NoOp}]
      BY DEF Inv, CodedOK
    <2>2. ASSUME NEW b \in Cpus, NEW y, y = coded'[b], y # NoOp, y.root = "WS" PROVE Under(y)'
      <3>1. Under(y)
        BY <2>2 DEF Inv, CodedOK
      <3> QED  BY <3>1 DEF Under
    <2> QED  BY <2>1, <2>2 DEF CodedOK, Under
  <1> QED  BY <1>1, <1>3, <1>4, <1>5 DEF Inv

\* A path that stays as it is.
LEMMA PlainStep ==
    ASSUME Inv, UNCHANGED elem, NEW c \in Cpus, NEW id \in Ids, NEW p \in Paths, Plain(c, id, p)
    PROVE  Inv'
  <1> PICK z : z = [id |-> id, path |-> p, root |-> RootOf(p[1]), depth |-> Len(p)]
    OBVIOUS
  <1>1. Len(p) \in Nat
    BY PathsAssumption, LenProperties
  <1>2. z \in Codes /\ z.root # "WS"
    BY <1>1, RootNames DEF Codes
  <1>3. coded' = [coded EXCEPT ![c] = z] /\ op' = [op EXCEPT ![c] = NoOp]
    BY DEF Plain, Code
  <1> QED  BY <1>2, <1>3, OpStep

LEMMA ApplyInv ==
    ASSUME Inv, NEW c \in Cpus, NEW id \in Ids, NEW p \in Paths, Apply(c, id, p)
    PROVE  Inv'
  <1>0. elem' = elem
    BY DEF Apply
  <1>1. CASE \E s \in SlotsOf(id) :
               /\ op' = [op EXCEPT ![c] = [id |-> id, path |-> p, at |-> "len", slot |-> s]]
               /\ coded' = [coded EXCEPT ![c] = NoOp]
    <2> PICK s \in SlotsOf(id) :
               op' = [op EXCEPT ![c] = [id |-> id, path |-> p, at |-> "len", slot |-> s]]
      BY <1>1
    <2> PICK o : o = [id |-> id, path |-> p, at |-> "len", slot |-> s]
      OBVIOUS
    <2>1. o \in Op /\ Right(o) /\ o.at \notin Fillers
      BY DEF Op, Right, SlotsOf, Fillers
    <2>2. coded' = [coded EXCEPT ![c] = NoOp]
      BY <1>1
    <2> QED  BY <1>0, <2>1, <2>2, OpStep
  <1>2. CASE /\ SlotsOf(id) = {} /\ MayLearn(p)
             /\ \E s \in Slots :
                   op' = [op EXCEPT ![c] = [id |-> id, path |-> p, at |-> "insert", slot |-> s]]
             /\ coded' = [coded EXCEPT ![c] = NoOp]
    <2> PICK s \in Slots :
               op' = [op EXCEPT ![c] = [id |-> id, path |-> p, at |-> "insert", slot |-> s]]
      BY <1>2
    <2> PICK o : o = [id |-> id, path |-> p, at |-> "insert", slot |-> s]
      OBVIOUS
    <2>1. o \in Op /\ Right(o) /\ o.at \notin Fillers
      BY <1>2 DEF Op, Right, Fillers
    <2>2. coded' = [coded EXCEPT ![c] = NoOp]
      BY <1>2
    <2> QED  BY <1>0, <2>1, <2>2, OpStep
  <1>3. CASE SlotsOf(id) = {} /\ ~MayLearn(p) /\ Plain(c, id, p)
    BY <1>0, <1>3, PlainStep
  <1> QED  BY <1>1, <1>2, <1>3 DEF Apply

LEMMA FindInv == ASSUME Inv, NEW c \in Cpus, Find(c) PROVE Inv'
  <1> PICK o : o = op[c]
    OBVIOUS
  <1>0. /\ o # NoOp /\ o.at = "find" /\ elem' = elem
        /\ o \in Op /\ o.id \in Ids /\ o.path \in Paths /\ Right(o) /\ o.id # NoId
    BY OpFacts DEF Find, ReadOp
  <1>1. CASE \E s \in SlotsOf(o.id) :
               /\ op' = [op EXCEPT ![c].at = "fill_path", ![c].slot = s]
               /\ coded' = coded
    <2> PICK s \in SlotsOf(o.id) : op' = [op EXCEPT ![c].at = "fill_path", ![c].slot = s]
      BY <1>1
    <2> PICK n : n = [o EXCEPT !.at = "fill_path", !.slot = s]
      OBVIOUS
    <2>1. s \in Slots /\ elem[s].key = o.id
      BY DEF SlotsOf
    <2>2. /\ n \in Op /\ n.id = o.id /\ n.path = o.path /\ n.slot = s /\ n.at = "fill_path"
      BY <1>0, <2>1 DEF Op
    <2>3. op' = [op EXCEPT ![c] = n]
      BY DEF Inv, OpOK
    <2>4. elem[s].len = 0
      <3>1. PICK u \in Slots : elem[u] = Blank(o.id)
        BY <1>0 DEF Right
      <3>2. elem[u].key = o.id /\ elem[u].len = 0
        BY <3>1 DEF Blank
      <3>3. u = s
        BY <1>0, <2>1, <3>2 DEF Inv, ElemOK
      <3> QED  BY <3>2, <3>3
    <2>5. Right(n)
      BY <1>0, <2>1, <2>2, <2>4 DEF Right
    <2>6. /\ op[c] # NoOp /\ op[c].at \in Fillers /\ op[c].id = n.id
      BY <1>0, <2>2 DEF Fillers
    <2>7. coded' = coded
      BY <1>1
    <2>8. n \in Op \cup ReadOp \cup {NoOp} /\ NoOp \in Codes \cup {NoOp}
      BY <2>2
    <2> QED  BY <1>0, <2>3, <2>5, <2>6, <2>7, <2>8, OpStep
  <1>2. CASE SlotsOf(o.id) = {} /\ Plain(c, o.id, o.path)
    BY <1>0, <1>2, PlainStep
  <1> QED  BY <1>1, <1>2 DEF Find

LEMMA LoadLenInv == ASSUME Inv, NEW c \in Cpus, LoadLen(c) PROVE Inv'
  <1> PICK o : o = op[c]
    OBVIOUS
  <1>0. /\ o # NoOp /\ o.at = "len" /\ elem' = elem
        /\ o.id \in Ids /\ o.path \in Paths /\ o.slot \in Slots /\ Right(o)
    BY OpFacts DEF LoadLen
  <1>1. CASE elem[o.slot].len = 0
    <2>1. Plain(c, o.id, o.path)
      BY <1>1 DEF LoadLen
    <2> QED  BY <1>0, <2>1, PlainStep
  <1>2. CASE elem[o.slot].len # 0
    <2> PICK n : n = [id |-> o.id, path |-> o.path, at |-> "compare", slot |-> o.slot,
                      len |-> elem[o.slot].len]
      OBVIOUS
    <2>1. op' = [op EXCEPT ![c] = n] /\ coded' = coded
      BY <1>2 DEF LoadLen
    <2>2. elem[o.slot].len \in Nat
      BY <1>0 DEF Inv, ElemOK
    <2>3. n \in ReadOp /\ n.at \notin Fillers
      BY <1>0, <1>2, <2>2 DEF ReadOp, Fillers
    <2>4. Right(n)
      BY <1>0 DEF Right, Fillers
    <2> QED  BY <1>0, <2>1, <2>3, <2>4, OpStep
  <1> QED  BY <1>1, <1>2

\* What Compare finds in a complete element, for a path and a number of components.
LEMMA CompareFacts ==
    ASSUME Inv, NEW c \in Cpus, Compare(c)
    PROVE  /\ op[c] # NoOp /\ op[c].at = "compare" /\ elem' = elem
           /\ op[c].id \in Ids /\ op[c].path \in Paths /\ op[c].slot \in Slots
           /\ elem[op[c].slot].key = op[c].id /\ elem[op[c].slot].len > 0
           /\ \E p \in Paths :
                 /\ Holds(elem[op[c].slot], p) /\ op[c].len = Len(p) - 2
                 /\ Leading(elem[op[c].slot].path, op[c].len) = Dir(p)
  <1> PICK o : o = op[c]
    OBVIOUS
  <1>1. /\ o # NoOp /\ o.at = "compare" /\ elem' = elem
        /\ o.id \in Ids /\ o.path \in Paths /\ o.slot \in Slots /\ Right(o)
        /\ o.len \in Nat \ {0}
    BY OpFacts DEF Compare
  <1>2. elem[o.slot].key = o.id /\ elem[o.slot].len = o.len
    BY <1>1 DEF Right
  <1>3. elem[o.slot].len > 0 /\ elem[o.slot].len # 0
    BY <1>1, <1>2
  <1>4. PICK p \in Paths : Holds(elem[o.slot], p)
    BY <1>1, <1>3 DEF Inv, ElemOK
  <1>5. MayLearn(p) /\ elem[o.slot].path = Dir(p) /\ o.len = Len(p) - 2
    BY <1>2, <1>4 DEF Holds
  <1>6. Leading(Dir(p), Len(Dir(p))) = Dir(p) /\ Len(Dir(p)) = Len(p) - 2
    BY <1>5, DirFacts, LeadingAll
  <1> QED  BY <1>1, <1>2, <1>3, <1>4, <1>5, <1>6

LEMMA CompareInv == ASSUME Inv, NEW c \in Cpus, Compare(c) PROVE Inv'
  <1> PICK o : o = op[c]
    OBVIOUS
  <1> PICK ws : ws = elem[o.slot]
    OBVIOUS
  <1>0. /\ o # NoOp /\ o.at = "compare" /\ elem' = elem
        /\ o.id \in Ids /\ o.path \in Paths /\ o.slot \in Slots
        /\ ws.key = o.id /\ ws.len > 0
    BY CompareFacts
  <1>1. PICK p \in Paths : Holds(ws, p) /\ o.len = Len(p) - 2 /\ Leading(ws.path, o.len) = Dir(p)
    BY CompareFacts
  <1>2. Len(o.path) \in Nat
    BY <1>0, PathsAssumption, LenProperties
  <1>3. MayLearn(p) /\ ws.depth = Len(p) - 2 /\ Len(p) - 2 \in Nat
    <2>1. MayLearn(p) /\ ws.depth = Len(p) - 2
      BY <1>1 DEF Holds
    <2>2. Len(p) \in Nat /\ Len(p) >= 4
      BY <2>1, DirFacts
    <2> QED  BY <2>1, <2>2
  <1>4. CASE Len(o.path) > o.len /\ Leading(o.path, o.len) = Leading(ws.path, o.len)
    <2> PICK z : z = [id |-> o.id, path |-> o.path, root |-> "WS", depth |-> Len(o.path) - ws.depth]
      OBVIOUS
    <2>1. coded' = [coded EXCEPT ![c] = z] /\ op' = [op EXCEPT ![c] = NoOp]
      BY <1>4 DEF Compare, Code
    <2>2. Len(o.path) - ws.depth \in Nat
      BY <1>1, <1>2, <1>3, <1>4
    <2>3. z \in Codes
      BY <1>0, <2>2 DEF Codes
    <2>4. z.id = o.id /\ z.path = o.path /\ z.depth = Len(o.path) - ws.depth
      OBVIOUS
    <2>5. Under(z)
      BY <1>0, <1>1, <1>3, <1>4, <2>4 DEF Under
    <2> QED  BY <1>0, <2>1, <2>3, <2>5, OpStep
  <1>5. CASE ~(Len(o.path) > o.len /\ Leading(o.path, o.len) = Leading(ws.path, o.len))
    <2>1. Plain(c, o.id, o.path)
      BY <1>5 DEF Compare
    <2> QED  BY <1>0, <2>1, PlainStep
  <1> QED  BY <1>4, <1>5

-----------------------------------------------------------------------------
\* The steps that write the map.

\* A path coded WS stays under its repository: a complete element is not written again.
LEMMA UnderKept ==
    ASSUME Inv, NEW s \in Slots, elem[s].len = 0,
           \A t \in Slots : t # s => elem'[t] = elem[t],
           NEW z, Under(z)
    PROVE  Under(z)'
  <1> PICK t \in Slots, p \in Paths :
        /\ elem[t].key = z.id /\ elem[t].len > 0 /\ Holds(elem[t], p)
        /\ Len(z.path) > Len(p) - 2 /\ Leading(z.path, Len(p) - 2) = Dir(p)
        /\ z.depth = Len(z.path) - (Len(p) - 2)
    BY DEF Under
  <1>1. t # s
    OBVIOUS
  <1>2. elem'[t] = elem[t]
    BY <1>1
  <1>3. Holds(elem[t], p)' <=> Holds(elem'[t], p)
    BY DEF Holds
  <1> QED  BY <1>2, <1>3 DEF Under

\* A filler writes into its element.
LEMMA FillStep ==
    ASSUME Inv, NEW c \in Cpus, NEW o, o = op[c], o # NoOp, o.at \in Fillers \ {"find"},
           NEW e \in [key : Ids \cup {NoId}, path : {<<>>} \cup {Dir(p) : p \in Paths},
                      depth : Nat, len : Nat],
           elem' = [elem EXCEPT ![o.slot] = e], e.key = o.id,
           e.len = 0 \/ \E p \in Paths : Holds(e, p),
           NEW n \in Op, op' = [op EXCEPT ![c] = n],
           n.id = o.id, Right(n)', UNCHANGED coded
    PROVE  Inv'
  <1>1. /\ o.id \in Ids /\ o.slot \in Slots /\ o.id # NoId /\ Right(o)
    BY OpFacts
  <1>2. elem[o.slot].key = o.id /\ elem[o.slot].len = 0
    BY <1>1 DEF Right
  <1>3. elem'[o.slot] = e /\ \A t \in Slots : t # o.slot => elem'[t] = elem[t]
    BY <1>1 DEF Inv, ElemOK
  <1>4. ElemOK'
    <2>1. elem' \in [Slots -> [key : Ids \cup {NoId}, path : {<<>>} \cup {Dir(p) : p \in Paths},
                               depth : Nat, len : Nat]]
      BY <1>1 DEF Inv, ElemOK
    <2>2. \A s \in Slots : elem'[s].len = 0 \/ \E p \in Paths : Holds(elem'[s], p)
      BY <1>3 DEF Inv, ElemOK
    <2>3. \A s \in Slots : elem'[s].key = elem[s].key
      BY <1>2, <1>3
    <2>4. \A s \in Slots : elem'[s].key = NoId => elem'[s].len = 0
      BY <1>1, <1>2, <1>3, <2>3 DEF Inv, ElemOK
    <2>5. \A s, t \in Slots : elem'[s].key = elem'[t].key /\ elem'[s].key # NoId => s = t
      BY <2>3 DEF Inv, ElemOK
    <2> QED  BY <2>1, <2>2, <2>4, <2>5 DEF ElemOK, Holds
  <1>5. /\ op'[c] = n /\ \A b \in Cpus : b # c => op'[b] = op[b]
        /\ op' \in [Cpus -> Op \cup ReadOp \cup {NoOp}]
    BY DEF Inv, OpOK
  <1>6. OpOK'
    <2> SUFFICES ASSUME NEW b \in Cpus, NEW q, q = op'[b], q # NoOp, b # c PROVE Right(q)'
      BY <1>5 DEF OpOK, Right
    <2>1. q = op[b]
      BY <1>5
    <2>2. /\ Right(q) /\ q.slot \in Slots /\ q.id # NoId
          /\ q.at \in {"insert", "find", "fill_path", "fill_depth", "fill_len", "len", "compare"}
          /\ q.at = "compare" => q.len \in Nat \ {0}
      BY <2>1, OpFacts
    <2>3. ~(q.at \in Fillers /\ q.id = o.id)
      BY <2>1 DEF Inv, OneFiller
    <2>4. elem'[q.slot].key = elem[q.slot].key
      BY <1>2, <1>3, <2>2
    <2>5. q.at = "compare" => elem'[q.slot] = elem[q.slot]
      BY <1>2, <1>3, <2>2 DEF Right
    <2>6. q.at \in Fillers \ {"find"} => elem'[q.slot] = elem[q.slot]
      BY <1>2, <1>3, <2>2, <2>3 DEF Right
    <2>7. q.at = "find" => \E s \in Slots : elem'[s] = Blank(q.id)
      <3> SUFFICES ASSUME q.at = "find" PROVE \E s \in Slots : elem'[s] = Blank(q.id)
        OBVIOUS
      <3>1. PICK s \in Slots : elem[s] = Blank(q.id)
        BY <2>2 DEF Right
      <3>2. elem[s].key = q.id /\ q.id # o.id
        BY <2>3, <3>1 DEF Blank, Fillers
      <3>3. s # o.slot
        BY <1>2, <3>2
      <3> QED  BY <1>3, <3>1, <3>3
    <2> QED  BY <2>2, <2>4, <2>5, <2>6, <2>7 DEF Right, Fillers, Blank
  <1>7. OneFiller'
    <2>1. \A b \in Cpus : op'[b] # NoOp /\ op'[b].at \in Fillers =>
                op[b] # NoOp /\ op[b].at \in Fillers /\ op[b].id = op'[b].id
      BY <1>5 DEF Fillers
    <2> QED  BY <2>1 DEF Inv, OneFiller
  <1>8. CodedOK'
    <2>1. ASSUME NEW b \in Cpus, NEW z, z = coded[b], z # NoOp, z.root = "WS" PROVE Under(z)'
      <3>1. Under(z)
        BY <2>1 DEF Inv, CodedOK
      <3> QED  BY <1>1, <1>2, <1>3, <3>1, UnderKept
    <2> QED  BY <2>1 DEF Inv, CodedOK, Under
  <1> QED  BY <1>4, <1>6, <1>7, <1>8 DEF Inv

LEMMA FillPathInv == ASSUME Inv, NEW c \in Cpus, FillPath(c) PROVE Inv'
  <1> PICK o : o = op[c]
    OBVIOUS
  <1>1. o # NoOp /\ o.at = "fill_path" /\ coded' = coded
    BY DEF FillPath
  <1>2. o \in Op /\ o.slot \in Slots /\ Right(o) /\ o.path \in Paths
    BY <1>1, OpFacts DEF ReadOp
  <1> PICK e : e = [elem[o.slot] EXCEPT !.path = Dir(o.path)]
    OBVIOUS
  <1> PICK n : n = [o EXCEPT !.at = "fill_depth"]
    OBVIOUS
  <1>3. /\ elem[o.slot] \in [key : Ids \cup {NoId}, path : {<<>>} \cup {Dir(p) : p \in Paths},
                             depth : Nat, len : Nat]
    BY <1>2 DEF Inv, ElemOK
  <1>4. elem[o.slot].key = o.id /\ elem[o.slot].len = 0 /\ MayLearn(o.path)
    BY <1>1, <1>2 DEF Right, Fillers
  <1>5. /\ e \in [key : Ids \cup {NoId}, path : {<<>>} \cup {Dir(p) : p \in Paths},
                  depth : Nat, len : Nat]
        /\ e.key = o.id /\ e.len = 0 /\ e.path = Dir(o.path)
    BY <1>2, <1>3, <1>4
  <1>6. /\ n \in Op /\ n.id = o.id /\ n.path = o.path /\ n.slot = o.slot /\ n.at = "fill_depth"
    BY <1>2 DEF Op
  <1>7. elem' = [elem EXCEPT ![o.slot] = e] /\ op' = [op EXCEPT ![c] = n]
    <2>1. elem' = [elem EXCEPT ![o.slot] = e]
      BY DEF FillPath, Inv, ElemOK
    <2>2. op' = [op EXCEPT ![c] = n]
      BY DEF FillPath, Inv, OpOK
    <2> QED  BY <2>1, <2>2
  <1>8. Right(n)'
    <2>1. elem'[o.slot] = e
      BY <1>2, <1>7 DEF Inv, ElemOK
    <2> QED  BY <1>4, <1>5, <1>6, <2>1 DEF Right
  <1> QED  BY <1>1, <1>5, <1>6, <1>7, <1>8, FillStep DEF Fillers

LEMMA FillDepthInv == ASSUME Inv, NEW c \in Cpus, FillDepth(c) PROVE Inv'
  <1> PICK o : o = op[c]
    OBVIOUS
  <1>1. o # NoOp /\ o.at = "fill_depth" /\ coded' = coded
    BY DEF FillDepth
  <1>2. o \in Op /\ o.slot \in Slots /\ Right(o) /\ o.path \in Paths
    BY <1>1, OpFacts DEF ReadOp
  <1>a. PICK d : d = Len(o.path) - 2
    OBVIOUS
  <1>b. PICK e : e = [elem[o.slot] EXCEPT !.depth = d]
    OBVIOUS
  <1> PICK n : n = [o EXCEPT !.at = "fill_len"]
    OBVIOUS
  <1>3. /\ elem[o.slot] \in [key : Ids \cup {NoId}, path : {<<>>} \cup {Dir(p) : p \in Paths},
                             depth : Nat, len : Nat]
    BY <1>2 DEF Inv, ElemOK
  <1>4. /\ elem[o.slot].key = o.id /\ elem[o.slot].len = 0 /\ MayLearn(o.path)
        /\ elem[o.slot].path = Dir(o.path)
    BY <1>1, <1>2 DEF Right, Fillers
  <1>d. d \in Nat
    BY <1>2, <1>4, <1>a, DirFacts
  <1>5. /\ e \in [key : Ids \cup {NoId}, path : {<<>>} \cup {Dir(p) : p \in Paths},
                  depth : Nat, len : Nat]
        /\ e.key = o.id /\ e.len = 0 /\ e.path = Dir(o.path) /\ e.depth = d
    BY <1>b, <1>d, <1>3, <1>4
  <1>6. /\ n \in Op /\ n.id = o.id /\ n.path = o.path /\ n.slot = o.slot /\ n.at = "fill_len"
    BY <1>2 DEF Op
  <1>7. elem' = [elem EXCEPT ![o.slot] = e] /\ op' = [op EXCEPT ![c] = n]
    <2>1. elem' = [elem EXCEPT ![o.slot] = e]
      BY <1>a, <1>b DEF FillDepth, Inv, ElemOK
    <2>2. op' = [op EXCEPT ![c] = n]
      BY DEF FillDepth, Inv, OpOK
    <2> QED  BY <2>1, <2>2
  <1>8. Right(n)'
    <2>1. elem'[o.slot] = e
      BY <1>2, <1>7 DEF Inv, ElemOK
    <2> QED  BY <1>a, <1>4, <1>5, <1>6, <2>1 DEF Right, Fillers
  <1>9. o.at \in Fillers \ {"find"} /\ (e.len = 0 \/ \E p \in Paths : Holds(e, p))
    BY <1>1, <1>5 DEF Fillers
  <1> QED  BY <1>1, <1>5, <1>6, <1>7, <1>8, <1>9, FillStep

LEMMA FillLenInv == ASSUME Inv, NEW c \in Cpus, FillLen(c) PROVE Inv'
  <1> PICK o : o = op[c]
    OBVIOUS
  <1>1. o # NoOp /\ o.at = "fill_len" /\ coded' = coded
    BY DEF FillLen
  <1>2. o \in Op /\ o.slot \in Slots /\ Right(o) /\ o.path \in Paths
    BY <1>1, OpFacts DEF ReadOp
  <1> PICK d : d = Len(Dir(o.path))
    OBVIOUS
  <1> PICK e : e = [elem[o.slot] EXCEPT !.len = d]
    OBVIOUS
  <1> PICK n : n = [o EXCEPT !.at = "len"]
    OBVIOUS
  <1>3. /\ elem[o.slot] \in [key : Ids \cup {NoId}, path : {<<>>} \cup {Dir(p) : p \in Paths},
                             depth : Nat, len : Nat]
    BY <1>2 DEF Inv, ElemOK
  <1>4. /\ elem[o.slot].key = o.id /\ MayLearn(o.path)
        /\ elem[o.slot].path = Dir(o.path) /\ elem[o.slot].depth = Len(o.path) - 2
    BY <1>1, <1>2 DEF Right, Fillers
  <1>d. d = Len(o.path) - 2 /\ d \in Nat
    BY <1>2, <1>4, DirFacts
  <1>5. /\ e \in [key : Ids \cup {NoId}, path : {<<>>} \cup {Dir(p) : p \in Paths},
                  depth : Nat, len : Nat]
        /\ e.key = o.id /\ Holds(e, o.path)
    BY <1>d, <1>3, <1>4 DEF Holds
  <1>6. /\ n \in Op /\ n.id = o.id /\ n.path = o.path /\ n.slot = o.slot /\ n.at = "len"
    BY <1>2 DEF Op
  <1>7. elem' = [elem EXCEPT ![o.slot] = e] /\ op' = [op EXCEPT ![c] = n]
    <2>1. elem' = [elem EXCEPT ![o.slot] = e]
      BY DEF FillLen, Inv, ElemOK
    <2>2. op' = [op EXCEPT ![c] = n]
      BY DEF FillLen, Inv, OpOK
    <2> QED  BY <2>1, <2>2
  <1>8. Right(n)'
    <2>1. elem'[o.slot] = e
      BY <1>2, <1>7 DEF Inv, ElemOK
    <2> QED  BY <1>5, <1>6, <2>1 DEF Right, Fillers
  <1>9. (\E p \in Paths : Holds(e, p)) /\ o.at \in Fillers \ {"find"}
    BY <1>1, <1>2, <1>5 DEF Fillers
  <1> QED  BY <1>1, <1>5, <1>6, <1>7, <1>8, <1>9, FillStep

LEMMA InsertInv == ASSUME Room, Inv, NEW c \in Cpus, Insert(c) PROVE Inv'
  <1> PICK o : o = op[c]
    OBVIOUS
  <1>1. /\ o # NoOp /\ o.at = "insert" /\ o \in Op /\ o.id \in Ids /\ o.path \in Paths
        /\ Right(o) /\ o.id # NoId
    BY OpFacts DEF Insert, ReadOp
  <1>2. CASE SlotsOf(o.id) # {}
    <2>1. Plain(c, o.id, o.path) /\ elem' = elem
      BY <1>2 DEF Insert
    <2> QED  BY <1>1, <2>1, PlainStep
  <1>3. CASE SlotsOf(o.id) = {}
    <2>1. SlotsOf(NoId) # {}
      BY <1>1, <1>3, RoomLeft DEF Inv
    <2>2. PICK s \in SlotsOf(NoId) :
            /\ elem' = [elem EXCEPT ![s] = Blank(o.id)]
            /\ op' = [op EXCEPT ![c].at = "find"] /\ coded' = coded
      BY <1>3, <2>1 DEF Insert, Target
    <2> PICK e : e = Blank(o.id)
      OBVIOUS
    <2> PICK n : n = [o EXCEPT !.at = "find"]
      OBVIOUS
    <2>3. s \in Slots /\ elem[s].key = NoId /\ elem[s].len = 0
      BY DEF SlotsOf, Inv, ElemOK
    <2>4. /\ e \in [key : Ids \cup {NoId}, path : {<<>>} \cup {Dir(p) : p \in Paths},
                    depth : Nat, len : Nat]
          /\ e.key = o.id /\ e.len = 0
      BY <1>1 DEF Blank
    <2>5. elem'[s] = e /\ \A t \in Slots : t # s => elem'[t] = elem[t]
      BY <2>2, <2>3 DEF Inv, ElemOK
    <2>6. \A t \in Slots : elem[t].key # o.id
      BY <1>3 DEF SlotsOf
    <2>7. /\ n \in Op /\ n.id = o.id /\ n.path = o.path /\ n.at = "find"
          /\ op' = [op EXCEPT ![c] = n]
      BY <1>1, <2>2 DEF Op, Inv, OpOK
    <2>8. ElemOK'
      <3>1. elem' \in [Slots -> [key : Ids \cup {NoId}, path : {<<>>} \cup {Dir(p) : p \in Paths},
                                 depth : Nat, len : Nat]]
        BY <2>2, <2>3, <2>4 DEF Inv, ElemOK
      <3>2. \A t \in Slots : elem'[t].len = 0 \/ \E p \in Paths : Holds(elem'[t], p)
        BY <2>4, <2>5 DEF Inv, ElemOK
      <3>3. \A t \in Slots : elem'[t].key = NoId => elem'[t].len = 0
        BY <2>4, <2>5 DEF Inv, ElemOK
      <3>4. \A t, u \in Slots : elem'[t].key = elem'[u].key /\ elem'[t].key # NoId => t = u
        BY <2>4, <2>5, <2>6 DEF Inv, ElemOK
      <3> QED  BY <3>1, <3>2, <3>3, <3>4 DEF ElemOK, Holds
    <2>9. /\ op'[c] = n /\ \A b \in Cpus : b # c => op'[b] = op[b]
          /\ op' \in [Cpus -> Op \cup ReadOp \cup {NoOp}]
      BY <2>7 DEF Inv, OpOK
    \* No CPU has another element of the workload, and none this one.
    <2>10. ASSUME NEW b \in Cpus, op[b] # NoOp, op[b].at \in Fillers PROVE op[b].id # o.id
      <3> PICK q : q = op[b]
        OBVIOUS
      <3>1. Right(q) /\ q.slot \in Slots
        BY <2>10, OpFacts
      <3>2. CASE q.at = "find"
        <4>1. PICK t \in Slots : elem[t] = Blank(q.id)
          BY <3>1, <3>2 DEF Right
        <4>2. elem[t].key = q.id
          BY <4>1 DEF Blank
        <4> QED  BY <2>6, <4>2
      <3>3. CASE q.at # "find"
        <4>1. elem[q.slot].key = q.id
          BY <2>10, <3>1, <3>3 DEF Right
        <4> QED  BY <2>6, <3>1, <4>1
      <3> QED  BY <3>2, <3>3
    <2>11. OpOK'
      <3> SUFFICES ASSUME NEW b \in Cpus, NEW q, q = op'[b], q # NoOp PROVE Right(q)'
        BY <2>9 DEF OpOK, Right
      <3>1. CASE b = c
        <4>1. q = n
          BY <2>9, <3>1
        <4>2. elem'[s] = Blank(q.id)
          BY <2>5, <2>7, <4>1
        <4>3. MayLearn(q.path)
          BY <1>1, <2>7, <4>1 DEF Right
        <4> QED  BY <2>3, <2>7, <4>1, <4>2, <4>3 DEF Right, Blank
      <3>2. CASE b # c
        <4>1. q = op[b]
          BY <2>9, <3>2
        <4>2. /\ Right(q) /\ q.slot \in Slots /\ q.id # NoId
              /\ q.at \in {"insert", "find", "fill_path", "fill_depth", "fill_len", "len", "compare"}
          BY <4>1, OpFacts
        <4>3. q.at \notin {"insert", "find"} => elem[q.slot].key = q.id
          BY <4>2 DEF Right, Fillers
        <4>4. q.at \notin {"insert", "find"} => elem'[q.slot] = elem[q.slot]
          BY <2>3, <2>5, <4>2, <4>3
        <4>5. q.at = "find" => \E t \in Slots : elem'[t] = Blank(q.id)
          <5> SUFFICES ASSUME q.at = "find" PROVE \E t \in Slots : elem'[t] = Blank(q.id)
            OBVIOUS
          <5>1. PICK t \in Slots : elem[t] = Blank(q.id)
            BY <4>2 DEF Right
          <5>2. t # s
            BY <2>3, <4>2, <5>1 DEF Blank
          <5> QED  BY <2>5, <5>1, <5>2
        <4> QED  BY <4>2, <4>4, <4>5 DEF Right, Fillers, Blank
      <3> QED  BY <3>1, <3>2
    <2>12. OneFiller'
      BY <2>7, <2>9, <2>10 DEF Inv, OneFiller
    <2>13. CodedOK'
      <3>1. ASSUME NEW b \in Cpus, NEW z, z = coded[b], z # NoOp, z.root = "WS" PROVE Under(z)'
        <4>1. Under(z)
          BY <3>1 DEF Inv, CodedOK
        <4> QED  BY <2>3, <2>5, <4>1, UnderKept
      <3> QED  BY <2>2, <3>1 DEF Inv, CodedOK, Under
    <2> QED  BY <2>8, <2>11, <2>12, <2>13 DEF Inv
  <1> QED  BY <1>2, <1>3

LEMMA NextInv == ASSUME Room, Inv, [Next]_vars PROVE Inv'
  <1>1. CASE \E c \in Cpus, id \in Ids, p \in Paths : Apply(c, id, p)
    BY <1>1, ApplyInv
  <1>2. CASE \E c \in Cpus : \/ Insert(c) \/ Find(c)
                             \/ FillPath(c) \/ FillDepth(c) \/ FillLen(c)
                             \/ LoadLen(c) \/ Compare(c)
    BY <1>2, InsertInv, FindInv, FillPathInv, FillDepthInv, FillLenInv, LoadLenInv, CompareInv
  <1>3. CASE UNCHANGED vars
    <2>1. ElemOK' /\ OneFiller'
      BY <1>3 DEF vars, Inv, ElemOK, Holds, OneFiller
    <2>2. OpOK'
      BY <1>3 DEF vars, Inv, OpOK, Right
    <2>3. CodedOK'
      BY <1>3 DEF vars, Inv, CodedOK, Under, Holds
    <2> QED  BY <2>1, <2>2, <2>3 DEF Inv
  <1> QED  BY <1>1, <1>2, <1>3 DEF Next

-----------------------------------------------------------------------------
\* The first of the two results.

LEMMA InvNarrow == Inv => WsNarrow
  <1> SUFFICES ASSUME Inv, NEW b \in Cpus, NEW c \in Cpus, NEW x, NEW y,
                      x = coded[b], y = coded[c], x # NoOp, y # NoOp,
                      x.root = "WS", y.root = "WS", x.id = y.id,
                      NEW k, k = IF x.path[1] = "home" THEN 3 ELSE 2
               PROVE  /\ Len(x.path) > k /\ Len(y.path) > k
                      /\ Leading(x.path, k) = Leading(y.path, k)
                      /\ RootOf(x.path[1]) \notin {"ETC", "VAR", "PROC", "SYS", "USR"}
    BY DEF WsNarrow
  <1>1. Under(x) /\ Under(y) /\ x \in Codes /\ y \in Codes
    BY DEF Inv, CodedOK
  <1>2. PICK s \in Slots, p \in Paths :
          /\ elem[s].key = x.id /\ elem[s].len > 0 /\ Holds(elem[s], p)
          /\ Len(x.path) > Len(p) - 2 /\ Leading(x.path, Len(p) - 2) = Dir(p)
    BY <1>1 DEF Under
  <1>3. PICK t \in Slots, q \in Paths :
          /\ elem[t].key = y.id /\ elem[t].len > 0 /\ Holds(elem[t], q)
          /\ Len(y.path) > Len(q) - 2 /\ Leading(y.path, Len(q) - 2) = Dir(q)
    BY <1>1 DEF Under
  <1>4. s = t
    <2>1. elem[s].key # NoId
      BY <1>1, <1>2, NoIdAssumption DEF Codes
    <2> QED  BY <1>2, <1>3, <2>1 DEF Inv, ElemOK
  <1>5. MayLearn(p) /\ MayLearn(q) /\ Dir(p) = Dir(q) /\ Len(p) - 2 = Len(q) - 2
    BY <1>2, <1>3, <1>4 DEF Holds
  <1> PICK n : n = Len(p) - 2
    OBVIOUS
  <1>6. /\ n \in Nat /\ n >= 2 /\ (p[1] = "home" => n >= 3) /\ Dir(p)[1] = p[1]
        /\ RootOf(p[1]) \in {"HOME", "MNT", "TMP", "OTHER"}
    BY <1>5, DirFacts
  <1>7. /\ x.path \in Seq(STRING) /\ y.path \in Seq(STRING)
        /\ Len(x.path) \in Nat /\ Len(y.path) \in Nat
    BY <1>1, PathsAssumption, LenProperties DEF Codes
  <1>8. /\ Len(x.path) > n /\ Len(y.path) > n /\ Leading(x.path, n) = Leading(y.path, n)
    BY <1>2, <1>3, <1>5
  <1>9. x.path[1] = p[1]
    <2>1. 1 \in 1 .. n /\ n <= Len(x.path)
      BY <1>6, <1>7, <1>8
    <2>2. Leading(x.path, n)[1] = x.path[1]
      BY <1>6, <1>7, <2>1, LeadingSeq
    <2> QED  BY <1>2, <1>6, <2>2
  <1>10. k \in Nat /\ k <= n
    BY <1>6, <1>9
  <1>11. Leading(x.path, k) = Leading(y.path, k)
    <2>1. n <= Len(x.path) /\ n <= Len(y.path)
      BY <1>6, <1>7, <1>8
    <2> QED  BY <1>6, <1>7, <1>8, <1>10, <2>1, LeadingLess
  <1>12. Len(x.path) > k /\ Len(y.path) > k
    BY <1>6, <1>7, <1>8, <1>10
  <1> QED  BY <1>6, <1>9, <1>11, <1>12

LEMMA SpecInv == ASSUME Room PROVE Spec => []Inv
  <1>1. Inv /\ [Next]_vars => Inv'
    BY NextInv
  <1> QED  BY InitInv, <1>1, PTL DEF Spec

\* With room for every workload, no workspace takes in a system root, a home directory or the
\* files of two users, whatever paths are opened on how many CPUs.
THEOREM NarrowWithRoom == ASSUME Room PROVE Spec => []WsNarrow
  <1>1. Spec => []Inv
    BY SpecInv
  <1> QED  BY <1>1, InvNarrow, PTL

\* Elements and calls keep their types, and no workload has two elements.
THEOREM TypeWithRoom == ASSUME Room PROVE Spec => []TypeOK
  <1>1. ASSUME Inv PROVE TypeOK
    <2>1. ASSUME NEW s \in Slots
          PROVE  /\ elem[s].key \in Ids \cup {NoId}
                 /\ elem[s].depth \in Nat /\ elem[s].len \in {0, Len(elem[s].path)}
      <3>1. elem[s].len = 0 \/ \E p \in Paths : Holds(elem[s], p)
        BY <1>1 DEF Inv, ElemOK
      <3>2. ASSUME NEW p \in Paths, Holds(elem[s], p) PROVE elem[s].len = Len(elem[s].path)
        <4>1. MayLearn(p) /\ elem[s].path = Dir(p) /\ elem[s].len = Len(p) - 2
          BY <3>2 DEF Holds
        <4> QED  BY <4>1, DirFacts
      <3> QED  BY <1>1, <3>1, <3>2 DEF Inv, ElemOK
    <2> QED  BY <1>1, <2>1 DEF Inv, ElemOK, OpOK, TypeOK
  <1> QED  BY <1>1, SpecInv, PTL

-----------------------------------------------------------------------------
\* The refinement: the register, the calls and the verdicts as functions of the state.

Reg(el, id) ==
    IF \E s \in Slots : el[s].key = id /\ el[s].len > 0
    THEN el[CHOOSE s \in Slots : el[s].key = id].path ELSE NoOp

CallOf(o) ==
    IF o = NoOp THEN NoOp
    ELSE [id |-> o.id, path |-> o.path, late |-> o.at \notin {"len", "compare"}]

VerdictOf(z) ==
    IF z = NoOp THEN NoOp
    ELSE [id |-> z.id, path |-> z.path,
          ws |-> IF z.root = "WS" THEN Leading(z.path, Len(z.path) - z.depth) ELSE NoOp]

\* A workload's one element tells its register.
LEMMA RegAt ==
    ASSUME NEW el, NEW id \in Ids,
           \A s, t \in Slots : el[s].key = el[t].key /\ el[s].key # NoId => s = t
    PROVE  /\ \A s \in Slots : el[s].key = id =>
                  Reg(el, id) = IF el[s].len > 0 THEN el[s].path ELSE NoOp
           /\ (\A s \in Slots : el[s].key # id) => Reg(el, id) = NoOp
  <1>1. ASSUME NEW s \in Slots, el[s].key = id
        PROVE  Reg(el, id) = IF el[s].len > 0 THEN el[s].path ELSE NoOp
    <2>1. \A t \in Slots : el[t].key = id => t = s
      BY <1>1, NoIdAssumption
    <2>2. (CHOOSE t \in Slots : el[t].key = id) = s
      BY <1>1, <2>1
    <2>3. (\E t \in Slots : el[t].key = id /\ el[t].len > 0) <=> el[s].len > 0
      BY <1>1, <2>1
    <2> QED  BY <2>2, <2>3 DEF Reg
  <1>2. (\A s \in Slots : el[s].key # id) => Reg(el, id) = NoOp
    BY DEF Reg
  <1> QED  BY <1>1, <1>2

LEMMA Views ==
    /\ Register = [id \in Ids |-> Reg(elem, id)] /\ Register' = [id \in Ids |-> Reg(elem', id)]
    /\ Call = [c \in Cpus |-> CallOf(op[c])] /\ Call' = [c \in Cpus |-> CallOf(op'[c])]
    /\ Verdict = [c \in Cpus |-> VerdictOf(coded[c])]
    /\ Verdict' = [c \in Cpus |-> VerdictOf(coded'[c])]
  BY DEF Register, RootSet, Reg, Call, CallOf, Verdict, VerdictOf

LEMMA CallStep ==
    ASSUME Inv, NEW c \in Cpus, NEW o, op' = [op EXCEPT ![c] = o]
    PROVE  Call' = [Call EXCEPT ![c] = CallOf(o)] /\ Call'[c] = CallOf(o)
  <1>1. op'[c] = o /\ \A b \in Cpus : b # c => op'[b] = op[b]
    BY DEF Inv, OpOK
  <1> HIDE DEF CallOf
  <1> QED  BY <1>1, Views

LEMMA VerdictStep ==
    ASSUME Inv, NEW c \in Cpus, NEW z, coded' = [coded EXCEPT ![c] = z]
    PROVE  Verdict' = [Verdict EXCEPT ![c] = VerdictOf(z)] /\ Verdict'[c] = VerdictOf(z)
  <1>1. coded'[c] = z /\ \A b \in Cpus : b # c => coded'[b] = coded[b]
    BY DEF Inv, CodedOK
  <1> QED  BY <1>1, Views

\* A call under way, as the register sees it.
LEMMA CallFacts ==
    ASSUME Inv, NEW c \in Cpus, NEW o, o = op[c], o # NoOp
    PROVE  /\ Call[c] = [id |-> o.id, path |-> o.path, late |-> o.at \notin {"len", "compare"}]
           /\ Call[c] # NoOp
  <1>1. o.id \in Ids /\ o.path \in Paths
    BY OpFacts
  <1>2. Call[c] = [id |-> o.id, path |-> o.path, late |-> o.at \notin {"len", "compare"}]
    BY Views DEF CallOf
  <1>3. Call[c] \in [id : Ids, path : Paths, late : BOOLEAN]
    BY <1>1, <1>2
  <1> QED  BY <1>2, <1>3, NoOpAssumption

\* The answer of a path that stays as it is.
LEMMA PlainVerdict ==
    ASSUME Inv, NEW c \in Cpus, NEW id \in Ids, NEW p \in Paths, Plain(c, id, p)
    PROVE  /\ Verdict' = [Verdict EXCEPT ![c] = [id |-> id, path |-> p, ws |-> NoOp]]
           /\ Call' = [Call EXCEPT ![c] = NoOp]
  <1>1. PICK z : z = [id |-> id, path |-> p, root |-> RootOf(p[1]), depth |-> Len(p)]
    OBVIOUS
  <1>2. PICK w : w = [id |-> id, path |-> p, ws |-> NoOp]
    OBVIOUS
  <1>3. Len(p) \in Nat
    BY PathsAssumption, LenProperties
  <1>4. z \in Codes /\ z.root # "WS"
    BY <1>1, <1>3, RootNames DEF Codes
  <1>5. z # NoOp
    BY <1>4, NoOpAssumption DEF Codes
  <1>6. coded' = [coded EXCEPT ![c] = z] /\ op' = [op EXCEPT ![c] = NoOp]
    BY <1>1 DEF Plain, Code
  <1>7. VerdictOf(z) = w /\ CallOf(NoOp) = NoOp
    BY <1>1, <1>2, <1>4, <1>5 DEF VerdictOf, CallOf
  <1>8. Verdict' = [Verdict EXCEPT ![c] = w]
    BY <1>6, <1>7, VerdictStep
  <1>9. Call' = [Call EXCEPT ![c] = NoOp]
    BY <1>6, <1>7, CallStep
  <1> QED  BY <1>2, <1>8, <1>9

\* Such an answer is one of End's: of a call that may miss the root, or of one that finds none.
LEMMA PlainEnds ==
    ASSUME Inv, UNCHANGED elem, NEW c \in Cpus, NEW o, o = op[c], o # NoOp,
           Plain(c, o.id, o.path),
           \/ o.at \notin {"len", "compare"} \/ Register[o.id] = NoOp
           \/ ~Once!Within(o.path, Register[o.id])
    PROVE  Once!End(c)
  <1>1. o.id \in Ids /\ o.path \in Paths
    BY OpFacts
  <1>2. /\ Call[c] = [id |-> o.id, path |-> o.path, late |-> o.at \notin {"len", "compare"}]
        /\ Call[c] # NoOp
    BY CallFacts
  <1>3. /\ Verdict' = [Verdict EXCEPT ![c] = [id |-> o.id, path |-> o.path, ws |-> NoOp]]
        /\ Call' = [Call EXCEPT ![c] = NoOp]
    BY <1>1, PlainVerdict
  <1>4. Register' = Register
    BY Views
  <1>5. Call[c].id = o.id /\ Call[c].path = o.path
        /\ Call[c].late = (o.at \notin {"len", "compare"})
    BY <1>2
  <1>6. Once!Answer(c, o.id, o.path, NoOp)
    BY <1>3, <1>4 DEF Once!Answer
  <1> QED  BY <1>2, <1>5, <1>6 DEF Once!End

\* A register that is not set, or not yet, in the element that a step writes.
LEMMA RegKept ==
    ASSUME ElemOK, ElemOK', NEW s \in Slots, elem[s].len = 0, elem'[s].len = 0,
           \A t \in Slots : t # s => elem'[t] = elem[t]
    PROVE  Register' = Register
  <1>1. ASSUME NEW id \in Ids PROVE Reg(elem', id) = Reg(elem, id)
    <2>1. CASE \E t \in Slots : elem[t].key = id /\ elem[t].len > 0
      <3>1. PICK t \in Slots : elem[t].key = id /\ elem[t].len > 0
        BY <2>1
      <3>2. elem'[t] = elem[t]
        BY <3>1
      <3>3. Reg(elem, id) = elem[t].path
        BY <3>1, RegAt DEF ElemOK
      <3>4. Reg(elem', id) = elem'[t].path
        BY <3>1, <3>2, RegAt DEF ElemOK
      <3> QED  BY <3>2, <3>3, <3>4
    <2>2. CASE ~\E t \in Slots : elem[t].key = id /\ elem[t].len > 0
      <3>1. ~\E t \in Slots : elem'[t].key = id /\ elem'[t].len > 0
        BY <2>2
      <3> QED  BY <2>2, <3>1 DEF Reg
    <2> QED  BY <2>1, <2>2
  <1> QED  BY <1>1, Views

LEMMA CallKept ==
    ASSUME Inv, NEW c \in Cpus, NEW o, o = op[c], o # NoOp,
           NEW n \in Op \cup ReadOp, op' = [op EXCEPT ![c] = n], n.id = o.id, n.path = o.path,
           n.at \in {"len", "compare"} <=> o.at \in {"len", "compare"}
    PROVE  Call' = Call
  <1>1. n # NoOp
    BY NoOpAssumption
  <1>2. CallOf(n) = CallOf(o)
    BY <1>1 DEF CallOf
  <1>3. Call' = [Call EXCEPT ![c] = CallOf(n)]
    BY CallStep
  <1>4. Call[c] = CallOf(o) /\ Call = [b \in Cpus |-> CallOf(op[b])]
    BY Views
  <1> HIDE DEF CallOf
  <1> QED  BY <1>2, <1>3, <1>4

LEMMA Begins ==
    ASSUME Inv, UNCHANGED elem, NEW c \in Cpus, op[c] = NoOp, NEW o \in Op,
           op' = [op EXCEPT ![c] = o], coded' = [coded EXCEPT ![c] = NoOp],
           o.at = "len" \/ SlotsOf(o.id) = {}
    PROVE  Once!Begin(c)
  <1>1. o.id \in Ids /\ o.path \in Paths /\ o # NoOp
    BY NoOpAssumption DEF Op
  <1>2. Call[c] = NoOp
    BY Views DEF CallOf
  <1>3. CallOf(o) = [id |-> o.id, path |-> o.path, late |-> o.at \notin {"len", "compare"}]
    BY <1>1 DEF CallOf
  <1>4. Call'[c] = CallOf(o) /\ Call' = [Call EXCEPT ![c] = Call'[c]]
    BY CallStep
  <1>5. Call'[c] \in [id : Ids, path : Paths, late : BOOLEAN]
    BY <1>1, <1>3, <1>4
  <1>6. Call'[c].late => Register[Call'[c].id] = NoOp
    <2>1. SlotsOf(o.id) = {} => Register[o.id] = NoOp
      BY <1>1, RegAt, Views DEF SlotsOf, Inv, ElemOK
    <2>2. Call'[c].id = o.id /\ Call'[c].late = (o.at \notin {"len", "compare"})
      BY <1>3, <1>4
    <2> QED  BY <2>1, <2>2
  <1>7. Verdict' = [Verdict EXCEPT ![c] = NoOp]
    <2>1. VerdictOf(NoOp) = NoOp
      BY DEF VerdictOf
    <2> QED  BY <2>1, VerdictStep
  <1>8. Register' = Register
    BY Views
  <1> QED  BY <1>2, <1>4, <1>5, <1>6, <1>7, <1>8 DEF Once!Begin

LEMMA ApplyOnce ==
    ASSUME Inv, NEW c \in Cpus, NEW id \in Ids, NEW p \in Paths, Apply(c, id, p)
    PROVE  Once!Begin(c) \/ Once!Miss(c)
  <1>0. elem' = elem /\ op[c] = NoOp
    BY DEF Apply
  <1>1. CASE /\ coded' = [coded EXCEPT ![c] = NoOp]
             /\ \E s \in SlotsOf(id) :
                   op' = [op EXCEPT ![c] = [id |-> id, path |-> p, at |-> "len", slot |-> s]]
    <2>1. PICK s, o :
               /\ s \in SlotsOf(id) /\ o = [id |-> id, path |-> p, at |-> "len", slot |-> s]
               /\ op' = [op EXCEPT ![c] = o]
      BY <1>1
    <2>2. o \in Op /\ o.at = "len"
      BY <2>1 DEF Op, SlotsOf
    <2> QED  BY <1>0, <1>1, <2>1, <2>2, Begins
  <1>2. CASE /\ SlotsOf(id) = {} /\ coded' = [coded EXCEPT ![c] = NoOp]
             /\ \E s \in Slots :
                   op' = [op EXCEPT ![c] = [id |-> id, path |-> p, at |-> "insert", slot |-> s]]
    <2>1. PICK s, o :
               /\ s \in Slots /\ o = [id |-> id, path |-> p, at |-> "insert", slot |-> s]
               /\ op' = [op EXCEPT ![c] = o]
      BY <1>2
    <2>2. o \in Op /\ o.id = id
      BY <2>1 DEF Op
    <2> QED  BY <1>0, <1>2, <2>1, <2>2, Begins
  <1>3. CASE SlotsOf(id) = {} /\ ~MayLearn(p) /\ Plain(c, id, p)
    <2>1. Call[c] = NoOp /\ Call \in [Cpus -> {Call[b] : b \in Cpus}]
      BY <1>0, Views DEF CallOf
    <2>2. PICK w : w = [id |-> id, path |-> p, ws |-> NoOp]
      OBVIOUS
    <2>3. Verdict' = [Verdict EXCEPT ![c] = w] /\ Call' = [Call EXCEPT ![c] = NoOp]
      BY <1>3, <2>2, PlainVerdict
    <2>4. Call' = Call
      BY <2>1, <2>3
    <2>5. Verdict'[c] = w /\ Verdict' = [Verdict EXCEPT ![c] = Verdict'[c]]
      BY <2>3, Views
    <2>6. w \in [id : Ids, path : Paths \ DOMAIN Repos, ws : {NoOp}] /\ w.id = id
      BY <1>3, <2>2 DEF Repos
    <2>7. Register[id] = NoOp
      BY <1>3, RegAt, Views DEF SlotsOf, Inv, ElemOK
    <2>8. Register' = Register
      BY <1>0, Views
    <2>9. Verdict'[c] \in [id : Ids, path : Paths \ DOMAIN Repos, ws : {NoOp}]
          /\ Register[Verdict'[c].id] = NoOp
      BY <2>5, <2>6, <2>7
    <2> QED  BY <2>1, <2>4, <2>5, <2>8, <2>9 DEF Once!Miss
  <1> QED  BY <1>1, <1>2, <1>3 DEF Apply

LEMMA Stutter ==
    ASSUME Register' = Register, Call' = Call, coded' = coded
    PROVE  UNCHANGED Once!vars
  <1>1. Verdict' = Verdict
    BY Views
  <1> QED  BY <1>1 DEF Once!vars

LEMMA InsertOnce ==
    ASSUME Room, Inv, Inv', NEW c \in Cpus, Insert(c)
    PROVE  Once!End(c) \/ UNCHANGED Once!vars
  <1>1. PICK o : o = op[c]
    OBVIOUS
  <1>2. /\ o # NoOp /\ o.at = "insert" /\ o \in Op /\ o.id \in Ids /\ o.path \in Paths
    BY <1>1, OpFacts DEF Insert, ReadOp
  <1>3. CASE SlotsOf(o.id) # {}
    <2>1. Plain(c, o.id, o.path) /\ elem' = elem
      BY <1>1, <1>3 DEF Insert
    <2> QED  BY <1>1, <1>2, <2>1, PlainEnds
  <1>4. CASE SlotsOf(o.id) = {}
    <2>1. SlotsOf(NoId) # {}
      BY <1>2, <1>4, RoomLeft DEF Inv
    <2>2. PICK s \in SlotsOf(NoId) :
            /\ elem' = [elem EXCEPT ![s] = Blank(o.id)]
            /\ op' = [op EXCEPT ![c].at = "find"] /\ coded' = coded
      BY <1>1, <1>4, <2>1 DEF Insert, Target
    <2>3. s \in Slots /\ elem[s].len = 0
      BY DEF SlotsOf, Inv, ElemOK
    <2>4. elem'[s].len = 0 /\ \A t \in Slots : t # s => elem'[t] = elem[t]
      BY <2>2, <2>3 DEF Inv, ElemOK, Blank
    <2>5. Register' = Register
      BY <2>3, <2>4, RegKept DEF Inv
    <2>6. PICK n : n = [o EXCEPT !.at = "find"]
      OBVIOUS
    <2>7. /\ n \in Op /\ n.id = o.id /\ n.path = o.path /\ n.at = "find"
          /\ op' = [op EXCEPT ![c] = n]
      BY <1>1, <1>2, <2>2, <2>6 DEF Op, Inv, OpOK
    <2>8. Call' = Call
      BY <1>1, <1>2, <2>7, CallKept
    <2> QED  BY <2>2, <2>5, <2>8, Stutter
  <1> QED  BY <1>3, <1>4

LEMMA FindOnce ==
    ASSUME Inv, NEW c \in Cpus, Find(c)
    PROVE  Once!End(c) \/ UNCHANGED Once!vars
  <1>1. PICK o : o = op[c]
    OBVIOUS
  <1>2. /\ o # NoOp /\ o.at = "find" /\ elem' = elem /\ o \in Op
    BY <1>1, OpFacts DEF Find, ReadOp
  <1>3. CASE \E s \in SlotsOf(o.id) :
               /\ op' = [op EXCEPT ![c].at = "fill_path", ![c].slot = s]
               /\ coded' = coded
    <2>1. PICK s, n :
             /\ s \in SlotsOf(o.id) /\ op' = [op EXCEPT ![c].at = "fill_path", ![c].slot = s] /\ coded' = coded
             /\ n = [o EXCEPT !.at = "fill_path", !.slot = s]
      BY <1>3
    <2>2. s \in Slots
      BY <2>1 DEF SlotsOf
    <2>3. /\ n \in Op /\ n.id = o.id /\ n.path = o.path /\ n.at = "fill_path"
      BY <1>2, <2>1, <2>2 DEF Op
    <2>4. op' = [op EXCEPT ![c] = n]
      BY <1>1, <2>1 DEF Inv, OpOK
    <2>5. Call' = Call
      BY <1>1, <1>2, <2>3, <2>4, CallKept
    <2>6. Register' = Register
      BY <1>2, Views
    <2> QED  BY <2>1, <2>5, <2>6, Stutter
  <1>4. CASE SlotsOf(o.id) = {} /\ Plain(c, o.id, o.path)
    BY <1>1, <1>2, <1>4, PlainEnds
  <1> QED  BY <1>1, <1>3, <1>4 DEF Find

LEMMA FillPathOnce ==
    ASSUME Inv, Inv', NEW c \in Cpus, FillPath(c)
    PROVE  UNCHANGED Once!vars
  <1>1. PICK o : o = op[c]
    OBVIOUS
  <1>2. /\ o # NoOp /\ o \in Op /\ o.slot \in Slots /\ Right(o) /\ coded' = coded
        /\ o.at \in Fillers \ {"find"} /\ elem[o.slot].len = 0
    BY <1>1, OpFacts DEF FillPath, ReadOp, Right, Fillers
  <1>3. PICK d : d = Dir(o.path)
    OBVIOUS
  <1>4. PICK e, n : e = [elem[o.slot] EXCEPT !.path = d] /\ n = [o EXCEPT !.at = "fill_depth"]
    OBVIOUS
  <1>5. elem' = [elem EXCEPT ![o.slot] = e] /\ op' = [op EXCEPT ![c] = n]
    <2>1. elem' = [elem EXCEPT ![o.slot] = e]
      BY <1>1, <1>3, <1>4 DEF FillPath, Inv, ElemOK
    <2>2. op' = [op EXCEPT ![c] = n]
      BY <1>1, <1>4 DEF FillPath, Inv, OpOK
    <2> QED  BY <2>1, <2>2
  <1>6. e.len = 0
    BY <1>2, <1>4 DEF Inv, ElemOK
  <1>7. elem'[o.slot].len = 0 /\ \A t \in Slots : t # o.slot => elem'[t] = elem[t]
    BY <1>2, <1>5, <1>6 DEF Inv, ElemOK
  <1>8. Register' = Register
    BY <1>2, <1>7, RegKept DEF Inv
  <1>9. n \in Op /\ n.id = o.id /\ n.path = o.path /\ n.at = "fill_depth"
    BY <1>2, <1>4 DEF Op
  <1>10. o.at \notin {"len", "compare"}
    BY <1>2 DEF Fillers
  <1>11. Call' = Call
    BY <1>1, <1>2, <1>5, <1>9, <1>10, CallKept
  <1> QED  BY <1>2, <1>8, <1>11, Stutter

LEMMA FillDepthOnce ==
    ASSUME Inv, Inv', NEW c \in Cpus, FillDepth(c)
    PROVE  UNCHANGED Once!vars
  <1>1. PICK o : o = op[c]
    OBVIOUS
  <1>2. /\ o # NoOp /\ o \in Op /\ o.slot \in Slots /\ Right(o) /\ coded' = coded
        /\ o.at \in Fillers \ {"find"} /\ elem[o.slot].len = 0
    BY <1>1, OpFacts DEF FillDepth, ReadOp, Right, Fillers
  <1>3. PICK d : d = Len(o.path) - 2
    OBVIOUS
  <1>4. PICK e, n : e = [elem[o.slot] EXCEPT !.depth = d] /\ n = [o EXCEPT !.at = "fill_len"]
    OBVIOUS
  <1>5. elem' = [elem EXCEPT ![o.slot] = e] /\ op' = [op EXCEPT ![c] = n]
    <2>1. elem' = [elem EXCEPT ![o.slot] = e]
      BY <1>1, <1>3, <1>4 DEF FillDepth, Inv, ElemOK
    <2>2. op' = [op EXCEPT ![c] = n]
      BY <1>1, <1>4 DEF FillDepth, Inv, OpOK
    <2> QED  BY <2>1, <2>2
  <1>6. e.len = 0
    BY <1>2, <1>4 DEF Inv, ElemOK
  <1>7. elem'[o.slot].len = 0 /\ \A t \in Slots : t # o.slot => elem'[t] = elem[t]
    BY <1>2, <1>5, <1>6 DEF Inv, ElemOK
  <1>8. Register' = Register
    BY <1>2, <1>7, RegKept DEF Inv
  <1>9. n \in Op /\ n.id = o.id /\ n.path = o.path /\ n.at = "fill_len"
    BY <1>2, <1>4 DEF Op
  <1>10. o.at \notin {"len", "compare"}
    BY <1>2 DEF Fillers
  <1>11. Call' = Call
    BY <1>1, <1>2, <1>5, <1>9, <1>10, CallKept
  <1> QED  BY <1>2, <1>8, <1>11, Stutter

LEMMA FillLenOnce ==
    ASSUME Inv, Inv', NEW c \in Cpus, FillLen(c)
    PROVE  Once!Learn(c)
  <1>1. PICK o : o = op[c]
    OBVIOUS
  <1>2. /\ o # NoOp /\ o \in Op /\ o.slot \in Slots /\ o.id \in Ids /\ o.path \in Paths
        /\ coded' = coded /\ MayLearn(o.path) /\ o.at = "fill_len"
        /\ elem[o.slot].key = o.id /\ elem[o.slot].len = 0 /\ elem[o.slot].path = Dir(o.path)
    BY <1>1, OpFacts DEF FillLen, ReadOp, Right, Fillers
  <1>3. PICK d : d = Len(Dir(o.path))
    OBVIOUS
  <1>4. PICK e, n : e = [elem[o.slot] EXCEPT !.len = d] /\ n = [o EXCEPT !.at = "len"]
    OBVIOUS
  <1>5. elem' = [elem EXCEPT ![o.slot] = e] /\ op' = [op EXCEPT ![c] = n]
    <2>1. elem' = [elem EXCEPT ![o.slot] = e]
      BY <1>1, <1>3, <1>4 DEF FillLen, Inv, ElemOK
    <2>2. op' = [op EXCEPT ![c] = n]
      BY <1>1, <1>4 DEF FillLen, Inv, OpOK
    <2> QED  BY <2>1, <2>2
  <1>6. d \in Nat /\ d > 0
    BY <1>2, <1>3, DirFacts
  <1>7. e.key = o.id /\ e.len > 0 /\ e.path = Dir(o.path)
    BY <1>2, <1>4, <1>6 DEF Inv, ElemOK
  <1>8. elem'[o.slot] = e /\ \A t \in Slots : t # o.slot => elem'[t] = elem[t]
    BY <1>2, <1>5 DEF Inv, ElemOK
  <1>9. Register[o.id] = NoOp
    <2>1. Reg(elem, o.id) = IF elem[o.slot].len > 0 THEN elem[o.slot].path ELSE NoOp
      BY <1>2, RegAt DEF Inv, ElemOK
    <2> QED  BY <1>2, <2>1, Views
  <1>10. Reg(elem', o.id) = Dir(o.path)
    <2>1. Reg(elem', o.id) = IF elem'[o.slot].len > 0 THEN elem'[o.slot].path ELSE NoOp
      BY <1>2, <1>7, <1>8, RegAt DEF Inv, ElemOK
    <2> QED  BY <1>7, <1>8, <2>1
  <1>11. ASSUME NEW id \in Ids, id # o.id PROVE Reg(elem', id) = Reg(elem, id)
    <2>1. CASE \E t \in Slots : elem[t].key = id /\ elem[t].len > 0
      <3>1. PICK t \in Slots : elem[t].key = id /\ elem[t].len > 0
        BY <2>1
      <3>2. elem'[t] = elem[t]
        BY <1>2, <1>8, <3>1
      <3>3. Reg(elem, id) = elem[t].path
        BY <3>1, RegAt DEF Inv, ElemOK
      <3>4. Reg(elem', id) = elem'[t].path
        BY <3>1, <3>2, RegAt DEF Inv, ElemOK
      <3> QED  BY <3>2, <3>3, <3>4
    <2>2. CASE ~\E t \in Slots : elem[t].key = id /\ elem[t].len > 0
      <3>1. ~\E t \in Slots : elem'[t].key = id /\ elem'[t].len > 0
        BY <1>7, <1>8, <1>11, <2>2
      <3> QED  BY <2>2, <3>1 DEF Reg
    <2> QED  BY <2>1, <2>2
  <1>12. Register' = [Register EXCEPT ![o.id] = Dir(o.path)]
    BY <1>2, <1>10, <1>11, Views
  <1>13. o.path \in DOMAIN Repos /\ Repos[o.path] = Dir(o.path)
    BY <1>2 DEF Repos
  <1>14. PICK k : k = Call[c]
    OBVIOUS
  <1>15. k = [id |-> o.id, path |-> o.path, late |-> TRUE] /\ k # NoOp
    BY <1>1, <1>2, <1>14, CallFacts
  <1>16. k.id = o.id /\ k.path = o.path
    BY <1>15
  <1>17. Call' = [Call EXCEPT ![c].late = FALSE]
    <2>1. n \in Op /\ n.id = o.id /\ n.path = o.path /\ n.at = "len" /\ n # NoOp
      BY <1>2, <1>4, NoOpAssumption DEF Op
    <2>2. CallOf(n) = [id |-> o.id, path |-> o.path, late |-> FALSE]
      BY <2>1 DEF CallOf
    <2>3. CallOf(n) = [k EXCEPT !.late = FALSE]
      <3>1. \A l, m : [[id |-> o.id, path |-> o.path, late |-> l] EXCEPT !.late = m]
                         = [id |-> o.id, path |-> o.path, late |-> m]
        OBVIOUS
      <3> QED  BY <1>15, <2>2, <3>1
    <2>4. Call' = [Call EXCEPT ![c] = CallOf(n)]
      BY <1>5, CallStep
    <2> QED  BY <1>14, <2>3, <2>4
  <1>18. Verdict' = Verdict
    BY <1>2, Views
  <1> QED  BY <1>9, <1>12, <1>13, <1>14, <1>15, <1>16, <1>17, <1>18 DEF Once!Learn

LEMMA LoadLenOnce ==
    ASSUME Inv, NEW c \in Cpus, LoadLen(c)
    PROVE  Once!End(c) \/ UNCHANGED Once!vars
  <1>1. PICK o : o = op[c]
    OBVIOUS
  <1>2. /\ o # NoOp /\ o.at = "len" /\ elem' = elem /\ o.id \in Ids /\ o.path \in Paths
        /\ o.slot \in Slots /\ elem[o.slot].key = o.id
    BY <1>1, OpFacts DEF LoadLen, Right
  <1>3. CASE elem[o.slot].len = 0
    <2>1. Plain(c, o.id, o.path)
      BY <1>1, <1>3 DEF LoadLen
    <2>2. Reg(elem, o.id) = IF elem[o.slot].len > 0 THEN elem[o.slot].path ELSE NoOp
      BY <1>2, RegAt DEF Inv, ElemOK
    <2>3. Register[o.id] = NoOp
      BY <1>2, <1>3, <2>2, Views
    <2> QED  BY <1>1, <1>2, <2>1, <2>3, PlainEnds
  <1>4. CASE elem[o.slot].len # 0
    <2>1. PICK n : n = [id |-> o.id, path |-> o.path, at |-> "compare", slot |-> o.slot,
                        len |-> elem[o.slot].len]
      OBVIOUS
    <2>2. op' = [op EXCEPT ![c] = n] /\ coded' = coded
      BY <1>1, <1>4, <2>1 DEF LoadLen
    <2>3. elem[o.slot].len \in Nat
      BY <1>2 DEF Inv, ElemOK
    <2>4. n \in ReadOp /\ n.id = o.id /\ n.path = o.path /\ n.at = "compare"
      BY <1>2, <1>4, <2>1, <2>3 DEF ReadOp
    <2>5. Call' = Call
      BY <1>1, <1>2, <2>2, <2>4, CallKept
    <2>6. Register' = Register
      BY <1>2, Views
    <2> QED  BY <2>2, <2>5, <2>6, Stutter
  <1> QED  BY <1>3, <1>4

LEMMA CompareOnce ==
    ASSUME Inv, NEW c \in Cpus, Compare(c)
    PROVE  Once!End(c)
  <1>1. PICK o, ws : o = op[c] /\ ws = elem[o.slot]
    OBVIOUS
  <1>2. /\ o # NoOp /\ o.at = "compare" /\ elem' = elem
        /\ o.id \in Ids /\ o.path \in Paths /\ o.slot \in Slots
        /\ ws.key = o.id /\ ws.len > 0
    BY <1>1, CompareFacts
  <1>3. PICK p \in Paths : Holds(ws, p) /\ o.len = Len(p) - 2 /\ Leading(ws.path, o.len) = Dir(p)
    BY <1>1, CompareFacts
  <1>4. PICK d : d = Dir(p)
    OBVIOUS
  <1>5. /\ MayLearn(p) /\ ws.path = d /\ ws.depth = o.len /\ d # NoOp
        /\ Len(d) = o.len /\ o.len \in Nat /\ d \in Seq(STRING)
    <2>1. MayLearn(p) /\ ws.path = d /\ ws.depth = o.len
      BY <1>3, <1>4 DEF Holds
    <2> QED  BY <1>3, <1>4, <2>1, DirFacts, NoOpAssumption
  <1>6. Register[o.id] = d
    <2>1. Reg(elem, o.id) = IF elem[o.slot].len > 0 THEN elem[o.slot].path ELSE NoOp
      BY <1>1, <1>2, RegAt DEF Inv, ElemOK
    <2> QED  BY <1>1, <1>2, <1>5, <2>1, Views
  <1>7. o.path \in Seq(STRING) /\ Len(o.path) \in Nat
    BY <1>2, PathsAssumption, LenProperties
  <1>8. Len(o.path) > o.len => Leading(o.path, o.len) = SubSeq(o.path, 1, o.len)
    BY <1>5, <1>7 DEF Leading
  <1>9. Once!Within(o.path, d) <=> Len(o.path) > o.len /\ Leading(o.path, o.len) = Leading(ws.path, o.len)
    BY <1>3, <1>4, <1>5, <1>8 DEF Once!Within
  <1>10. CASE Once!Within(o.path, d)
    <2>1. Len(o.path) > o.len /\ Leading(o.path, o.len) = d
      BY <1>3, <1>4, <1>9, <1>10
    <2>2. PICK z, w : /\ z = [id |-> o.id, path |-> o.path, root |-> "WS",
                               depth |-> Len(o.path) - ws.depth]
                      /\ w = [id |-> o.id, path |-> o.path, ws |-> d]
      OBVIOUS
    <2>3. coded' = [coded EXCEPT ![c] = z] /\ op' = [op EXCEPT ![c] = NoOp]
      BY <1>1, <1>9, <1>10, <2>2 DEF Compare, Code
    <2>4. z \in Codes /\ z # NoOp
      <3>1. Len(o.path) - ws.depth \in Nat
        BY <1>5, <1>7, <2>1
      <3>2. z \in Codes
        BY <1>2, <2>2, <3>1 DEF Codes
      <3> QED  BY <3>2, NoOpAssumption DEF Codes
    <2>5. VerdictOf(z) = w
      <3>1. Len(o.path) - (Len(o.path) - ws.depth) = o.len
        BY <1>5, <1>7
      <3>2. /\ z.id = o.id /\ z.path = o.path /\ z.root = "WS"
            /\ z.depth = Len(o.path) - ws.depth
        BY <2>2
      <3>3. Leading(z.path, Len(z.path) - z.depth) = d
        BY <2>1, <3>1, <3>2
      <3> QED  BY <2>2, <2>4, <3>2, <3>3 DEF VerdictOf
    <2>6. Verdict' = [Verdict EXCEPT ![c] = w]
      BY <2>3, <2>5, VerdictStep
    <2>7. Call' = [Call EXCEPT ![c] = NoOp]
      <3>1. CallOf(NoOp) = NoOp
        BY DEF CallOf
      <3> QED  BY <2>3, <3>1, CallStep
    <2>8. Register' = Register
      BY <1>2, Views
    <2>9. Call[c].id = o.id /\ Call[c].path = o.path /\ Call[c] # NoOp
      <3>1. /\ Call[c] = [id |-> o.id, path |-> o.path, late |-> o.at \notin {"len", "compare"}]
            /\ Call[c] # NoOp
        BY <1>1, <1>2, CallFacts
      <3> QED  BY <3>1
    <2>10. Once!Answer(c, o.id, o.path, d)
      BY <2>2, <2>6, <2>7, <2>8 DEF Once!Answer
    <2> QED  BY <1>5, <1>6, <1>10, <2>9, <2>10 DEF Once!End
  <1>11. CASE ~Once!Within(o.path, d)
    <2>1. Plain(c, o.id, o.path)
      BY <1>1, <1>9, <1>11 DEF Compare
    <2> QED  BY <1>1, <1>2, <1>6, <1>11, <2>1, PlainEnds
  <1> QED  BY <1>10, <1>11

LEMMA StepOnce == ASSUME Room, Inv, Inv', [Next]_vars PROVE [Once!Next]_(Once!vars)
  <1>1. CASE \E c \in Cpus, id \in Ids, p \in Paths : Apply(c, id, p)
    BY <1>1, ApplyOnce DEF Once!Next
  <1>2. CASE \E c \in Cpus : \/ Insert(c) \/ Find(c)
                             \/ FillPath(c) \/ FillDepth(c) \/ FillLen(c)
                             \/ LoadLen(c) \/ Compare(c)
    BY <1>2, InsertOnce, FindOnce, FillPathOnce, FillDepthOnce, FillLenOnce, LoadLenOnce,
       CompareOnce DEF Once!Next
  <1>3. CASE UNCHANGED vars
    <2>1. Register' = Register /\ Call' = Call
      BY <1>3, Views DEF vars
    <2> QED  BY <1>3, <2>1, Stutter DEF vars
  <1> QED  BY <1>1, <1>2, <1>3 DEF Next

LEMMA InitOnce == ASSUME Init PROVE Once!Init
  <1>1. \A id \in Ids : Reg(elem, id) = NoOp
    BY NoIdAssumption DEF Init, Blank, Reg
  <1>2. \A c \in Cpus : CallOf(op[c]) = NoOp /\ VerdictOf(coded[c]) = NoOp
    BY DEF Init, CallOf, VerdictOf
  <1> QED  BY <1>1, <1>2, Views DEF Once!Init

\* With room for every workload, the map that is filled field by field under readers on other
\* CPUs is a register that is set once: the first repository wins, and every path coded WS is
\* counted from it.
THEOREM OnceWithRoom == ASSUME Room PROVE Spec => ImplementsOnce
  <1>1. Spec => []Inv
    BY SpecInv
  <1>2. Inv /\ Inv' /\ [Next]_vars => [Once!Next]_(Once!vars)
    BY StepOnce
  <1>3. Init => Once!Init
    BY InitOnce
  <1> QED  BY <1>1, <1>2, <1>3, PTL DEF Spec, ImplementsOnce, Once!Spec
=============================================================================

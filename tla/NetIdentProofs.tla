---------------------------- MODULE NetIdentProofs ----------------------------
(***************************************************************************)
(* NetIdent: no sock is attributed to a stranger, a tracked task's socks   *)
(* are attributed, the first identity stays, and the tuple is that of the  *)
(* connection, for every number of tasks, workloads, socks, peers and      *)
(* tgid reuses.                                                            *)
(*                                                                         *)
(* The argument starts with honesty: a writer that is at work names a      *)
(* process that held the sock while its context had that workload id.  A   *)
(* hook's own task is in a system call on it, so it can neither close it   *)
(* nor exit, and a workload the mark pass stores before the hook has       *)
(* loaded the id is that of a holder.                                      *)
(***************************************************************************)
EXTENDS NetIdent, TLAPS

\* What a writer at work knows of its sock.
OpOK ==
    \A a \in Writers : op[a] # NoOp =>
        /\ <<op[a].task, op[a].gen, op[a].wl>> \in held[op[a].sock]
        /\ a \in Tasks => /\ op[a].task = a /\ a \in holders[op[a].sock]
                          /\ op[a].gen = gen[a]

\* Only a socket has descriptors.
ProtoOK == \A s \in Socks : proto[s] = "none" => holders[s] = {}

IInv == TypeOK /\ OpOK /\ ProtoOK /\ IdentHonest

\* Who holds a sock and is tracked is recorded; who is recorded stays so while named.
LEMMA Recorded ==
    ASSUME Record, NEW s \in Socks, NEW t, NEW g, NEW w,
           \/ t \in holders'[s] /\ ctx'[t] = w /\ w # NoWl /\ gen'[t] = g
           \/ <<t, g, w>> \in held[s] /\ Named(s, t, g, w)'
    PROVE  <<t, g, w>> \in held'[s]
  <1>1. held'[s] = Current(s)' \cup {h \in held[s] : Named(s, h[1], h[2], h[3])'}
    BY DEF Record
  <1>2. CASE t \in holders'[s] /\ ctx'[t] = w /\ w # NoWl /\ gen'[t] = g
    <2>1. <<t, g, w>> \in Current(s)'
      BY <1>2 DEF Current
    <2> QED  BY <1>1, <2>1
  <1>3. CASE <<t, g, w>> \in held[s] /\ Named(s, t, g, w)'
    <2> PICK h : h = <<t, g, w>>
      OBVIOUS
    <2>1. h[1] = t /\ h[2] = g /\ h[3] = w
      OBVIOUS
    <2>2. Named(s, h[1], h[2], h[3])'
      BY <1>3, <2>1
    <2> HIDE DEF Named
    <2> QED  BY <1>1, <1>3, <2>2
  <1> QED  BY <1>2, <1>3

LEMMA HeldType ==
    ASSUME TypeOK, Record,
           ctx' \in [Tasks -> Ids \cup {NoWl}], gen' \in [Tasks -> 0 .. MaxGen],
           holders' \in [Socks -> SUBSET Tasks]
    PROVE  held' \in [Socks -> SUBSET (Tasks \X (0 .. MaxGen) \X Ids)]
  <1> DEFINE H == Tasks \X (0 .. MaxGen) \X Ids
  <1>1. ASSUME NEW s \in Socks PROVE Current(s)' \subseteq H
    BY DEF Current
  <1>2. ASSUME NEW s \in Socks PROVE held[s] \subseteq H
    BY DEF TypeOK
  <1> HIDE DEF H
  <1>3. held' \in [Socks -> SUBSET H]
    BY <1>1, <1>2 DEF Record
  <1> QED  BY <1>3 DEF H

\* A stamped sock whose identity a step leaves alone still names one of its holders.
LEMMA StillHonest ==
    ASSUME Record, IdentHonest,
           \A s \in Socks : Stamped(s)' =>
               \/ Stamped(s) /\ ident'[s] = ident[s]
               \/ <<ident'[s].task, ident'[s].gen, ident'[s].wl>> \in held'[s]
    PROVE  IdentHonest'
  <1> SUFFICES ASSUME NEW s \in Socks, Stamped(s)', NEW i, i = ident'[s],
                      Stamped(s) /\ ident'[s] = ident[s]
               PROVE  <<i.task, i.gen, i.wl>> \in held'[s]
    BY DEF IdentHonest
  <1>1. <<i.task, i.gen, i.wl>> \in held[s]
    BY DEF IdentHonest
  <1>2. Named(s, i.task, i.gen, i.wl)'
    BY DEF Named
  <1> QED  BY <1>1, <1>2, Recorded

\* A writer that a step leaves at work, or only takes on, stays right.
LEMMA StillRight ==
    ASSUME IInv, Record, TypeOK', NEW a \in Writers, op'[a] # NoOp, op[a] # NoOp,
           op'[a].sock = op[a].sock, op'[a].task = op[a].task, op'[a].gen = op[a].gen,
           op'[a].wl = op[a].wl,
           a \in Tasks => a \in holders'[op[a].sock] /\ gen'[a] = gen[a]
    PROVE  /\ <<op[a].task, op[a].gen, op[a].wl>> \in held'[op[a].sock]
           /\ a \in Tasks => /\ op'[a].task = a /\ a \in holders'[op'[a].sock]
                             /\ op'[a].gen = gen'[a]
  <1> PICK o : o = op[a]
    OBVIOUS
  <1>1. o.sock \in Socks
    BY DEF IInv, TypeOK, Op
  <1>2. <<o.task, o.gen, o.wl>> \in held[o.sock]
    BY DEF IInv, OpOK
  <1>3. Named(o.sock, o.task, o.gen, o.wl)'
    BY DEF Named, At
  <1>4. <<o.task, o.gen, o.wl>> \in held'[o.sock]
    BY <1>1, <1>2, <1>3, Recorded
  <1>5. a \in Tasks => o.task = a /\ o.gen = gen[a]
    BY DEF IInv, OpOK
  <1> QED  BY <1>4, <1>5

\* Steps of which no writer is the actor.
LEMMA NoWriter ==
    ASSUME IInv, Record, TypeOK', ProtoOK', UNCHANGED op,
           \A s \in Socks : Stamped(s)' => Stamped(s) /\ ident'[s] = ident[s],
           \A t \in Tasks : op[t] # NoOp => t \in holders'[op[t].sock] /\ gen'[t] = gen[t]
    PROVE  IInv'
  <1>1. IdentHonest'
    BY StillHonest DEF IInv
  <1>3. OpOK'
    <2> SUFFICES ASSUME NEW a \in Writers, op'[a] # NoOp
                 PROVE  /\ <<op'[a].task, op'[a].gen, op'[a].wl>> \in held'[op'[a].sock]
                        /\ a \in Tasks => /\ op'[a].task = a /\ a \in holders'[op'[a].sock]
                                          /\ op'[a].gen = gen'[a]
      BY DEF OpOK, Writers
    <2> QED  BY StillRight
  <1> QED  BY <1>1, <1>3 DEF IInv

\* A writer starts, for a task that holds the sock and is tracked.
LEMMA StartIInv ==
    ASSUME IInv, Record, TypeOK', ProtoOK', NEW a \in Writers, NEW hook, NEW s \in Socks, NEW t \in Tasks,
           Start(a, hook, s, t), UNCHANGED <<ctx, gen, holders, ident, seeding>>,
           t \in holders[s], ctx[t] # NoWl,
           a \in Tasks => a = t
    PROVE  IInv'
  <1>1. IdentHonest'
    BY StillHonest DEF IInv, Stamped
  <1>2. op' = [op EXCEPT ![a] = [hook |-> hook, sock |-> s, task |-> t, gen |-> gen[t],
                                 wl |-> ctx[t], at |-> "create", peer |-> NoPeer]]
    BY DEF Start
  <1>3. op \in [Writers -> Op \cup {NoOp}] /\ gen \in [Tasks -> 0 .. MaxGen]
    BY DEF IInv, TypeOK
  <1>4. OpOK'
    <2> SUFFICES ASSUME NEW b \in Writers, op'[b] # NoOp
                 PROVE  /\ <<op'[b].task, op'[b].gen, op'[b].wl>> \in held'[op'[b].sock]
                        /\ b \in Tasks => /\ op'[b].task = b /\ b \in holders'[op'[b].sock]
                                          /\ op'[b].gen = gen'[b]
      BY DEF OpOK, Writers
    <2>1. CASE b = a
      <3>1. op'[b] = [hook |-> hook, sock |-> s, task |-> t, gen |-> gen[t],
                      wl |-> ctx[t], at |-> "create", peer |-> NoPeer]
        BY <1>2, <1>3, <2>1
      <3>2. /\ op'[b].sock = s /\ op'[b].task = t /\ op'[b].gen = gen[t] /\ op'[b].wl = ctx[t]
        BY <3>1
      <3>3. <<t, gen[t], ctx[t]>> \in held'[s]
        <4> PICK g, w : g = gen[t] /\ w = ctx[t]
          OBVIOUS
        <4>1. <<t, g, w>> \in held'[s]
          BY Recorded
        <4> QED  BY <4>1
      <3> QED  BY <2>1, <3>2, <3>3
    <2>2. CASE b # a
      <3>1. op'[b] = op[b] /\ op[b] # NoOp
        BY <1>2, <1>3, <2>2
      <3> QED  BY <3>1, StillRight DEF IInv, OpOK
    <2> QED  BY <2>1, <2>2
  <1> QED  BY <1>1, <1>4 DEF IInv

\* Types, for a writer's start.
LEMMA StartType ==
    ASSUME TypeOK, NEW a \in Writers, NEW hook \in {"connect", "send", "seed"}, NEW s \in Socks,
           NEW t \in Tasks, ctx[t] # NoWl, Start(a, hook, s, t)
    PROVE  op' \in [Writers -> Op \cup {NoOp}] /\ owed' \subseteq Tasks \X Socks
  <1>1. [hook |-> hook, sock |-> s, task |-> t, gen |-> gen[t],
         wl |-> ctx[t], at |-> "create", peer |-> NoPeer] \in Op
    BY DEF TypeOK, Op
  <1> QED  BY <1>1 DEF Start, TypeOK

-----------------------------------------------------------------------------
\* The steps of NoWriter's kind.

LEMMA OpenIInv ==
    ASSUME IInv, Record, NEW t \in Tasks, NEW s \in Socks, NEW kind \in {"tcp", "udp"},
           NEW p \in Peers \cup {NoPeer}, Open(t, s, kind, p)
    PROVE  IInv'
  <1>0. TypeOK /\ OpOK /\ ProtoOK
    BY DEF IInv
  <1>1. /\ proto[s] = "none" /\ op' = op /\ ctx' = ctx /\ gen' = gen /\ ident' = ident
        /\ seeding' = seeding /\ marking' = marking /\ marked' = marked /\ todo' = todo /\ owed' = owed /\ raced' = raced /\ foreign' = foreign
        /\ proto' = [proto EXCEPT ![s] = kind] /\ peer' = [peer EXCEPT ![s] = p]
        /\ holders' = [holders EXCEPT ![s] = {t}]
    BY DEF Open, passVars
  <1>2. TypeOK'
    <2>1. /\ holders' \in [Socks -> SUBSET Tasks] /\ proto' \in [Socks -> {"none", "tcp", "udp"}]
          /\ peer' \in [Socks -> Peers \cup {NoPeer}]
      BY <1>0, <1>1 DEF TypeOK
    <2>2. held' \in [Socks -> SUBSET (Tasks \X (0 .. MaxGen) \X Ids)]
      BY <1>0, <1>1, <2>1, HeldType DEF TypeOK
    <2> QED  BY <1>0, <1>1, <2>1, <2>2 DEF TypeOK
  <1>3. ProtoOK'
    BY <1>0, <1>1 DEF ProtoOK, TypeOK
  <1>4. \A a \in Tasks : op[a] # NoOp => a \in holders'[op[a].sock]
    <2> SUFFICES ASSUME NEW a \in Tasks, op[a] # NoOp PROVE a \in holders'[op[a].sock]
      OBVIOUS
    <2> PICK o : o = op[a]
      OBVIOUS
    <2>1. a \in holders[o.sock] /\ o.sock \in Socks
      BY <1>0 DEF OpOK, Writers, TypeOK, Op
    <2>2. o.sock # s
      BY <1>0, <1>1, <2>1 DEF ProtoOK
    <2> QED  BY <1>0, <1>1, <2>1, <2>2 DEF TypeOK
  <1> QED  BY <1>0, <1>1, <1>2, <1>3, <1>4, NoWriter DEF OpOK, Stamped, Writers

LEMMA PassFdIInv ==
    ASSUME IInv, Record, NEW t \in Tasks, NEW u \in Tasks, NEW s \in Socks, PassFd(t, u, s)
    PROVE  IInv'
  <1>0. TypeOK /\ OpOK /\ ProtoOK
    BY DEF IInv
  <1>1. /\ op' = op /\ ctx' = ctx /\ gen' = gen /\ ident' = ident /\ proto' = proto /\ peer' = peer
        /\ seeding' = seeding /\ marking' = marking /\ marked' = marked /\ todo' = todo /\ owed' = owed /\ raced' = raced /\ foreign' = foreign
        /\ holders' = [holders EXCEPT ![s] = @ \cup {u}] /\ t \in holders[s]
    BY DEF PassFd, MayCall, passVars
  <1>2. TypeOK'
    <2>1. holders' \in [Socks -> SUBSET Tasks]
      BY <1>0, <1>1 DEF TypeOK
    <2>2. held' \in [Socks -> SUBSET (Tasks \X (0 .. MaxGen) \X Ids)]
      BY <1>0, <1>1, <2>1, HeldType DEF TypeOK
    <2> QED  BY <1>0, <1>1, <2>1, <2>2 DEF TypeOK
  <1>3. ProtoOK'
    BY <1>0, <1>1 DEF ProtoOK, TypeOK
  <1>4. \A a \in Tasks : op[a] # NoOp => a \in holders'[op[a].sock]
    BY <1>0, <1>1 DEF OpOK, Writers, TypeOK, Op
  <1> QED  BY <1>0, <1>1, <1>2, <1>3, <1>4, NoWriter DEF OpOK, Stamped, Writers

LEMMA CloseIInv ==
    ASSUME IInv, Record, NEW t \in Tasks, NEW s \in Socks, Close(t, s)
    PROVE  IInv'
  <1>0. TypeOK /\ OpOK /\ ProtoOK
    BY DEF IInv
  <1>1. /\ op' = op /\ ctx' = ctx /\ gen' = gen /\ ident' = ident /\ proto' = proto /\ peer' = peer
        /\ seeding' = seeding /\ marking' = marking /\ marked' = marked /\ todo' = todo /\ raced' = raced /\ foreign' = foreign
        /\ owed' = owed \ {<<t, s>>}
        /\ holders' = [holders EXCEPT ![s] = @ \ {t}] /\ op[t] = NoOp
    BY DEF Close, MayCall, passVars
  <1>2. TypeOK'
    <2>1. holders' \in [Socks -> SUBSET Tasks] /\ owed' \subseteq Tasks \X Socks
      BY <1>0, <1>1 DEF TypeOK
    <2>2. held' \in [Socks -> SUBSET (Tasks \X (0 .. MaxGen) \X Ids)]
      BY <1>0, <1>1, <2>1, HeldType DEF TypeOK
    <2> QED  BY <1>0, <1>1, <2>1, <2>2 DEF TypeOK
  <1>3. ProtoOK'
    BY <1>0, <1>1 DEF ProtoOK, TypeOK
  <1>4. \A a \in Tasks : op[a] # NoOp => a \in holders'[op[a].sock]
    BY <1>0, <1>1 DEF OpOK, Writers, TypeOK, Op
  <1> QED  BY <1>0, <1>1, <1>2, <1>3, <1>4, NoWriter DEF OpOK, Stamped, Writers

LEMMA FreeIInv == ASSUME IInv, Record, NEW s \in Socks, Free(s) PROVE IInv'
  <1>0. TypeOK /\ OpOK /\ ProtoOK
    BY DEF IInv
  <1>1. /\ op' = op /\ ctx' = ctx /\ gen' = gen /\ holders' = holders
        /\ ident' = [ident EXCEPT ![s] = NoIdent] /\ proto' = [proto EXCEPT ![s] = "none"]
        /\ peer' = [peer EXCEPT ![s] = NoPeer] /\ holders[s] = {}
        /\ seeding' = seeding /\ marking' = marking /\ marked' = marked /\ todo' = todo /\ owed' = owed
        /\ raced' = raced \ {s} /\ foreign' = foreign \ {s}
    BY DEF Free, passVars
  <1>2. TypeOK'
    <2>1. /\ ident' \in [Socks -> Ident \cup {Zero, NoIdent}]
          /\ proto' \in [Socks -> {"none", "tcp", "udp"}] /\ peer' \in [Socks -> Peers \cup {NoPeer}]
      BY <1>0, <1>1 DEF TypeOK
    <2>2. held' \in [Socks -> SUBSET (Tasks \X (0 .. MaxGen) \X Ids)]
      BY <1>0, <1>1, HeldType DEF TypeOK
    <2> QED  BY <1>0, <1>1, <2>1, <2>2 DEF TypeOK
  <1>3. ProtoOK'
    BY <1>0, <1>1 DEF ProtoOK, TypeOK
  <1>4. \A r \in Socks : Stamped(r)' => Stamped(r) /\ ident'[r] = ident[r]
    BY <1>0, <1>1 DEF Stamped, TypeOK
  <1> QED  BY <1>0, <1>1, <1>2, <1>3, <1>4, NoWriter DEF OpOK, Writers

LEMMA ExitIInv == ASSUME IInv, Record, NEW t \in Tasks, Exit(t) PROVE IInv'
  <1>0. TypeOK /\ OpOK /\ ProtoOK
    BY DEF IInv
  <1>1. /\ op[t] = NoOp /\ \A u \in Tasks : gen[u] < MaxGen
        /\ op' = op /\ ident' = ident /\ proto' = proto /\ peer' = peer
        /\ \E wl \in {NoWl} \cup {ctx[u] : u \in Tasks \ {t}} : ctx' = [ctx EXCEPT ![t] = wl]
        /\ gen' = [gen EXCEPT ![t] = @ + 1]
        /\ holders' = [s \in Socks |-> holders[s] \ {t}]
        /\ owed' = {d \in owed : d[1] # t}
        /\ seeding' = seeding /\ marking' = marking
        /\ marked' = (IF marked = t THEN Nobody ELSE marked)
        /\ todo' = todo /\ raced' = raced /\ foreign' = foreign
    BY DEF Exit
  <1>2. /\ gen'[t] = gen[t] + 1 /\ gen[t] \in 0 .. MaxGen
        /\ \A u \in Tasks : u # t => gen'[u] = gen[u]
    BY <1>0, <1>1 DEF TypeOK
  <1>3. TypeOK'
    <2>1. gen' \in [Tasks -> 0 .. MaxGen]
      <3>1. gen[t] + 1 \in 0 .. MaxGen
        BY <1>1, <1>2, GenAssumption
      <3> QED  BY <1>0, <1>1, <3>1 DEF TypeOK
    <2>2. /\ ctx' \in [Tasks -> Ids \cup {NoWl}] /\ holders' \in [Socks -> SUBSET Tasks]
          /\ owed' \subseteq Tasks \X Socks
      BY <1>0, <1>1 DEF TypeOK
    <2>3. held' \in [Socks -> SUBSET (Tasks \X (0 .. MaxGen) \X Ids)]
      BY <1>0, <1>1, <2>1, <2>2, HeldType DEF TypeOK
    <2> QED  BY <1>0, <1>1, <2>1, <2>2, <2>3 DEF TypeOK
  <1>4. ProtoOK'
    BY <1>0, <1>1 DEF ProtoOK, TypeOK
  <1>5. \A a \in Tasks : op[a] # NoOp => a \in holders'[op[a].sock] /\ gen'[a] = gen[a]
    <2> SUFFICES ASSUME NEW a \in Tasks, op[a] # NoOp
                 PROVE  a \in holders'[op[a].sock] /\ gen'[a] = gen[a]
      OBVIOUS
    <2>1. op[t] = NoOp /\ holders' = [s \in Socks |-> holders[s] \ {t}]
      BY <1>1
    <2>2. a # t /\ a \in holders[op[a].sock] /\ op[a].sock \in Socks
      BY <1>0, <2>1 DEF OpOK, Writers, TypeOK, Op
    <2> QED  BY <1>2, <2>1, <2>2
  <1> QED  BY <1>0, <1>1, <1>3, <1>4, <1>5, NoWriter DEF OpOK, Stamped, Writers

LEMMA DisconnectIInv ==
    ASSUME IInv, Record, NEW t \in Tasks, NEW s \in Socks, Disconnect(t, s)
    PROVE  IInv'
  <1>0. TypeOK /\ OpOK /\ ProtoOK
    BY DEF IInv
  <1>1. /\ op' = op /\ ctx' = ctx /\ gen' = gen /\ ident' = ident /\ proto' = proto
        /\ holders' = holders /\ seeding' = seeding /\ marking' = marking /\ marked' = marked /\ todo' = todo /\ owed' = owed
        /\ raced' = raced /\ foreign' = foreign /\ peer' = [peer EXCEPT ![s] = NoPeer]
    BY DEF Disconnect, histVars, passVars
  <1>2. TypeOK'
    <2>1. held' \in [Socks -> SUBSET (Tasks \X (0 .. MaxGen) \X Ids)]
      BY <1>0, <1>1, HeldType DEF TypeOK
    <2> QED  BY <1>0, <1>1, <2>1 DEF TypeOK
  <1> QED  BY <1>0, <1>1, <1>2, NoWriter DEF OpOK, ProtoOK, Stamped, Writers

LEMMA TreeIInv == ASSUME IInv, Record, NEW w \in Workloads, Tree(w) PROVE IInv'
  <1>0. TypeOK /\ OpOK /\ ProtoOK
    BY DEF IInv
  <1>1. /\ op' = op /\ gen' = gen /\ ctx' = ctx /\ ident' = ident /\ proto' = proto /\ peer' = peer
        /\ holders' = holders /\ raced' = raced /\ foreign' = foreign /\ owed' = owed
        /\ marking = NoWl /\ marking' = w /\ marked' = marked /\ seeding' = seeding /\ todo' = todo
    BY DEF Tree, Idle, sockVars, histVars
  <1>2. TypeOK'
    <2>1. held' \in [Socks -> SUBSET (Tasks \X (0 .. MaxGen) \X Ids)]
      BY <1>0, <1>1, HeldType DEF TypeOK
    <2> QED  BY <1>0, <1>1, <2>1 DEF TypeOK
  <1> QED  BY <1>0, <1>1, <1>2, NoWriter DEF OpOK, ProtoOK, Stamped, Writers

LEMMA MarkTaskIInv == ASSUME IInv, Record, NEW t \in Tasks, MarkTask(t) PROVE IInv'
  <1>0. TypeOK /\ OpOK /\ ProtoOK
    BY DEF IInv
  <1>1. /\ op' = op /\ gen' = gen /\ ident' = ident /\ proto' = proto /\ peer' = peer
        /\ holders' = holders /\ raced' = raced /\ foreign' = foreign /\ owed' = owed
        /\ ctx' = [ctx EXCEPT ![t] = IF @ = NoWl THEN ZeroWl ELSE @]
        /\ marking # NoWl /\ marking' = marking /\ marked' = t
        /\ seeding' = seeding /\ todo' = todo
    BY DEF MarkTask, sockVars, histVars
  <1>2. TypeOK'
    <2>1. ctx' \in [Tasks -> Ids \cup {NoWl}]
      BY <1>0, <1>1 DEF TypeOK, Ids
    <2>2. held' \in [Socks -> SUBSET (Tasks \X (0 .. MaxGen) \X Ids)]
      BY <1>0, <1>1, <2>1, HeldType DEF TypeOK
    <2> QED  BY <1>0, <1>1, <2>1, <2>2 DEF TypeOK
  <1> QED  BY <1>0, <1>1, <1>2, NoWriter DEF OpOK, ProtoOK, Stamped, Writers

LEMMA SeedBeginIInv == ASSUME IInv, Record, SeedBegin PROVE IInv'
  <1>0. TypeOK /\ OpOK /\ ProtoOK
    BY DEF IInv
  <1>1. /\ op' = op /\ gen' = gen /\ ctx' = ctx /\ ident' = ident /\ proto' = proto /\ peer' = peer
        /\ holders' = holders /\ raced' = raced /\ foreign' = foreign
        /\ marked = Nobody /\ marked' = marked /\ marking' = NoWl /\ seeding' = marking
        /\ todo' = Tasks \X Socks
        /\ owed' = owed \cup {d \in Tasks \X Socks : d[1] \in holders[d[2]] /\ ctx[d[1]] = marking}
    BY DEF SeedBegin, sockVars
  <1>2. TypeOK'
    <2>1. held' \in [Socks -> SUBSET (Tasks \X (0 .. MaxGen) \X Ids)]
      BY <1>0, <1>1, HeldType DEF TypeOK
    <2> QED  BY <1>0, <1>1, <2>1 DEF TypeOK
  <1> QED  BY <1>0, <1>1, <1>2, NoWriter DEF OpOK, ProtoOK, Stamped, Writers

LEMMA MarkEndIInv == ASSUME IInv, Record, MarkEnd PROVE IInv'
  <1>0. TypeOK /\ OpOK /\ ProtoOK
    BY DEF IInv
  <1>1. /\ op' = op /\ gen' = gen /\ ctx' = ctx /\ ident' = ident /\ proto' = proto /\ peer' = peer
        /\ holders' = holders /\ raced' = raced /\ foreign' = foreign /\ owed' = owed
        /\ marked = Nobody /\ marked' = marked /\ marking' = NoWl /\ seeding' = seeding
        /\ todo' = todo
    BY DEF MarkEnd, sockVars, histVars
  <1>2. TypeOK'
    <2>1. held' \in [Socks -> SUBSET (Tasks \X (0 .. MaxGen) \X Ids)]
      BY <1>0, <1>1, HeldType DEF TypeOK
    <2> QED  BY <1>0, <1>1, <2>1 DEF TypeOK
  <1> QED  BY <1>0, <1>1, <1>2, NoWriter DEF OpOK, ProtoOK, Stamped, Writers

\* The pass may reload the workload id of a hook at work; it is of a holder then.
LEMMA MarkFillIInv == ASSUME IInv, Record, MarkFill PROVE IInv'
  <1> PICK t : t = marked
    OBVIOUS
  <1>0. TypeOK /\ OpOK /\ ProtoOK
    BY DEF IInv
  <1>1. /\ t # Nobody /\ gen' = gen /\ ident' = ident /\ proto' = proto /\ peer' = peer
        /\ holders' = holders /\ raced' = raced /\ foreign' = foreign /\ owed' = owed
        /\ ctx' = [ctx EXCEPT ![t] = marking]
        /\ op' = op \/ (op[t] # NoOp /\ op' = [op EXCEPT ![t].wl = marking])
        /\ marking' = marking /\ marked' = Nobody /\ seeding' = seeding /\ todo' = todo
    BY DEF MarkFill, sockVars, histVars
  <1>2. t \in Tasks /\ t \in Writers /\ marking \in Workloads
    BY <1>0, <1>1 DEF TypeOK, Writers
  <1>3. ctx' \in [Tasks -> Ids \cup {NoWl}] /\ ctx'[t] = marking /\ marking # NoWl
    BY <1>0, <1>1, <1>2, WorkloadAssumption DEF TypeOK, Ids
  <1>4. held' \in [Socks -> SUBSET (Tasks \X (0 .. MaxGen) \X Ids)]
    BY <1>0, <1>1, <1>3, HeldType DEF TypeOK
  <1>5. CASE op' = op
    <2>1. TypeOK'
      BY <1>0, <1>1, <1>3, <1>4, <1>5 DEF TypeOK
    <2> QED  BY <1>0, <1>1, <1>5, <2>1, NoWriter DEF OpOK, ProtoOK, Stamped, Writers
  <1>6. CASE op[t] # NoOp /\ op' = [op EXCEPT ![t].wl = marking]
    <2> PICK n : n = [op[t] EXCEPT !.wl = marking]
      OBVIOUS
    <2>1. op[t] \in Op
      BY <1>0, <1>2, <1>6 DEF TypeOK
    <2>2. /\ n \in Op /\ n.sock = op[t].sock /\ n.task = op[t].task /\ n.gen = op[t].gen
          /\ n.wl = marking /\ n.sock \in Socks
      BY <1>2, <2>1 DEF Op, Ids
    <2>3. op'[t] = n /\ op' = [op EXCEPT ![t] = n] /\ \A b \in Writers : b # t => op'[b] = op[b]
      BY <1>0, <1>2, <1>6 DEF TypeOK
    <2>4. TypeOK'
      <3>1. op' \in [Writers -> Op \cup {NoOp}]
        BY <1>0, <2>2, <2>3 DEF TypeOK
      <3> QED  BY <1>0, <1>1, <1>3, <1>4, <3>1 DEF TypeOK
    <2>5. IdentHonest'
      BY <1>1, StillHonest DEF IInv, Stamped
    <2>6. OpOK'
      <3> SUFFICES ASSUME NEW b \in Writers, op'[b] # NoOp
                   PROVE  /\ <<op'[b].task, op'[b].gen, op'[b].wl>> \in held'[op'[b].sock]
                          /\ b \in Tasks => /\ op'[b].task = b /\ b \in holders'[op'[b].sock]
                                            /\ op'[b].gen = gen'[b]
        BY DEF OpOK, Writers
      <3>1. CASE b = t
        <4>1. op[t].task = t /\ t \in holders[op[t].sock] /\ op[t].gen = gen[t]
          BY <1>0, <1>2, <1>6 DEF OpOK
        <4>2. ASSUME NEW g, g = gen[t], NEW w, w = marking, NEW k \in Socks, k = n.sock
              PROVE  <<t, g, w>> \in held'[k]
          BY <1>1, <1>3, <2>2, <4>1, <4>2, Recorded
        <4>3. <<t, gen[t], marking>> \in held'[n.sock]
          BY <2>2, <4>2
        <4> QED  BY <1>1, <2>2, <2>3, <3>1, <4>1, <4>3
      <3>2. CASE b # t
        <4>1. op'[b] = op[b] /\ op[b] # NoOp
          BY <2>3, <3>2
        <4> QED  BY <1>1, <2>4, <4>1, StillRight DEF IInv, OpOK
      <3> QED  BY <3>1, <3>2
    <2>7. ProtoOK'
      BY <1>0, <1>1 DEF ProtoOK
    <2> QED  BY <2>4, <2>5, <2>6, <2>7 DEF IInv
  <1> QED  BY <1>1, <1>5, <1>6

LEMMA UntrackIInv ==
    ASSUME IInv, Record, NEW w \in Workloads, Untrack(w)
    PROVE  IInv'
  <1>0. TypeOK /\ OpOK /\ ProtoOK
    BY DEF IInv
  <1>1. /\ op' = op /\ gen' = gen /\ ident' = ident /\ proto' = proto /\ peer' = peer
        /\ holders' = holders /\ raced' = raced /\ foreign' = foreign /\ owed' = owed
        /\ ctx' = [t \in Tasks |-> IF ctx[t] = w THEN NoWl ELSE ctx[t]]
        /\ seeding' = seeding /\ marking' = marking /\ marked' = marked /\ todo' = todo
    BY DEF Untrack, Idle, sockVars, histVars, passVars
  <1>2. TypeOK'
    <2>1. ctx' \in [Tasks -> Ids \cup {NoWl}]
      BY <1>0, <1>1 DEF TypeOK
    <2>2. held' \in [Socks -> SUBSET (Tasks \X (0 .. MaxGen) \X Ids)]
      BY <1>0, <1>1, <2>1, HeldType DEF TypeOK
    <2> QED  BY <1>0, <1>1, <2>1, <2>2 DEF TypeOK
  <1> QED  BY <1>0, <1>1, <1>2, NoWriter DEF OpOK, ProtoOK, Stamped, Writers

LEMMA SeedEndIInv == ASSUME IInv, Record, SeedEnd PROVE IInv'
  <1>0. TypeOK /\ OpOK /\ ProtoOK
    BY DEF IInv
  <1>1. /\ op' = op /\ gen' = gen /\ ctx' = ctx /\ ident' = ident /\ proto' = proto /\ peer' = peer
        /\ holders' = holders /\ raced' = raced /\ foreign' = foreign /\ owed' = owed \ todo
        /\ seeding' = NoWl /\ todo' = {} /\ marking' = marking /\ marked' = marked
    BY DEF SeedEnd, sockVars, passVars
  <1>2. TypeOK'
    <2>1. held' \in [Socks -> SUBSET (Tasks \X (0 .. MaxGen) \X Ids)]
      BY <1>0, <1>1, HeldType DEF TypeOK
    <2> QED  BY <1>0, <1>1, <2>1 DEF TypeOK
  <1> QED  BY <1>0, <1>1, <1>2, NoWriter DEF OpOK, ProtoOK, Stamped, Writers

-----------------------------------------------------------------------------
\* The steps of writers.

LEMMA ConnectTcpIInv ==
    ASSUME IInv, Record, NEW t \in Tasks, NEW s \in Socks, NEW p \in Peers, ConnectTcp(t, s, p)
    PROVE  IInv'
  <1>0. TypeOK /\ OpOK /\ ProtoOK
    BY DEF IInv
  <1>1. /\ t \in holders[s] /\ ctx' = ctx /\ gen' = gen /\ ident' = ident /\ proto' = proto
        /\ holders' = holders /\ seeding' = seeding /\ marking' = marking /\ marked' = marked /\ todo' = todo
        /\ peer' = [peer EXCEPT ![s] = p]
    BY DEF ConnectTcp, MayCall, passVars
  <1>2. raced' \subseteq Socks /\ foreign' \subseteq Socks
    BY <1>0 DEF ConnectTcp, TypeOK
  <1>3. peer' \in [Socks -> Peers \cup {NoPeer}]
    BY <1>0, <1>1 DEF TypeOK
  <1>4. held' \in [Socks -> SUBSET (Tasks \X (0 .. MaxGen) \X Ids)]
    BY <1>0, <1>1, HeldType DEF TypeOK
  <1>5. ProtoOK'
    BY <1>0, <1>1 DEF ProtoOK
  <1>6. CASE ctx[t] = NoWl
    <2>1. op' = op /\ owed' = owed
      BY <1>6 DEF ConnectTcp
    <2>2. TypeOK'
      BY <1>0, <1>1, <1>2, <1>3, <1>4, <2>1 DEF TypeOK
    <2> QED  BY <1>0, <1>1, <1>5, <2>1, <2>2, NoWriter DEF OpOK, Stamped, Writers
  <1>7. CASE ctx[t] # NoWl
    <2>1. Start(t, "connect", s, t)
      BY <1>7 DEF ConnectTcp
    <2>2. op' \in [Writers -> Op \cup {NoOp}] /\ owed' \subseteq Tasks \X Socks
      BY <1>0, <1>7, <2>1, StartType DEF Writers
    <2>3. TypeOK'
      BY <1>0, <1>1, <1>2, <1>3, <1>4, <2>2 DEF TypeOK
    <2> QED  BY <1>1, <1>5, <1>7, <2>1, <2>3, StartIInv, SeederAssumption DEF Writers
  <1> QED  BY <1>6, <1>7

LEMMA SendIInv ==
    ASSUME IInv, Record, NEW t \in Tasks, NEW s \in Socks, Send(t, s)
    PROVE  IInv'
  <1>0. TypeOK /\ ProtoOK
    BY DEF IInv
  <1>1. /\ t \in holders[s] /\ ctx[t] # NoWl /\ ctx' = ctx /\ gen' = gen /\ ident' = ident
        /\ proto' = proto /\ peer' = peer /\ holders' = holders /\ seeding' = seeding /\ marking' = marking /\ marked' = marked
        /\ todo' = todo /\ foreign' = foreign /\ Start(t, "send", s, t)
    BY DEF Send, MayCall, sockVars, passVars
  <1>2. raced' \subseteq Socks
    BY <1>0 DEF Send, Overlap, TypeOK
  <1>3. held' \in [Socks -> SUBSET (Tasks \X (0 .. MaxGen) \X Ids)]
    BY <1>0, <1>1, HeldType DEF TypeOK
  <1>4. op' \in [Writers -> Op \cup {NoOp}] /\ owed' \subseteq Tasks \X Socks
    BY <1>0, <1>1, StartType DEF Writers
  <1>5. TypeOK'
    BY <1>0, <1>1, <1>2, <1>3, <1>4 DEF TypeOK
  <1>6. ProtoOK'
    BY <1>0, <1>1 DEF ProtoOK
  <1> QED  BY <1>1, <1>5, <1>6, StartIInv, SeederAssumption DEF Writers

LEMMA SeedVisitIInv ==
    ASSUME IInv, Record, NEW t \in Tasks, NEW s \in Socks, SeedVisit(t, s)
    PROVE  IInv'
  <1>0. TypeOK /\ OpOK /\ ProtoOK
    BY DEF IInv
  <1>1. /\ seeding # NoWl /\ ctx' = ctx /\ gen' = gen /\ ident' = ident
        /\ proto' = proto /\ peer' = peer /\ holders' = holders /\ seeding' = seeding /\ marking' = marking /\ marked' = marked
        /\ todo' = todo \ {<<t, s>>} /\ foreign' = foreign
    BY DEF SeedVisit, sockVars, passVars
  <1>2. held' \in [Socks -> SUBSET (Tasks \X (0 .. MaxGen) \X Ids)]
    BY <1>0, <1>1, HeldType DEF TypeOK
  <1>3. ProtoOK'
    BY <1>0, <1>1 DEF ProtoOK
  <1>4. CASE t \in holders[s] /\ ctx[t] = seeding /\ ident[s] = NoIdent
    <2>1. Start(Seeder, "seed", s, t) /\ Overlap(s)
      BY <1>4 DEF SeedVisit
    <2>2. raced' \subseteq Socks
      BY <1>0, <2>1 DEF Overlap, TypeOK
    <2>3. op' \in [Writers -> Op \cup {NoOp}] /\ owed' \subseteq Tasks \X Socks
      BY <1>0, <1>1, <1>4, <2>1, StartType DEF Writers
    <2>4. TypeOK'
      BY <1>0, <1>1, <1>2, <2>2, <2>3 DEF TypeOK
    <2> QED  BY <1>1, <1>3, <1>4, <2>1, <2>4, StartIInv, SeederAssumption DEF Writers
  <1>5. CASE ~(t \in holders[s] /\ ctx[t] = seeding /\ ident[s] = NoIdent)
    <2>1. op' = op /\ owed' = owed /\ raced' = raced
      BY <1>5 DEF SeedVisit
    <2>2. TypeOK'
      BY <1>0, <1>1, <1>2, <2>1 DEF TypeOK
    <2> QED  BY <1>0, <1>1, <1>3, <2>1, <2>2, NoWriter DEF OpOK, Stamped, Writers
  <1> QED  BY <1>4, <1>5

\* A writer goes on, or ends; the other writers and the tasks stand still.
LEMMA WriterIInv ==
    ASSUME IInv, Record, TypeOK', NEW a \in Writers,
           UNCHANGED <<ctx, gen, holders, proto, seeding>>,
           \A b \in Writers : b # a => op'[b] = op[b],
           op'[a] # NoOp =>
               /\ op[a] # NoOp
               /\ op'[a].sock = op[a].sock /\ op'[a].task = op[a].task
               /\ op'[a].gen = op[a].gen /\ op'[a].wl = op[a].wl,
           IdentHonest'
    PROVE  IInv'
  <1>1. ProtoOK'
    BY DEF IInv, ProtoOK
  <1>2. OpOK'
    <2> SUFFICES ASSUME NEW b \in Writers, op'[b] # NoOp
                 PROVE  /\ <<op'[b].task, op'[b].gen, op'[b].wl>> \in held'[op'[b].sock]
                        /\ b \in Tasks => /\ op'[b].task = b /\ b \in holders'[op'[b].sock]
                                          /\ op'[b].gen = gen'[b]
      BY DEF OpOK, Writers
    <2>1. /\ op[b] # NoOp
          /\ op'[b].sock = op[b].sock /\ op'[b].task = op[b].task
          /\ op'[b].gen = op[b].gen /\ op'[b].wl = op[b].wl
      OBVIOUS
    <2> QED  BY <2>1, StillRight DEF IInv, OpOK
  <1> QED  BY <1>1, <1>2 DEF IInv

LEMMA CreateIInv == ASSUME IInv, Record, NEW a \in Writers, Create(a) PROVE IInv'
  <1> PICK o : o = op[a]
    OBVIOUS
  <1>0. TypeOK
    BY DEF IInv
  <1>1. /\ o # NoOp /\ ctx' = ctx /\ gen' = gen /\ holders' = holders /\ proto' = proto
        /\ peer' = peer /\ seeding' = seeding /\ marking' = marking /\ marked' = marked /\ todo' = todo /\ raced' = raced
        /\ foreign' = foreign
    BY DEF Create, sockVars, passVars
  <1>2. o \in Op /\ o.sock \in Socks /\ peer[o.sock] \in Peers \cup {NoPeer}
    BY <1>0, <1>1 DEF TypeOK, Op
  <1>3. held' \in [Socks -> SUBSET (Tasks \X (0 .. MaxGen) \X Ids)]
    BY <1>0, <1>1, HeldType DEF TypeOK
  <1>4. op \in [Writers -> Op \cup {NoOp}] /\ ident \in [Socks -> Ident \cup {Zero, NoIdent}]
    BY <1>0 DEF TypeOK
  <1>5. CASE /\ ident' = [ident EXCEPT ![o.sock] = IF @ = NoIdent THEN Zero ELSE @]
             /\ op' = [op EXCEPT ![a].at = "fill", ![a].peer = peer[o.sock]]
             /\ owed' = owed
    <2>1. /\ op'[a] = [o EXCEPT !.at = "fill", !.peer = peer[o.sock]]
          /\ \A b \in Writers : b # a => op'[b] = op[b]
      BY <1>4, <1>5
    <2> PICK n : n = [o EXCEPT !.at = "fill", !.peer = peer[o.sock]]
      OBVIOUS
    <2>2. /\ n \in Op /\ n.sock = o.sock /\ n.task = o.task /\ n.gen = o.gen /\ n.wl = o.wl
      BY <1>2 DEF Op
    <2>3. op' \in [Writers -> Op \cup {NoOp}]
      <3>1. op' = [op EXCEPT ![a] = n]
        BY <1>4, <1>5
      <3> QED  BY <1>4, <2>2, <3>1
    <2>4. ident' \in [Socks -> Ident \cup {Zero, NoIdent}]
      BY <1>2, <1>4, <1>5
    <2>5. TypeOK'
      BY <1>0, <1>1, <1>3, <1>5, <2>3, <2>4 DEF TypeOK
    <2>6. \A s \in Socks : Stamped(s)' => Stamped(s) /\ ident'[s] = ident[s]
      BY <1>2, <1>4, <1>5 DEF Stamped
    <2>7. IdentHonest'
      BY <2>6, StillHonest DEF IInv
    <2> QED  BY <1>1, <2>1, <2>2, <2>5, <2>7, WriterIInv
  <1>6. CASE /\ owed' = owed \ {<<o.task, o.sock>>} /\ op' = [op EXCEPT ![a] = NoOp]
             /\ ident' = ident
    <2>1. TypeOK'
      BY <1>0, <1>1, <1>3, <1>6 DEF TypeOK
    <2>2. op'[a] = NoOp /\ \A b \in Writers : b # a => op'[b] = op[b]
      BY <1>4, <1>6
    <2>3. IdentHonest'
      BY <1>6, StillHonest DEF IInv, Stamped
    <2> QED  BY <1>1, <2>1, <2>2, <2>3, WriterIInv
  <1> QED  BY <1>5, <1>6 DEF Create

LEMMA FillIInv == ASSUME IInv, Record, NEW a \in Writers, Fill(a) PROVE IInv'
  <1> PICK o : o = op[a]
    OBVIOUS
  <1>0. TypeOK /\ OpOK
    BY DEF IInv
  <1> PICK n : n = [wl |-> o.wl, task |-> o.task, gen |-> o.gen, peer |-> o.peer]
    OBVIOUS
  <1>1. /\ o # NoOp /\ ctx' = ctx /\ gen' = gen /\ holders' = holders /\ proto' = proto
        /\ peer' = peer /\ seeding' = seeding /\ marking' = marking /\ marked' = marked
        /\ todo' = todo /\ raced' = raced
        /\ foreign' = foreign /\ owed' = owed /\ op' = [op EXCEPT ![a] = NoOp]
        /\ ident' = [ident EXCEPT ![o.sock] = n]
    BY DEF Fill, sockVars, passVars, histVars
  <1>3. o \in Op /\ o.sock \in Socks /\ o.task \in Tasks
    BY <1>0, <1>1 DEF TypeOK, Op
  <1>4. held' \in [Socks -> SUBSET (Tasks \X (0 .. MaxGen) \X Ids)]
    BY <1>0, <1>1, HeldType DEF TypeOK
  <1>5. op \in [Writers -> Op \cup {NoOp}] /\ ident \in [Socks -> Ident \cup {Zero, NoIdent}]
    BY <1>0 DEF TypeOK
  <1>7. n \in Ident
    BY <1>3 DEF Op, Ident
  <1>8. TypeOK'
    <2>1. ident' \in [Socks -> Ident \cup {Zero, NoIdent}]
      BY <1>1, <1>3, <1>5, <1>7
    <2>2. op' \in [Writers -> Op \cup {NoOp}]
      BY <1>1, <1>5
    <2> QED  BY <1>0, <1>1, <1>4, <2>1, <2>2 DEF TypeOK
  <1>9. op'[a] = NoOp /\ \A b \in Writers : b # a => op'[b] = op[b]
    BY <1>1, <1>5
  <1>10. ident'[o.sock] = n /\ \A s \in Socks : s # o.sock => ident'[s] = ident[s]
    BY <1>1, <1>3, <1>5
  <1>11. n.task = o.task /\ n.gen = o.gen /\ n.wl = o.wl
    OBVIOUS
  <1>12. ASSUME NEW s \in Socks, s = o.sock, Stamped(s)'
         PROVE  <<o.task, o.gen, o.wl>> \in held'[s]
    <2>1. <<o.task, o.gen, o.wl>> \in held[s]
      BY <1>0, <1>1, <1>12 DEF OpOK
    <2>2. ident'[s].task = o.task /\ ident'[s].gen = o.gen /\ ident'[s].wl = o.wl
      BY <1>10, <1>11, <1>12
    <2>3. Named(s, o.task, o.gen, o.wl)'
      BY <1>12, <2>2 DEF Named
    <2> QED  BY <2>1, <2>3, Recorded
  <1>13. IdentHonest'
    <2>1. \A s \in Socks : Stamped(s)' =>
               \/ Stamped(s) /\ ident'[s] = ident[s]
               \/ <<ident'[s].task, ident'[s].gen, ident'[s].wl>> \in held'[s]
      <3> SUFFICES ASSUME NEW s \in Socks, Stamped(s)'
                   PROVE  \/ Stamped(s) /\ ident'[s] = ident[s]
                          \/ <<ident'[s].task, ident'[s].gen, ident'[s].wl>> \in held'[s]
        OBVIOUS
      <3>1. CASE s = o.sock
        <4>1. <<o.task, o.gen, o.wl>> \in held'[s]
          BY <1>12, <3>1
        <4>2. ident'[s].task = o.task /\ ident'[s].gen = o.gen /\ ident'[s].wl = o.wl
          BY <1>10, <1>11, <3>1
        <4> QED  BY <4>1, <4>2
      <3>2. CASE s # o.sock
        BY <1>10, <3>2 DEF Stamped
      <3> QED  BY <3>1, <3>2
    <2> QED  BY <2>1, StillHonest DEF IInv
  <1> QED  BY <1>1, <1>8, <1>9, <1>13, WriterIInv

LEMMA InitIInv == Init => IInv
  <1> SUFFICES ASSUME Init PROVE IInv
    OBVIOUS
  <1>1. TypeOK
    BY GenAssumption DEF Init, TypeOK
  <1>2. OpOK /\ ProtoOK /\ IdentHonest
    BY DEF Init, OpOK, ProtoOK, IdentHonest, Stamped
  <1> QED  BY <1>1, <1>2 DEF IInv

LEMMA StutterIInv == IInv /\ UNCHANGED vars => IInv'
  <1> SUFFICES ASSUME IInv, UNCHANGED vars PROVE IInv'
    OBVIOUS
  <1>1. TypeOK'
    BY DEF IInv, TypeOK, vars, sockVars, passVars, histVars
  <1>2. OpOK'
    BY DEF IInv, OpOK, vars, sockVars, histVars
  <1>3. ProtoOK' /\ IdentHonest'
    BY DEF IInv, ProtoOK, IdentHonest, Stamped, vars, sockVars, histVars
  <1> QED  BY <1>1, <1>2, <1>3 DEF IInv

LEMMA NextIInv == IInv /\ [Next]_vars => IInv'
  <1>1. ASSUME IInv, Next PROVE IInv'
    <2>0. Step /\ Record
      BY <1>1 DEF Next
    <2>1. CASE \E t \in Tasks, s \in Socks, kind \in {"tcp", "udp"}, p \in Peers \cup {NoPeer} :
                  Open(t, s, kind, p)
      BY <1>1, <2>0, <2>1, OpenIInv
    <2>2. CASE \E t, u \in Tasks, s \in Socks : PassFd(t, u, s)
      BY <1>1, <2>0, <2>2, PassFdIInv
    <2>3. CASE \E t \in Tasks, s \in Socks : Close(t, s)
      BY <1>1, <2>0, <2>3, CloseIInv
    <2>4. CASE \E s \in Socks : Free(s)
      BY <1>1, <2>0, <2>4, FreeIInv
    <2>5. CASE \E t \in Tasks : Exit(t)
      BY <1>1, <2>0, <2>5, ExitIInv
    <2>6. CASE \E t \in Tasks, s \in Socks : Disconnect(t, s)
      BY <1>1, <2>0, <2>6, DisconnectIInv
    <2>7. CASE \E t \in Tasks, s \in Socks, p \in Peers : ConnectTcp(t, s, p)
      BY <1>1, <2>0, <2>7, ConnectTcpIInv
    <2>8. CASE \E t \in Tasks, s \in Socks : Send(t, s)
      BY <1>1, <2>0, <2>8, SendIInv
    <2>9. CASE \E a \in Writers : Create(a)
      BY <1>1, <2>0, <2>9, CreateIInv
    <2>10. CASE \E a \in Writers : Fill(a)
      BY <1>1, <2>0, <2>10, FillIInv
    <2>11. CASE \E w \in Workloads : Tree(w)
      BY <1>1, <2>0, <2>11, TreeIInv
    <2>12. CASE \E w \in Workloads : Untrack(w)
      BY <1>1, <2>0, <2>12, UntrackIInv
    <2>13. CASE \E t \in Tasks, s \in Socks : SeedVisit(t, s)
      BY <1>1, <2>0, <2>13, SeedVisitIInv
    <2>14. CASE SeedEnd
      BY <1>1, <2>0, <2>14, SeedEndIInv
    <2>15. CASE \E t \in Tasks : MarkTask(t)
      BY <1>1, <2>0, <2>15, MarkTaskIInv
    <2>16. CASE MarkFill
      BY <1>1, <2>0, <2>16, MarkFillIInv
    <2>17. CASE SeedBegin
      BY <1>1, <2>0, <2>17, SeedBeginIInv
    <2>18. CASE MarkEnd
      BY <1>1, <2>0, <2>18, MarkEndIInv
    <2> QED
      BY <2>0, <2>1, <2>2, <2>3, <2>4, <2>5, <2>6, <2>7, <2>8, <2>9, <2>10, <2>11, <2>12, <2>13, <2>14,
         <2>15, <2>16, <2>17, <2>18 DEF Step
  <1> QED  BY <1>1, StutterIInv

\* No sock is attributed to a stranger, whatever races, is passed around or reused:
\* an identity names a process that held the sock, and a workload id its context had
\* then, which is 0 if the mark pass had not filled it.
THEOREM NoStranger == Spec => []IdentHonest
  <1>1. IInv => IdentHonest
    BY DEF IInv
  <1> QED  BY InitIInv, NextIInv, <1>1, PTL DEF Spec

\* Socks, tasks, writers and identities keep their types.
THEOREM TypeCorrect == Spec => []TypeOK
  <1>1. IInv => TypeOK
    BY DEF IInv
  <1> QED  BY InitIInv, NextIInv, <1>1, PTL DEF Spec

-----------------------------------------------------------------------------
(***************************************************************************)
(* Which identity stays, and which tuple it has.  What goes wrong goes     *)
(* wrong while two writers are at work on one sock, or one during a        *)
(* connect; raced says so.  Otherwise the one writer is a connect, or      *)
(* found the sock without an identity, and the tuple it has read is that   *)
(* of the connection.                                                      *)
(***************************************************************************)

\* A sock with no race has one writer, and only a connect works on a stamped one.
OneWriter ==
    /\ \A s \in Socks \ raced : \A a, b \in Writers :
          At(a, s) /\ At(b, s) => a = b /\ (Stamped(s) => op[a].hook = "connect")
    /\ \A a \in Writers : op[a] # NoOp /\ op[a].hook = "connect" => a \in Tasks

\* No writer, and no identity, outlives its sock.
NoSockNoWriter == \A s \in Socks : proto[s] = "none" => ident[s] = NoIdent /\ ~Busy(s)

\* The tuple of the identity, and the one a writer has read, is that of the connection.
FreshAt(s) ==
    proto[s] = "tcp" /\ s \notin raced \cup foreign =>
        /\ Stamped(s) /\ ~Busy(s) => peer[s] \in {NoPeer, ident[s].peer}
        /\ \A a \in Writers : At(a, s) /\ op[a].at = "fill" => peer[s] \in {NoPeer, op[a].peer}

FInv == OneWriter /\ NoSockNoWriter /\ \A s \in Socks : FreshAt(s)

\* What a start leaves.
LEMMA Started ==
    ASSUME TypeOK, NEW a \in Writers, NEW hook \in {"connect", "send", "seed"}, NEW s \in Socks,
           NEW t \in Tasks, ctx[t] # NoWl, Start(a, hook, s, t), op[a] = NoOp
    PROVE  /\ op'[a] # NoOp /\ op'[a].sock = s /\ op'[a].hook = hook /\ op'[a].task = t
           /\ op'[a].at = "create"
           /\ \A b \in Writers : b # a => op'[b] = op[b]
           /\ \A r : r # s => Busy(r)' = Busy(r)
  <1> PICK o : o = [hook |-> hook, sock |-> s, task |-> t, gen |-> gen[t],
                    wl |-> ctx[t], at |-> "create", peer |-> NoPeer]
    OBVIOUS
  <1>1. o \in Op
    BY DEF TypeOK, Op
  <1>2. op' = [op EXCEPT ![a] = o] /\ op \in [Writers -> Op \cup {NoOp}]
    BY DEF Start, TypeOK
  <1>3. op'[a] = o /\ \A b \in Writers : b # a => op'[b] = op[b]
    BY <1>2
  <1>4. o.sock = s
    OBVIOUS
  <1>5. ASSUME NEW r, r # s PROVE Busy(r)' = Busy(r)
    <2>1. \A b \in Writers : At(b, r)' <=> At(b, r)
      BY <1>3, <1>4, <1>5 DEF At
    <2> QED  BY <2>1 DEF Busy
  <1> QED  BY <1>1, <1>3, <1>4, <1>5, NothingAssumption

\* A step of no writer, that ends a race only where no writer is.
LEMMA QuietOne ==
    ASSUME OneWriter, op' = op, \A s \in Socks : Stamped(s)' => Stamped(s),
           \A s \in raced : s \in raced' \/ ~Busy(s)
    PROVE  OneWriter'
  <1>1. ASSUME NEW s \in Socks \ raced', NEW a \in Writers, NEW b \in Writers,
               At(a, s)', At(b, s)'
        PROVE  a = b /\ (Stamped(s)' => op'[a].hook = "connect")
    <2>1. At(a, s) /\ At(b, s)
      BY <1>1 DEF At
    <2>2. s \notin raced
      BY <1>1, <2>1 DEF Busy
    <2> QED  BY <2>1, <2>2 DEF OneWriter
  <1> QED  BY <1>1 DEF OneWriter

LEMMA QuietAt == ASSUME op' = op PROVE \A s : Busy(s)' = Busy(s) /\ \A a : At(a, s)' = At(a, s)
  BY DEF Busy, At

\* The mark pass changes what a writer has read, but not what it works on.
SameWork ==
    \A a \in Writers :
        /\ op'[a] # NoOp <=> op[a] # NoOp
        /\ op[a] # NoOp => /\ op'[a].sock = op[a].sock /\ op'[a].hook = op[a].hook
                           /\ op'[a].task = op[a].task /\ op'[a].at = op[a].at
                           /\ op'[a].peer = op[a].peer

LEMMA MarkFillWork ==
    ASSUME IInv, MarkFill
    PROVE  /\ SameWork
           /\ \A s \in Socks : Busy(s)' = Busy(s) /\ \A a \in Writers : At(a, s)' = At(a, s)
           /\ UNCHANGED <<ident, proto, peer, holders, owed, raced, foreign, marking, seeding, todo>>
           /\ marking # NoWl
  <1>1. /\ marked # Nobody
        /\ op' = op \/ (op[marked] # NoOp /\ op' = [op EXCEPT ![marked].wl = marking])
        /\ UNCHANGED <<ident, proto, peer, holders, owed, raced, foreign, marking, seeding, todo>>
    BY DEF MarkFill, sockVars, histVars
  <1>2. SameWork
    <2>1. CASE op' = op
      BY <2>1 DEF SameWork
    <2>2. CASE op[marked] # NoOp /\ op' = [op EXCEPT ![marked].wl = marking]
      <3> PICK t, n : t = marked /\ n = [op[t] EXCEPT !.wl = marking]
        OBVIOUS
      <3>1. t \in Writers /\ op[t] \in Op /\ marking \in Ids
        BY <1>1, <2>2 DEF IInv, TypeOK, Writers, Ids
      <3>2. /\ n \in Op /\ n.sock = op[t].sock /\ n.hook = op[t].hook /\ n.task = op[t].task
            /\ n.at = op[t].at /\ n.peer = op[t].peer
        BY <3>1 DEF Op
      <3>3. op'[t] = n /\ \A b \in Writers : b # t => op'[b] = op[b]
        BY <2>2, <3>1 DEF IInv, TypeOK
      <3>4. n # NoOp /\ op[t] # NoOp
        BY <2>2, <3>2, NothingAssumption
      <3> QED  BY <3>2, <3>3, <3>4 DEF SameWork
    <2> QED  BY <1>1, <2>1, <2>2
  <1>3. \A s \in Socks, a \in Writers : At(a, s)' = At(a, s)
    BY <1>2 DEF SameWork, At
  <1>4. \A s \in Socks : Busy(s)' = Busy(s)
    BY <1>3 DEF Busy
  <1>5. marking # NoWl
    BY <1>1 DEF IInv, TypeOK
  <1> QED  BY <1>1, <1>2, <1>3, <1>4, <1>5

LEMMA MarkFillFInv == ASSUME IInv, FInv, MarkFill PROVE FInv'
  <1>1. /\ SameWork
        /\ \A s \in Socks : Busy(s)' = Busy(s) /\ \A a \in Writers : At(a, s)' = At(a, s)
        /\ UNCHANGED <<ident, proto, peer, raced, foreign>>
    BY MarkFillWork
  <1>2. OneWriter'
    <2>1. ASSUME NEW s \in Socks \ raced', NEW a \in Writers, NEW b \in Writers,
                 At(a, s)', At(b, s)'
          PROVE  a = b /\ (Stamped(s)' => op'[a].hook = "connect")
      <3>1. At(a, s) /\ At(b, s) /\ s \notin raced
        BY <1>1, <2>1
      <3>2. op'[a].hook = op[a].hook
        BY <1>1, <3>1 DEF At, SameWork
      <3> QED  BY <1>1, <3>1, <3>2 DEF FInv, OneWriter, Stamped
    <2>2. ASSUME NEW a \in Writers, op'[a] # NoOp, op'[a].hook = "connect" PROVE a \in Tasks
      BY <1>1, <2>2 DEF FInv, OneWriter, SameWork
    <2> QED  BY <2>1, <2>2 DEF OneWriter
  <1>3. NoSockNoWriter'
    BY <1>1 DEF FInv, NoSockNoWriter
  <1>4. ASSUME NEW s \in Socks PROVE FreshAt(s)'
    <2>1. FreshAt(s) /\ Stamped(s)' = Stamped(s)
      BY <1>1 DEF FInv, Stamped
    <2>2. ASSUME NEW a \in Writers, At(a, s)' PROVE At(a, s) /\ op'[a].at = op[a].at /\ op'[a].peer = op[a].peer
      BY <1>1, <2>2 DEF At, SameWork
    <2> QED  BY <1>1, <2>1, <2>2 DEF FreshAt
  <1> QED  BY <1>2, <1>3, <1>4 DEF FInv

\* A start, on a sock where it is alone or a race.
LEMMA StartFInv ==
    ASSUME IInv, FInv, NEW a \in Writers, NEW hook \in {"connect", "send", "seed"}, NEW s \in Socks,
           NEW t \in Tasks, ctx[t] # NoWl, Start(a, hook, s, t), op[a] = NoOp, t \in holders[s],
           UNCHANGED <<ident, proto>>,
           \A r \in Socks : r # s => peer'[r] = peer[r],
           hook = "connect" => a \in Tasks,
           Stamped(s) => hook = "connect",
           Busy(s) => s \in raced',
           \A r \in Socks : r # s => (r \in raced' <=> r \in raced) /\ (r \in foreign' <=> r \in foreign)
    PROVE  FInv'
  <1>0. /\ op'[a] # NoOp /\ op'[a].sock = s /\ op'[a].hook = hook /\ op'[a].at = "create"
        /\ \A b \in Writers : b # a => op'[b] = op[b]
        /\ \A r : r # s => Busy(r)' = Busy(r)
    BY Started DEF IInv
  <1>1. \A r \in Socks, b \in Writers :
            At(b, r)' => (b = a /\ r = s) \/ (b # a /\ At(b, r) /\ op'[b] = op[b])
    BY <1>0 DEF At
  <1>2. OneWriter'
    <2>1. ASSUME NEW r \in Socks \ raced', NEW b \in Writers, NEW c \in Writers,
                 At(b, r)', At(c, r)'
          PROVE  b = c /\ (Stamped(r)' => op'[b].hook = "connect")
      <3>1. CASE r = s
        <4>1. ~Busy(s)
          BY <2>1, <3>1
        <4>2. b = a /\ c = a
          BY <1>1, <2>1, <3>1, <4>1 DEF Busy
        <4> QED  BY <1>0, <3>1, <4>2 DEF Stamped
      <3>2. CASE r # s
        <4>1. At(b, r) /\ At(c, r) /\ op'[b] = op[b] /\ r \notin raced
          BY <1>1, <2>1, <3>2
        <4> QED  BY <4>1 DEF FInv, OneWriter, Stamped
      <3> QED  BY <3>1, <3>2
    <2>2. ASSUME NEW b \in Writers, op'[b] # NoOp, op'[b].hook = "connect" PROVE b \in Tasks
      BY <1>0, <2>2 DEF FInv, OneWriter
    <2> QED  BY <2>1, <2>2 DEF OneWriter
  <1>3. NoSockNoWriter'
    <2>1. proto[s] # "none"
      BY DEF IInv, ProtoOK
    <2> QED  BY <1>0, <2>1 DEF FInv, NoSockNoWriter
  <1>4. ASSUME NEW r \in Socks PROVE FreshAt(r)'
    <2>1. CASE r = s
      <3>1. Busy(s)'
        BY <1>0 DEF Busy, At
      <3>2. ASSUME s \notin raced', NEW b \in Writers, At(b, s)', op'[b].at = "fill" PROVE FALSE
        <4>1. b = a
          BY <1>1, <3>2 DEF Busy
        <4> QED  BY <1>0, <3>2, <4>1
      <3> QED  BY <2>1, <3>1, <3>2 DEF FreshAt
    <2>2. CASE r # s
      <3>1. FreshAt(r)
        BY DEF FInv
      <3>2. Busy(r)' = Busy(r) /\ Stamped(r)' = Stamped(r)
        BY <1>0, <2>2 DEF Stamped
      <3>3. \A b \in Writers : At(b, r)' => At(b, r) /\ op'[b] = op[b]
        BY <1>1, <2>2
      <3> QED  BY <2>2, <3>1, <3>2, <3>3 DEF FreshAt
    <2> QED  BY <2>1, <2>2
  <1> QED  BY <1>2, <1>3, <1>4 DEF FInv


\* A step of no writer, after which a tracked tuple is an old one, or none.
LEMMA QuietFInv ==
    ASSUME FInv, UNCHANGED <<op, ident>>,
           \A s \in raced : s \in raced' \/ ~Busy(s),
           \A s \in Socks : proto'[s] = "none" => proto[s] = "none",
           \A s \in Socks : s \in raced' \cup foreign' \/ (~Stamped(s) /\ ~Busy(s))
                            \/ (/\ s \notin raced \cup foreign /\ proto'[s] = proto[s]
                                /\ peer'[s] \in {NoPeer, peer[s]})
    PROVE  FInv'
  <1>1. OneWriter'
    BY QuietOne DEF FInv, Stamped
  <1>2. \A s : Busy(s)' = Busy(s) /\ Stamped(s)' = Stamped(s) /\ \A a : At(a, s)' = At(a, s)
    BY QuietAt DEF Stamped
  <1>3. NoSockNoWriter'
    BY <1>2 DEF FInv, NoSockNoWriter
  <1>4. ASSUME NEW s \in Socks PROVE FreshAt(s)'
    <2>1. CASE s \in raced' \cup foreign'
      BY <2>1 DEF FreshAt
    <2>2. CASE ~Stamped(s) /\ ~Busy(s)
      <3>1. ~Stamped(s)' /\ \A a \in Writers : ~At(a, s)'
        BY <1>2, <2>2 DEF Busy
      <3> QED  BY <3>1 DEF FreshAt
    <2>3. CASE /\ s \notin raced \cup foreign /\ proto'[s] = proto[s]
               /\ peer'[s] \in {NoPeer, peer[s]}
      <3>1. FreshAt(s)
        BY DEF FInv
      <3> QED  BY <1>2, <2>3, <3>1 DEF FreshAt
    <2> QED  BY <2>1, <2>2, <2>3
  <1> QED  BY <1>1, <1>3, <1>4 DEF FInv

LEMMA FreeFInv == ASSUME IInv, FInv, NEW s \in Socks, Free(s) PROVE FInv'
  <1>1. /\ op' = op /\ ident' = [ident EXCEPT ![s] = NoIdent] /\ ~Busy(s)
        /\ proto' = [proto EXCEPT ![s] = "none"] /\ peer' = [peer EXCEPT ![s] = NoPeer]
        /\ raced' = raced \ {s} /\ foreign' = foreign \ {s}
    BY DEF Free
  <1>2. /\ ident'[s] = NoIdent /\ proto'[s] = "none"
        /\ \A r \in Socks : r # s => /\ ident'[r] = ident[r] /\ proto'[r] = proto[r]
                                     /\ peer'[r] = peer[r]
    BY <1>1 DEF IInv, TypeOK
  <1>3. \A r : Busy(r)' = Busy(r) /\ \A a : At(a, r)' = At(a, r)
    BY <1>1, QuietAt
  <1>4. OneWriter'
    BY <1>1, <1>2, QuietOne DEF FInv, Stamped
  <1>5. NoSockNoWriter'
    BY <1>1, <1>2, <1>3 DEF FInv, NoSockNoWriter
  <1>6. ASSUME NEW r \in Socks PROVE FreshAt(r)'
    <2>1. CASE r = s
      BY <1>2, <2>1 DEF FreshAt
    <2>2. CASE r # s
      <3>1. FreshAt(r)
        BY DEF FInv
      <3> QED  BY <1>1, <1>2, <1>3, <2>2, <3>1 DEF FreshAt, Stamped
    <2> QED  BY <2>1, <2>2
  <1> QED  BY <1>4, <1>5, <1>6 DEF FInv

LEMMA ConnectTcpFInv ==
    ASSUME IInv, FInv, NEW t \in Tasks, NEW s \in Socks, NEW p \in Peers, ConnectTcp(t, s, p)
    PROVE  FInv'
  <1>1. /\ t \in holders[s] /\ op[t] = NoOp /\ ident' = ident /\ proto' = proto
        /\ peer' = [peer EXCEPT ![s] = p]
        /\ raced' = IF Busy(s) THEN raced \cup {s} ELSE raced \ {s}
    BY DEF ConnectTcp, MayCall
  <1>2. \A r \in Socks : r # s => peer'[r] = peer[r]
    BY <1>1 DEF IInv, TypeOK
  <1>3. CASE ctx[t] = NoWl
    <2>1. /\ op' = op
          /\ foreign' = IF Stamped(s) \/ Busy(s) THEN foreign \cup {s} ELSE foreign
      BY <1>3 DEF ConnectTcp
    <2>2. ASSUME NEW r \in Socks
          PROVE  \/ r \in raced' \cup foreign' \/ (~Stamped(r) /\ ~Busy(r))
                 \/ (/\ r \notin raced \cup foreign /\ proto'[r] = proto[r]
                     /\ peer'[r] \in {NoPeer, peer[r]})
      <3>1. CASE r = s
        BY <2>1, <3>1
      <3>2. CASE r # s
        BY <1>1, <1>2, <2>1, <3>2
      <3> QED  BY <3>1, <3>2
    <2>3. \A r \in raced : r \in raced' \/ ~Busy(r)
      BY <1>1
    <2> QED  BY <1>1, <2>1, <2>2, <2>3, QuietFInv
  <1>4. CASE ctx[t] # NoWl
    <2>1. foreign' = foreign \ {s} /\ Start(t, "connect", s, t)
      BY <1>4 DEF ConnectTcp
    <2>2. t \in Writers
      BY DEF Writers
    <2> QED  BY <1>1, <1>2, <1>4, <2>1, <2>2, StartFInv
  <1> QED  BY <1>3, <1>4

LEMMA SendFInv ==
    ASSUME IInv, FInv, NEW t \in Tasks, NEW s \in Socks, Send(t, s) PROVE FInv'
  <1>1. /\ t \in holders[s] /\ op[t] = NoOp /\ ident' = ident /\ proto' = proto /\ peer' = peer
        /\ foreign' = foreign /\ ctx[t] # NoWl /\ Start(t, "send", s, t) /\ ~Stamped(s)
    BY DEF Send, MayCall, sockVars, Stamped
  <1>2. raced' = IF Busy(s) THEN raced \cup {s} ELSE raced
    BY DEF Send, Overlap
  <1>3. t \in Writers
    BY DEF Writers
  <1> QED  BY <1>1, <1>2, <1>3, StartFInv

LEMMA SeedVisitFInv ==
    ASSUME IInv, FInv, NEW t \in Tasks, NEW s \in Socks, SeedVisit(t, s) PROVE FInv'
  <1>1. /\ seeding # NoWl /\ op[Seeder] = NoOp /\ ident' = ident /\ proto' = proto /\ peer' = peer
        /\ foreign' = foreign
    BY DEF SeedVisit, sockVars
  <1>2. CASE t \in holders[s] /\ ctx[t] = seeding /\ ident[s] = NoIdent
    <2>1. Start(Seeder, "seed", s, t) /\ ~Stamped(s)
      BY <1>2 DEF SeedVisit, Stamped
    <2>2. raced' = IF Busy(s) THEN raced \cup {s} ELSE raced
      BY <1>2 DEF SeedVisit, Overlap
    <2>3. Seeder \in Writers
      BY DEF Writers
    <2> QED  BY <1>1, <1>2, <2>1, <2>2, <2>3, StartFInv
  <1>3. CASE ~(t \in holders[s] /\ ctx[t] = seeding /\ ident[s] = NoIdent)
    <2>1. op' = op /\ raced' = raced
      BY <1>3 DEF SeedVisit
    <2> QED  BY <1>1, <2>1, QuietFInv
  <1> QED  BY <1>2, <1>3


LEMMA CreateFInv == ASSUME IInv, FInv, NEW a \in Writers, Create(a) PROVE FInv'
  <1> PICK o : o = op[a]
    OBVIOUS
  <1>1. /\ o # NoOp /\ o.at = "create" /\ proto' = proto /\ peer' = peer /\ raced' = raced
        /\ foreign' = foreign
    BY DEF Create, sockVars
  <1>2. o \in Op /\ o.sock \in Socks /\ At(a, o.sock) /\ Busy(o.sock) /\ Zero # NoIdent
    BY <1>1, NothingAssumption DEF IInv, TypeOK, Op, At, Busy
  <1>3. op \in [Writers -> Op \cup {NoOp}] /\ ident \in [Socks -> Ident \cup {Zero, NoIdent}]
    BY DEF IInv, TypeOK
  <1>4. CASE /\ ident' = [ident EXCEPT ![o.sock] = IF @ = NoIdent THEN Zero ELSE @]
             /\ op' = [op EXCEPT ![a].at = "fill", ![a].peer = peer[o.sock]]
    <2> PICK n : n = [o EXCEPT !.at = "fill", !.peer = peer[o.sock]]
      OBVIOUS
    <2>1. op'[a] = n /\ \A b \in Writers : b # a => op'[b] = op[b]
      BY <1>3, <1>4
    <2>2. /\ n \in Op /\ n.sock = o.sock /\ n.hook = o.hook /\ n.peer = peer[o.sock]
          /\ n # NoOp
      <3>1. peer[o.sock] \in Peers \cup {NoPeer}
        BY <1>2 DEF IInv, TypeOK
      <3> QED  BY <1>2, <3>1, NothingAssumption DEF Op
    <2>3. /\ \A r \in Socks : r # o.sock => ident'[r] = ident[r]
          /\ ident[o.sock] # NoIdent => ident'[o.sock] = ident[o.sock]
          /\ ident[o.sock] = NoIdent => ident'[o.sock] = Zero
      BY <1>2, <1>3, <1>4
    <2>4. \A r \in Socks : Stamped(r)' = Stamped(r) /\ (Stamped(r) => ident'[r] = ident[r])
      BY <2>3 DEF Stamped
    <2>5. \A r, b \in Writers \cup Socks : b \in Writers => At(b, r)' = At(b, r)
      BY <1>1, <2>1, <2>2 DEF At
    <2>6. \A r \in Socks : Busy(r)' = Busy(r)
      BY <2>5 DEF Busy
    <2>7. \A b \in Writers : op[b] # NoOp => op'[b] # NoOp /\ op'[b].hook = op[b].hook
      BY <1>1, <2>1, <2>2
    <2>8. \A b \in Writers : op'[b] # NoOp => op[b] # NoOp
      BY <1>1, <2>1
    <2>9. OneWriter'
      <3>1. ASSUME NEW r \in Socks \ raced', NEW b \in Writers, NEW c \in Writers,
                   At(b, r)', At(c, r)'
            PROVE  b = c /\ (Stamped(r)' => op'[b].hook = "connect")
        BY <1>1, <2>4, <2>5, <2>7, <3>1 DEF FInv, OneWriter, At
      <3> QED  BY <3>1, <2>7, <2>8 DEF FInv, OneWriter
    <2>10. NoSockNoWriter'
      BY <1>1, <1>2, <2>3, <2>6 DEF FInv, NoSockNoWriter
    <2>11. ASSUME NEW r \in Socks PROVE FreshAt(r)'
      <3>1. FreshAt(r)
        BY DEF FInv
      <3>2. ASSUME NEW b \in Writers, At(b, r)', op'[b].at = "fill", proto[r] = "tcp",
                   r \notin raced \cup foreign
            PROVE  peer[r] \in {NoPeer, op'[b].peer}
        <4>1. CASE b = a
          BY <2>1, <2>2, <3>2, <4>1 DEF At
        <4>2. CASE b # a
          BY <2>1, <3>1, <3>2, <4>2 DEF FreshAt, At
        <4> QED  BY <4>1, <4>2
      <3> QED  BY <1>1, <2>4, <2>6, <3>1, <3>2 DEF FreshAt
    <2> QED  BY <2>9, <2>10, <2>11 DEF FInv
  <1>5. CASE ident[o.sock] = NoIdent /\ op' = [op EXCEPT ![a] = NoOp] /\ ident' = ident
    <2>1. op'[a] = NoOp /\ \A b \in Writers : b # a => op'[b] = op[b]
      BY <1>3, <1>5
    <2>2. \A r \in Socks, b \in Writers : At(b, r)' => At(b, r) /\ op'[b] = op[b]
      BY <2>1 DEF At
    <2>3. \A r \in Socks : (Busy(r)' => Busy(r)) /\ (r # o.sock => Busy(r)' = Busy(r))
      BY <2>1 DEF At, Busy
    <2>4. OneWriter'
      BY <1>1, <1>5, <2>1, <2>2 DEF FInv, OneWriter, Stamped
    <2>5. NoSockNoWriter'
      BY <1>1, <1>5, <2>3 DEF FInv, NoSockNoWriter
    <2>6. ASSUME NEW r \in Socks PROVE FreshAt(r)'
      <3>1. FreshAt(r)
        BY DEF FInv
      <3>2. Stamped(r)' => r # o.sock
        BY <1>5 DEF Stamped
      <3> QED  BY <1>1, <1>5, <2>2, <2>3, <3>1, <3>2 DEF FreshAt, Stamped
    <2> QED  BY <2>4, <2>5, <2>6 DEF FInv
  <1> QED  BY <1>1, <1>4, <1>5 DEF Create

\* What a fill leaves: the sock is stamped with what the writer has read.
LEMMA Filled ==
    ASSUME IInv, NEW a \in Writers, Fill(a)
    PROVE  /\ op[a] # NoOp /\ op[a].at = "fill" /\ op[a].sock \in Socks /\ op'[a] = NoOp
           /\ \A b \in Writers : b # a => op'[b] = op[b]
           /\ ident'[op[a].sock] \notin {NoIdent, Zero} /\ ident'[op[a].sock].peer = op[a].peer
           /\ \A s \in Socks : s # op[a].sock => ident'[s] = ident[s]
           /\ UNCHANGED <<ctx, gen, proto, peer, holders, marking, seeding, todo, owed, raced, foreign>>
  <1> PICK o : o = op[a]
    OBVIOUS
  <1> PICK n : n = [wl |-> o.wl, task |-> o.task, gen |-> o.gen, peer |-> o.peer]
    OBVIOUS
  <1>1. /\ o # NoOp /\ o.at = "fill" /\ op' = [op EXCEPT ![a] = NoOp]
        /\ ident' = [ident EXCEPT ![o.sock] = n]
        /\ UNCHANGED <<ctx, gen, proto, peer, holders, marking, seeding, todo, owed, raced, foreign>>
    BY DEF Fill, sockVars, passVars, histVars
  <1>3. o \in Op /\ o.sock \in Socks /\ o.task \in Tasks
    BY <1>1 DEF IInv, TypeOK, Op
  <1>5. n \in Ident /\ n.task \in Tasks /\ n.peer = o.peer
    BY <1>3 DEF Op, Ident
  <1>6. n # Zero /\ n # NoIdent
    BY <1>5, SeederAssumption, NothingAssumption DEF Zero
  <1>7. ident'[o.sock] = n /\ \A s \in Socks : s # o.sock => ident'[s] = ident[s]
    BY <1>1, <1>3 DEF IInv, TypeOK
  <1>8. op'[a] = NoOp /\ \A b \in Writers : b # a => op'[b] = op[b]
    BY <1>1 DEF IInv, TypeOK
  <1> QED  BY <1>1, <1>3, <1>5, <1>6, <1>7, <1>8 DEF Stamped

LEMMA FillFInv == ASSUME IInv, FInv, NEW a \in Writers, Fill(a) PROVE FInv'
  <1> PICK o : o = op[a]
    OBVIOUS
  <1>1. /\ o # NoOp /\ o.at = "fill" /\ o.sock \in Socks /\ op'[a] = NoOp
        /\ \A b \in Writers : b # a => op'[b] = op[b]
        /\ ident'[o.sock] \notin {NoIdent, Zero} /\ ident'[o.sock].peer = o.peer
        /\ \A s \in Socks : s # o.sock => ident'[s] = ident[s]
        /\ UNCHANGED <<proto, peer, raced, foreign>>
    BY Filled
  <1>2. At(a, o.sock) /\ Busy(o.sock)
    BY <1>1 DEF At, Busy
  <1>3. \A r \in Socks, b \in Writers : At(b, r)' => b # a /\ At(b, r) /\ op'[b] = op[b]
    BY <1>1 DEF At
  <1>4. \A r \in Socks : r # o.sock => Busy(r)' = Busy(r) /\ Stamped(r)' = Stamped(r)
    BY <1>1 DEF At, Busy, Stamped
  <1>5. OneWriter'
    <2>1. ASSUME NEW r \in Socks \ raced', NEW b \in Writers, NEW c \in Writers,
                 At(b, r)', At(c, r)'
          PROVE  b = c /\ (Stamped(r)' => op'[b].hook = "connect")
      <3>1. At(b, r) /\ At(c, r) /\ b # a /\ op'[b] = op[b] /\ r \notin raced
        BY <1>1, <1>3, <2>1
      <3>2. r # o.sock
        BY <1>2, <3>1 DEF FInv, OneWriter
      <3> QED  BY <1>4, <3>1, <3>2 DEF FInv, OneWriter
    <2>2. ASSUME NEW b \in Writers, op'[b] # NoOp, op'[b].hook = "connect" PROVE b \in Tasks
      BY <1>1, <2>2 DEF FInv, OneWriter
    <2> QED  BY <2>1, <2>2 DEF OneWriter
  <1>6. NoSockNoWriter'
    BY <1>1, <1>2, <1>4 DEF FInv, NoSockNoWriter
  <1>7. ASSUME NEW r \in Socks PROVE FreshAt(r)'
    <2>1. FreshAt(r)
      BY DEF FInv
    <2>2. CASE r = o.sock
      BY <1>1, <1>2, <1>3, <2>1, <2>2 DEF FreshAt
    <2>3. CASE r # o.sock
      BY <1>1, <1>3, <1>4, <2>1, <2>3 DEF FreshAt
    <2> QED  BY <2>2, <2>3
  <1> QED  BY <1>5, <1>6, <1>7 DEF FInv

LEMMA InitFInv == Init => FInv
  <1> SUFFICES ASSUME Init PROVE FInv
    OBVIOUS
  <1>1. \A s \in Socks : ident[s] = NoIdent /\ ~Busy(s) /\ ~Stamped(s) /\ \A a \in Writers : ~At(a, s)
    BY DEF Init, Busy, At, Stamped
  <1>2. OneWriter
    BY <1>1 DEF Init, OneWriter
  <1>3. NoSockNoWriter /\ \A s \in Socks : FreshAt(s)
    BY <1>1 DEF NoSockNoWriter, FreshAt
  <1> QED  BY <1>2, <1>3 DEF FInv

LEMMA NextFInv == ASSUME IInv, FInv, [Next]_vars PROVE FInv'
  <1>1. CASE UNCHANGED vars
    BY <1>1, QuietFInv, QuietAt DEF vars, sockVars, histVars, FInv, OneWriter, NoSockNoWriter, FreshAt, Stamped
  <1>2. CASE Next
    <2>0. Step
      BY <1>2 DEF Next
    <2>1. ASSUME NEW t \in Tasks, NEW s \in Socks, NEW kind \in {"tcp", "udp"},
                 NEW p \in Peers \cup {NoPeer}, Open(t, s, kind, p)
          PROVE  FInv'
      <3>1. /\ op' = op /\ ident' = ident /\ raced' = raced /\ foreign' = foreign
            /\ proto[s] = "none"
        BY <2>1 DEF Open
      <3>2. /\ proto'[s] = kind
            /\ \A r \in Socks : r # s => proto'[r] = proto[r] /\ peer'[r] = peer[r]
        BY <2>1 DEF Open, IInv, TypeOK
      <3>3. ~Stamped(s) /\ ~Busy(s)
        BY <3>1 DEF FInv, NoSockNoWriter, Stamped
      <3>4. \A r \in Socks : r \in raced' \cup foreign' \/ (~Stamped(r) /\ ~Busy(r))
                             \/ (/\ r \notin raced \cup foreign /\ proto'[r] = proto[r]
                                 /\ peer'[r] \in {NoPeer, peer[r]})
        BY <3>1, <3>2, <3>3
      <3> QED  BY <3>1, <3>2, <3>4, QuietFInv
    <2>2. ASSUME NEW t \in Tasks, NEW u \in Tasks, NEW s \in Socks, PassFd(t, u, s) PROVE FInv'
      BY <2>2, QuietFInv DEF PassFd
    <2>3. ASSUME NEW t \in Tasks, NEW s \in Socks, Close(t, s) PROVE FInv'
      BY <2>3, QuietFInv DEF Close
    <2>4. ASSUME NEW t \in Tasks, Exit(t) PROVE FInv'
      BY <2>4, QuietFInv DEF Exit
    <2>5. ASSUME NEW t \in Tasks, NEW s \in Socks, Disconnect(t, s) PROVE FInv'
      <3>1. /\ op' = op /\ ident' = ident /\ raced' = raced /\ foreign' = foreign /\ proto' = proto
            /\ \A r \in Socks : peer'[r] \in {NoPeer, peer[r]}
        BY <2>5 DEF Disconnect, histVars, IInv, TypeOK
      <3> QED  BY <3>1, QuietFInv
    <2>6. ASSUME NEW w \in Workloads, Tree(w) PROVE FInv'
      BY <2>6, QuietFInv DEF Tree, sockVars, histVars
    <2>9. ASSUME NEW t \in Tasks, MarkTask(t) PROVE FInv'
      BY <2>9, QuietFInv DEF MarkTask, sockVars, histVars
    <2>10. CASE SeedBegin
      BY <2>10, QuietFInv DEF SeedBegin, sockVars
    <2>11. CASE MarkEnd
      BY <2>11, QuietFInv DEF MarkEnd, sockVars, histVars
    <2>7. ASSUME NEW w \in Workloads, Untrack(w) PROVE FInv'
      BY <2>7, QuietFInv DEF Untrack, sockVars, histVars
    <2>8. CASE SeedEnd
      BY <2>8, QuietFInv DEF SeedEnd, sockVars
    <2> QED
      BY <2>0, <2>1, <2>2, <2>3, <2>4, <2>5, <2>6, <2>7, <2>8, <2>9, <2>10, <2>11, FreeFInv,
         ConnectTcpFInv, SendFInv, CreateFInv, FillFInv, SeedVisitFInv, MarkFillFInv
         DEF Step
  <1> QED  BY <1>1, <1>2

\* The tuple of a tracked TCP sock is that of its connection: for any number of
\* tasks, socks, peers and writers, whatever fails.
THEOREM TupleIsFresh == Spec => []TupleFresh
  <1>1. IInv /\ FInv => TupleFresh
    BY DEF FInv, FreshAt, TupleFresh
  <1>2. IInv /\ FInv /\ [Next]_vars => (IInv /\ FInv)'
    BY NextIInv, NextFInv
  <1> QED  BY InitIInv, InitFInv, <1>1, <1>2, PTL DEF Spec

\* An identity is replaced by a connect only, unless two writers were at work on
\* the sock at once: an action property, from what a step may find.
THEOREM FirstStays == Spec => FirstWins
  <1> DEFINE Wins ==
          \A s \in Socks :
             Stamped(s) /\ ident'[s] # ident[s] /\ proto'[s] # "none" /\ s \notin raced =>
                 \E t \in Tasks : op[t] # NoOp /\ op[t].sock = s /\ op[t].hook = "connect"
  <1>1. ASSUME IInv, FInv, [Next]_vars PROVE [Wins]_vars
    <2> SUFFICES ASSUME Step, NEW s \in Socks, Stamped(s), ident'[s] # ident[s], proto'[s] # "none",
                        s \notin raced
                 PROVE  \E t \in Tasks : op[t] # NoOp /\ op[t].sock = s /\ op[t].hook = "connect"
      BY <1>1 DEF Next
    <2>1. \/ \E r \in Socks : Free(r)
          \/ \E a \in Writers : Create(a)
          \/ \E a \in Writers : Fill(a)
      BY DEF Step, Open, PassFd, Close, Exit, Disconnect, ConnectTcp, Send, Tree, MarkTask, MarkFill,
             SeedBegin, MarkEnd, Untrack, SeedVisit, SeedEnd, sockVars
    <2>2. ASSUME NEW r \in Socks, Free(r) PROVE FALSE
      BY <1>1, <2>2 DEF Free, IInv, TypeOK
    <2>3. ASSUME NEW a \in Writers, Create(a) PROVE FALSE
      BY <1>1, <2>3 DEF Create, Stamped, IInv, TypeOK
    <2>4. ASSUME NEW a \in Writers, Fill(a)
          PROVE  \E t \in Tasks : op[t] # NoOp /\ op[t].sock = s /\ op[t].hook = "connect"
      <3>1. op[a] # NoOp /\ op[a].sock = s
        BY <1>1, <2>4, Filled
      <3>2. op[a].hook = "connect" /\ a \in Tasks
        BY <1>1, <3>1 DEF FInv, OneWriter, At
      <3> QED  BY <3>1, <3>2
    <2> QED  BY <2>1, <2>2, <2>3, <2>4
  <1>2. IInv /\ FInv /\ [Next]_vars => (IInv /\ FInv)'
    BY NextIInv, NextFInv
  <1> QED  BY InitIInv, InitFInv, <1>1, <1>2, PTL DEF Spec, FirstWins

-----------------------------------------------------------------------------
(***************************************************************************)
(* That a tracked task's socks are attributed.  Storage that is created is *)
(* filled, as a writer that has it in hand is at work; a descriptor that   *)
(* is owed an identity has one, or a writer that will fill it, or is still *)
(* ahead of the seed pass, which will find its task tracked.               *)
(***************************************************************************)

\* A writer has the storage of the sock in hand.
Filling(s) == \E a \in Writers : At(a, s) /\ op[a].at = "fill"

\* The sock is stamped, or will be: by whoever has its storage, or by the task's own
\* writer, unless its allocation fails.
Served(t, s) == Stamped(s) \/ \E a \in Writers : At(a, s) /\ (op[a].at = "fill" \/ op[a].task = t)

Ahead(t, s) == <<t, s>> \in todo /\ ctx[t] = seeding

OInv ==
    /\ seeding = NoWl => todo = {}
    /\ marking # NoWl => seeding = NoWl
    /\ \A s \in Socks : ident[s] = Zero => Filling(s)
    /\ \A t \in Tasks, s \in Socks :
          <<t, s>> \in owed => t \in holders[s] /\ (Served(t, s) \/ Ahead(t, s))

\* A step of no writer.
LEMMA QuietOInv ==
    ASSUME OInv, UNCHANGED <<op, ident>>,
           seeding' = NoWl => todo' = {},
           marking' # NoWl => seeding' = NoWl,
           \A t \in Tasks, s \in Socks :
              <<t, s>> \in owed' => t \in holders'[s] /\ (Served(t, s) \/ Ahead(t, s)')
    PROVE  OInv'
  <1>1. \A s : Filling(s)' = Filling(s) /\ \A t : Served(t, s)' = Served(t, s)
    BY DEF Filling, Served, At, Stamped
  <1>2. \A s \in Socks : ident'[s] = Zero => Filling(s)'
    BY <1>1 DEF OInv
  <1>3. \A t \in Tasks, s \in Socks :
            <<t, s>> \in owed' => t \in holders'[s] /\ (Served(t, s)' \/ Ahead(t, s)')
    BY <1>1
  <1> QED  BY <1>2, <1>3 DEF OInv

LEMMA FreeOInv == ASSUME IInv, OInv, NEW s \in Socks, Free(s) PROVE OInv'
  <1>1. /\ op' = op /\ holders[s] = {} /\ UNCHANGED <<ctx, gen, holders, op, marking, seeding, todo, owed>>
    BY DEF Free, passVars
  <1>2. ident'[s] = NoIdent /\ \A r \in Socks : r # s => ident'[r] = ident[r]
    BY DEF Free, IInv, TypeOK
  <1>3. \A r \in Socks : r # s => /\ Filling(r)' = Filling(r)
                                  /\ \A t : Served(t, r)' = Served(t, r)
    BY <1>1, <1>2 DEF Filling, Served, At, Stamped
  <1>4. NoIdent # Zero
    BY NothingAssumption
  <1>5. \A r \in Socks : ident'[r] = Zero => Filling(r)'
    BY <1>2, <1>3, <1>4 DEF OInv
  <1>6. ASSUME NEW t \in Tasks, NEW r \in Socks, <<t, r>> \in owed'
        PROVE  t \in holders'[r] /\ (Served(t, r)' \/ Ahead(t, r)')
    <2>1. t \in holders[r] /\ (Served(t, r) \/ Ahead(t, r))
      BY <1>1, <1>6 DEF OInv
    <2>2. r # s
      BY <1>1, <2>1
    <2> QED  BY <1>1, <1>3, <2>1, <2>2 DEF Ahead
  <1> QED  BY <1>1, <1>5, <1>6 DEF OInv

\* A start adds a claim that it serves itself.
LEMMA StartOInv ==
    ASSUME IInv, OInv, NEW a \in Writers, NEW hook \in {"connect", "send", "seed"}, NEW s \in Socks,
           NEW t \in Tasks, ctx[t] # NoWl, Start(a, hook, s, t), op[a] = NoOp, t \in holders[s],
           UNCHANGED <<ctx, holders, ident, marking, seeding>>,
           todo' = todo \/ todo' = todo \ {<<t, s>>}
    PROVE  OInv'
  <1>0. /\ op'[a] # NoOp /\ op'[a].sock = s /\ op'[a].task = t
        /\ \A b \in Writers : b # a => op'[b] = op[b]
    BY Started DEF IInv
  <1>1. \A b \in Writers, r \in Socks : At(b, r) => At(b, r)' /\ op'[b] = op[b]
    BY <1>0 DEF At
  <1>2. \A r \in Socks : (Filling(r) => Filling(r)') /\ \A u : Served(u, r) => Served(u, r)'
    BY <1>1 DEF Filling, Served, Stamped
  <1>3. Served(t, s)'
    BY <1>0 DEF Served, At
  <1>4. owed' = owed \cup {<<t, s>>}
    BY DEF Start
  <1>5. ASSUME NEW u \in Tasks, NEW r \in Socks, <<u, r>> \in owed'
        PROVE  u \in holders'[r] /\ (Served(u, r)' \/ Ahead(u, r)')
    <2>1. CASE <<u, r>> = <<t, s>>
      BY <1>3, <2>1
    <2>2. CASE <<u, r>> # <<t, s>>
      <3>1. u \in holders[r] /\ (Served(u, r) \/ Ahead(u, r))
        BY <1>4, <1>5, <2>2 DEF OInv
      <3>2. Ahead(u, r) => Ahead(u, r)'
        BY <2>2 DEF Ahead
      <3> QED  BY <1>2, <3>1, <3>2
    <2> QED  BY <2>1, <2>2
  <1>6. seeding' = NoWl => todo' = {}
    BY DEF OInv
  <1>7. \A r \in Socks : ident'[r] = Zero => Filling(r)'
    BY <1>2 DEF OInv
  <1> QED  BY <1>5, <1>6, <1>7 DEF OInv

LEMMA ConnectTcpOInv ==
    ASSUME IInv, OInv, NEW t \in Tasks, NEW s \in Socks, NEW p \in Peers, ConnectTcp(t, s, p)
    PROVE  OInv'
  <1>1. /\ t \in holders[s] /\ op[t] = NoOp
        /\ UNCHANGED <<ctx, holders, ident, marking, seeding, todo>>
    BY DEF ConnectTcp, MayCall, passVars
  <1>2. CASE ctx[t] = NoWl
    <2>1. op' = op /\ owed' = owed
      BY <1>2 DEF ConnectTcp
    <2> QED  BY <1>1, <2>1, QuietOInv DEF OInv, Ahead
  <1>3. CASE ctx[t] # NoWl
    <2>1. Start(t, "connect", s, t) /\ t \in Writers
      BY <1>3 DEF ConnectTcp, Writers
    <2> QED  BY <1>1, <1>3, <2>1, StartOInv
  <1> QED  BY <1>2, <1>3

\* The pass passes over a descriptor that is owed an identity only if it is served.
LEMMA SeedVisitOInv ==
    ASSUME IInv, OInv, NEW t \in Tasks, NEW s \in Socks, SeedVisit(t, s) PROVE OInv'
  <1>1. /\ seeding # NoWl /\ op[Seeder] = NoOp /\ todo' = todo \ {<<t, s>>}
        /\ UNCHANGED <<ctx, holders, ident, marking, seeding>>
    BY DEF SeedVisit, sockVars
  <1>2. CASE t \in holders[s] /\ ctx[t] = seeding /\ ident[s] = NoIdent
    <2>1. Start(Seeder, "seed", s, t) /\ Seeder \in Writers
      BY <1>2 DEF SeedVisit, Writers
    <2> QED  BY <1>1, <1>2, <2>1, StartOInv
  <1>3. CASE ~(t \in holders[s] /\ ctx[t] = seeding /\ ident[s] = NoIdent)
    <2>1. op' = op /\ owed' = owed
      BY <1>3 DEF SeedVisit
    <2>2. ASSUME NEW u \in Tasks, NEW r \in Socks, <<u, r>> \in owed'
          PROVE  u \in holders'[r] /\ (Served(u, r) \/ Ahead(u, r)')
      <3>1. u \in holders[r] /\ (Served(u, r) \/ Ahead(u, r))
        BY <2>1, <2>2 DEF OInv
      <3>2. CASE u = t /\ r = s
        <4>1. SUFFICES ASSUME ~Served(t, s) PROVE FALSE
          BY <1>1, <3>1, <3>2
        <4>2. t \in holders[s] /\ ctx[t] = seeding
          BY <3>1, <3>2, <4>1 DEF Ahead
        <4>3. ident[s] = Zero
          BY <1>3, <4>1, <4>2 DEF Served, Stamped
        <4> QED  BY <4>1, <4>3 DEF OInv, Filling, Served
      <3>3. CASE <<u, r>> # <<t, s>>
        BY <1>1, <3>1, <3>3 DEF Ahead
      <3> QED  BY <3>2, <3>3
    <2>3. marking' # NoWl => seeding' = NoWl
      BY <1>1 DEF OInv
    <2> QED  BY <1>1, <2>1, <2>2, <2>3, QuietOInv
  <1> QED  BY <1>2, <1>3

LEMMA CreateOInv == ASSUME IInv, OInv, NEW a \in Writers, Create(a) PROVE OInv'
  <1> PICK o : o = op[a]
    OBVIOUS
  <1>1. o # NoOp /\ o.at = "create" /\ UNCHANGED <<ctx, holders, marking, seeding, todo>>
    BY DEF Create, sockVars, passVars
  <1>2. o \in Op /\ o.sock \in Socks /\ At(a, o.sock)
    BY <1>1 DEF IInv, TypeOK, Op, At
  <1>3. op \in [Writers -> Op \cup {NoOp}] /\ ident \in [Socks -> Ident \cup {Zero, NoIdent}]
    BY DEF IInv, TypeOK
  <1>4. CASE /\ ident' = [ident EXCEPT ![o.sock] = IF @ = NoIdent THEN Zero ELSE @]
             /\ op' = [op EXCEPT ![a].at = "fill", ![a].peer = peer[o.sock]]
             /\ owed' = owed
    <2> PICK n : n = [o EXCEPT !.at = "fill", !.peer = peer[o.sock]]
      OBVIOUS
    <2>1. op'[a] = n /\ \A b \in Writers : b # a => op'[b] = op[b]
      BY <1>3, <1>4
    <2>2. n.sock = o.sock /\ n.at = "fill" /\ n # NoOp
      <3>1. peer[o.sock] \in Peers \cup {NoPeer}
        BY <1>2 DEF IInv, TypeOK
      <3>2. n \in Op
        BY <1>2, <3>1 DEF Op
      <3> QED  BY <1>2, <3>2, NothingAssumption DEF Op
    <2>3. Filling(o.sock)' /\ \A t : Served(t, o.sock)'
      <3>1. op'[a] # NoOp /\ op'[a].sock = o.sock /\ op'[a].at = "fill"
        BY <2>1, <2>2
      <3> QED  BY <3>1 DEF Filling, Served, At
    <2>4. ASSUME NEW r \in Socks, r # o.sock
          PROVE  /\ ident'[r] = ident[r]
                 /\ Filling(r) => Filling(r)'
                 /\ \A t : Served(t, r) => Served(t, r)'
      <3>1. \A b \in Writers : At(b, r) => At(b, r)' /\ op'[b] = op[b]
        BY <2>1, <2>4 DEF At
      <3>2. ident'[r] = ident[r]
        BY <1>3, <1>4, <2>4
      <3> QED  BY <3>1, <3>2 DEF Filling, Served, Stamped
    <2>5. \A r \in Socks : ident'[r] = Zero => Filling(r)'
      BY <2>3, <2>4 DEF OInv
    <2>6. \A t \in Tasks, r \in Socks :
              <<t, r>> \in owed' => t \in holders'[r] /\ (Served(t, r)' \/ Ahead(t, r)')
      BY <1>1, <1>4, <2>3, <2>4 DEF OInv, Ahead
    <2> QED  BY <1>1, <2>5, <2>6 DEF OInv
  <1>5. CASE /\ owed' = owed \ {<<o.task, o.sock>>} /\ op' = [op EXCEPT ![a] = NoOp]
             /\ ident' = ident
    <2>1. \A b \in Writers : b # a => op'[b] = op[b]
      BY <1>3, <1>5
    <2>2. \A b \in Writers, r \in Socks : b # a /\ At(b, r) => At(b, r)' /\ op'[b] = op[b]
      BY <2>1 DEF At
    <2>3. ASSUME NEW r \in Socks, Filling(r) PROVE Filling(r)'
      BY <1>1, <2>2, <2>3 DEF Filling
    <2>4. ASSUME NEW r \in Socks, NEW t \in Tasks, Served(t, r), <<t, r>> \in owed' PROVE Served(t, r)'
      <3>1. CASE Stamped(r)
        BY <1>5, <3>1 DEF Served, Stamped
      <3>2. ASSUME NEW b \in Writers, At(b, r), op[b].at = "fill" \/ op[b].task = t PROVE Served(t, r)'
        <4>1. b # a
          BY <1>1, <1>5, <2>4, <3>2 DEF At
        <4> QED  BY <2>2, <3>2, <4>1 DEF Served
      <3> QED  BY <2>4, <3>1, <3>2 DEF Served
    <2> QED  BY <1>1, <1>5, <2>3, <2>4 DEF OInv, Ahead
  <1> QED  BY <1>1, <1>4, <1>5 DEF Create

LEMMA FillOInv == ASSUME IInv, OInv, NEW a \in Writers, Fill(a) PROVE OInv'
  <1> PICK o : o = op[a]
    OBVIOUS
  <1>1. /\ o # NoOp /\ o.sock \in Socks
        /\ \A b \in Writers : b # a => op'[b] = op[b]
        /\ ident'[o.sock] \notin {NoIdent, Zero}
        /\ \A s \in Socks : s # o.sock => ident'[s] = ident[s]
        /\ UNCHANGED <<ctx, holders, marking, seeding, todo, owed>>
    BY Filled
  <1>2. \A t : Served(t, o.sock)'
    BY <1>1 DEF Served, Stamped
  <1>3. ASSUME NEW r \in Socks, r # o.sock
        PROVE  (Filling(r) => Filling(r)') /\ \A t : Served(t, r) => Served(t, r)'
    <2>1. \A b \in Writers : At(b, r) => At(b, r)' /\ op'[b] = op[b]
      BY <1>1, <1>3 DEF At
    <2> QED  BY <1>1, <1>3, <2>1 DEF Filling, Served, Stamped
  <1>4. \A r \in Socks : ident'[r] = Zero => Filling(r)'
    BY <1>1, <1>3 DEF OInv
  <1>5. \A t \in Tasks, r \in Socks :
            <<t, r>> \in owed' => t \in holders'[r] /\ (Served(t, r)' \/ Ahead(t, r)')
    BY <1>1, <1>2, <1>3 DEF OInv, Ahead
  <1> QED  BY <1>1, <1>4, <1>5 DEF OInv

LEMMA MarkFillOInv == ASSUME IInv, OInv, MarkFill PROVE OInv'
  <1>1. /\ SameWork /\ marking # NoWl
        /\ \A s \in Socks : Busy(s)' = Busy(s) /\ \A a \in Writers : At(a, s)' = At(a, s)
        /\ UNCHANGED <<ident, holders, owed, marking, seeding, todo>>
    BY MarkFillWork
  <1>2. todo = {}
    BY <1>1 DEF OInv
  <1>3. ASSUME NEW r \in Socks PROVE (Filling(r) => Filling(r)') /\ \A t : Served(t, r) => Served(t, r)'
    <2>1. \A b \in Writers : At(b, r) => At(b, r)' /\ op'[b].at = op[b].at /\ op'[b].task = op[b].task
      BY <1>1 DEF At, SameWork
    <2> QED  BY <1>1, <2>1 DEF Filling, Served, Stamped
  <1>4. \A r \in Socks : ident'[r] = Zero => Filling(r)'
    BY <1>1, <1>3 DEF OInv
  <1>5. \A t \in Tasks, r \in Socks :
            <<t, r>> \in owed' => t \in holders'[r] /\ (Served(t, r)' \/ Ahead(t, r)')
    BY <1>1, <1>2, <1>3 DEF OInv, Ahead
  <1> QED  BY <1>1, <1>4, <1>5 DEF OInv

LEMMA InitOInv == Init => OInv
  <1> SUFFICES ASSUME Init PROVE OInv
    OBVIOUS
  <1>1. \A s \in Socks : ident[s] # Zero
    BY NothingAssumption DEF Init
  <1> QED  BY <1>1 DEF Init, OInv

LEMMA NextOInv == ASSUME IInv, OInv, [Next]_vars PROVE OInv'
  <1>1. CASE UNCHANGED vars
    BY <1>1, QuietOInv DEF vars, sockVars, passVars, histVars, OInv, Ahead
  <1>2. CASE Next
    <2>0. Step
      BY <1>2 DEF Next
    <2>1. ASSUME NEW t \in Tasks, NEW s \in Socks, NEW kind \in {"tcp", "udp"},
                 NEW p \in Peers \cup {NoPeer}, Open(t, s, kind, p)
          PROVE  OInv'
      <3>1. holders[s] = {} /\ UNCHANGED <<ctx, op, ident, marking, seeding, todo, owed>>
        BY <2>1 DEF Open, IInv, ProtoOK, passVars
      <3>2. \A r \in Socks : r # s => holders'[r] = holders[r]
        BY <2>1 DEF Open, IInv, TypeOK
      <3>3. ASSUME NEW u \in Tasks, NEW r \in Socks, <<u, r>> \in owed'
            PROVE  u \in holders'[r] /\ (Served(u, r) \/ Ahead(u, r)')
        BY <3>1, <3>2, <3>3 DEF OInv, Ahead
      <3> QED  BY <3>1, <3>3, QuietOInv DEF OInv
    <2>2. ASSUME NEW t \in Tasks, NEW u \in Tasks, NEW s \in Socks, PassFd(t, u, s) PROVE OInv'
      <3>1. UNCHANGED <<ctx, op, ident, marking, seeding, todo, owed>>
        BY <2>2 DEF PassFd, passVars
      <3>2. \A r \in Socks : holders[r] \subseteq holders'[r]
        BY <2>2 DEF PassFd, IInv, TypeOK
      <3>3. \A v \in Tasks, r \in Socks :
                <<v, r>> \in owed' => v \in holders'[r] /\ (Served(v, r) \/ Ahead(v, r)')
        BY <3>1, <3>2 DEF OInv, Ahead
      <3> QED  BY <3>1, <3>3, QuietOInv DEF OInv
    <2>3. ASSUME NEW t \in Tasks, NEW s \in Socks, Close(t, s) PROVE OInv'
      <3>1. UNCHANGED <<ctx, op, ident, marking, seeding, todo>> /\ owed' = owed \ {<<t, s>>}
        BY <2>3 DEF Close, passVars
      <3>2. \A u \in Tasks, r \in Socks : <<u, r>> # <<t, s>> /\ u \in holders[r] => u \in holders'[r]
        BY <2>3 DEF Close, IInv, TypeOK
      <3>3. \A v \in Tasks, r \in Socks :
                <<v, r>> \in owed' => v \in holders'[r] /\ (Served(v, r) \/ Ahead(v, r)')
        BY <3>1, <3>2 DEF OInv, Ahead
      <3> QED  BY <3>1, <3>3, QuietOInv DEF OInv
    <2>4. ASSUME NEW t \in Tasks, Exit(t) PROVE OInv'
      <3>1. UNCHANGED <<op, ident, marking, seeding, todo>>
        BY <2>4 DEF Exit
      <3>2. \A u \in Tasks, r \in Socks : <<u, r>> \in owed' => u # t /\ <<u, r>> \in owed
        BY <2>4 DEF Exit
      <3>3. \A u \in Tasks : u # t => /\ ctx'[u] = ctx[u]
                                      /\ \A r \in Socks : u \in holders[r] => u \in holders'[r]
        BY <2>4 DEF Exit, IInv, TypeOK
      <3>4. \A v \in Tasks, r \in Socks :
                <<v, r>> \in owed' => v \in holders'[r] /\ (Served(v, r) \/ Ahead(v, r)')
        BY <3>1, <3>2, <3>3 DEF OInv, Ahead
      <3> QED  BY <3>1, <3>4, QuietOInv DEF OInv
    <2>5. ASSUME NEW t \in Tasks, NEW s \in Socks, Disconnect(t, s) PROVE OInv'
      BY <2>5, QuietOInv DEF Disconnect, histVars, OInv, Ahead, passVars
    <2>6. ASSUME NEW t \in Tasks, NEW s \in Socks, Send(t, s) PROVE OInv'
      <3>1. /\ t \in holders[s] /\ op[t] = NoOp /\ ctx[t] # NoWl /\ Start(t, "send", s, t)
            /\ UNCHANGED <<ctx, holders, ident, marking, seeding, todo>> /\ t \in Writers
        BY <2>6 DEF Send, MayCall, sockVars, Writers, passVars
      <3> QED  BY <3>1, StartOInv
    <2>7. CASE SeedBegin
      <3>1. /\ marking # NoWl /\ marking' = NoWl /\ seeding' = marking /\ todo' = Tasks \X Socks
            /\ UNCHANGED <<op, ident, holders, ctx>>
            /\ owed' = owed \cup {d \in Tasks \X Socks : d[1] \in holders[d[2]] /\ ctx[d[1]] = marking}
        BY <2>7 DEF SeedBegin, sockVars
      <3>2. seeding = NoWl /\ todo = {}
        BY <3>1 DEF OInv
      <3>3. ASSUME NEW u \in Tasks, NEW r \in Socks, <<u, r>> \in owed'
            PROVE  u \in holders'[r] /\ (Served(u, r) \/ Ahead(u, r)')
        <4>1. CASE <<u, r>> \in owed
          BY <3>1, <3>2, <4>1 DEF OInv, Ahead
        <4>2. CASE ctx[u] = marking /\ u \in holders[r]
          BY <3>1, <4>2 DEF Ahead
        <4> QED  BY <3>1, <3>3, <4>1, <4>2
      <3> QED  BY <3>1, <3>3, QuietOInv
    <2>10. ASSUME NEW w \in Workloads, Tree(w) PROVE OInv'
      <3>1. seeding = NoWl /\ UNCHANGED <<ctx, op, ident, holders, seeding, todo, owed>>
        BY <2>10 DEF Tree, Idle, sockVars, histVars
      <3> QED  BY <3>1, QuietOInv DEF OInv, Ahead
    <2>11. ASSUME NEW t \in Tasks, MarkTask(t) PROVE OInv'
      <3>1. /\ marking # NoWl
            /\ UNCHANGED <<op, ident, holders, marking, seeding, todo, owed>>
        BY <2>11 DEF MarkTask, sockVars, histVars
      <3> QED  BY <3>1, QuietOInv DEF OInv, Ahead
    <2>12. CASE MarkEnd
      <3>1. UNCHANGED <<ctx, op, ident, holders, seeding, todo, owed>> /\ marking' = NoWl
        BY <2>12 DEF MarkEnd, sockVars, histVars
      <3> QED  BY <3>1, QuietOInv DEF OInv, Ahead
    <2>8. ASSUME NEW w \in Workloads, Untrack(w) PROVE OInv'
      <3>1. seeding = NoWl /\ UNCHANGED <<op, ident, holders, marking, seeding, todo, owed>>
        BY <2>8 DEF Untrack, Idle, sockVars, histVars, passVars
      <3>2. \A u \in Tasks, r \in Socks :
                <<u, r>> \in owed' => u \in holders'[r] /\ (Served(u, r) \/ Ahead(u, r)')
        BY <3>1 DEF OInv, Ahead
      <3> QED  BY <3>1, <3>2, QuietOInv DEF OInv
    <2>9. CASE SeedEnd
      <3>1. todo' = {} /\ seeding' = NoWl /\ owed' = owed \ todo /\ UNCHANGED <<op, ident, holders>>
        BY <2>9 DEF SeedEnd, sockVars
      <3>2. \A u \in Tasks, r \in Socks :
                <<u, r>> \in owed' => u \in holders'[r] /\ (Served(u, r) \/ Ahead(u, r)')
        BY <3>1 DEF OInv, Ahead
      <3> QED  BY <3>1, <3>2, QuietOInv
    <2> QED
      BY <2>0, <2>1, <2>2, <2>3, <2>4, <2>5, <2>6, <2>7, <2>8, <2>9, <2>10, <2>11, <2>12, FreeOInv,
         ConnectTcpOInv, SeedVisitOInv, CreateOInv, FillOInv, MarkFillOInv
         DEF Step
  <1> QED  BY <1>1, <1>2

\* A sock through which a tracked task connected or sent, or that a seed pass has
\* been over, is attributed as soon as no writer is at it: for any number of tasks,
\* socks and writers, whatever is closed, passed around or reused.
THEOREM SocksAttributed == Spec => []Attributed
  <1>1. ASSUME IInv, OInv PROVE Attributed
    <2> SUFFICES ASSUME NEW d \in owed \ todo, ~Busy(d[2]) PROVE Stamped(d[2])
      BY DEF Attributed
    <2>1. PICK t \in Tasks, s \in Socks : d = <<t, s>>
      BY <1>1 DEF IInv, TypeOK
    <2>2. Served(t, s)
      BY <1>1, <2>1 DEF OInv, Ahead
    <2> QED  BY <2>1, <2>2 DEF Served, Busy
  <1>2. IInv /\ OInv /\ [Next]_vars => (IInv /\ OInv)'
    BY NextIInv, NextOInv
  <1> QED  BY InitIInv, InitOInv, <1>1, <1>2, PTL DEF Spec

=============================================================================

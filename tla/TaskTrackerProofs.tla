-------------------------- MODULE TaskTrackerProofs --------------------------
(***************************************************************************)
(* Proofs about TaskTracker, for every number of pids, set of workloads,   *)
(* depth bound and clock bound, with or without threads, pid wrap-around   *)
(* and allocation failures.                                                *)
(***************************************************************************)
EXTENDS TaskTrackerHistory, TLAPS, WellFoundedInduction

USE NTidsAssumption, WorkloadAssumption, MaxDepthAssumption, MaxTickAssumption

\* The fork bookkeeping the type of a copied context rests on: exactly the
\* tasks whose fork is under way have a creator.
ForkInv == \A c \in Tids : by[c] \in Tids <=> status[c] \in {"newborn", "hooking"}

\* Storage goes with its task.
FreeInv == \A t \in Tids : status[t] = "free" => ctx[t] = NoCtx

\* The inductive invariant.
Inv == StateOK /\ ForkInv /\ FreeInv

\* A context found for some workload is a real one.
LEMMA RealContext ==
    ASSUME NEW c \in TaskCtx \cup {NoCtx}, c # NoCtx \/ c.wl # NoWl
    PROVE  c \in TaskCtx /\ c.wl \in Ids
  BY DEF TaskCtx, NoCtx, Ids

\* Building a context for a task gives a well typed one (task_ctx_t).
LEMMA NewContext ==
    ASSUME NEW w \in Ids, NEW g \in Tids \cup {0}, NEW t \in Tids \cup {0}
    PROVE  /\ [wl |-> w, tgid |-> g, tid |-> t] \in TaskCtx
           /\ [wl |-> w, tgid |-> g, tid |-> t] # NoCtx
  BY DEF TaskCtx, NoCtx, Ids

\* So does creating storage that nobody has filled.
LEMMA FreshContext == ZeroCtx \in TaskCtx /\ ZeroCtx # NoCtx /\ ZeroCtx.wl = ZeroWl
  BY DEF ZeroCtx, TaskCtx, NoCtx, Ids

\* Storage that exists names some workload, and storage that does not none.
LEMMA NamesWl ==
    ASSUME NEW c \in TaskCtx \cup {NoCtx}
    PROVE  /\ c # NoCtx <=> c.wl # NoWl
           /\ c.wl \in Ids \cup {NoWl}
  BY DEF TaskCtx, NoCtx, Ids

\* A pass that follows a task to another slot, or loses it, is where it was.
LEMMA MarkMoved ==
    ASSUME mark \in Marking \cup {NoMark}, NEW p \in Tids, NEW slot \in Tids \cup {0},
           MarkMoves(p, slot)
    PROVE  /\ mark' \in Marking \cup {NoMark}
           /\ mark' # NoMark <=> mark # NoMark
           /\ mark'.step = mark.step /\ mark'.tid = mark.tid
           /\ mark'.task = IF mark.task = p THEN slot ELSE mark.task
<1>1. NoMark.task = 0 /\ 0 \notin Tids /\ NoMark.step = "none"
  BY DEF NoMark, Tids
<1>2. CASE mark.task = p
  <2>1. mark \in Marking
    BY <1>1, <1>2
  <2>2. mark' = [mark EXCEPT !.task = slot]
    BY <1>2 DEF MarkMoves
  <2>3. mark.step # "none" /\ mark' \in Marking /\ mark'.step = mark.step /\ mark'.tid = mark.tid
        /\ mark'.task = slot
    BY <2>1, <2>2 DEF Marking
  <2> QED BY <1>1, <1>2, <2>3
<1>3. CASE mark.task # p
  BY <1>3 DEF MarkMoves
<1> QED BY <1>2, <1>3

\* The initial states satisfy the invariant: the daemon starts with an empty
\* task_ctx_map.
LEMMA InitInv == Init => Inv
  BY DEF Init, Inv, StateOK, ForkInv, FreeInv, Tids, InitTask, FirstTick, Status,
         NoCtx, NoCmd, NoMark

\* Init is a task, 0 is not.
LEMMA InitIsTask == InitTask \in Tids /\ 0 \notin Tids
  BY DEF InitTask, Tids

\* The storage of the exec's task moves with it, and the pass that is at it.
LEMMA ExecMoves ==
    ASSUME Inv, NEW p \in Tids, ExecSwap(p)
    PROVE  /\ tgid[p] \in Tids /\ p # tgid[p] /\ tgid[tgid[p]] = tgid[p]
           /\ status[p] = "live" /\ status[tgid[p]] = "zombie"
           /\ mark' \in Marking \cup {NoMark}
           /\ mark' # NoMark <=> mark # NoMark
           /\ mark'.step = mark.step /\ mark'.tid = mark.tid
           /\ mark'.task = IF mark.task = tgid[p] THEN 0
                           ELSE IF mark.task = p THEN tgid[p] ELSE mark.task
<1>1. mark \in Marking \cup {NoMark} /\ tgid[p] \in Tids
  BY DEF Inv, StateOK
<1>2. /\ p # tgid[p] /\ status[p] = "live" /\ status[tgid[p]] = "zombie"
      /\ Group(p) = {p, tgid[p]}
      /\ IF mark.task = tgid[p] THEN MarkMoves(tgid[p], 0) ELSE MarkMoves(p, tgid[p])
  BY DEF ExecSwap, Running
<1>3. tgid[tgid[p]] = tgid[p]
  BY <1>2 DEF Group
<1>4. CASE mark.task = tgid[p]
  <2>1. MarkMoves(tgid[p], 0)
    BY <1>2, <1>4
  <2> QED BY <1>1, <1>2, <1>3, <1>4, <2>1, MarkMoved
<1>5. CASE mark.task # tgid[p]
  <2>1. MarkMoves(p, tgid[p])
    BY <1>2, <1>5
  <2> QED BY <1>1, <1>2, <1>3, <1>5, <2>1, MarkMoved
<1> QED BY <1>4, <1>5

\* A thread that is gone takes its storage along; a leader stays.
LEMMA NotifyMoves ==
    ASSUME Inv, NEW t \in Tids, ExitNotify(t)
    PROVE  /\ status[t] = "exiting"
           /\ mark' \in Marking \cup {NoMark}
           /\ mark' # NoMark <=> mark # NoMark
           /\ mark'.step = mark.step /\ mark'.tid = mark.tid
           /\ \/ status' = [status EXCEPT ![t] = "zombie"] /\ UNCHANGED <<tgid, ctx, mark>>
              \/ /\ status' = [status EXCEPT ![t] = "free"]
                 /\ tgid' = [tgid EXCEPT ![t] = t]
                 /\ ctx' = [ctx EXCEPT ![t] = NoCtx]
                 /\ mark'.task = IF mark.task = t THEN 0 ELSE mark.task
<1>1. mark \in Marking \cup {NoMark}
  BY DEF Inv, StateOK
<1>2. CASE t = tgid[t]
  BY <1>1, <1>2 DEF ExitNotify
<1>3. CASE t # tgid[t]
  <2>1. MarkMoves(t, 0)
    BY <1>3 DEF ExitNotify
  <2> QED BY <1>1, <1>3, <2>1, MarkMoved DEF ExitNotify
<1> QED BY <1>2, <1>3

\* So does a zombie that is waited for.
LEMMA ReapMoves ==
    ASSUME Inv, NEW t \in Tids, Reap(t)
    PROVE  /\ mark' \in Marking \cup {NoMark}
           /\ mark' # NoMark <=> mark # NoMark
           /\ mark'.step = mark.step /\ mark'.tid = mark.tid
           /\ mark'.task = IF mark.task = t THEN 0 ELSE mark.task
<1>1. mark \in Marking \cup {NoMark} /\ MarkMoves(t, 0)
  BY DEF Inv, StateOK, Reap
<1> QED BY <1>1, MarkMoved

\* The steps of the kernel around the hooks preserve the invariant.
LEMMA KernelInv == Inv /\ KernelStep => Inv'
<1> SUFFICES ASSUME Inv, KernelStep PROVE Inv'
  OBVIOUS
<1> USE DEF Inv, ForkInv, FreeInv, taskVars, ctxVars, daemonVars, Used, Running
<1>1. CASE Tick
  BY <1>1 DEF Tick, StateOK
<1>2. ASSUME NEW p \in Tids, NEW c \in Tids, NEW g \in Tids, NEW r \in Tids,
             ForkAttach(p, c, g, r), g = c \/ g = tgid[p]
      PROVE  Inv'
  <2>1. status[c] = "free" /\ status[p] = "live"
    BY <1>2 DEF ForkAttach, MayAllocate
  <2>2. StateOK'
    BY <1>2 DEF ForkAttach, StateOK, Status
  <2>3. ForkInv'
    BY <1>2, <2>1 DEF ForkAttach, StateOK
  <2>4. FreeInv'
    BY <1>2, <2>1 DEF ForkAttach, StateOK
  <2> QED BY <2>2, <2>3, <2>4
<1>3. ASSUME NEW p \in Tids, ExecSwap(p)
      PROVE  Inv'
  <2>0. mark' \in Marking \cup {NoMark} /\ (mark' # NoMark <=> mark # NoMark)
    BY <1>3, ExecMoves
  <2>1. StateOK'
    BY <1>3, <2>0, InitIsTask DEF ExecSwap, StateOK, Status
  <2>2. ForkInv'
    BY <1>3, InitIsTask DEF ExecSwap, StateOK, Status
  <2>3. FreeInv'
    BY <1>3, InitIsTask DEF ExecSwap, StateOK, Status
  <2> QED BY <2>1, <2>2, <2>3
<1>4. ASSUME NEW t \in Tids, ExitNotify(t)
      PROVE  Inv'
  <2>0. mark' \in Marking \cup {NoMark} /\ (mark' # NoMark <=> mark # NoMark)
    BY <1>4, NotifyMoves
  <2>1. parent' \in [Tids -> Tids]
    BY <1>4, InitIsTask DEF ExitNotify, StateOK, Group
  <2>2. StateOK'
    <3>1. CASE t = tgid[t]
      BY <1>4, <2>0, <2>1, <3>1 DEF ExitNotify, StateOK, Status
    <3>2. CASE t # tgid[t]
      <4>1. /\ status' = [status EXCEPT ![t] = "free"] /\ tgid' = [tgid EXCEPT ![t] = t]
            /\ ctx' = [ctx EXCEPT ![t] = NoCtx]
            /\ UNCHANGED <<start, by, last, got, now, cmd, stage, cursor, reply>>
        BY <1>4, <3>2 DEF ExitNotify
      <4> QED BY <2>0, <2>1, <4>1 DEF StateOK, Status
    <3> QED BY <3>1, <3>2
  <2>3. ForkInv' /\ FreeInv'
    BY <1>4 DEF ExitNotify, StateOK
  <2> QED BY <2>2, <2>3
<1>5. ASSUME NEW t \in Tids, Reap(t)
      PROVE  Inv'
  <2>0. mark' \in Marking \cup {NoMark} /\ (mark' # NoMark <=> mark # NoMark)
    BY <1>5, ReapMoves
  <2> QED BY <1>5, <2>0, InitIsTask DEF Reap, StateOK, Status
<1>6. ASSUME NEW p \in Tids, NEW c \in Tids, ForkProcess(p, c) \/ ForkThread(p, c)
      PROVE  Inv'
  <2>1. tgid[p] \in Tids /\ parent[p] \in Tids
    BY DEF StateOK
  <2> QED BY <1>2, <1>6, <2>1 DEF ForkProcess, ForkThread
<1> QED BY <1>1, <1>3, <1>4, <1>5, <1>6 DEF KernelStep

\* What the fork hook looks up: a pointer to storage, and storage for the child.
LEMMA ForkReads ==
    ASSUME Inv, NEW c \in Tids, ForkRead(c)
    PROVE  /\ status[c] = "newborn" /\ status' = [status EXCEPT ![c] = "hooking"]
           /\ by[c] \in Tids
           /\ got' = [got EXCEPT ![c] = ctx[by[c]].wl] \/ (MayFail /\ ctx[c] = NoCtx /\ got' = got)
           /\ ctx' = ctx \/ (ctx' = [ctx EXCEPT ![c] = ZeroCtx] /\ ctx[c] = NoCtx /\ got'[c] # NoWl)
           /\ ctx[by[c]] # NoCtx => ctx[by[c]].wl # NoWl
           /\ got'[c] # NoWl /\ got' # got => ctx'[c] # NoCtx
           /\ got' \in [Tids -> Ids \cup {NoWl}] /\ ctx' \in [Tids -> TaskCtx \cup {NoCtx}]
           /\ UNCHANGED <<tgid, parent, start, by, last, now, daemonVars, mark>>
<1> USE DEF Inv
<1>1. status[c] = "newborn" /\ by[c] \in Tids
  BY DEF ForkRead, ForkInv
<1>2. ctx[by[c]] \in TaskCtx \cup {NoCtx} /\ ctx[c] \in TaskCtx \cup {NoCtx}
  BY <1>1 DEF StateOK
<1>3. /\ ctx[by[c]].wl \in Ids \cup {NoWl}
      /\ ctx[by[c]] # NoCtx <=> ctx[by[c]].wl # NoWl
  BY <1>2, NamesWl
<1>4. CASE got' = [got EXCEPT ![c] = ctx[by[c]].wl]
           /\ ctx' = IF ctx[by[c]] # NoCtx /\ ctx[c] = NoCtx THEN [ctx EXCEPT ![c] = ZeroCtx] ELSE ctx
  <2>1. got' \in [Tids -> Ids \cup {NoWl}] /\ got'[c] = ctx[by[c]].wl
    BY <1>3, <1>4 DEF StateOK
  <2>2. CASE ctx[by[c]] # NoCtx /\ ctx[c] = NoCtx
    <3>1. ctx' = [ctx EXCEPT ![c] = ZeroCtx]
      BY <1>4, <2>2
    <3>2. ctx' \in [Tids -> TaskCtx \cup {NoCtx}] /\ ctx'[c] # NoCtx
      BY <3>1, FreshContext DEF StateOK
    <3> QED BY <1>1, <1>3, <1>4, <2>1, <2>2, <3>1, <3>2 DEF ForkRead
  <2>3. CASE ~(ctx[by[c]] # NoCtx /\ ctx[c] = NoCtx)
    <3>1. ctx' = ctx
      BY <1>4, <2>3
    <3> QED BY <1>1, <1>3, <1>4, <2>1, <2>3, <3>1 DEF ForkRead, StateOK
  <2> QED BY <2>2, <2>3
<1>5. CASE MayFail /\ ctx[c] = NoCtx /\ UNCHANGED <<got, ctx>>
  BY <1>1, <1>3, <1>5 DEF ForkRead, StateOK
<1> QED BY <1>4, <1>5 DEF ForkRead

\* What the fork hook leaves behind: the child's own identity, with a workload
\* its pointer led to, in storage that is still there.
LEMMA ForkCopies ==
    ASSUME Inv, NEW c \in Tids, ForkCopy(c)
    PROVE  /\ status[c] = "hooking" /\ ForkDone(c) /\ by[c] \in Tids
           /\ \/ ctx' = ctx /\ (got[c] = NoWl \/ ctx[c] = NoCtx)
              \/ /\ got[c] # NoWl /\ ctx[c] # NoCtx /\ ctx'[c] # NoCtx
                 /\ ctx'[c].wl \in Inherited(c) /\ ctx'[c].wl \in Ids
                 /\ ctx'[c].tid = c /\ ctx'[c].tgid = tgid[c]
           /\ \A t \in Tids : t # c => ctx'[t] = ctx[t]
           /\ ctx' \in [Tids -> TaskCtx \cup {NoCtx}]
<1> USE DEF Inv
<1>1. status[c] = "hooking" /\ ForkDone(c) /\ by[c] \in Tids
  BY DEF ForkCopy, ForkInv
<1>2. CASE got[c] = NoWl \/ ctx[c] = NoCtx
  BY <1>1, <1>2 DEF ForkCopy, StateOK
<1>3. CASE ~(got[c] = NoWl \/ ctx[c] = NoCtx)
  <2>1. PICK wl \in Inherited(c) : ctx' = [ctx EXCEPT ![c] = [wl |-> wl, tgid |-> tgid[c], tid |-> c]]
    BY <1>3 DEF ForkCopy
  <2>2. wl \in Ids
    <3>1. ctx[by[c]].wl \in Ids \cup {NoWl}
      BY <1>1, NamesWl DEF StateOK
    <3> QED BY <1>3, <3>1 DEF Inherited, StateOK
  <2>3. tgid[c] \in Tids
    BY DEF StateOK
  <2> PICK new : new = [wl |-> wl, tgid |-> tgid[c], tid |-> c]
    OBVIOUS
  <2>4. new \in TaskCtx /\ new # NoCtx /\ new.wl = wl /\ new.tid = c /\ new.tgid = tgid[c]
    BY <2>2, <2>3, NewContext
  <2>5. ctx' = [ctx EXCEPT ![c] = new]
    BY <2>1
  <2>6. ctx'[c] = new /\ (\A t \in Tids : t # c => ctx'[t] = ctx[t])
        /\ ctx' \in [Tids -> TaskCtx \cup {NoCtx}]
    BY <2>4, <2>5 DEF StateOK
  <2> QED BY <1>1, <1>3, <2>2, <2>4, <2>6
<1> QED BY <1>2, <1>3

\* So do the hooks of mon_procs.bpf.c.
LEMMA HookInv == Inv /\ HookStep => Inv'
<1> SUFFICES ASSUME Inv, HookStep PROVE Inv'
  OBVIOUS
<1> USE DEF Inv, ForkInv, FreeInv, ctxVars, daemonVars
<1>1. ASSUME NEW c \in Tids, ForkRead(c)
      PROVE  Inv'
  <2>1. /\ status[c] = "newborn" /\ status' = [status EXCEPT ![c] = "hooking"]
        /\ ctx' = ctx \/ ctx' = [ctx EXCEPT ![c] = ZeroCtx]
        /\ got' \in [Tids -> Ids \cup {NoWl}] /\ ctx' \in [Tids -> TaskCtx \cup {NoCtx}]
        /\ UNCHANGED <<tgid, parent, start, by, last, now, daemonVars, mark>>
    BY <1>1, ForkReads
  <2>2. StateOK'
    BY <2>1 DEF StateOK, Status
  <2>3. ForkInv' /\ FreeInv'
    BY <2>1 DEF StateOK
  <2> QED BY <2>2, <2>3
<1>2. ASSUME NEW c \in Tids, ForkCopy(c)
      PROVE  Inv'
  <2>1. /\ status[c] = "hooking" /\ ForkDone(c)
        /\ \A t \in Tids : t # c => ctx'[t] = ctx[t]
        /\ ctx' \in [Tids -> TaskCtx \cup {NoCtx}]
    BY <1>2, ForkCopies
  <2>2. StateOK'
    BY <2>1 DEF ForkDone, StateOK, Status
  <2>3. ForkInv' /\ FreeInv'
    BY <2>1, InitIsTask DEF ForkDone, StateOK
  <2> QED BY <2>2, <2>3
<1>3. ASSUME NEW t \in Tids, ExecHook(t)
      PROVE  Inv'
  <2>1. ctx' \in [Tids -> TaskCtx \cup {NoCtx}]
    <3>1. CASE ctx[t] = NoCtx
      BY <1>3, <3>1 DEF ExecHook, StateOK
    <3>2. CASE ctx[t] # NoCtx
      <4>1. ctx[t] \in TaskCtx /\ tgid[t] \in Tids
        BY <3>2 DEF StateOK
      <4>2. [ctx[t] EXCEPT !.tgid = tgid[t], !.tid = t] \in TaskCtx
        BY <4>1 DEF TaskCtx
      <4> QED BY <1>3, <3>2, <4>2 DEF ExecHook, StateOK
    <3> QED BY <3>1, <3>2
  <2>2. StateOK' /\ ForkInv'
    BY <1>3, <2>1 DEF ExecHook, StateOK, Status
  <2>3. FreeInv'
    BY <1>3 DEF ExecHook, StateOK, TaskCtx
  <2> QED BY <2>2, <2>3
<1>4. ASSUME NEW t \in Tids, ExitHook(t)
      PROVE  Inv'
  BY <1>4 DEF ExitHook, Running, StateOK, Status
<1> QED BY <1>1, <1>2, <1>3, <1>4 DEF HookStep

\* Clients only change the command.
LEMMA ClientInv == Inv /\ ClientStep => Inv'
<1> SUFFICES ASSUME Inv, ClientStep PROVE Inv'
  OBVIOUS
<1> USE DEF Inv, ForkInv, FreeInv, taskVars, ctxVars, Send, MaySend
<1>1. ASSUME NEW root \in Tids, NEW w \in Workloads, SendTree(root, w)
      PROVE  Inv'
  <2>1. cmd' \in Command
    BY <1>1 DEF SendTree, Command, StateOK
  <2> QED BY <1>1, <2>1 DEF SendTree, StateOK, Command, NoCmd
<1>2. ASSUME NEW w \in Workloads, SendUntrack(w)
      PROVE  Inv'
  <2>1. cmd' \in Command
    BY <1>2 DEF SendUntrack, Command, StateOK, Tids, InitTask
  <2> QED BY <1>2, <2>1 DEF SendUntrack, StateOK, Command, NoCmd
<1> QED BY <1>1, <1>2 DEF ClientStep

\* What the pass does to the storage of the task it is at.
LEMMA Visits ==
    ASSUME Inv, NEW t \in Tids, Visit(t)
    PROVE  /\ stage # "idle" /\ mark = NoMark /\ NextTask(t) /\ cmd.wl \in Workloads
           /\ UNCHANGED <<taskVars, got, now, cmd, stage, reply>>
           /\ \A s \in Tids : s # t => ctx'[s] = ctx[s]
           /\ ctx' \in [Tids -> TaskCtx \cup {NoCtx}]
           /\ \/ /\ stage = "mark" /\ ResolveAncestor(t)
                 /\ ctx'[t] = IF ctx[t] = NoCtx THEN ZeroCtx ELSE ctx[t]
                 /\ mark' = [step |-> "made", task |-> t, tid |-> 0] /\ cursor' = t
              \/ /\ stage = "mark" /\ (~ResolveAncestor(t) \/ (MayFail /\ ctx[t] = NoCtx))
                 /\ ctx' = ctx /\ mark' = mark /\ cursor' = t + 1
              \/ /\ stage # "mark" /\ Unmark(t)
                 /\ ctx'[t] = ctx[t] \/ ctx'[t] = NoCtx
                 /\ mark' = mark /\ cursor' = t + 1
<1> USE DEF Inv
<1>1. /\ stage # "idle" /\ mark = NoMark /\ NextTask(t)
      /\ UNCHANGED <<taskVars, got, now, cmd, stage, reply>>
  BY DEF Visit
<1>2. cmd.wl \in Workloads
  BY <1>1 DEF StateOK, Command
<1>3. CASE stage = "mark" /\ ResolveAncestor(t) /\ mark' = [step |-> "made", task |-> t, tid |-> 0]
           /\ cursor' = t /\ ctx' = IF ctx[t] = NoCtx THEN [ctx EXCEPT ![t] = ZeroCtx] ELSE ctx
  <2>1. CASE ctx[t] = NoCtx
    <3>1. ctx' = [ctx EXCEPT ![t] = ZeroCtx]
      BY <1>3, <2>1
    <3>2. ctx' \in [Tids -> TaskCtx \cup {NoCtx}] /\ ctx'[t] = ZeroCtx
          /\ \A s \in Tids : s # t => ctx'[s] = ctx[s]
      BY <3>1, FreshContext DEF StateOK
    <3> QED BY <1>1, <1>2, <1>3, <2>1, <3>2
  <2>2. CASE ctx[t] # NoCtx
    BY <1>1, <1>2, <1>3, <2>2 DEF StateOK
  <2> QED BY <2>1, <2>2
<1>4. CASE stage = "mark" /\ (~ResolveAncestor(t) \/ (MayFail /\ ctx[t] = NoCtx))
           /\ cursor' = t + 1 /\ UNCHANGED <<ctx, mark>>
  BY <1>1, <1>2, <1>4 DEF StateOK
<1>5. CASE stage # "mark" /\ Unmark(t)
  <2>1. ctx' = ctx \/ ctx' = [ctx EXCEPT ![t] = NoCtx]
    BY <1>5 DEF Unmark
  <2>2. /\ \A s \in Tids : s # t => ctx'[s] = ctx[s]
        /\ ctx' \in [Tids -> TaskCtx \cup {NoCtx}] /\ (ctx'[t] = ctx[t] \/ ctx'[t] = NoCtx)
    BY <2>1 DEF StateOK
  <2>3. mark' = mark /\ cursor' = t + 1
    BY <1>5 DEF Unmark
  <2> QED BY <1>1, <1>2, <1>5, <2>2, <2>3
<1> QED BY <1>1, <1>3, <1>4, <1>5 DEF Visit, MarkTask

\* What the pass stores first, if the storage is still there: the workload of
\* the command and the tgid, and the hooks that point there may load the former.
LEMMA Fills ==
    ASSUME Inv, MarkFill
    PROVE  /\ mark \in Marking /\ mark.step = "made" /\ stage = "mark" /\ cursor \in Tids
           /\ cmd \in Command /\ cmd.wl \in Workloads
           /\ mark' \in Marking /\ mark' # NoMark /\ mark'.step = "loaded"
           /\ mark'.task = mark.task /\ mark'.tid = mark.task
           /\ ctx' \in [Tids -> TaskCtx \cup {NoCtx}]
           /\ ~Kept => ctx' = ctx
           /\ Kept => /\ mark.task \in Tids /\ ctx[mark.task] # NoCtx /\ ctx'[mark.task] # NoCtx
                      /\ ctx'[mark.task].wl = cmd.wl
                      /\ ctx'[mark.task].tgid = tgid[mark.task]
                      /\ ctx'[mark.task].tid = ctx[mark.task].tid
                      /\ \A s \in Tids : s # mark.task => ctx'[s] = ctx[s]
           /\ got' \in [Tids -> Ids \cup {NoWl}]
           /\ got' = got \/ Kept
           /\ \A c \in Tids : got'[c] = got[c] \/ (got[c] # NoWl /\ got'[c] = cmd.wl /\ by[c] = mark.task)
           /\ UNCHANGED <<taskVars, now, cmd, stage, cursor, removed, reply>>
<1> USE DEF Inv
<1> PICK m : m = mark.task
  OBVIOUS
<1>1. /\ mark.step = "made"
      /\ ctx' = IF Kept THEN [ctx EXCEPT ![m] = [@ EXCEPT !.wl = cmd.wl, !.tgid = tgid[m]]] ELSE ctx
      /\ got' = got \/ (Kept /\ got' = [c \in Tids |-> IF by[c] = m /\ got[c] # NoWl
                                                      THEN cmd.wl ELSE got[c]])
      /\ mark' = [mark EXCEPT !.step = "loaded", !.tid = m]
      /\ UNCHANGED <<taskVars, now, cmd, stage, cursor, removed, reply>>
  BY DEF MarkFill
<1>2. mark \in Marking /\ mark # NoMark /\ m \in Tids \cup {0}
  <2>1. mark # NoMark
    BY <1>1 DEF NoMark
  <2> QED BY <2>1 DEF StateOK, Marking
<1>3. stage = "mark" /\ cursor \in Tids /\ cmd \in Command /\ cmd.wl \in Workloads
  <2>1. stage = "mark" /\ cursor \in Tids
    BY <1>2 DEF StateOK
  <2> QED BY <2>1 DEF StateOK, Command
<1>4. mark' \in Marking /\ mark' # NoMark /\ mark'.step = "loaded" /\ mark'.task = m /\ mark'.tid = m
  <2>1. mark' \in Marking /\ mark'.step = "loaded" /\ mark'.task = m /\ mark'.tid = m
    BY <1>1, <1>2 DEF Marking
  <2> QED BY <2>1 DEF NoMark
<1>5. /\ got' \in [Tids -> Ids \cup {NoWl}]
      /\ got' = got \/ Kept
      /\ \A c \in Tids : got'[c] = got[c] \/ (got[c] # NoWl /\ got'[c] = cmd.wl /\ by[c] = m)
  <2>1. CASE got' = got
    BY <2>1 DEF StateOK
  <2>2. CASE Kept /\ got' = [c \in Tids |-> IF by[c] = m /\ got[c] # NoWl THEN cmd.wl ELSE got[c]]
    BY <1>3, <2>2 DEF StateOK, Ids
  <2> QED BY <1>1, <2>1, <2>2
<1>6. CASE ~Kept
  BY <1>1, <1>2, <1>3, <1>4, <1>5, <1>6 DEF StateOK
<1>7. CASE Kept
  <2>1. m \in Tids /\ ctx[m] \in TaskCtx /\ tgid[m] \in Tids
    BY <1>2, <1>7 DEF Kept, StateOK
  <2> PICK new : new = [ctx[m] EXCEPT !.wl = cmd.wl, !.tgid = tgid[m]]
    OBVIOUS
  <2>2. new \in TaskCtx /\ new.wl = cmd.wl /\ new.tgid = tgid[m] /\ new.tid = ctx[m].tid
    BY <1>3, <2>1 DEF TaskCtx, Ids
  <2>3. new # NoCtx
    BY <1>3, <2>2 DEF NoCtx
  <2>4. ctx' = [ctx EXCEPT ![m] = new]
    BY <1>1, <1>7
  <2>5. ctx'[m] = new /\ (\A s \in Tids : s # m => ctx'[s] = ctx[s])
        /\ ctx' \in [Tids -> TaskCtx \cup {NoCtx}]
    BY <2>1, <2>2, <2>4 DEF StateOK
  <2>6. ctx[m] # NoCtx
    BY <1>7 DEF Kept
  <2> QED BY <1>1, <1>2, <1>3, <1>4, <1>5, <1>7, <2>1, <2>2, <2>3, <2>5, <2>6
<1> QED BY <1>6, <1>7

\* What it stores last: the pid number it has loaded.
LEMMA Stores ==
    ASSUME Inv, MarkTid
    PROVE  /\ mark \in Marking /\ mark.step = "loaded" /\ stage = "mark" /\ cursor \in Tids
           /\ mark' = NoMark /\ cursor' = cursor + 1
           /\ ctx' \in [Tids -> TaskCtx \cup {NoCtx}]
           /\ ~Kept => ctx' = ctx
           /\ Kept => /\ mark.task \in Tids /\ ctx[mark.task] # NoCtx /\ ctx'[mark.task] # NoCtx
                      /\ ctx'[mark.task].wl = ctx[mark.task].wl
                      /\ ctx'[mark.task].tgid = ctx[mark.task].tgid
                      /\ ctx'[mark.task].tid = mark.tid
                      /\ \A s \in Tids : s # mark.task => ctx'[s] = ctx[s]
           /\ UNCHANGED <<taskVars, got, now, cmd, stage, removed, reply>>
<1> USE DEF Inv
<1> PICK m : m = mark.task
  OBVIOUS
<1>1. /\ mark.step = "loaded"
      /\ ctx' = IF Kept THEN [ctx EXCEPT ![m] = [@ EXCEPT !.tid = mark.tid]] ELSE ctx
      /\ mark' = NoMark /\ cursor' = cursor + 1
      /\ UNCHANGED <<taskVars, got, now, cmd, stage, removed, reply>>
  BY DEF MarkTid
<1>2. mark \in Marking /\ mark # NoMark /\ m \in Tids \cup {0} /\ mark.tid \in Tids \cup {0}
  <2>1. mark # NoMark
    BY <1>1 DEF NoMark
  <2> QED BY <2>1 DEF StateOK, Marking
<1>3. stage = "mark" /\ cursor \in Tids
  BY <1>2 DEF StateOK
<1>6. CASE ~Kept
  BY <1>1, <1>2, <1>3, <1>6 DEF StateOK
<1>7. CASE Kept
  <2>1. m \in Tids /\ ctx[m] \in TaskCtx /\ ctx[m] # NoCtx
    BY <1>2, <1>7 DEF Kept, StateOK
  <2> PICK new : new = [ctx[m] EXCEPT !.tid = mark.tid]
    OBVIOUS
  <2>2. new \in TaskCtx /\ new.wl = ctx[m].wl /\ new.tgid = ctx[m].tgid /\ new.tid = mark.tid
    BY <1>2, <2>1 DEF TaskCtx
  <2>3. new # NoCtx
    BY <2>2 DEF NoCtx, TaskCtx, Ids
  <2>4. ctx' = [ctx EXCEPT ![m] = new]
    BY <1>1, <1>7
  <2>5. ctx'[m] = new /\ (\A s \in Tids : s # m => ctx'[s] = ctx[s])
        /\ ctx' \in [Tids -> TaskCtx \cup {NoCtx}]
    BY <2>1, <2>2, <2>4 DEF StateOK
  <2> QED BY <1>1, <1>2, <1>3, <1>7, <2>1, <2>2, <2>3, <2>5
<1> QED BY <1>6, <1>7

\* The passes of the daemon preserve it.
LEMMA DaemonInv == Inv /\ DaemonStep => Inv'
<1> SUFFICES ASSUME Inv, DaemonStep PROVE Inv'
  OBVIOUS
<1> USE DEF Inv, ForkInv, FreeInv, taskVars, ctxVars
<1>1. CASE StartPass
  <2>1. mark = NoMark
    BY <1>1 DEF StartPass, StateOK
  <2> QED BY <1>1, <2>1 DEF StartPass, BeginPass, StateOK
<1>2. ASSUME NEW t \in Tids, Visit(t)
      PROVE  Inv'
  <2>1. /\ mark = NoMark /\ NextTask(t) /\ UNCHANGED <<taskVars, got, now, cmd, stage, reply>>
        /\ \A s \in Tids : s # t => ctx'[s] = ctx[s]
        /\ ctx' \in [Tids -> TaskCtx \cup {NoCtx}] /\ stage # "idle"
    BY <1>2, Visits
  <2>2. \/ stage = "mark" /\ mark' = [step |-> "made", task |-> t, tid |-> 0] /\ cursor' = t
        \/ mark' = NoMark /\ cursor' = t + 1
    BY <1>2, <2>1, Visits
  <2>3. cursor' \in 1 .. NTids + 1 /\ mark' \in Marking \cup {NoMark}
        /\ (mark' # NoMark => stage' = "mark" /\ cursor' \in Tids)
    <3>1. [step |-> "made", task |-> t, tid |-> 0] \in Marking
      BY DEF Marking
    <3> QED BY <2>1, <2>2, <3>1 DEF Tids
  <2>4. StateOK' /\ ForkInv'
    BY <2>1, <2>3 DEF StateOK
  <2>5. FreeInv'
    BY <2>1 DEF NextTask, Used
  <2> QED BY <2>4, <2>5
<1>3. CASE MarkFill
  <2>1. /\ stage = "mark" /\ cursor \in Tids /\ mark' \in Marking
        /\ ctx' \in [Tids -> TaskCtx \cup {NoCtx}] /\ got' \in [Tids -> Ids \cup {NoWl}]
        /\ UNCHANGED <<taskVars, now, cmd, stage, cursor, removed, reply>>
        /\ \A s \in Tids : ctx[s] = NoCtx => ctx'[s] = NoCtx
    BY <1>3, Fills
  <2> QED BY <2>1 DEF StateOK
<1>4. CASE MarkTid
  <2>1. /\ stage = "mark" /\ cursor \in Tids /\ mark' = NoMark /\ cursor' = cursor + 1
        /\ ctx' \in [Tids -> TaskCtx \cup {NoCtx}]
        /\ UNCHANGED <<taskVars, got, now, cmd, stage, removed, reply>>
        /\ \A s \in Tids : ctx[s] = NoCtx => ctx'[s] = NoCtx
    BY <1>4, Stores
  <2>2. cursor' \in 1 .. NTids + 1
    BY <2>1 DEF Tids
  <2> QED BY <2>1, <2>2 DEF StateOK
<1>5. CASE EndMark
  BY <1>5 DEF EndMark, PassOver, Respond, StateOK
<1>6. CASE EndUnmark
  BY <1>6 DEF EndUnmark, PassOver, BeginPass, Respond, StateOK
<1>7. CASE FailPass
  BY <1>7 DEF FailPass, Respond, StateOK
<1> QED BY <1>1, <1>2, <1>3, <1>4, <1>5, <1>6, <1>7 DEF DaemonStep

\* The flag of the unmark passes is a boolean.
LEMMA RemovedType == RemovedOK /\ [TrackerNext]_vars => RemovedOK'
<1> SUFFICES ASSUME RemovedOK, [TrackerNext]_vars PROVE RemovedOK'
  OBVIOUS
<1>1. RemovedOK' \/ removed' = removed
  BY DEF TrackerNext, vars, KernelStep, HookStep, ClientStep, DaemonStep, daemonVars,
         Tick, ForkProcess, ForkThread, ForkAttach, ExecSwap, ExitNotify, Reap, ForkRead,
         ForkCopy, ForkDone, ExecHook, ExitHook, SendTree, SendUntrack, Send, StartPass, BeginPass,
         Visit, Unmark, MarkFill, MarkTid, EndMark, EndUnmark, FailPass, Respond, RemovedOK
<1> QED BY <1>1 DEF RemovedOK

\* The invariant is kept by every step.
LEMMA InvStep == Inv /\ [TrackerNext]_vars => Inv'
<1>1. ASSUME Inv, UNCHANGED vars PROVE Inv'
  BY <1>1 DEF Inv, StateOK, ForkInv, FreeInv, vars
<1> QED BY <1>1, KernelInv, HookInv, ClientInv, DaemonInv DEF TrackerNext

\* The invariant holds in every reachable state.
THEOREM Invariance == Spec => [](Inv /\ RemovedOK)
<1>1. Init => Inv /\ RemovedOK
  BY InitInv DEF Init, RemovedOK
<1> QED BY <1>1, InvStep, RemovedType, PTL DEF Spec

\* Type correctness of the tracker.
THEOREM TypeCorrect == Spec => []TypeOK
  BY Invariance, PTL DEF Inv, TypeOK

-----------------------------------------------------------------------------
\* The identity in a context, while several hands are writing it.

\* Whose tgid a context has: the task's, or its fork hook or the mark pass has
\* yet to store it.
OwnTgid(t) ==
    ctx[t] # NoCtx => \/ ctx[t].tgid = tgid[t]
                      \/ status[t] = "hooking" /\ got[t] # NoWl
                      \/ mark.task = t /\ mark.step = "made"

\* Whose tid: the task's, or one of the two, or its exec hook, has yet to store
\* it, or a pass that an exec crossed may have stored the old one.
OwnTid(t) ==
    ctx[t] # NoCtx => \/ ctx[t].tid = t
                      \/ status[t] = "hooking" /\ got[t] # NoWl
                      \/ mark.task = t \/ t \in crossed \/ status[t] = "execing"

\* The tid the pass holds is the task's, unless an exec has crossed it, and
\* its task is there, or it knows of none.
Held ==
    /\ mark.step = "loaded" /\ mark.task # 0 => mark.tid = mark.task \/ mark.task \in crossed
    /\ mark.task \in Tids => status[mark.task] # "free"

IdInv == (\A t \in Tids : OwnTgid(t) /\ OwnTid(t)) /\ Held

\* Only an exec that renames a task makes one cross.
LEMMA CrossKept ==
    ASSUME CrossStep, \A t \in Tids : ~(status[t] = "zombie" /\ status'[t] = "execing")
    PROVE  \A t \in Tids : t \in crossed' <=> t \in crossed /\ status'[t] # "free"
  BY DEF CrossStep

\* The pass is at a task, at none that is left, or not under way.
LEMMA MarkAt ==
    ASSUME Inv
    PROVE  /\ mark.task \in Tids \cup {0}
           /\ mark.task # 0 => mark \in Marking /\ mark.step \in {"made", "loaded"}
           /\ NoMark.task = 0 /\ NoMark.step = "none" /\ 0 \notin Tids
<1>1. NoMark.task = 0 /\ NoMark.step = "none" /\ 0 \notin Tids
  BY DEF NoMark, Tids
<1>2. mark \in Marking => mark.task \in Tids \cup {0} /\ mark.step \in {"made", "loaded"}
  BY DEF Marking
<1> QED BY <1>1, <1>2 DEF Inv, StateOK

\* The kernel's steps disturb no identity but that of the task an exec
\* renames, which the exec hook is about to store.
LEMMA IdKernel ==
    ASSUME Inv, IdInv, KernelStep, CrossStep
    PROVE  IdInv'
<1> USE DEF IdInv, OwnTgid, OwnTid, Held
<1>0. /\ mark.task \in Tids \cup {0} /\ 0 \notin Tids
      /\ status \in [Tids -> Status] /\ tgid \in [Tids -> Tids] /\ parent \in [Tids -> Tids]
      /\ ctx \in [Tids -> TaskCtx \cup {NoCtx}] /\ by \in [Tids -> Tids \cup {0}]
      /\ \A t \in Tids : status[t] = "free" => ctx[t] = NoCtx
  BY MarkAt DEF Inv, StateOK, FreeInv
<1>1. CASE Tick
  <2>1. UNCHANGED <<status, tgid, ctx, got, mark>>
    BY <1>1 DEF Tick, taskVars, ctxVars
  <2>2. \A t \in Tids : t \in crossed' <=> t \in crossed /\ status'[t] # "free"
    BY <2>1, CrossKept
  <2> QED BY <1>0, <2>1, <2>2
<1>2. ASSUME NEW p \in Tids, NEW c \in Tids, NEW g \in Tids, NEW r \in Tids, ForkAttach(p, c, g, r)
      PROVE  IdInv'
  <2>1. /\ status[c] = "free" /\ status' = [status EXCEPT ![c] = "newborn"]
        /\ tgid' = [tgid EXCEPT ![c] = g] /\ UNCHANGED <<ctx, got, mark>>
    BY <1>2 DEF ForkAttach, MayAllocate, ctxVars
  <2>2. \A t \in Tids : t \in crossed' <=> t \in crossed /\ status'[t] # "free"
    BY <1>0, <2>1, CrossKept
  <2> QED BY <1>0, <2>1, <2>2
<1>3. ASSUME NEW p \in Tids, ExecSwap(p)
      PROVE  IdInv'
  <2> PICK l \in Tids : l = tgid[p]
    BY <1>0
  <2>1. /\ p # l /\ tgid[l] = l /\ status[p] = "live" /\ status[l] = "zombie"
        /\ mark'.step = mark.step /\ mark'.tid = mark.tid
        /\ mark'.task = IF mark.task = l THEN 0 ELSE IF mark.task = p THEN l ELSE mark.task
    BY <1>3, ExecMoves
  <2>2. /\ status' = [status EXCEPT ![l] = "execing", ![p] = "free"]
        /\ tgid' = [tgid EXCEPT ![p] = p]
        /\ ctx' = [ctx EXCEPT ![l] = ctx[p], ![p] = NoCtx]
        /\ UNCHANGED got
    BY <1>3 DEF ExecSwap
  <2>3. /\ status'[l] = "execing" /\ status'[p] = "free" /\ ctx'[l] = ctx[p] /\ ctx'[p] = NoCtx
        /\ \A t \in Tids : t # l /\ t # p => status'[t] = status[t] /\ ctx'[t] = ctx[t]
        /\ \A t \in Tids : t # p => tgid'[t] = tgid[t]
    BY <1>0, <2>1, <2>2
  <2>4. \A t \in Tids : t # l /\ t \in crossed /\ status'[t] # "free" => t \in crossed'
    BY <1>0, <2>1, <2>3 DEF CrossStep
  <2>5. mark.step = "loaded" /\ mark.task = p => l \in crossed'
    BY <2>1, <2>3 DEF CrossStep
  <2>6. \A t \in Tids : OwnTgid(t)'
    BY <1>0, <2>1, <2>2, <2>3
  <2>7. \A t \in Tids : OwnTid(t)'
    <3> SUFFICES ASSUME NEW t \in Tids, ctx'[t] # NoCtx, t # l PROVE OwnTid(t)'
      BY <2>3
    <3>1. t # p /\ status[t] # "free" /\ status'[t] = status[t] /\ ctx'[t] = ctx[t]
      BY <1>0, <2>3
    <3>2. t \in crossed => t \in crossed'
      BY <2>4, <3>1
    <3>3. mark.task = t => mark'.task = t
      BY <2>1, <3>1
    <3> QED BY <2>2, <3>1, <3>2, <3>3
  <2>8. Held'
    <3>1. mark'.task \in Tids => status'[mark'.task] # "free"
      BY <1>0, <2>1, <2>3
    <3>2. CASE mark.task = p
      BY <2>1, <2>5, <3>1, <3>2
    <3>3. CASE mark.task = l
      BY <1>0, <2>1, <3>1, <3>3
    <3>4. CASE mark.task # p /\ mark.task # l
      <4>1. mark.task \in Tids => status'[mark.task] # "free"
        BY <1>0, <2>3, <3>4
      <4> QED BY <1>0, <2>1, <2>4, <3>1, <3>4, <4>1
    <3> QED BY <3>2, <3>3, <3>4
  <2> QED BY <2>6, <2>7, <2>8
<1>4. ASSUME NEW t \in Tids, UNCHANGED got,
             mark'.step = mark.step, mark'.tid = mark.tid,
             \/ status' = [status EXCEPT ![t] = "zombie"] /\ status[t] = "exiting"
                /\ UNCHANGED <<tgid, ctx, mark>>
             \/ /\ status' = [status EXCEPT ![t] = "free"]
                /\ (tgid' = tgid \/ tgid' = [tgid EXCEPT ![t] = t])
                /\ ctx' = [ctx EXCEPT ![t] = NoCtx]
                /\ mark'.task = IF mark.task = t THEN 0 ELSE mark.task
      PROVE  IdInv'
  <2>1. \A s \in Tids : s \in crossed' <=> s \in crossed /\ status'[s] # "free"
    BY <1>0, <1>4, CrossKept
  <2>2. CASE status' = [status EXCEPT ![t] = "zombie"] /\ status[t] = "exiting"
             /\ UNCHANGED <<tgid, ctx, mark>>
    BY <1>0, <1>4, <2>1, <2>2
  <2>3. CASE /\ status' = [status EXCEPT ![t] = "free"]
             /\ (tgid' = tgid \/ tgid' = [tgid EXCEPT ![t] = t])
             /\ ctx' = [ctx EXCEPT ![t] = NoCtx]
             /\ mark'.task = IF mark.task = t THEN 0 ELSE mark.task
    <3>1. \A s \in Tids : s # t => status'[s] = status[s] /\ tgid'[s] = tgid[s] /\ ctx'[s] = ctx[s]
      BY <1>0, <2>3
    <3>2. ctx'[t] = NoCtx
      BY <1>0, <2>3
    <3>3. \A s \in Tids : OwnTgid(s)' /\ OwnTid(s)'
      BY <1>0, <1>4, <2>1, <2>3, <3>1, <3>2
    <3>4. Held'
      BY <1>0, <1>4, <2>1, <2>3, <3>1
    <3> QED BY <3>3, <3>4
  <2> QED BY <1>4, <2>2, <2>3
<1>5. ASSUME NEW t \in Tids, ExitNotify(t)
      PROVE  IdInv'
  <2>1. UNCHANGED got
    BY <1>5 DEF ExitNotify
  <2>2. status[t] = "exiting" /\ mark'.step = mark.step /\ mark'.tid = mark.tid
    BY <1>5, NotifyMoves
  <2>3. \/ status' = [status EXCEPT ![t] = "zombie"] /\ UNCHANGED <<tgid, ctx, mark>>
        \/ /\ status' = [status EXCEPT ![t] = "free"]
           /\ tgid' = [tgid EXCEPT ![t] = t]
           /\ ctx' = [ctx EXCEPT ![t] = NoCtx]
           /\ mark'.task = IF mark.task = t THEN 0 ELSE mark.task
    BY <1>5, NotifyMoves
  <2> QED BY <1>4, <2>1, <2>2, <2>3
<1>6. ASSUME NEW t \in Tids, Reap(t)
      PROVE  IdInv'
  <2>1. mark'.step = mark.step /\ mark'.tid = mark.tid
        /\ mark'.task = IF mark.task = t THEN 0 ELSE mark.task
    BY <1>6, ReapMoves
  <2> QED BY <1>4, <1>6, <2>1 DEF Reap
<1>7. ASSUME NEW p \in Tids, NEW c \in Tids, ForkProcess(p, c) \/ ForkThread(p, c)
      PROVE  IdInv'
  BY <1>0, <1>2, <1>7 DEF ForkProcess, ForkThread
<1> QED BY <1>1, <1>3, <1>5, <1>6, <1>7 DEF KernelStep

\* Every hook stores the identity of the task it runs for.
LEMMA IdHook ==
    ASSUME Inv, IdInv, HookStep, CrossStep
    PROVE  IdInv'
<1> USE DEF IdInv, OwnTgid, OwnTid, Held
<1>0. /\ mark.task \in Tids \cup {0} /\ 0 \notin Tids
      /\ status \in [Tids -> Status] /\ tgid \in [Tids -> Tids]
      /\ ctx \in [Tids -> TaskCtx \cup {NoCtx}] /\ got \in [Tids -> Ids \cup {NoWl}]
      /\ \A t \in Tids : status[t] = "free" => ctx[t] = NoCtx
  BY MarkAt DEF Inv, StateOK, FreeInv
<1>1. ASSUME NEW c \in Tids, ForkRead(c)
      PROVE  IdInv'
  <2>1. /\ status[c] = "newborn" /\ status' = [status EXCEPT ![c] = "hooking"]
        /\ ctx' = ctx \/ (ctx' = [ctx EXCEPT ![c] = ZeroCtx] /\ ctx[c] = NoCtx /\ got'[c] # NoWl)
        /\ UNCHANGED <<tgid, mark>>
    BY <1>1, ForkReads
  <2>2. \A t \in Tids : t # c => got'[t] = got[t]
    BY <1>0, <1>1 DEF ForkRead
  <2>3. \A t \in Tids : t \in crossed' <=> t \in crossed /\ status'[t] # "free"
    BY <1>0, <2>1, CrossKept
  <2>4. \A t \in Tids : t # c => ctx'[t] = ctx[t] /\ status'[t] = status[t]
    BY <1>0, <2>1
  <2>5. OwnTgid(c)' /\ OwnTid(c)'
    <3>1. status'[c] = "hooking"
      BY <1>0, <2>1
    <3>2. CASE ctx' = ctx
      BY <1>0, <2>1, <2>3, <3>1, <3>2
    <3>3. CASE got'[c] # NoWl
      BY <3>1, <3>3
    <3> QED BY <2>1, <3>2, <3>3
  <2>6. \A t \in Tids : t # c => OwnTgid(t)' /\ OwnTid(t)'
    BY <1>0, <2>1, <2>2, <2>3, <2>4
  <2>7. Held'
    BY <1>0, <2>1, <2>3, <2>4
  <2> QED BY <2>5, <2>6, <2>7
<1>2. ASSUME NEW c \in Tids, ForkCopy(c)
      PROVE  IdInv'
  <2>1. /\ status[c] = "hooking"
        /\ \/ ctx' = ctx /\ (got[c] = NoWl \/ ctx[c] = NoCtx)
           \/ ctx'[c].tid = c /\ ctx'[c].tgid = tgid[c]
        /\ \A t \in Tids : t # c => ctx'[t] = ctx[t]
    BY <1>2, ForkCopies
  <2>2. status' = [status EXCEPT ![c] = "live"] /\ got' = [got EXCEPT ![c] = NoWl]
        /\ UNCHANGED <<tgid, mark>>
    BY <1>2, ForkCopies DEF ForkDone
  <2>3. \A t \in Tids : t \in crossed' <=> t \in crossed /\ status'[t] # "free"
    BY <1>0, <2>1, <2>2, CrossKept
  <2>4. \A t \in Tids : t # c => ctx'[t] = ctx[t] /\ status'[t] = status[t] /\ got'[t] = got[t]
    BY <1>0, <2>1, <2>2
  <2>5. OwnTgid(c)' /\ OwnTid(c)'
    BY <1>0, <2>1, <2>2, <2>3
  <2>6. \A t \in Tids : t # c => OwnTgid(t)' /\ OwnTid(t)'
    BY <1>0, <2>2, <2>3, <2>4
  <2>7. Held'
    BY <1>0, <2>2, <2>3
  <2> QED BY <2>5, <2>6, <2>7
<1>3. ASSUME NEW c \in Tids, ExecHook(c)
      PROVE  IdInv'
  <2>1. /\ status[c] = "execing" /\ status' = [status EXCEPT ![c] = "live"]
        /\ UNCHANGED <<tgid, got, mark>>
    BY <1>3 DEF ExecHook
  <2>2. (ctx'[c] # NoCtx => ctx'[c].tid = c /\ ctx'[c].tgid = tgid[c])
        /\ \A t \in Tids : t # c => ctx'[t] = ctx[t]
    <3>1. CASE ctx[c] = NoCtx
      BY <1>3, <3>1 DEF ExecHook
    <3>2. CASE ctx[c] # NoCtx
      BY <1>0, <1>3, <3>2 DEF ExecHook, TaskCtx
    <3> QED BY <3>1, <3>2
  <2>3. \A t \in Tids : t \in crossed' <=> t \in crossed /\ status'[t] # "free"
    BY <1>0, <2>1, CrossKept
  <2>4. \A t \in Tids : t # c => status'[t] = status[t]
    BY <1>0, <2>1
  <2>5. \A t \in Tids : OwnTgid(t)' /\ OwnTid(t)'
    BY <1>0, <2>1, <2>2, <2>3, <2>4
  <2>6. Held'
    BY <1>0, <2>1, <2>3
  <2> QED BY <2>5, <2>6
<1>4. ASSUME NEW c \in Tids, ExitHook(c)
      PROVE  IdInv'
  <2>1. /\ status[c] = "live" /\ status' = [status EXCEPT ![c] = "exiting"]
        /\ ctx' = [ctx EXCEPT ![c] = NoCtx] /\ UNCHANGED <<tgid, got, mark>>
    BY <1>4 DEF ExitHook, Running
  <2>2. \A t \in Tids : t \in crossed' <=> t \in crossed /\ status'[t] # "free"
    BY <1>0, <2>1, CrossKept
  <2> QED BY <1>0, <2>1, <2>2
<1> QED BY <1>1, <1>2, <1>3, <1>4 DEF HookStep

\* The pass stores the identity of the task it is at, or the one it had.
LEMMA IdDaemon ==
    ASSUME Inv, IdInv, DaemonStep, CrossStep
    PROVE  IdInv'
<1> USE DEF IdInv, OwnTgid, OwnTid, Held
<1>0. /\ mark.task \in Tids \cup {0} /\ 0 \notin Tids /\ NoMark.task = 0 /\ NoMark.step = "none"
      /\ \A t \in Tids : status[t] = "free" => ctx[t] = NoCtx
  BY MarkAt DEF Inv, FreeInv
<1>1. UNCHANGED <<status, tgid>>
  BY DEF DaemonStep, StartPass, Visit, MarkFill, MarkTid, EndMark, EndUnmark, FailPass, Respond,
         taskVars
<1>2. \A t \in Tids : t \in crossed' <=> t \in crossed /\ status[t] # "free"
  BY <1>1, CrossKept
<1>3. CASE StartPass \/ EndMark \/ EndUnmark \/ FailPass
  <2>1. UNCHANGED <<ctx, got, mark>>
    BY <1>3 DEF StartPass, EndMark, EndUnmark, FailPass, Respond, ctxVars
  <2> QED BY <1>0, <1>1, <1>2, <2>1
<1>4. ASSUME NEW t \in Tids, Visit(t)
      PROVE  IdInv'
  <2>1. mark = NoMark /\ got' = got /\ status[t] # "free" /\ \A s \in Tids : s # t => ctx'[s] = ctx[s]
    BY <1>4, Visits DEF NextTask, Used
  <2>2. \/ mark' = [step |-> "made", task |-> t, tid |-> 0]
        \/ mark' = mark /\ (ctx'[t] = ctx[t] \/ ctx'[t] = NoCtx)
    BY <1>4, Visits
  <2>3. CASE mark' = [step |-> "made", task |-> t, tid |-> 0]
    <3>1. mark'.step = "made" /\ mark'.task = t
      BY <2>3
    <3> HIDE <2>2, <2>3
    <3> QED BY <1>0, <1>1, <1>2, <2>1, <3>1
  <2>4. CASE mark' = mark /\ (ctx'[t] = ctx[t] \/ ctx'[t] = NoCtx)
    BY <1>0, <1>1, <1>2, <2>1, <2>4
  <2> QED BY <2>2, <2>3, <2>4
<1>5. CASE MarkFill
  <2> PICK m : m = mark.task
    OBVIOUS
  <2>1. /\ mark.step = "made" /\ mark'.step = "loaded" /\ mark'.task = m /\ mark'.tid = m
        /\ cmd.wl \in Workloads
        /\ ~Kept => ctx' = ctx
        /\ Kept => /\ ctx'[m].tgid = tgid[m]
                   /\ \A s \in Tids : s # m => ctx'[s] = ctx[s]
        /\ \A c \in Tids : got'[c] = got[c] \/ (got[c] # NoWl /\ got'[c] = cmd.wl)
    BY <1>5, Fills
  <2>2. \A c \in Tids : got[c] # NoWl => got'[c] # NoWl
    BY <2>1
  <2>3. CASE Kept
    BY <1>0, <1>1, <1>2, <2>1, <2>2, <2>3
  <2>4. CASE ~Kept
    <3>1. m \in Tids => ctx[m] = NoCtx
      BY <1>0, <2>4 DEF Kept
    <3> QED BY <1>0, <1>1, <1>2, <2>1, <2>2, <2>4, <3>1
  <2> QED BY <2>3, <2>4
<1>6. CASE MarkTid
  <2> PICK m : m = mark.task
    OBVIOUS
  <2>1. /\ mark.step = "loaded" /\ mark' = NoMark /\ got' = got
        /\ ~Kept => ctx' = ctx
        /\ Kept => /\ m \in Tids
                   /\ ctx[m] # NoCtx
                   /\ ctx'[m].tgid = ctx[m].tgid
                   /\ ctx'[m].tid = mark.tid
                   /\ \A s \in Tids : s # m => ctx'[s] = ctx[s]
    BY <1>6, Stores
  <2>3. CASE Kept
    <3>1. mark.tid = m \/ m \in crossed'
      BY <1>0, <1>2, <2>1, <2>3
    <3> QED BY <1>0, <1>1, <1>2, <2>1, <2>3, <3>1
  <2>4. CASE ~Kept
    <3>1. m \in Tids => ctx[m] = NoCtx
      BY <1>0, <2>4 DEF Kept
    <3> QED BY <1>0, <1>1, <1>2, <2>1, <2>4, <3>1
  <2> QED BY <2>3, <2>4
<1> QED BY <1>3, <1>4, <1>5, <1>6 DEF DaemonStep

\* Every step of the history keeps the identities.
LEMMA IdStep == Inv /\ IdInv /\ [HNext]_<<vars, histVars>> => IdInv'
<1> SUFFICES ASSUME Inv, IdInv, [HNext]_<<vars, histVars>> PROVE IdInv'
  OBVIOUS
<1>1. CASE UNCHANGED <<vars, histVars>>
  BY <1>1 DEF vars, histVars, IdInv, OwnTgid, OwnTid, Held
<1>2. CASE HNext /\ ClientStep
  <2>1. UNCHANGED <<status, tgid, ctx, got, mark>>
    BY <1>2 DEF ClientStep, SendTree, SendUntrack, Send, taskVars, ctxVars
  <2>2. \A t \in Tids : t \in crossed' <=> t \in crossed /\ status[t] # "free"
    BY <1>2, <2>1, CrossKept DEF HNext
  <2>3. mark.task \in Tids \cup {0} /\ \A t \in Tids : status[t] = "free" => ctx[t] = NoCtx
    BY MarkAt DEF Inv, FreeInv
  <2> QED BY <2>1, <2>2, <2>3 DEF IdInv, OwnTgid, OwnTid, Held
<1>3. CASE HNext /\ (KernelStep \/ HookStep \/ DaemonStep)
  BY <1>3, IdKernel, IdHook, IdDaemon DEF HNext
<1> QED BY <1>1, <1>2, <1>3 DEF HNext, TrackerNext

\* They are the tasks' own, once nobody is filling a context.
LEMMA IdOwn == Inv /\ IdInv => CtxIdentity
  BY DEF Inv, FreeInv, IdInv, OwnTgid, OwnTid, CtxIdentity, BeingFilled

\* A context that nobody is filling describes the task that carries it, but
\* for the tid of one an exec renamed with its old number in the hands of a
\* mark pass: for every interleaving of passes, forks, execs and exits, and of
\* the single stores of the passes with the hooks.
THEOREM IdentityCorrect == HSpec => []CtxIdentity
<1>1. HInit => Inv /\ IdInv
  BY InitInv DEF HInit, Init, IdInv, OwnTgid, OwnTid, Held, NoMark, Tids
<1>2. Inv /\ IdInv /\ [HNext]_<<vars, histVars>> => (Inv /\ IdInv)'
  <2>1. [HNext]_<<vars, histVars>> => [TrackerNext]_vars
    BY DEF HNext
  <2> QED BY <2>1, InvStep, IdStep
<1> QED BY <1>1, <1>2, IdOwn, PTL DEF HSpec

-----------------------------------------------------------------------------
\* Every set of numbers has a least one: induction, as the steps below use it.
LEMMA LeastNumber ==
    ASSUME NEW T, T \subseteq Nat, T # {}
    PROVE  \E m \in T : \A n \in T : m <= n
<1> DEFINE R == {ss \in Nat \X Nat : ss[1] < ss[2]}
<1>1. IsWellFoundedOn(R, Nat)
  BY NatLessThanWellFounded DEF OpToRel
<1>2. PICK m \in T : \A n \in T : ~(<<n, m>> \in R)
  <2> HIDE DEF R
  <2> QED BY <1>1, WFMin
<1>3. \A n \in T : ~(n < m)
  BY <1>2
<1> QED BY <1>3

\* u is a walk of N steps in S from t along f.
IsWalk(u, S, f, t, N) ==
    u \in [0 .. N -> S] /\ u[0] = t /\ \A n \in 1 .. N : u[n] = f[u[n - 1]]

\* A walk from t along f exists, whatever its length (the loop of depth_below).
LEMMA WalkExists ==
    ASSUME NEW S, NEW f \in [S -> S], NEW t \in S, NEW N \in Nat
    PROVE  \E u : IsWalk(u, S, f, t, N)
<1> DEFINE Ok(k, u) == u[0] = t /\ \A n \in 1 .. k : u[n] = f[u[n - 1]]
           Bad == {k \in Nat : ~ \E u \in [0 .. k -> S] : Ok(k, u)}
<1>1. SUFFICES ASSUME Bad # {} PROVE FALSE
  <2>1. ASSUME Bad = {} PROVE \E u \in [0 .. N -> S] : Ok(N, u)
    BY <2>1
  <2> QED BY <2>1 DEF IsWalk
<1>2. PICK k \in Bad : \A n \in Bad : k <= n
  BY <1>1, LeastNumber
<1>3. CASE k = 0
  <2> DEFINE u == [n \in 0 .. 0 |-> t]
  <2>1. u \in [0 .. 0 -> S] /\ Ok(0, u)
    OBVIOUS
  <2> HIDE DEF u
  <2> QED BY <2>1, <1>3, <1>2
<1>4. CASE k # 0
  <2>1. k - 1 \in Nat /\ k - 1 \notin Bad
    <3>1. k \in Nat
      OBVIOUS
    <3> HIDE DEF Bad
    <3> QED BY <1>2, <1>4, <3>1
  <2>2. PICK u \in [0 .. k - 1 -> S] : Ok(k - 1, u)
    BY <2>1
  <2> DEFINE v == [n \in 0 .. k |-> IF n = k THEN f[u[k - 1]] ELSE u[n]]
  <2>3. v \in [0 .. k -> S]
    BY <2>1, <2>2
  <2>4. v[0] = t
    BY <2>1, <2>2
  <2>5. ASSUME NEW n \in 1 .. k PROVE v[n] = f[v[n - 1]]
    <3>1. CASE n = k
      BY <1>4, <2>1, <3>1
    <3>2. CASE n # k
      <4>1. n \in 1 .. k - 1 /\ v[n] = u[n] /\ v[n - 1] = u[n - 1]
        BY <3>2, <2>1
      <4> QED BY <4>1, <2>2
    <3> QED BY <3>1, <3>2
  <2> HIDE DEF v
  <2> QED BY <2>3, <2>4, <2>5, <1>2
<1> QED BY <1>3, <1>4

\* The walk of N steps from t along f.
Walk(f, t, N) ==
    LET up[n \in 0 .. N] == IF n = 0 THEN t ELSE f[up[n - 1]]
    IN  up

\* A walk that is defined by its equation takes one step after the other.
LEMMA WalkSteps ==
    ASSUME NEW S, NEW f \in [S -> S], NEW t \in S, NEW N \in Nat
    PROVE  /\ Walk(f, t, N)[0] = t
           /\ \A n \in 0 .. N : Walk(f, t, N)[n] \in S
           /\ \A n \in 1 .. N : Walk(f, t, N)[n] = f[Walk(f, t, N)[n - 1]]
<1> DEFINE Eq(u) == u = [n \in 0 .. N |-> IF n = 0 THEN t ELSE f[u[n - 1]]]
           w == Walk(f, t, N)
<1>1. PICK v \in [0 .. N -> S] : v[0] = t /\ \A n \in 1 .. N : v[n] = f[v[n - 1]]
  <2> HIDE DEF w, Eq
  <2>1. PICK v : IsWalk(v, S, f, t, N)
    BY WalkExists
  <2> QED BY <2>1 DEF IsWalk
<1>2. Eq(v)
  <2> DEFINE g == [n \in 0 .. N |-> IF n = 0 THEN t ELSE f[v[n - 1]]]
  <2>1. g \in [0 .. N -> S]
    <3>1. \A n \in 0 .. N : n # 0 => n - 1 \in 0 .. N
      OBVIOUS
    <3> QED BY <3>1
  <2>2. \A n \in 0 .. N : g[n] = v[n]
    BY <1>1
  <2>3. v = g
    <3> HIDE DEF g
    <3> QED BY <2>1, <2>2
  <2> QED BY <2>3
<1>3. w = CHOOSE u : Eq(u)
  BY DEF Walk
<1>4. Eq(w)
  <2> HIDE DEF Eq, w
  <2> QED BY <1>2, <1>3
<1>5. w[0] = t /\ \A n \in 1 .. N : w[n] = f[w[n - 1]]
  <2> HIDE DEF w
  <2> DEFINE g == [n \in 0 .. N |-> IF n = 0 THEN t ELSE f[w[n - 1]]]
  <2>1. w = g
    BY <1>4
  <2>2. g[0] = t /\ \A n \in 1 .. N : g[n] = f[w[n - 1]]
    OBVIOUS
  <2> HIDE DEF g
  <2> QED BY <2>1, <2>2
<1> HIDE DEF w
<1> DEFINE Bad == {n \in 0 .. N : w[n] \notin S}
<1>6. Bad = {}
  <2> SUFFICES ASSUME Bad # {} PROVE FALSE
    OBVIOUS
  <2>1. PICK m \in Bad : \A n \in Bad : m <= n
    <3>1. Bad \subseteq Nat
      OBVIOUS
    <3> HIDE DEF Bad
    <3> QED BY <3>1, LeastNumber
  <2>2. m # 0 /\ m \in 1 .. N
    BY <1>5, <2>1
  <2>3. m - 1 \in 0 .. N /\ m - 1 \notin Bad
    BY <2>1, <2>2
  <2> QED BY <1>5, <2>1, <2>2, <2>3
<1>7. /\ w[0] = t
      /\ \A n \in 0 .. N : w[n] \in S
      /\ \A n \in 1 .. N : w[n] = f[w[n - 1]]
  BY <1>5, <1>6
<1> QED BY <1>7 DEF w

\* depth_below starts at the task itself and goes from parent to parent.
LEMMA AncestorSteps ==
    ASSUME parent \in [Tids -> Tids], NEW t \in Tids
    PROVE  /\ Ancestor(t)[0] = t
           /\ \A n \in 0 .. MaxDepth : Ancestor(t)[n] \in Tids
           /\ \A n \in 1 .. MaxDepth : Ancestor(t)[n] = parent[Ancestor(t)[n - 1]]
<1>1. Ancestor(t) = Walk(parent, t, MaxDepth)
  BY DEF Ancestor, Walk
<1>2. MaxDepth \in Nat
  BY MaxDepthAssumption
<1> QED BY <1>1, <1>2, WalkSteps

-----------------------------------------------------------------------------
\* A tree command covers the tree, where processes have one thread, pid
\* numbers have not wrapped and nothing fails.
SingleCase == ~Threads /\ ~MayFail /\ ~Wrap

\* The running tasks below r, as the least set with r that is closed under
\* running children.
Closed(st, pa, r, S) ==
    \A u \in Tids : st[u] = "live" /\ (u = r \/ pa[u] \in S) => u \in S
Tree(st, pa, r) == {t \in Tids : \A S \in SUBSET Tids : Closed(st, pa, r, S) => t \in S}
TreeBelow == Tree(status, parent, cmd.root)

\* The process tree while pids are handed out in order: parents are older
\* than their children and run, or are on their way out, as long as they have any.
Ordered ==
    /\ \A t \in Tids : tgid[t] = t /\ status[t] # "execing"
    /\ status[InitTask] = "live" /\ parent[InitTask] = InitTask
    /\ \A t \in Tids : t > last => status[t] = "free"
    /\ \A t \in Tids \ {InitTask} : parent[t] < t
    /\ \A t \in Tids : parent[t] = InitTask \/ status[parent[t]] \in {"live", "exiting"}
    /\ \A c \in Tids : by[c] \in Tids =>
          parent[c] = by[c] /\ by[c] # InitTask /\ status[by[c]] = "live"
    /\ \A t \in Tids \ {InitTask} : Used(t) => start[t] >= FirstTick

\* What the daemon and its clients know of it.
Requested ==
    /\ cursor <= last + 1
    /\ now >= FirstTick
    /\ cmd.op = "tree" => cmd.root # InitTask /\ (cmd.st = 0 \/ cmd.root <= last)
    /\ stage = "mark" <=> stage # "idle" /\ cmd.op = "tree"
    /\ mark # NoMark => /\ cursor <= last
                        /\ mark.task = cursor \/ (mark.task = 0 /\ status[cursor] = "free")

\* The pass is beyond u, or over; it has made storage for u; it has filled in
\* the workload.
Reached(u) == stage = "idle" \/ u < cursor
Has(u) == Reached(u) \/ mark.task = u
Done(u) == Reached(u) \/ (mark.task = u /\ mark.step = "loaded")

\* A set of tasks that hand their contexts on, whoever's they are.
Heirs(X) ==
    /\ X \subseteq Tids \ {InitTask}
    /\ \A p \in X : status[p] = "live" /\ ctx[p] # NoCtx
    /\ \A u \in Tids : status[u] = "live" /\ parent[u] \in X => u \in X
    /\ \A c \in Tids : status[c] = "hooking" /\ by[c] \in X => ctx[c] # NoCtx

\* The command is, or was, served for the process that has the root's number.
Serving == cmd.op = "tree" /\ (stage = "mark" \/ reply = "ok") /\ start[cmd.root] = cmd.st

\* What is covered so far: the root and the tasks below it that the pass is
\* beyond, the forks they have under way included.  A task that carries
\* another workload's context, which stops the pass from asking its parent,
\* is one of a set that hands contexts on by itself.
Covered ==
    /\ status[cmd.root] \in {"newborn", "hooking", "live"} /\ Has(cmd.root)
          => ctx[cmd.root] # NoCtx
    /\ \A u \in TreeBelow : Has(u) => ctx[u] # NoCtx
    /\ \A c \in Tids : status[c] = "hooking" /\ by[c] \in TreeBelow /\ Has(c)
          => ctx[c] # NoCtx
    /\ \E X \in SUBSET Tids :
          Heirs(X) /\ \A p \in TreeBelow : Done(p) /\ ctx[p].wl # cmd.wl => p \in X

TreeInv == Inv /\ Ordered /\ Requested /\ (Serving => Covered)

\* The least closed set is closed.
LEMMA TreeClosed ==
    ASSUME NEW st, NEW pa, NEW r
    PROVE  Closed(st, pa, r, Tree(st, pa, r))
<1> DEFINE T == Tree(st, pa, r)
<1> SUFFICES ASSUME NEW u \in Tids, st[u] = "live", u = r \/ pa[u] \in T,
                    NEW S \in SUBSET Tids, Closed(st, pa, r, S)
             PROVE  u \in S
  BY DEF Closed, Tree
<1>1. T \subseteq S
  BY DEF Tree
<1> QED BY <1>1 DEF Closed

\* It lies within every other.
LEMMA TreeLeast ==
    ASSUME NEW st, NEW pa, NEW r, NEW S \in SUBSET Tids, Closed(st, pa, r, S)
    PROVE  Tree(st, pa, r) \subseteq S
  BY DEF Tree

\* Its members run, and are the root or have their parents in it.
LEMMA TreeBack ==
    ASSUME NEW st, NEW pa, NEW r, NEW u \in Tree(st, pa, r)
    PROVE  u \in Tids /\ st[u] = "live" /\ (u = r \/ pa[u] \in Tree(st, pa, r))
<1> DEFINE T == Tree(st, pa, r)
           S == {v \in T : st[v] = "live" /\ (v = r \/ pa[v] \in T)}
<1>1. T \subseteq Tids
  BY DEF Tree
<1>2. Closed(st, pa, r, T)
  BY TreeClosed
<1>3. Closed(st, pa, r, S)
  <2> HIDE DEF T
  <2> QED BY <1>1, <1>2 DEF Closed
<1>4. T \subseteq S
  <2>1. S \in SUBSET Tids
    BY <1>1
  <2> HIDE DEF S
  <2> QED BY <2>1, <1>3, TreeLeast
<1>5. u \in S
  <2> HIDE DEF S
  <2> QED BY <1>4
<1> QED BY <1>1, <1>5

\* init is not below any agent.
LEMMA InitNotBelow ==
    ASSUME parent[InitTask] = InitTask, cmd.root # InitTask
    PROVE  InitTask \notin TreeBelow
<1> DEFINE S == TreeBelow \ {InitTask}
<1>1. Closed(status, parent, cmd.root, TreeBelow)
  BY TreeClosed DEF TreeBelow
<1>2. Closed(status, parent, cmd.root, S)
  BY <1>1 DEF Closed
<1>3. S \in SUBSET Tids
  BY DEF TreeBelow, Tree
<1>4. TreeBelow \subseteq S
  <2> HIDE DEF S
  <2> QED BY <1>2, <1>3, TreeLeast DEF TreeBelow
<1> QED BY <1>4

\* The user's notion of below: whoever has the root among its ancestors with
\* nobody on its way out in between is in the tree.
LEMMA UnderInTree ==
    ASSUME StateOK, Ordered, NEW t \in Tids, Under(t, cmd.root)
    PROVE  t \in TreeBelow
<1> DEFINE up == Walk(parent, t, NTids)
<1>1. parent \in [Tids -> Tids] /\ NTids \in Nat
  BY NTidsAssumption DEF StateOK
<1>2. /\ up[0] = t
      /\ \A n \in 0 .. NTids : up[n] \in Tids
      /\ \A n \in 1 .. NTids : up[n] = parent[up[n - 1]]
  <2> HIDE DEF up
  <2> QED BY <1>1, WalkSteps DEF up
<1>3. \E n \in 0 .. NTids :
         tgid[up[n]] = cmd.root /\ \A m \in 0 .. n : status[up[m]] = "live"
  BY DEF Under, Walk
<1> HIDE DEF up
<1>4. PICK n \in 0 .. NTids :
         tgid[up[n]] = cmd.root /\ \A m \in 0 .. n : status[up[m]] = "live"
  BY <1>3
<1>5. Closed(status, parent, cmd.root, TreeBelow)
  BY TreeClosed DEF TreeBelow
<1> DEFINE Bad == {k \in 0 .. n : up[n - k] \notin TreeBelow}
<1>6. Bad = {}
  <2> SUFFICES ASSUME Bad # {} PROVE FALSE
    OBVIOUS
  <2>1. Bad \subseteq Nat
    OBVIOUS
  <2>2. PICK k \in Bad : \A j \in Bad : k <= j
    <3> HIDE DEF Bad
    <3> QED BY <2>1, LeastNumber
  <2>3. k \in 0 .. n /\ n - k \in 0 .. n /\ n - k \in 0 .. NTids /\ up[n - k] \notin TreeBelow
    BY <1>1
  <2>4. CASE k = 0
    <3>1. up[n] = cmd.root /\ up[n] \in Tids /\ status[up[n]] = "live"
      BY <1>1, <1>2, <1>4 DEF Ordered
    <3>2. n - k = n
      BY <2>4, <1>1
    <3> QED BY <3>1, <3>2, <2>3, <1>5 DEF Closed
  <2>5. CASE k # 0
    <3>1. k - 1 \in 0 .. n /\ ~(k <= k - 1) /\ n - (k - 1) = (n - k) + 1
      BY <2>3, <2>5, <1>1
    <3>2. up[n - (k - 1)] \in TreeBelow
      BY <2>2, <3>1
    <3>3. (n - k) + 1 \in 1 .. NTids /\ ((n - k) + 1) - 1 = n - k
      BY <2>3, <2>5, <1>1
    <3>4. up[(n - k) + 1] = parent[up[n - k]]
      BY <1>2, <3>3
    <3>5. up[n - k] \in Tids /\ status[up[n - k]] = "live"
      BY <1>2, <1>4, <2>3
    <3> QED BY <3>1, <3>2, <3>4, <3>5, <2>3, <1>5 DEF Closed
  <2> QED BY <2>4, <2>5
<1>7. n \in 0 .. n /\ n - n = 0
  OBVIOUS
<1>8. up[n - n] \in TreeBelow
  BY <1>6, <1>7
<1> QED BY <1>2, <1>7, <1>8

\* The steps that remain: no exec renames a task, no pass fails.
TreeStep ==
    \/ Tick
    \/ \E p, c \in Tids : ForkProcess(p, c)
    \/ \E t \in Tids : ExitNotify(t)
    \/ \E t \in Tids : Reap(t)
    \/ \E c \in Tids : ForkRead(c)
    \/ \E c \in Tids : ForkCopy(c)
    \/ \E t \in Tids : ExitHook(t)
    \/ ClientStep
    \/ StartPass
    \/ \E t \in Tids : Visit(t)
    \/ MarkFill
    \/ MarkTid
    \/ EndMark
    \/ EndUnmark

\* Those are all the steps there are in the single-threaded case.
LEMMA SingleStep ==
    ASSUME SingleCase, Ordered, TrackerNext
    PROVE  TreeStep
<1>1. \A p \in Tids : ~ExecSwap(p) /\ ~ExecHook(p)
  BY DEF Ordered, ExecSwap, ExecHook
<1>2. ~FailPass /\ \A p, c \in Tids : ~ForkThread(p, c)
  BY DEF SingleCase, FailPass, ForkThread
<1> QED BY <1>1, <1>2 DEF TrackerNext, KernelStep, HookStep, DaemonStep, TreeStep

\* Where a process has one thread, a task on its way out leaves its children
\* to init.
LEMMA ChildrenToInit ==
    ASSUME Ordered, StateOK, NEW t \in Tids, ExitNotify(t)
    PROVE  /\ status[t] = "exiting" /\ t # InitTask
           /\ parent' = [s \in Tids |-> IF parent[s] = t THEN InitTask ELSE parent[s]]
           /\ status' = [status EXCEPT ![t] = "zombie"]
           /\ UNCHANGED <<tgid, ctx, start, by, last, got, now, daemonVars, mark>>
<1>1. status[t] = "exiting" /\ t # InitTask /\ tgid[t] = t
  BY DEF ExitNotify, Ordered
<1>2. {s \in Group(t) : status[s] \in {"newborn", "hooking", "live"}} = {}
  BY <1>1 DEF Group, Ordered
<1> QED BY <1>1, <1>2 DEF ExitNotify

\* Forks, exits and reaps keep parents older than their children and alive as
\* long as they have any.
LEMMA OrderedInv ==
    ASSUME SingleCase, Inv, Ordered, Requested, TreeStep
    PROVE  Ordered'
<1> USE DEF Inv
<1> USE InitIsTask
<1>0. Tids \subseteq Nat /\ InitTask = 1 /\ FirstTick = 2
  BY DEF Tids, InitTask, FirstTick
<1>1. CASE Tick
  BY <1>1 DEF Tick, Ordered, taskVars, ctxVars, daemonVars, Used
<1>2. ASSUME NEW p \in Tids, NEW c \in Tids, ForkProcess(p, c)
      PROVE  Ordered'
  <2>1. /\ status[p] = "live" /\ p # InitTask /\ status[c] = "free" /\ c = last + 1 /\ p # c
        /\ status' = [status EXCEPT ![c] = "newborn"]
        /\ tgid' = [tgid EXCEPT ![c] = c] /\ parent' = [parent EXCEPT ![c] = p]
        /\ start' = [start EXCEPT ![c] = now] /\ by' = [by EXCEPT ![c] = p] /\ last' = c
    BY <1>2 DEF ForkProcess, ForkAttach, MayAllocate, Running, SingleCase
  <2>2. p < c
    BY <2>1, <1>0, NTidsAssumption DEF Ordered, StateOK
  <2>3. c # InitTask /\ \A t \in Tids : t > c => t > last
    BY <2>1, <1>0 DEF Ordered, StateOK
  <2>4. /\ \A t \in Tids : tgid'[t] = t /\ status'[t] # "execing"
        /\ status'[InitTask] = "live" /\ parent'[InitTask] = InitTask
        /\ \A t \in Tids : t > last' => status'[t] = "free"
    BY <2>1, <2>3, <1>0 DEF Ordered, StateOK
  <2>5. \A t \in Tids \ {InitTask} : parent'[t] < t
    BY <2>1, <2>2 DEF Ordered, StateOK
  <2>6. \A t \in Tids : parent'[t] = InitTask \/ status'[parent'[t]] \in {"live", "exiting"}
    BY <2>1 DEF Ordered, StateOK
  <2>7. \A d \in Tids : by'[d] \in Tids =>
          parent'[d] = by'[d] /\ by'[d] # InitTask /\ status'[by'[d]] = "live"
    BY <2>1 DEF Ordered, StateOK
  <2>8. \A t \in Tids \ {InitTask} : status'[t] # "free" => start'[t] >= FirstTick
    BY <2>1 DEF Ordered, StateOK, Requested, Used
  <2> QED BY <2>4, <2>5, <2>6, <2>7, <2>8 DEF Ordered, Used
<1>3. ASSUME NEW t \in Tids, ExitNotify(t)
      PROVE  Ordered'
  <2>1. /\ status[t] = "exiting" /\ t # InitTask
        /\ parent' = [s \in Tids |-> IF parent[s] = t THEN InitTask ELSE parent[s]]
        /\ status' = [status EXCEPT ![t] = "zombie"]
        /\ UNCHANGED <<tgid, start, by, last>>
    BY <1>3, ChildrenToInit
  <2>2. /\ \A s \in Tids : tgid'[s] = s /\ status'[s] # "execing"
        /\ status'[InitTask] = "live" /\ parent'[InitTask] = InitTask
        /\ \A s \in Tids : s > last' => status'[s] = "free"
        /\ \A s \in Tids \ {InitTask} : status'[s] # "free" => start'[s] >= FirstTick
    BY <2>1 DEF Ordered, StateOK, Used
  <2>3. \A s \in Tids \ {InitTask} : parent'[s] < s
    BY <2>1, <1>0 DEF Ordered, StateOK
  <2>4. \A s \in Tids : parent'[s] = InitTask \/ status'[parent'[s]] \in {"live", "exiting"}
    BY <2>1 DEF Ordered, StateOK
  <2>5. \A d \in Tids : by'[d] \in Tids =>
          parent'[d] = by'[d] /\ by'[d] # InitTask /\ status'[by'[d]] = "live"
    BY <2>1 DEF Ordered, StateOK
  <2> QED BY <2>2, <2>3, <2>4, <2>5 DEF Ordered, Used
<1>4. ASSUME NEW t \in Tids, Reap(t)
      PROVE  Ordered'
  <2>1. /\ status[t] = "zombie" /\ t # InitTask
        /\ parent' = [parent EXCEPT ![t] = InitTask]
        /\ status' = [status EXCEPT ![t] = "free"]
        /\ UNCHANGED <<tgid, start, by, last>>
    BY <1>4 DEF Reap, Ordered
  <2>2. /\ \A s \in Tids : tgid'[s] = s /\ status'[s] # "execing"
        /\ status'[InitTask] = "live" /\ parent'[InitTask] = InitTask
        /\ \A s \in Tids : s > last' => status'[s] = "free"
        /\ \A s \in Tids \ {InitTask} : status'[s] # "free" => start'[s] >= FirstTick
    BY <2>1 DEF Ordered, StateOK, Used
  <2>3. \A s \in Tids \ {InitTask} : parent'[s] < s
    BY <2>1, <1>0 DEF Ordered, StateOK
  <2>4. \A s \in Tids : parent'[s] = InitTask \/ status'[parent'[s]] \in {"live", "exiting"}
    BY <2>1 DEF Ordered, StateOK
  <2>5. \A d \in Tids : by'[d] \in Tids =>
          parent'[d] = by'[d] /\ by'[d] # InitTask /\ status'[by'[d]] = "live"
    BY <2>1 DEF Ordered, StateOK, ForkInv
  <2> QED BY <2>2, <2>3, <2>4, <2>5 DEF Ordered, Used
<1>5. ASSUME NEW c \in Tids, ForkRead(c)
      PROVE  Ordered'
  BY <1>5 DEF ForkRead, Ordered, StateOK, Used
<1>6. ASSUME NEW c \in Tids, ForkCopy(c)
      PROVE  Ordered'
  BY <1>6 DEF ForkCopy, ForkDone, Ordered, StateOK, Used
<1>7. ASSUME NEW t \in Tids, ExitHook(t)
      PROVE  Ordered'
  BY <1>7 DEF ExitHook, Running, Forking, Ordered, StateOK, Used
<1>8. ASSUME UNCHANGED taskVars
      PROVE  Ordered'
  BY <1>8 DEF taskVars, Ordered, Used
<1>9. ASSUME ClientStep \/ StartPass \/ (\E t \in Tids : Visit(t))
             \/ MarkFill \/ MarkTid \/ EndMark \/ EndUnmark
      PROVE  UNCHANGED taskVars
  BY <1>9 DEF ClientStep, SendTree, SendUntrack, Send, StartPass, Visit, MarkFill, MarkTid,
              EndMark, EndUnmark, Respond, taskVars
<1> QED BY <1>1, <1>2, <1>3, <1>4, <1>5, <1>6, <1>7, <1>8, <1>9 DEF TreeStep

\* The kernel and the hooks leave the daemon's state alone.
LEMMA WorldLeavesDaemon ==
    ASSUME \/ Tick
           \/ \E p, c \in Tids : ForkProcess(p, c)
           \/ \E t \in Tids : ExitNotify(t) \/ Reap(t) \/ ForkRead(t) \/ ForkCopy(t) \/ ExitHook(t)
    PROVE  UNCHANGED daemonVars
  BY DEF Tick, ForkProcess, ForkAttach, ExitNotify, Reap, ForkRead, ForkCopy, ForkDone, ExitHook

\* The daemon and the clients keep their view of it.
LEMMA RequestedInv ==
    ASSUME SingleCase, Inv, Ordered, Requested, TreeStep
    PROVE  Requested'
<1> USE DEF Inv
<1> USE InitIsTask
<1>0. Tids \subseteq Nat /\ InitTask = 1 /\ FirstTick = 2
  BY DEF Tids, InitTask, FirstTick
<1>1. ASSUME \/ Tick
             \/ \E p, c \in Tids : ForkProcess(p, c)
             \/ \E t \in Tids : ExitNotify(t) \/ Reap(t) \/ ForkRead(t) \/ ForkCopy(t) \/ ExitHook(t)
      PROVE  Requested'
  <2>1. UNCHANGED <<cmd, stage, cursor, reply>>
    BY <1>1, WorldLeavesDaemon DEF daemonVars
  <2>2. (last' = last \/ last' = last + 1) /\ (now' = now \/ now' = now + 1)
    BY <1>1 DEF Tick, ForkProcess, ForkAttach, MayAllocate, SingleCase, ExitNotify, Reap, ForkRead,
                ForkCopy, ForkDone, ExitHook, taskVars
  <2>3. last \in Nat /\ now \in Nat /\ cursor \in Nat
    BY <1>0, MaxTickAssumption, NTidsAssumption DEF StateOK
  <2>4. cmd.op = "tree" => cmd.root \in Nat
    <3>1. cmd \in Command => cmd.root \in Tids
      BY DEF Command
    <3>2. cmd \in Command \cup {NoCmd}
      BY DEF StateOK
    <3>3. NoCmd.op # "tree"
      BY DEF NoCmd
    <3> QED BY <1>0, <3>1, <3>2, <3>3
  <2>5. mark' # NoMark => /\ cursor' <= last'
                          /\ mark'.task = cursor' \/ (mark'.task = 0 /\ status'[cursor'] = "free")
    <3>1. ASSUME NEW t \in Tids, Reap(t), mark' # NoMark
          PROVE  cursor <= last' /\ (mark'.task = cursor \/ (mark'.task = 0 /\ status'[cursor] = "free"))
      <4>1. mark # NoMark /\ mark'.task = IF mark.task = t THEN 0 ELSE mark.task
        BY <3>1, ReapMoves
      <4>2. status' = [status EXCEPT ![t] = "free"] /\ last' = last /\ cursor \in Tids
        BY <3>1, <4>1 DEF Reap, StateOK
      <4>3. status'[cursor] = IF cursor = t THEN "free" ELSE status[cursor]
        BY <4>2 DEF StateOK
      <4>4. cursor <= last /\ (mark.task = cursor \/ (mark.task = 0 /\ status[cursor] = "free"))
        BY <4>1 DEF Requested
      <4> QED BY <4>1, <4>2, <4>3, <4>4
    <3>2. ASSUME mark' = mark, mark # NoMark, cursor \in Tids /\ cursor <= last => cursor <= last',
                 cursor \in Tids /\ cursor <= last /\ status[cursor] = "free" => status'[cursor] = "free"
          PROVE  cursor <= last' /\ (mark'.task = cursor \/ (mark'.task = 0 /\ status'[cursor] = "free"))
      <4>1. cursor <= last /\ (mark.task = cursor \/ (mark.task = 0 /\ status[cursor] = "free"))
        BY <3>2 DEF Requested
      <4>2. cursor \in Tids
        BY <3>2 DEF StateOK
      <4> QED BY <3>2, <4>1, <4>2
    <3>3. ASSUME NEW p \in Tids, NEW c \in Tids, ForkProcess(p, c)
          PROVE  /\ mark' = mark
                 /\ cursor \in Tids /\ cursor <= last => cursor <= last'
                 /\ cursor \in Tids /\ cursor <= last /\ status[cursor] = "free" => status'[cursor] = "free"
      <4>1. c = last + 1 /\ last' = c /\ mark' = mark /\ status' = [status EXCEPT ![c] = "newborn"]
        BY <3>3 DEF ForkProcess, ForkAttach, MayAllocate, SingleCase
      <4>2. cursor \in Tids /\ cursor <= last => cursor # c /\ cursor <= last'
        BY <2>3, <4>1
      <4> QED BY <4>1, <4>2 DEF StateOK
    <3>4. ASSUME NEW t \in Tids, Tick \/ ExitNotify(t) \/ ForkRead(t) \/ ForkCopy(t) \/ ExitHook(t)
          PROVE  /\ mark' = mark
                 /\ cursor \in Tids /\ cursor <= last => cursor <= last'
                 /\ cursor \in Tids /\ cursor <= last /\ status[cursor] = "free" => status'[cursor] = "free"
      <4>1. mark' = mark /\ last' = last
        <5>1. CASE ExitNotify(t)
          BY <5>1, ChildrenToInit
        <5>2. CASE ~ExitNotify(t)
          BY <3>4, <5>2 DEF Tick, taskVars, ForkRead, ForkCopy, ForkDone, ExitHook
        <5> QED BY <5>1, <5>2
      <4>2. status' = status \/ (status[t] # "free" /\ \A u \in Tids : u # t => status'[u] = status[u])
        <5>1. CASE ExitNotify(t)
          BY <5>1, ChildrenToInit DEF StateOK
        <5>2. CASE ~ExitNotify(t)
          BY <3>4, <5>2 DEF Tick, taskVars, ForkRead, ForkCopy, ForkDone, ExitHook, Running, StateOK
        <5> QED BY <5>1, <5>2
      <4> QED BY <4>1, <4>2
    <3>5. mark' = mark => (mark' # NoMark => mark # NoMark)
      OBVIOUS
    <3>6. InitTask \in Tids
      OBVIOUS
    <3> QED BY <1>1, <2>1, <3>1, <3>2, <3>3, <3>4, <3>5, <3>6
  <2> QED BY <1>0, <2>1, <2>2, <2>3, <2>4, <2>5 DEF Requested
<1>2. CASE ClientStep
  <2>1. UNCHANGED <<taskVars, now, cursor, stage, mark>> /\ stage = "idle"
    BY <1>2 DEF ClientStep, SendTree, SendUntrack, Send, MaySend
  <2>2. cmd'.op = "tree" => cmd'.root # InitTask /\ (cmd'.st = 0 \/ cmd'.root <= last)
    <3>1. ASSUME NEW root \in Tids \ {InitTask}, NEW w \in Workloads, SendTree(root, w)
          PROVE  cmd'.root # InitTask /\ (cmd'.st = 0 \/ cmd'.root <= last)
      <4>1. cmd'.root = root /\ cmd'.st = IF Used(root) THEN start[root] ELSE 0
        BY <3>1 DEF SendTree, Send
      <4>2. Used(root) => root <= last
        BY <1>0 DEF Used, Ordered, StateOK
      <4> QED BY <4>1, <4>2
    <3>2. ASSUME NEW w \in Workloads, SendUntrack(w)
          PROVE  cmd'.op # "tree"
      BY <3>2 DEF SendUntrack, Send
    <3> QED BY <1>2, <3>1, <3>2 DEF ClientStep
  <2> QED BY <2>1, <2>2 DEF Requested, taskVars
<1>3. CASE StartPass
  <2>1. last \in Nat /\ last >= 1
    BY <1>0 DEF StateOK, Tids
  <2>2. mark' = NoMark
    BY <1>3 DEF StartPass, StateOK
  <2> QED BY <1>3, <2>1, <2>2 DEF StartPass, BeginPass, Requested, taskVars
<1>4. ASSUME NEW t \in Tids, Visit(t)
      PROVE  Requested'
  <2>1. t <= last /\ t \in Nat /\ last \in Nat
    BY <1>4, <1>0 DEF Visit, NextTask, Used, Ordered, StateOK
  <2>2. UNCHANGED <<taskVars, now, cmd, stage, reply>> /\ mark = NoMark
    BY <1>4, Visits
  <2>3. \/ cursor' = t /\ mark' = [step |-> "made", task |-> t, tid |-> 0]
        \/ cursor' = t + 1 /\ mark' = NoMark
    BY <1>4, <2>2, Visits
  <2>4. cursor' <= last + 1 /\ (mark' # NoMark => cursor' <= last /\ mark'.task = cursor')
    BY <2>1, <2>3
  <2> QED BY <2>2, <2>4 DEF Requested, taskVars
<1>5. CASE EndMark \/ EndUnmark
  <2>1. last \in Nat /\ last >= 1
    BY <1>0 DEF StateOK, Tids
  <2>2. mark' = NoMark
    BY <1>5 DEF EndMark, EndUnmark, PassOver, Respond
  <2> QED BY <1>5, <2>1, <2>2 DEF EndMark, EndUnmark, BeginPass, Respond, Requested, taskVars
<1>6. CASE MarkFill
  <2>1. /\ mark # NoMark /\ mark'.task = mark.task
        /\ UNCHANGED <<taskVars, now, cmd, stage, cursor, removed, reply>>
    <3>1. mark.step = "made" /\ NoMark.step = "none"
      BY <1>6 DEF MarkFill, NoMark
    <3> QED BY <1>6, <3>1, Fills
  <2> QED BY <2>1 DEF Requested, taskVars
<1>7. CASE MarkTid
  <2>1. /\ mark # NoMark /\ mark' = NoMark /\ cursor' = cursor + 1 /\ cursor \in Tids
        /\ UNCHANGED <<taskVars, now, cmd, stage, removed, reply>>
    <3>1. mark.step = "loaded" /\ NoMark.step = "none"
      BY <1>7 DEF MarkTid, NoMark
    <3> QED BY <1>7, <3>1, Stores
  <2>2. cursor' <= last' + 1
    <3>1. last \in Nat /\ cursor \in Nat /\ cursor <= last /\ last' = last
      BY <1>0, <2>1 DEF StateOK, Requested, taskVars
    <3> QED BY <2>1, <3>1
  <2> QED BY <2>1, <2>2 DEF Requested, taskVars
<1> QED BY <1>1, <1>2, <1>3, <1>4, <1>5, <1>6, <1>7 DEF TreeStep

\* What the proofs below need of the state.
LEMMA TreeFacts ==
    ASSUME TreeInv
    PROVE  /\ Tids \subseteq Nat /\ InitTask \in Tids
           /\ TreeBelow \subseteq Tids
           /\ Closed(status, parent, cmd.root, TreeBelow)
           /\ \A u \in TreeBelow : status[u] = "live" /\ (u = cmd.root \/ parent[u] \in TreeBelow)
           /\ cmd.op = "tree" => InitTask \notin TreeBelow /\ cmd.root \in Tids
           /\ \A u \in TreeBelow : u # cmd.root /\ cmd.op = "tree" /\ Has(u) => Reached(parent[u])
           /\ \A u \in Tids : mark.task = u => u = cursor /\ mark # NoMark
<1>1. Tids \subseteq Nat /\ InitTask \in Tids
  BY InitIsTask DEF Tids
<1>2. TreeBelow \subseteq Tids /\ Closed(status, parent, cmd.root, TreeBelow)
  BY TreeClosed DEF TreeBelow, Tree
<1>3. \A u \in TreeBelow : status[u] = "live" /\ (u = cmd.root \/ parent[u] \in TreeBelow)
  BY TreeBack DEF TreeBelow
<1>4. cmd.op = "tree" => InitTask \notin TreeBelow
  BY InitNotBelow DEF TreeInv, Ordered, Requested
<1>5. cmd.op = "tree" => cmd.root \in Tids
  <2>1. cmd \in Command => cmd.root \in Tids
    BY DEF Command
  <2>2. cmd \in Command \cup {NoCmd}
    BY DEF TreeInv, Inv, StateOK
  <2>3. NoCmd.op # "tree"
    BY DEF NoCmd
  <2> QED BY <2>1, <2>2, <2>3
<1>7. ASSUME NEW u \in Tids, mark.task = u
      PROVE  u = cursor /\ mark # NoMark
  <2>1. mark # NoMark /\ u # 0
    BY <1>7 DEF NoMark, Tids
  <2> QED BY <1>7, <2>1 DEF TreeInv, Requested
<1>6. ASSUME NEW u \in TreeBelow, u # cmd.root, cmd.op = "tree", Has(u)
      PROVE  Reached(parent[u])
  <2>1. u \in Nat /\ parent[u] \in Nat /\ parent[u] < u
    <3>1. u \in Tids /\ u # InitTask
      BY <1>2, <1>4, <1>6
    <3>2. parent[u] < u
      BY <3>1 DEF TreeInv, Ordered
    <3>3. parent[u] \in Tids
      BY <3>1 DEF TreeInv, Inv, StateOK
    <3> QED BY <1>1, <3>1, <3>2, <3>3
  <2>2. cursor \in Nat
    BY NTidsAssumption DEF TreeInv, Inv, StateOK
  <2>3. u < cursor \/ u = cursor \/ stage = "idle"
    BY <1>2, <1>6, <1>7 DEF Has, Reached
  <2> QED BY <2>1, <2>2, <2>3 DEF Reached
<1> QED BY <1>1, <1>2, <1>3, <1>4, <1>5, <1>6, <1>7

\* The tree after a step lies within a set that is closed after it.
LEMMA TreeShrinks ==
    ASSUME NEW S \in SUBSET Tids, Closed(status', parent', cmd'.root, S)
    PROVE  TreeBelow' \subseteq S
<1> PICK st : st = status'
  OBVIOUS
<1> PICK pa : pa = parent'
  OBVIOUS
<1> PICK r : r = cmd'.root
  OBVIOUS
<1>1. Tree(st, pa, r) \subseteq S
  BY TreeLeast
<1>2. TreeBelow' = Tree(st, pa, r)
  BY DEF TreeBelow, Tree, Closed
<1> QED BY <1>1, <1>2

\* Time passing changes nothing that is covered.
LEMMA CoveredTick == TreeInv /\ Tick /\ Serving' => Covered'
<1> SUFFICES ASSUME TreeInv, Tick, Serving' PROVE Covered'
  OBVIOUS
<1>1. UNCHANGED <<status, parent, cmd, ctx, got, by, stage, cursor, reply, start, mark>>
  BY DEF Tick, taskVars, ctxVars, daemonVars
<1>2. Covered
  BY <1>1 DEF TreeInv, Serving
<1>3. TreeBelow' = TreeBelow
  BY <1>1 DEF TreeBelow, Tree, Closed
<1> QED BY <1>1, <1>2, <1>3 DEF Covered, Heirs, Reached, Has, Done

\* A newborn is no member of the tree, and its number is new: it is not the
\* root the client looked up.
LEMMA CoveredFork ==
    ASSUME SingleCase, TreeInv, NEW p \in Tids, NEW c \in Tids, ForkProcess(p, c), Serving'
    PROVE  Covered'
<1>1. /\ status[p] = "live" /\ p # InitTask /\ status[c] = "free" /\ c = last + 1
      /\ status' = [status EXCEPT ![c] = "newborn"] /\ parent' = [parent EXCEPT ![c] = p]
      /\ start' = [start EXCEPT ![c] = now] /\ by' = [by EXCEPT ![c] = p]
      /\ UNCHANGED <<ctx, got, cmd, stage, cursor, reply, mark>>
  BY DEF ForkProcess, ForkAttach, MayAllocate, Running, SingleCase, ctxVars, daemonVars
<1> USE DEF TreeInv, Inv
<1>2. c # cmd.root
  <2>1. CASE cmd.st = 0
    BY <1>1, <2>1 DEF Serving, StateOK, Requested, FirstTick
  <2>2. CASE cmd.root <= last
    BY <1>1, <2>2, TreeFacts DEF StateOK
  <2> QED BY <2>1, <2>2, <1>1 DEF Requested, Serving
<1>3. Covered
  BY <1>1, <1>2, TreeFacts DEF Serving, StateOK
<1>4. TreeBelow' \subseteq TreeBelow
  <2>1. Closed(status', parent', cmd'.root, TreeBelow)
    BY <1>1, TreeFacts DEF Closed, StateOK
  <2> QED BY <2>1, TreeShrinks, TreeFacts
<1>5. PICK X \in SUBSET Tids :
         Heirs(X) /\ \A q \in TreeBelow : Done(q) /\ ctx[q].wl # cmd.wl => q \in X
  BY <1>3 DEF Covered
<1>6. Heirs(X)'
  BY <1>1, <1>5 DEF Heirs, StateOK
<1>7. \A q \in TreeBelow' : Done(q)' /\ ctx'[q].wl # cmd'.wl => q \in X
  BY <1>1, <1>4, <1>5 DEF Reached, Has, Done
<1>8. /\ status'[cmd'.root] \in {"newborn", "hooking", "live"} /\ Has(cmd.root)'
            => ctx'[cmd'.root] # NoCtx
      /\ \A u \in TreeBelow' : Has(u)' => ctx'[u] # NoCtx
      /\ \A d \in Tids : status'[d] = "hooking" /\ by'[d] \in TreeBelow' /\ Has(d)'
            => ctx'[d] # NoCtx
  BY <1>1, <1>2, <1>3, <1>4, TreeFacts DEF Covered, Reached, Has, Done, StateOK, Serving
<1> QED BY <1>1, <1>6, <1>7, <1>8 DEF Covered, Reached, Has, Done

\* A hook below the root reads a context, for the pass that is beyond the
\* child has been beyond its older parent.
LEMMA CoveredRead ==
    ASSUME SingleCase, TreeInv, NEW c \in Tids, ForkRead(c), Serving'
    PROVE  Covered'
<1> USE DEF TreeInv, Inv
<1>1. /\ status[c] = "newborn" /\ status' = [status EXCEPT ![c] = "hooking"]
      /\ by[c] \in Tids
      /\ ctx[by[c]] # NoCtx => ctx'[c] # NoCtx
      /\ ctx[c] # NoCtx => ctx'[c] # NoCtx
      /\ \A u \in Tids : u # c => ctx'[u] = ctx[u]
      /\ UNCHANGED <<parent, by, start, cmd, stage, cursor, reply, mark>>
  <2>1. /\ status[c] = "newborn" /\ status' = [status EXCEPT ![c] = "hooking"] /\ by[c] \in Tids
        /\ ctx' = ctx \/ (ctx' = [ctx EXCEPT ![c] = ZeroCtx] /\ ctx[c] = NoCtx)
        /\ UNCHANGED <<parent, by, start, mark, daemonVars>>
    BY ForkReads
  <2>2. ctx' = IF ctx[by[c]] # NoCtx /\ ctx[c] = NoCtx THEN [ctx EXCEPT ![c] = ZeroCtx] ELSE ctx
    BY DEF ForkRead, SingleCase
  <2>3. ctx[by[c]] # NoCtx => ctx'[c] # NoCtx
    BY <2>2, FreshContext DEF StateOK
  <2>4. /\ ctx[c] # NoCtx => ctx'[c] # NoCtx
        /\ \A u \in Tids : u # c => ctx'[u] = ctx[u]
    BY <2>1 DEF StateOK
  <2> QED BY <2>1, <2>3, <2>4 DEF daemonVars
<1>2. Covered
  BY <1>1 DEF Serving
<1>3. TreeBelow' \subseteq TreeBelow
  <2>1. Closed(status', parent', cmd'.root, TreeBelow)
    BY <1>1, TreeFacts DEF Closed, StateOK
  <2> QED BY <2>1, TreeShrinks, TreeFacts
<1>4. PICK X \in SUBSET Tids :
         Heirs(X) /\ \A q \in TreeBelow : Done(q) /\ ctx[q].wl # cmd.wl => q \in X
  BY <1>2 DEF Covered
<1>5. \A u \in Tids : ctx[u] # NoCtx => ctx'[u] # NoCtx
  BY <1>1
<1>6. c \notin TreeBelow
  BY <1>1, TreeFacts
<1>7. Heirs(X)'
  <2>1. \A p \in X : status'[p] = "live" /\ ctx'[p] # NoCtx
    BY <1>1, <1>4, <1>5 DEF Heirs, StateOK
  <2>2. \A u \in Tids : status'[u] = "live" /\ parent'[u] \in X => u \in X
    BY <1>1, <1>4 DEF Heirs, StateOK
  <2>3. \A d \in Tids : status'[d] = "hooking" /\ by'[d] \in X => ctx'[d] # NoCtx
    BY <1>1, <1>4, <1>5 DEF Heirs, StateOK
  <2> QED BY <1>4, <2>1, <2>2, <2>3 DEF Heirs
<1>8. \A q \in TreeBelow' : Done(q)' /\ ctx'[q].wl # cmd'.wl => q \in X
  BY <1>1, <1>3, <1>4, <1>6, TreeFacts DEF Reached, Has, Done
<1>9. ASSUME by[c] \in TreeBelow, Has(c)
      PROVE  ctx'[c] # NoCtx
  <2>1. by[c] \in Tids /\ parent[c] = by[c] /\ c # InitTask
    BY <1>9, <1>1, TreeFacts DEF Ordered
  <2>2. by[c] < c
    BY <2>1 DEF Ordered
  <2>3. by[c] \in Nat /\ c \in Nat /\ cursor \in Nat
    BY <2>1, TreeFacts, NTidsAssumption DEF StateOK
  <2>4. c < cursor \/ c = cursor \/ stage = "idle"
    BY <1>9, TreeFacts DEF Has, Reached
  <2>5. Has(by[c])
    BY <2>2, <2>3, <2>4 DEF Has, Reached
  <2> QED BY <1>1, <1>9, <2>5, <1>2 DEF Covered
<1>10. status'[cmd'.root] \in {"newborn", "hooking", "live"} /\ Has(cmd.root)'
            => ctx'[cmd'.root] # NoCtx
  BY <1>1, <1>2, <1>5, TreeFacts DEF Covered, Reached, Has, StateOK, Serving
<1>11. \A u \in TreeBelow' : Has(u)' => ctx'[u] # NoCtx
  BY <1>1, <1>2, <1>3, <1>5, TreeFacts DEF Covered, Reached, Has
<1>12. \A d \in Tids : status'[d] = "hooking" /\ by'[d] \in TreeBelow' /\ Has(d)'
            => ctx'[d] # NoCtx
  BY <1>1, <1>2, <1>3, <1>5, <1>9 DEF Covered, Reached, Has, StateOK
<1> QED BY <1>1, <1>7, <1>8, <1>10, <1>11, <1>12 DEF Covered, Reached, Has, Done

\* The copy covers the child, which becomes an heir with its context.
LEMMA CoveredCopy ==
    ASSUME SingleCase, TreeInv, NEW c \in Tids, ForkCopy(c), Serving'
    PROVE  Covered'
<1>1. /\ status[c] = "hooking" /\ status' = [status EXCEPT ![c] = "live"]
      /\ by' = [by EXCEPT ![c] = 0]
      /\ UNCHANGED <<parent, start, cmd, stage, cursor, reply, mark>>
  BY DEF ForkCopy, ForkDone, daemonVars
<1> USE DEF TreeInv, Inv
<1>2. Covered
  BY <1>1 DEF Serving
<1>3. by[c] \in Tids /\ parent[c] = by[c] /\ by[c] # InitTask /\ c # InitTask /\ by[c] # c
  BY <1>1, TreeFacts DEF ForkInv, Ordered
<1>4. /\ \A u \in Tids : u # c => ctx'[u] = ctx[u]
      /\ ctx[c] # NoCtx <=> ctx'[c] # NoCtx
      /\ ctx' \in [Tids -> TaskCtx \cup {NoCtx}]
  BY ForkCopies
<1>5. TreeBelow' \subseteq TreeBelow \cup {c}
  <2>1. Closed(status', parent', cmd'.root, TreeBelow \cup {c})
    BY <1>1, TreeFacts DEF Closed, StateOK, Ordered
  <2>2. TreeBelow \cup {c} \in SUBSET Tids
    BY TreeFacts
  <2> QED BY <2>1, <2>2, TreeShrinks
<1>6. c \in TreeBelow' => c = cmd.root \/ by[c] \in TreeBelow
  <2>1. ASSUME c \in TreeBelow' PROVE c = cmd.root \/ by[c] \in TreeBelow'
    <3> PICK st : st = status'
      OBVIOUS
    <3> PICK pa : pa = parent'
      OBVIOUS
    <3> PICK r : r = cmd'.root
      OBVIOUS
    <3>1. TreeBelow' = Tree(st, pa, r)
      BY DEF TreeBelow, Tree, Closed
    <3>2. c = r \/ pa[c] \in Tree(st, pa, r)
      BY <2>1, <3>1, TreeBack
    <3> QED BY <1>1, <1>3, <3>1, <3>2
  <2> QED BY <2>1, <1>5, <1>3
<1>7. c \in TreeBelow' /\ Has(c) => ctx'[c] # NoCtx
  <2>1. CASE c = cmd.root
    BY <1>1, <1>2, <1>4, <2>1 DEF Covered
  <2>2. CASE by[c] \in TreeBelow
    BY <1>1, <1>2, <1>4, <2>2 DEF Covered
  <2> QED BY <1>6, <2>1, <2>2
<1>8. PICK X \in SUBSET Tids :
         Heirs(X) /\ \A q \in TreeBelow : Done(q) /\ ctx[q].wl # cmd.wl => q \in X
  BY <1>2 DEF Covered
<1> PICK Y : Y = IF ctx'[c] = NoCtx THEN X ELSE X \cup {c}
  OBVIOUS
<1>9. Heirs(Y)'
  <2>1. c \notin X /\ (ctx'[c] = NoCtx => by[c] \notin X)
    BY <1>1, <1>4, <1>8 DEF Heirs
  <2>2. /\ Y \subseteq Tids \ {InitTask}
        /\ \A q \in Y : status'[q] = "live" /\ ctx'[q] # NoCtx
    BY <1>1, <1>3, <1>4, <1>8, <2>1 DEF Heirs, StateOK
  <2>3. \A u \in Tids : status'[u] = "live" /\ parent'[u] \in Y => u \in Y
    BY <1>1, <1>3, <1>8, <2>1 DEF Heirs, StateOK, Ordered
  <2>4. \A d \in Tids : status'[d] = "hooking" /\ by'[d] \in Y => ctx'[d] # NoCtx
    BY <1>1, <1>3, <1>4, <1>8, <2>1 DEF Heirs, StateOK, Ordered
  <2> QED BY <2>2, <2>3, <2>4 DEF Heirs
<1>10. \A q \in TreeBelow' : Done(q)' /\ ctx'[q].wl # cmd'.wl => q \in Y
  BY <1>1, <1>4, <1>5, <1>7, <1>8, TreeFacts DEF Reached, Has, Done
<1>11. Y \in SUBSET Tids
  OBVIOUS
<1>12. /\ status'[cmd'.root] \in {"newborn", "hooking", "live"} /\ Has(cmd.root)'
             => ctx'[cmd'.root] # NoCtx
       /\ \A u \in TreeBelow' : Has(u)' => ctx'[u] # NoCtx
  BY <1>1, <1>2, <1>4, <1>5, <1>7, TreeFacts DEF Covered, Reached, Has, Done, StateOK, Serving
<1>13. \A d \in Tids : status'[d] = "hooking" /\ by'[d] \in TreeBelow' /\ Has(d)'
            => ctx'[d] # NoCtx
  <2> SUFFICES ASSUME NEW d \in Tids, status'[d] = "hooking", by'[d] \in TreeBelow', Has(d)'
               PROVE  ctx'[d] # NoCtx
    OBVIOUS
  <2>1. d # c /\ status[d] = "hooking" /\ by'[d] = by[d] /\ by[d] \in Tids
    BY <1>1 DEF StateOK, ForkInv
  <2>2. by[d] # c
    BY <1>1, <2>1 DEF Ordered
  <2>3. by[d] \in TreeBelow /\ Has(d)
    BY <1>1, <1>5, <2>1, <2>2 DEF Reached, Has, Done
  <2> QED BY <1>1, <1>2, <1>4, <2>1, <2>3 DEF Covered, StateOK
<1> QED BY <1>1, <1>9, <1>10, <1>11, <1>12, <1>13 DEF Covered, Reached, Has, Done

\* An exit takes the task out of the tree, and out of the heirs.
LEMMA CoveredExit ==
    ASSUME TreeInv, NEW t \in Tids, ExitHook(t), Serving'
    PROVE  Covered'
<1>1. /\ status[t] = "live" /\ status' = [status EXCEPT ![t] = "exiting"]
      /\ ctx' = [ctx EXCEPT ![t] = NoCtx]
      /\ UNCHANGED <<parent, by, got, start, cmd, stage, cursor, reply, mark>>
  BY DEF ExitHook, Running, daemonVars
<1> USE DEF TreeInv, Inv
<1>2. Covered
  BY <1>1 DEF Serving
<1>3. TreeBelow' \subseteq TreeBelow \ {t}
  <2>1. Closed(status', parent', cmd'.root, TreeBelow \ {t})
    BY <1>1, TreeFacts DEF Closed, StateOK
  <2>2. TreeBelow \ {t} \in SUBSET Tids
    BY TreeFacts
  <2> QED BY <2>1, <2>2, TreeShrinks
<1>4. PICK X \in SUBSET Tids :
         Heirs(X) /\ \A q \in TreeBelow : Done(q) /\ ctx[q].wl # cmd.wl => q \in X
  BY <1>2 DEF Covered
<1>5. Heirs(X \ {t})'
  BY <1>1, <1>4 DEF Heirs, StateOK
<1>6. \A q \in TreeBelow' : Done(q)' /\ ctx'[q].wl # cmd'.wl => q \in X \ {t}
  BY <1>1, <1>3, <1>4, TreeFacts DEF Reached, Has, Done, StateOK
<1>7. X \ {t} \in SUBSET Tids
  OBVIOUS
<1>8. /\ status'[cmd'.root] \in {"newborn", "hooking", "live"} /\ Has(cmd.root)'
            => ctx'[cmd'.root] # NoCtx
      /\ \A u \in TreeBelow' : Has(u)' => ctx'[u] # NoCtx
      /\ \A d \in Tids : status'[d] = "hooking" /\ by'[d] \in TreeBelow' /\ Has(d)'
            => ctx'[d] # NoCtx
  BY <1>1, <1>2, <1>3, TreeFacts DEF Covered, Reached, Has, Done, StateOK, Serving
<1> QED BY <1>1, <1>5, <1>6, <1>7, <1>8 DEF Covered, Reached, Has, Done

\* Orphans go to init, which is in no tree.
LEMMA CoveredNotify ==
    ASSUME TreeInv, NEW t \in Tids, ExitNotify(t), Serving'
    PROVE  Covered'
<1> USE DEF TreeInv, Inv
<1>1. /\ status[t] = "exiting" /\ t # InitTask
      /\ parent' = [s \in Tids |-> IF parent[s] = t THEN InitTask ELSE parent[s]]
      /\ status' = [status EXCEPT ![t] = "zombie"]
      /\ UNCHANGED <<ctx, start, by, got, cmd, stage, cursor, reply, mark>>
  BY ChildrenToInit DEF daemonVars
<1>2. Covered
  BY <1>1 DEF Serving
<1>3. TreeBelow' \subseteq TreeBelow
  <2>1. Closed(status', parent', cmd'.root, TreeBelow)
    BY <1>1, TreeFacts DEF Closed, StateOK, Serving
  <2> QED BY <2>1, TreeShrinks, TreeFacts
<1>4. PICK X \in SUBSET Tids :
         Heirs(X) /\ \A q \in TreeBelow : Done(q) /\ ctx[q].wl # cmd.wl => q \in X
  BY <1>2 DEF Covered
<1>5. Heirs(X)'
  BY <1>1, <1>4 DEF Heirs, StateOK
<1>6. \A q \in TreeBelow' : Done(q)' /\ ctx'[q].wl # cmd'.wl => q \in X
  BY <1>1, <1>3, <1>4 DEF Reached, Has, Done
<1>7. /\ status'[cmd'.root] \in {"newborn", "hooking", "live"} /\ Has(cmd.root)'
            => ctx'[cmd'.root] # NoCtx
      /\ \A u \in TreeBelow' : Has(u)' => ctx'[u] # NoCtx
      /\ \A d \in Tids : status'[d] = "hooking" /\ by'[d] \in TreeBelow' /\ Has(d)'
            => ctx'[d] # NoCtx
  BY <1>1, <1>2, <1>3, TreeFacts DEF Covered, Reached, Has, Done, StateOK, Serving
<1> QED BY <1>1, <1>5, <1>6, <1>7 DEF Covered, Reached, Has, Done

\* A zombie is in no tree either.
LEMMA CoveredReap ==
    ASSUME TreeInv, NEW t \in Tids, Reap(t), Serving'
    PROVE  Covered'
<1> USE DEF TreeInv, Inv
<1>1. /\ status[t] = "zombie" /\ t # InitTask
      /\ parent' = [parent EXCEPT ![t] = InitTask]
      /\ status' = [status EXCEPT ![t] = "free"]
      /\ ctx' = [ctx EXCEPT ![t] = NoCtx]
      /\ UNCHANGED <<start, by, got, cmd, stage, cursor, reply>>
      /\ mark'.step = mark.step /\ mark'.task = IF mark.task = t THEN 0 ELSE mark.task
  BY ReapMoves DEF Reap, daemonVars, Ordered
<1>2. Covered
  BY <1>1 DEF Serving
<1>3. TreeBelow' \subseteq TreeBelow
  <2>1. Closed(status', parent', cmd'.root, TreeBelow)
    BY <1>1, TreeFacts DEF Closed, StateOK, Serving
  <2> QED BY <2>1, TreeShrinks, TreeFacts
<1>4. PICK X \in SUBSET Tids :
         Heirs(X) /\ \A q \in TreeBelow : Done(q) /\ ctx[q].wl # cmd.wl => q \in X
  BY <1>2 DEF Covered
<1>5. Heirs(X)'
  BY <1>1, <1>4 DEF Heirs, StateOK
<1>6. \A q \in TreeBelow' : Done(q)' /\ ctx'[q].wl # cmd'.wl => q \in X
  BY <1>1, <1>3, <1>4, TreeFacts DEF Reached, Has, Done, StateOK
<1>7. /\ status'[cmd'.root] \in {"newborn", "hooking", "live"} /\ Has(cmd.root)'
            => ctx'[cmd'.root] # NoCtx
      /\ \A u \in TreeBelow' : Has(u)' => ctx'[u] # NoCtx
      /\ \A d \in Tids : status'[d] = "hooking" /\ by'[d] \in TreeBelow' /\ Has(d)'
            => ctx'[d] # NoCtx
  BY <1>1, <1>2, <1>3, TreeFacts DEF Covered, Reached, Has, Done, StateOK, Serving
<1> QED BY <1>1, <1>5, <1>6, <1>7 DEF Covered, Reached, Has, Done

\* The pass goes to the next task: it is then at or beyond that one, and
\* beyond the tasks it was beyond before.
LEMMA Advances ==
    ASSUME TreeInv, stage = "mark", NEW t \in Tids, NextTask(t), mark = NoMark, stage' = stage,
           \/ cursor' = t /\ mark'.task = t /\ mark'.step = "made"
           \/ cursor' = t + 1 /\ mark' = NoMark
    PROVE  /\ Used(t)
           /\ \A u \in Tids : Used(u) /\ Has(u)' => u = t \/ (Reached(u) /\ Has(u))
           /\ \A u \in Tids : Done(u)' => Has(u)'
           /\ cursor' = t => ~Done(t)'
<1>1. Tids \subseteq Nat /\ cursor \in Nat /\ 0 \notin Tids /\ NoMark.task = 0 /\ NoMark.step = "none"
  BY NTidsAssumption DEF TreeInv, Inv, StateOK, Tids, NoMark
<1>2. Used(t) /\ t >= cursor /\ \A s \in Tids : s >= cursor /\ Used(s) => t <= s
  BY DEF NextTask
<1>3. ASSUME NEW u \in Tids, Used(u), Has(u)', u # t
      PROVE  Reached(u)
  <2>1. mark'.task # u
    BY <1>1, <1>3
  <2>2. u < cursor'
    BY <1>3, <2>1 DEF Has, Reached
  <2>3. u \in Nat /\ t \in Nat
    BY <1>1
  <2>4. u < t
    BY <1>3, <2>2, <2>3
  <2>5. ~(u >= cursor)
    BY <1>2, <1>3, <2>3, <2>4
  <2> QED BY <1>1, <2>3, <2>5 DEF Reached
<1>4. ASSUME cursor' = t PROVE ~Done(t)'
  <2>1. t \in Nat /\ ~(t < t) /\ ~(t = t + 1)
    BY <1>1
  <2>2. mark'.step # "loaded"
    BY <1>4, <2>1
  <2> QED BY <1>4, <2>1, <2>2 DEF Done, Reached
<1> QED BY <1>2, <1>3, <1>4 DEF Has, Done

\* At the root itself the walk stops at once.
LEMMA RootFound ==
    ASSUME TreeInv, Serving, NEW t \in Tids, t = cmd.root
    PROVE  DepthBelow(t)
<1>1. Ancestor(t)[0] = t
  BY AncestorSteps DEF TreeInv, Inv, StateOK
<1>2. IsRoot(t)
  <2>1. tgid[t] = t
    BY DEF TreeInv, Ordered
  <2>2. start[t] = cmd.st /\ start[t] \in Int
    BY MaxTickAssumption DEF Serving, TreeInv, Inv, StateOK
  <2> QED BY <2>1, <2>2 DEF IsRoot
<1>3. 0 \in 0 .. MaxDepth - 1
  BY MaxDepthAssumption
<1> QED BY <1>1, <1>2, <1>3 DEF DepthBelow

\* The pass makes storage for the task, or finds a foreign context on its
\* parent, which is an heir, so the task has some already.
LEMMA CoveredVisit ==
    ASSUME SingleCase, TreeInv, NEW t \in Tids, Visit(t), Serving'
    PROVE  Covered'
<1> USE DEF TreeInv, Inv
<1>1. /\ stage # "idle" /\ NextTask(t) /\ mark = NoMark /\ \A u \in Tids : u # t => ctx'[u] = ctx[u]
      /\ UNCHANGED <<status, parent, start, by, got, cmd, stage, reply, tgid>>
  BY Visits DEF taskVars
<1>2. stage = "mark" /\ Serving /\ Covered /\ cmd.op = "tree" /\ Tids \subseteq Nat
  BY <1>1 DEF Serving, Requested, Tids
<1>3. \/ /\ ResolveAncestor(t) /\ ctx'[t] # NoCtx /\ (ctx[t] # NoCtx => ctx'[t] = ctx[t])
         /\ cursor' = t /\ mark'.task = t /\ mark'.step = "made"
      \/ /\ ~ResolveAncestor(t) /\ ctx' = ctx /\ cursor' = t + 1 /\ mark' = NoMark
  <2>1. \/ /\ stage = "mark" /\ ResolveAncestor(t)
           /\ ctx'[t] = IF ctx[t] = NoCtx THEN ZeroCtx ELSE ctx[t]
           /\ mark' = [step |-> "made", task |-> t, tid |-> 0] /\ cursor' = t
        \/ /\ stage = "mark" /\ (~ResolveAncestor(t) \/ (MayFail /\ ctx[t] = NoCtx))
           /\ ctx' = ctx /\ mark' = mark /\ cursor' = t + 1
    BY <1>2, Visits
  <2> QED BY <1>1, <2>1, FreshContext DEF SingleCase
<1>4. /\ Used(t)
      /\ \A u \in Tids : Used(u) /\ Has(u)' => u = t \/ (Reached(u) /\ Has(u))
      /\ \A u \in Tids : Done(u)' => Has(u)'
      /\ cursor' = t => ~Done(t)'
  BY <1>1, <1>2, <1>3, Advances
<1>5. TreeBelow' = TreeBelow
  BY <1>1 DEF TreeBelow, Tree, Closed
<1>6. PICK X \in SUBSET Tids :
         Heirs(X) /\ \A q \in TreeBelow : Done(q) /\ ctx[q].wl # cmd.wl => q \in X
  BY <1>2 DEF Covered
<1>7. \A u \in Tids : ctx[u] # NoCtx => ctx'[u] # NoCtx
  BY <1>1, <1>3
<1>8. t = cmd.root => ResolveAncestor(t)
  BY <1>2, RootFound DEF ResolveAncestor
<1>9. ASSUME t # InitTask, parent[t] \in TreeBelow
      PROVE  ResolveAncestor(t) \/ parent[t] \in X
  <2>1. parent[t] \in Tids /\ parent[t] # t /\ Reached(parent[t])
    <3>1. parent[t] < t
      BY <1>9 DEF Ordered
    <3>2. parent[t] \in Tids /\ status[parent[t]] = "live"
      BY <1>9, TreeFacts
    <3>3. PICK p \in Tids : p = parent[t]
      BY <3>2
    <3>4. p \in Nat /\ t \in Nat /\ cursor \in Nat
      BY NTidsAssumption DEF StateOK, Tids
    <3>5. p # t /\ ~(t <= p)
      BY <3>1, <3>3, <3>4
    <3>6. ~(p >= cursor)
      BY <3>2, <3>3, <3>5, <1>1 DEF NextTask, Used
    <3> QED BY <3>2, <3>3, <3>4, <3>5, <3>6 DEF Reached
  <2>2. CASE ctx[parent[t]].wl = cmd.wl
    BY <2>1, <2>2 DEF ResolveAncestor
  <2>3. CASE ctx[parent[t]].wl # cmd.wl
    BY <1>6, <1>9, <2>1, <2>3 DEF Done
  <2> QED BY <2>2, <2>3
<1>10. t \in TreeBelow => ctx'[t] # NoCtx /\ (~Done(t)' \/ t \in X)
  <2> SUFFICES ASSUME t \in TreeBelow PROVE ctx'[t] # NoCtx /\ (~Done(t)' \/ t \in X)
    OBVIOUS
  <2>1. t # InitTask /\ status[t] = "live"
    BY <1>2, TreeFacts
  <2>2. CASE ResolveAncestor(t)
    BY <1>3, <1>4, <2>2
  <2>3. CASE ~ResolveAncestor(t)
    <3>1. parent[t] \in TreeBelow
      BY <1>8, <2>3, TreeFacts
    <3>2. t \in X
      BY <1>6, <1>9, <2>1, <2>3, <3>1 DEF Heirs
    <3> QED BY <1>6, <1>7, <3>2 DEF Heirs
  <2> QED BY <2>2, <2>3
<1>11. Heirs(X)'
  BY <1>1, <1>6, <1>7 DEF Heirs
<1>12. \A q \in TreeBelow' : Done(q)' /\ ctx'[q].wl # cmd'.wl => q \in X
  <2> SUFFICES ASSUME NEW q \in TreeBelow, Done(q)', ctx'[q].wl # cmd.wl
               PROVE  q \in X
    BY <1>1, <1>5
  <2>1. q = t \/ Reached(q)
    BY <1>4, TreeFacts DEF Used
  <2>2. CASE q = t
    BY <1>10, <2>2
  <2>3. CASE q # t
    BY <1>1, <1>6, <2>1, <2>3, TreeFacts DEF Done
  <2> QED BY <2>2, <2>3
<1>14. status'[cmd'.root] \in {"newborn", "hooking", "live"} /\ Has(cmd.root)'
           => ctx'[cmd'.root] # NoCtx
  <2> SUFFICES ASSUME status[cmd.root] \in {"newborn", "hooking", "live"}, Has(cmd.root)'
               PROVE  ctx'[cmd.root] # NoCtx
    BY <1>1
  <2>1. cmd.root = t \/ Has(cmd.root)
    <3>1. PICK r \in Tids : r = cmd.root
      BY <1>2, TreeFacts
    <3>2. Has(r)'
      BY <1>1, <3>1 DEF Has, Reached
    <3> QED BY <1>4, <3>1, <3>2 DEF Used
  <2>2. CASE cmd.root = t
    BY <1>3, <1>8, <2>2
  <2>3. CASE Has(cmd.root)
    BY <1>2, <1>7, <2>3, TreeFacts DEF Covered
  <2> QED BY <2>1, <2>2, <2>3
<1>15. \A u \in TreeBelow' : Has(u)' => ctx'[u] # NoCtx
  <2> SUFFICES ASSUME NEW u \in TreeBelow, Has(u)'
               PROVE  ctx'[u] # NoCtx
    BY <1>5
  <2>1. u = t \/ Has(u)
    BY <1>4, TreeFacts DEF Used
  <2> QED BY <1>2, <1>7, <1>10, <2>1, TreeFacts DEF Covered
<1>16. \A d \in Tids : status'[d] = "hooking" /\ by'[d] \in TreeBelow' /\ Has(d)'
           => ctx'[d] # NoCtx
  <2> SUFFICES ASSUME NEW d \in Tids, status[d] = "hooking", by[d] \in TreeBelow, Has(d)'
               PROVE  ctx'[d] # NoCtx
    BY <1>1, <1>5
  <2>1. d = t \/ Has(d)
    BY <1>4 DEF Used
  <2>2. CASE d = t
    <3>1. parent[t] = by[t] /\ t # InitTask
      BY <2>2, TreeFacts DEF Ordered
    <3>2. ResolveAncestor(t) \/ by[t] \in X
      BY <1>9, <2>2, <3>1
    <3> QED BY <1>3, <1>6, <1>7, <2>2, <3>2 DEF Heirs
  <2>3. CASE Has(d)
    BY <1>2, <1>7, <2>3 DEF Covered
  <2> QED BY <2>1, <2>2, <2>3
<1> QED BY <1>1, <1>11, <1>12, <1>14, <1>15, <1>16 DEF Covered, Reached, Has, Done

\* What the pass owes when it has filled in the workload: that it is there.
LEMMA CoveredFill ==
    ASSUME TreeInv, MarkFill, Serving'
    PROVE  Covered'
<1> USE DEF TreeInv, Inv
<1>1. /\ stage = "mark" /\ mark'.task = mark.task
      /\ UNCHANGED <<status, parent, start, by, cmd, stage, cursor, reply>>
      /\ ~Kept => ctx' = ctx
      /\ Kept => /\ mark.task \in Tids /\ ctx'[mark.task] # NoCtx /\ ctx'[mark.task].wl = cmd.wl
                 /\ \A s \in Tids : s # mark.task => ctx'[s] = ctx[s]
  BY Fills DEF taskVars
<1>2. Serving /\ Covered
  BY <1>1 DEF Serving
<1>3. TreeBelow' = TreeBelow
  BY <1>1 DEF TreeBelow, Tree, Closed
<1>4. PICK X \in SUBSET Tids :
         Heirs(X) /\ \A q \in TreeBelow : Done(q) /\ ctx[q].wl # cmd.wl => q \in X
  BY <1>2 DEF Covered
<1>5. \A u \in Tids : ctx[u] # NoCtx => ctx'[u] # NoCtx
  BY <1>1
<1>6. \A u : Has(u)' <=> Has(u)
  BY <1>1 DEF Has, Reached
<1>7. Heirs(X)'
  BY <1>1, <1>4, <1>5 DEF Heirs
<1>8. ASSUME NEW q \in TreeBelow, Done(q)', ctx'[q].wl # cmd.wl
      PROVE  q \in X
  <2>0. q \in Tids
    BY TreeFacts
  <2>1. CASE Reached(q)
    <3>1. Done(q)
      BY <2>1 DEF Done
    <3>2. ctx[q].wl # cmd.wl
      BY <1>1, <1>8, <2>0
    <3> QED BY <1>4, <3>1, <3>2
  <2>2. CASE mark.task = q
    <3>1. ctx[q] # NoCtx
      BY <1>2, <2>2 DEF Covered, Has
    <3>2. Kept
      BY <2>0, <2>2, <3>1, InitIsTask DEF Kept
    <3> QED BY <1>1, <1>8, <2>2, <3>2
  <2> QED BY <1>1, <1>8, <2>1, <2>2 DEF Done, Reached
<1>9. /\ status'[cmd'.root] \in {"newborn", "hooking", "live"} /\ Has(cmd.root)'
            => ctx'[cmd'.root] # NoCtx
      /\ \A u \in TreeBelow' : Has(u)' => ctx'[u] # NoCtx
      /\ \A d \in Tids : status'[d] = "hooking" /\ by'[d] \in TreeBelow' /\ Has(d)'
            => ctx'[d] # NoCtx
  BY <1>1, <1>2, <1>3, <1>5, <1>6, TreeFacts DEF Covered, Serving
<1>10. \A q \in TreeBelow' : Done(q)' /\ ctx'[q].wl # cmd'.wl => q \in X
  BY <1>1, <1>3, <1>8
<1> QED BY <1>1, <1>7, <1>9, <1>10 DEF Covered, Reached, Has, Done

\* When it goes on, the task it was at is done, or gone.
LEMMA CoveredTid ==
    ASSUME TreeInv, MarkTid, Serving'
    PROVE  Covered'
<1> USE DEF TreeInv, Inv
<1>1. /\ stage = "mark" /\ mark.step = "loaded" /\ mark' = NoMark /\ cursor' = cursor + 1
      /\ cursor \in Tids
      /\ UNCHANGED <<status, parent, start, by, cmd, stage, reply>>
      /\ ~Kept => ctx' = ctx
      /\ Kept => /\ mark.task \in Tids /\ ctx'[mark.task] # NoCtx
                 /\ ctx'[mark.task].wl = ctx[mark.task].wl
                 /\ \A s \in Tids : s # mark.task => ctx'[s] = ctx[s]
  BY Stores DEF taskVars
<1>2. Serving /\ Covered
  BY <1>1 DEF Serving
<1>3. TreeBelow' = TreeBelow
  BY <1>1 DEF TreeBelow, Tree, Closed
<1>4. PICK X \in SUBSET Tids :
         Heirs(X) /\ \A q \in TreeBelow : Done(q) /\ ctx[q].wl # cmd.wl => q \in X
  BY <1>2 DEF Covered
<1>5. \A u \in Tids : (ctx[u] # NoCtx => ctx'[u] # NoCtx) /\ ctx'[u].wl = ctx[u].wl
  BY <1>1
<1>6. ASSUME NEW u \in Tids, Used(u), Has(u)' \/ Done(u)'
      PROVE  Has(u) /\ Done(u)
  <2>1. NoMark.task = 0 /\ 0 \notin Tids /\ NoMark.step = "none" /\ mark # NoMark
    BY <1>1 DEF NoMark, Tids
  <2>2. u < cursor + 1
    BY <1>1, <1>6, <2>1 DEF Has, Done, Reached
  <2>3. u \in Nat /\ cursor \in Nat
    BY <1>1 DEF Tids
  <2>4. CASE u < cursor
    BY <2>4 DEF Has, Done, Reached
  <2>5. CASE u = cursor
    <3>1. mark.task = u
      BY <1>6, <2>1, <2>5 DEF Requested, Used
    <3> QED BY <1>1, <3>1 DEF Has, Done
  <2> QED BY <2>2, <2>3, <2>4, <2>5
<1>7. Heirs(X)'
  BY <1>1, <1>4, <1>5 DEF Heirs
<1>8. /\ status'[cmd'.root] \in {"newborn", "hooking", "live"} /\ Has(cmd.root)'
            => ctx'[cmd'.root] # NoCtx
      /\ \A u \in TreeBelow' : Has(u)' => ctx'[u] # NoCtx
      /\ \A d \in Tids : status'[d] = "hooking" /\ by'[d] \in TreeBelow' /\ Has(d)'
            => ctx'[d] # NoCtx
  BY <1>1, <1>2, <1>3, <1>5, <1>6, TreeFacts DEF Covered, Serving, Used
<1>9. \A q \in TreeBelow' : Done(q)' /\ ctx'[q].wl # cmd'.wl => q \in X
  BY <1>1, <1>3, <1>4, <1>5, <1>6, TreeFacts DEF Used
<1> QED BY <1>1, <1>7, <1>8, <1>9 DEF Covered, Reached, Has, Done

\* A pass that starts has reached nothing, so it owes nothing.
LEMMA CoveredStart ==
    ASSUME TreeInv, StartPass, Serving'
    PROVE  Covered'
<1>1. stage' = "mark" /\ cursor' = 1 /\ mark' = NoMark
  BY DEF StartPass, BeginPass, Serving, TreeInv, Inv, StateOK
<1>2. Tids \subseteq Nat \ {0} /\ NoMark.task = 0
  BY DEF Tids, NoMark
<1>3. \A u \in Tids : ~Reached(u)' /\ ~Has(u)' /\ ~Done(u)'
  BY <1>1, <1>2 DEF Reached, Has, Done
<1>4. TreeBelow' \subseteq Tids
  BY DEF TreeBelow, Tree
<1>5. cmd'.root \in Tids
  BY TreeFacts DEF StartPass, Serving
<1>6. Heirs({})'
  BY DEF Heirs
<1>7. Has(cmd.root)' => FALSE
  BY <1>3, <1>5 DEF Reached, Has, Done
<1> QED BY <1>1, <1>3, <1>4, <1>6, <1>7 DEF Covered, Reached, Has, Done

\* When it is over nothing that is used is ahead of it.
LEMMA CoveredEnd ==
    ASSUME TreeInv, EndMark, Serving'
    PROVE  Covered'
<1>1. stage = "mark" /\ PassOver /\ UNCHANGED <<status, parent, start, by, got, ctx, cmd>>
  BY DEF EndMark, Respond, taskVars, ctxVars
<1>2. Serving /\ Covered
  BY <1>1 DEF TreeInv, Serving
<1>3. \A u \in Tids : Used(u) => Reached(u)
  <2>1. Tids \subseteq Nat /\ cursor \in Nat
    BY NTidsAssumption DEF TreeInv, Inv, StateOK, Tids
  <2> QED BY <1>1, <2>1 DEF PassOver, Reached
<1>4. TreeBelow' = TreeBelow
  BY <1>1 DEF TreeBelow, Tree, Closed
<1>5. PICK X \in SUBSET Tids :
         Heirs(X) /\ \A q \in TreeBelow : Done(q) /\ ctx[q].wl # cmd.wl => q \in X
  BY <1>2 DEF Covered
<1>6. Heirs(X)'
  BY <1>1, <1>5 DEF Heirs
<1>7. \A q \in TreeBelow' : ctx'[q].wl # cmd'.wl => q \in X
  BY <1>1, <1>3, <1>4, <1>5, TreeFacts DEF Used, Done
<1>8. cmd.root \in Tids
  BY <1>2, TreeFacts DEF Serving
<1> QED BY <1>1, <1>2, <1>3, <1>4, <1>6, <1>7, <1>8, TreeFacts DEF Covered, Used, Has

\* No other step of the daemon or a client leaves a served tree command.
LEMMA NotServing ==
    ASSUME TreeInv, ClientStep \/ EndUnmark
    PROVE  ~Serving'
<1>1. CASE ClientStep
  <2>1. stage' = "idle" /\ reply' = "none"
    BY <1>1 DEF ClientStep, SendTree, SendUntrack, Send, MaySend
  <2> QED BY <2>1 DEF Serving
<1>2. CASE EndUnmark
  <2>1. cmd'.op # "tree"
    BY <1>2 DEF EndUnmark, Respond, BeginPass, TreeInv, Requested
  <2> QED BY <2>1 DEF Serving
<1> QED BY <1>1, <1>2

\* The steps preserve the invariant.
LEMMA TreeInvStep ==
    ASSUME SingleCase, TreeInv, [TrackerNext]_vars
    PROVE  TreeInv'
<1>1. CASE UNCHANGED vars
  <2>1. TreeBelow' = TreeBelow
    BY <1>1 DEF vars, TreeBelow, Tree, Closed
  <2>2. Covered => Covered'
    BY <1>1, <2>1 DEF vars, Covered, Heirs, Reached, Has, Done
  <2> QED BY <1>1, <2>2 DEF vars, TreeInv, Inv, StateOK, ForkInv, FreeInv, Ordered,
                            Requested, Serving, Used
<1>2. CASE TrackerNext
  <2>1. Inv'
    BY <1>2, KernelInv, HookInv, ClientInv, DaemonInv DEF TrackerNext, TreeInv
  <2>2. TreeStep
    BY <1>2, SingleStep DEF TreeInv
  <2>3. Ordered' /\ Requested'
    BY <2>2, OrderedInv, RequestedInv DEF TreeInv
  <2>4. Serving' => Covered'
    BY <2>2, CoveredTick, CoveredFork, CoveredRead, CoveredCopy, CoveredExit, CoveredNotify,
       CoveredReap, CoveredVisit, CoveredFill, CoveredTid, CoveredStart, CoveredEnd, NotServing DEF TreeStep
  <2> QED BY <2>1, <2>3, <2>4 DEF TreeInv
<1> QED BY <1>1, <1>2

\* They start from it.
LEMMA TreeInvInit ==
    ASSUME SingleCase, Init
    PROVE  TreeInv
<1>1. Inv
  BY InitInv
<1>2. /\ status = [t \in Tids |-> IF t \in {InitTask, 2} THEN "live" ELSE "free"]
      /\ tgid = [t \in Tids |-> t] /\ parent = [t \in Tids |-> InitTask]
      /\ start = [t \in Tids |-> IF t = 2 THEN FirstTick ELSE 0]
      /\ by = [t \in Tids |-> 0] /\ last = 2 /\ now = FirstTick /\ cmd = NoCmd /\ stage = "idle"
      /\ cursor = 1 /\ mark = NoMark
  BY DEF Init, SingleCase
<1>3. Ordered
  BY <1>2, InitIsTask DEF Ordered, Used, Tids, InitTask, FirstTick
<1>4. Requested /\ ~Serving
  BY <1>2 DEF Requested, Serving, NoCmd, FirstTick
<1> QED BY <1>1, <1>3, <1>4 DEF TreeInv

\* The invariant says what was promised: after the reply the pass is beyond
\* everybody.
LEMMA TreeInvCovers ==
    ASSUME TreeInv
    PROVE  TreeCovered
<1> SUFFICES ASSUME cmd.op = "tree", reply = "ok", start[cmd.root] = cmd.st,
                    NEW t \in Tids, status[t] = "live", Under(t, cmd.root)
             PROVE  ctx[t] # NoCtx
  BY DEF TreeCovered
<1>1. t \in TreeBelow
  BY UnderInTree DEF TreeInv, Inv
<1>2. stage = "idle"
  BY DEF TreeInv, Inv, StateOK
<1>3. Covered
  BY DEF TreeInv, Serving
<1> QED BY <1>1, <1>2, <1>3 DEF Covered, Reached, Has, Done

\* A tree command that succeeded covers every running task below the process
\* it was sent for, whatever forked and exited under the pass, for processes
\* of one thread and as long as pids do not wrap and nothing fails.
THEOREM TreeCoverage == ASSUME SingleCase PROVE Spec => []TreeCovered
<1>1. Init => TreeInv
  BY TreeInvInit
<1>2. TreeInv /\ [TrackerNext]_vars => TreeInv'
  BY TreeInvStep
<1>3. TreeInv => TreeCovered
  BY TreeInvCovers
<1> QED BY <1>1, <1>2, <1>3, PTL DEF Spec

-----------------------------------------------------------------------------
\* The history: an untrack command that succeeds leaves nothing behind, and contexts stay in the
\* family they were requested for; with threads, pid wrap-around and failures.

\* A task in the middle of a fork keeps running until its child's hook is
\* done, and a hook holds what it read only while it runs.
CreatorInv ==
    \A c \in Tids :
        /\ by[c] \in Tids => status[by[c]] = "live"
        /\ got[c] # NoWl => status[c] = "hooking"

Tracked(t) == ctx[t].wl = cmd.wl

\* A task of the workload that the first pass will still visit and that can
\* lose its context before only through an exit, which is churn.
Witness == \E s \in Tids : s >= cursor /\ Tracked(s) /\ status[s] \in {"live", "execing"}

\* As long as the first pass removed nothing, whoever can hand the context on
\* still has it, and if a task behind the cursor has it there is a witness
\* ahead: so a first pass that ends without removing anything finds nothing
\* left.  During the second pass no hook holds the context and no task behind
\* the cursor has it.
PassInv ==
    (cmd.op = "untrack" /\ ~churn) =>
        /\ stage = "unmark1" /\ ~removed =>
              /\ \A c \in Tids : Copying(c, cmd.wl) => Tracked(by[c])
              /\ \A t \in Tids : Tracked(t) => t >= cursor \/ Witness
        /\ stage = "unmark2" =>
              /\ \A c \in Tids : ~Copying(c, cmd.wl)
              /\ \A t \in Tids : Tracked(t) => t >= cursor

StageInv ==
    /\ stage \in {"unmark1", "unmark2"} => cmd.op = "untrack"
    /\ stage = "mark" => cmd.op = "tree"

HInv == Inv /\ CreatorInv /\ StageInv /\ PassInv /\ UntrackDrops

\* What the kernel and the hooks may do to the contexts of the workload:
\* a task gets one only from a fork hook that copies it or by an exec that
\* renames its carrier; a hook gets hold of one only from a parent that has
\* it; a live carrier keeps it unless it exits or is renamed.
WorldStep ==
    /\ UNCHANGED daemonVars
    /\ \A t \in Tids : Tracked(t)' =>
          \/ Tracked(t)
          \/ \E c \in Tids : Copying(c, cmd.wl)
          \/ \E p \in Tids : Tracked(p) /\ status[p] = "live" /\ status'[p] = "free"
    /\ \A c \in Tids : Copying(c, cmd.wl)' =>
          /\ by[c] \in Tids /\ by'[c] = by[c]
          /\ Copying(c, cmd.wl) \/ Tracked(by[c])
    /\ \A s \in Tids : Tracked(s) /\ status[s] \in {"live", "execing"} =>
          \/ Tracked(s)' /\ status'[s] \in {"live", "execing"}
          \/ status[s] = "live" /\ status'[s] \in {"exiting", "free"}

\* A context of a workload is not the absence of one.
LEMMA TrackedIsReal ==
    ASSUME Inv, cmd.op = "untrack", NEW t \in Tids, Tracked(t)
    PROVE  ctx[t] # NoCtx /\ Used(t)
<1>1. cmd.wl \in Workloads
  BY DEF Inv, StateOK, Command, NoCmd
<1>2. ctx[t] # NoCtx
  BY <1>1, WorkloadAssumption DEF Tracked, NoCtx
<1> QED BY <1>2 DEF Inv, FreeInv, Used

\* Nothing is being forked at first.
LEMMA CreatorInit == Init => CreatorInv
<1>1. InitTask \in Tids /\ 0 \notin Tids
  BY InitIsTask
<1> QED BY <1>1 DEF Init, CreatorInv

\* It is preserved by the kernel and by the hooks.
LEMMA CreatorWorld == Inv /\ CreatorInv /\ (KernelStep \/ HookStep) => CreatorInv'
<1> SUFFICES ASSUME Inv, CreatorInv, KernelStep \/ HookStep PROVE CreatorInv'
  OBVIOUS
<1> USE DEF Inv, StateOK, ForkInv, CreatorInv, taskVars, ctxVars
<1>1. CASE Tick
  BY <1>1 DEF Tick
<1>2. ASSUME NEW p \in Tids, NEW c \in Tids, NEW g, NEW r, ForkAttach(p, c, g, r)
      PROVE  CreatorInv'
  BY <1>2 DEF ForkAttach, Running, MayAllocate
<1>3. ASSUME NEW p \in Tids, ExecSwap(p) PROVE CreatorInv'
  BY <1>3 DEF ExecSwap, Running, Forking
<1>4. ASSUME NEW t \in Tids, ExitNotify(t) PROVE CreatorInv'
  BY <1>4 DEF ExitNotify
<1>5. ASSUME NEW t \in Tids, Reap(t) PROVE CreatorInv'
  BY <1>5 DEF Reap
<1>6. ASSUME NEW c \in Tids, ForkRead(c) PROVE CreatorInv'
  <2>1. /\ status[c] = "newborn" /\ status' = [status EXCEPT ![c] = "hooking"] /\ UNCHANGED by
        /\ got' = [got EXCEPT ![c] = ctx[by[c]].wl] \/ got' = got
    BY <1>6, ForkReads
  <2> QED BY <2>1
<1>7. ASSUME NEW c \in Tids, ForkCopy(c) PROVE CreatorInv'
  <2>1. status[c] = "hooking" /\ ForkDone(c)
    BY <1>7, ForkCopies
  <2> QED BY <2>1, InitIsTask DEF ForkDone
<1>8. ASSUME NEW t \in Tids, ExecHook(t) PROVE CreatorInv'
  BY <1>8 DEF ExecHook
<1>9. ASSUME NEW t \in Tids, ExitHook(t) PROVE CreatorInv'
  BY <1>9 DEF ExitHook, Running, Forking
<1> QED BY <1>1, <1>2, <1>3, <1>4, <1>5, <1>6, <1>7, <1>8, <1>9
        DEF KernelStep, HookStep, ForkProcess, ForkThread

\* Every step of the kernel and of the hooks is a WorldStep.
LEMMA WorldFacts ==
    ASSUME Inv, CreatorInv, KernelStep \/ HookStep, cmd.op = "untrack"
    PROVE  WorldStep
<1> USE DEF CreatorInv, taskVars, ctxVars, daemonVars, WorldStep
<1>a. cmd.wl \in Workloads /\ NoCtx.wl # cmd.wl /\ ZeroCtx.wl # cmd.wl
  BY WorkloadAssumption DEF ZeroCtx, Inv, StateOK, Command, NoCmd, NoCtx
<1>b. /\ status \in [Tids -> Status] /\ by \in [Tids -> Tids \cup {0}]
      /\ ctx \in [Tids -> TaskCtx \cup {NoCtx}] /\ got \in [Tids -> Ids \cup {NoWl}]
      /\ tgid \in [Tids -> Tids]
      /\ \A c \in Tids : by[c] \in Tids <=> status[c] \in {"newborn", "hooking"}
      /\ \A t \in Tids : status[t] = "free" => ctx[t] = NoCtx
  BY DEF Inv, StateOK, ForkInv, FreeInv
<1>1. CASE Tick
  BY <1>1, <1>a, <1>b DEF Tick, Tracked, Copying, Inherited
<1>2. ASSUME NEW p \in Tids, NEW c \in Tids, NEW g, NEW r, ForkAttach(p, c, g, r)
      PROVE  WorldStep
  <2>1. UNCHANGED <<ctx, got, daemonVars>> /\ status[c] = "free" /\ status[p] = "live" /\ p \in Tids
        /\ got[c] = NoWl
    BY <1>2, <1>b DEF ForkAttach, Running, MayAllocate
  <2>2. /\ status' = [status EXCEPT ![c] = "newborn"]
        /\ by' = [by EXCEPT ![c] = p]
    BY <1>2 DEF ForkAttach
  <2> QED BY <2>1, <2>2, <1>a, <1>b DEF Tracked, Copying, Inherited
<1>3. ASSUME NEW p \in Tids, ExecSwap(p) PROVE WorldStep
  <2>1. /\ status[p] = "live" /\ status[tgid[p]] = "zombie" /\ \A c \in Tids : by[c] # p
        /\ status' = [status EXCEPT ![tgid[p]] = "execing", ![p] = "free"]
        /\ ctx' = [ctx EXCEPT ![tgid[p]] = ctx[p], ![p] = NoCtx]
        /\ UNCHANGED <<by, got, daemonVars>>
    BY <1>3 DEF ExecSwap, Running, Forking
  <2>2. \A t \in Tids : status[t] = "live" /\ t # p => ctx'[t] = ctx[t] /\ status'[t] = status[t]
    BY <2>1, <1>b
  <2>3. \A c \in Tids : Copying(c, cmd.wl)' =>
          by[c] \in Tids /\ by'[c] = by[c] /\ Copying(c, cmd.wl)
    BY <2>1, <2>2, <1>b DEF Copying, Inherited
  <2>4. \A t \in Tids : Tracked(t)' => Tracked(t) \/ Tracked(p)
    BY <2>1, <1>a, <1>b DEF Tracked
  <2>5. \A s \in Tids : Tracked(s) /\ status[s] \in {"live", "execing"} =>
          \/ Tracked(s)' /\ status'[s] \in {"live", "execing"}
          \/ status[s] = "live" /\ status'[s] \in {"exiting", "free"}
    BY <2>1, <1>b DEF Tracked
  <2>6. status'[p] = "free"
    BY <2>1, <1>b
  <2> QED BY <2>1, <2>3, <2>4, <2>5, <2>6
<1>4. ASSUME NEW t \in Tids, ExitNotify(t) PROVE WorldStep
  <2>1. /\ status[t] = "exiting" /\ UNCHANGED <<by, got, daemonVars>>
        /\ status'[t] \in {"zombie", "free"}
        /\ ctx'[t] = ctx[t] \/ ctx'[t] = NoCtx
        /\ \A s \in Tids : s # t => ctx'[s] = ctx[s] /\ status'[s] = status[s]
    BY <1>4, <1>b DEF ExitNotify
  <2> QED BY <2>1, <1>a, <1>b DEF Tracked, Copying, Inherited
<1>5. ASSUME NEW t \in Tids, Reap(t) PROVE WorldStep
  <2>1. /\ status[t] = "zombie" /\ UNCHANGED <<by, got, daemonVars>>
        /\ ctx'[t] = NoCtx
        /\ \A s \in Tids : s # t => ctx'[s] = ctx[s] /\ status'[s] = status[s]
    BY <1>5, <1>b DEF Reap
  <2> QED BY <2>1, <1>a, <1>b DEF Tracked, Copying, Inherited
<1>6. ASSUME NEW c \in Tids, ForkRead(c) PROVE WorldStep
  <2>1. /\ status[c] = "newborn" /\ by[c] \in Tids /\ UNCHANGED <<by, daemonVars>>
        /\ got' = [got EXCEPT ![c] = ctx[by[c]].wl] \/ got' = got
        /\ ctx' = ctx \/ (ctx' = [ctx EXCEPT ![c] = ZeroCtx] /\ ctx[c] = NoCtx)
        /\ status' = [status EXCEPT ![c] = "hooking"]
    BY <1>6, ForkReads
  <2>2. /\ \A t \in Tids : t # c => ctx'[t] = ctx[t] /\ status'[t] = status[t] /\ got'[t] = got[t]
        /\ ctx'[c] = ctx[c] \/ ctx'[c] = ZeroCtx
        /\ got'[c] = got[c] \/ got'[c] = ctx[by[c]].wl
    BY <2>1, <1>b
  <2>3. \A d \in Tids : by[d] # c
    BY <2>1
  <2>4. \A t \in Tids : Tracked(t)' => Tracked(t)
    BY <2>1, <2>2, <1>a DEF Tracked
  <2>5. ASSUME NEW d \in Tids, Copying(d, cmd.wl)'
        PROVE  by[d] \in Tids /\ by'[d] = by[d] /\ (Copying(d, cmd.wl) \/ Tracked(by[d]))
    <3>1. got'[d] # NoWl /\ (cmd.wl = got'[d] \/ cmd.wl = ctx'[by[d]].wl)
      BY <2>1, <2>5 DEF Copying, Inherited
    <3>2. by[d] \in Tids
      BY <2>1, <2>2, <3>1, <1>b
    <3>3. ctx'[by[d]] = ctx[by[d]]
      BY <2>2, <2>3, <3>2
    <3>4. CASE d = c
      BY <2>1, <2>2, <3>1, <3>2, <3>3, <3>4, <1>a DEF Tracked, Copying, Inherited
    <3>5. CASE d # c
      BY <2>1, <2>2, <3>1, <3>2, <3>3, <3>5, <1>a DEF Tracked, Copying, Inherited
    <3> QED BY <3>4, <3>5
  <2>6. \A s \in Tids : status[s] \in {"live", "execing"} => ctx'[s] = ctx[s] /\ status'[s] = status[s]
    BY <2>1, <2>2
  <2> QED BY <2>1, <2>4, <2>5, <2>6 DEF Tracked
<1>7. ASSUME NEW c \in Tids, ForkCopy(c) PROVE WorldStep
  <2>1. /\ status[c] = "hooking" /\ UNCHANGED daemonVars
        /\ by' = [by EXCEPT ![c] = 0] /\ got' = [got EXCEPT ![c] = NoWl]
        /\ status' = [status EXCEPT ![c] = "live"]
    BY <1>7, ForkCopies DEF ForkDone
  <2>2. /\ \A t \in Tids : t # c => ctx'[t] = ctx[t]
        /\ ctx'[c] = ctx[c] \/ (got[c] # NoWl /\ ctx'[c].wl \in Inherited(c))
    BY <1>7, ForkCopies
  <2>3. \A t \in Tids : Tracked(t)' => Tracked(t) \/ Copying(c, cmd.wl)
    BY <2>1, <2>2 DEF Tracked, Copying
  <2>4. \A d \in Tids : Copying(d, cmd.wl)' =>
          by[d] \in Tids /\ by'[d] = by[d] /\ Copying(d, cmd.wl)
    <3> SUFFICES ASSUME NEW d \in Tids, Copying(d, cmd.wl)'
                 PROVE  by[d] \in Tids /\ by'[d] = by[d] /\ Copying(d, cmd.wl)
      OBVIOUS
    <3>1. d # c /\ got'[d] = got[d] /\ got[d] # NoWl
      BY <2>1, <1>b DEF Copying
    <3>2. by[d] \in Tids /\ by'[d] = by[d] /\ by[d] # c
      BY <2>1, <3>1, <1>b
    <3>3. Inherited(d)' = Inherited(d)
      BY <2>2, <3>1, <3>2 DEF Inherited
    <3> QED BY <3>1, <3>2, <3>3, <2>1 DEF Copying
  <2>5. \A s \in Tids : status[s] \in {"live", "execing"} =>
          ctx'[s] = ctx[s] /\ status'[s] = status[s]
    BY <2>1, <2>2, <1>b
  <2> QED BY <2>1, <2>3, <2>4, <2>5 DEF Tracked
<1>8. ASSUME NEW t \in Tids, ExecHook(t) PROVE WorldStep
  <2>1. /\ status[t] = "execing" /\ UNCHANGED <<by, got, daemonVars>>
        /\ status' = [status EXCEPT ![t] = "live"]
    BY <1>8 DEF ExecHook
  <2>2. /\ \A s \in Tids : s # t => ctx'[s] = ctx[s]
        /\ ctx'[t].wl = ctx[t].wl
    BY <1>8, <1>b DEF ExecHook, TaskCtx
  <2>3. \A c \in Tids : by[c] # t
    BY <2>1
  <2>4. \A c \in Tids : by[c] \in Tids => ctx'[by[c]] = ctx[by[c]]
    BY <2>2, <2>3
  <2>5. \A c \in Tids : Copying(c, cmd.wl)' =>
          by[c] \in Tids /\ by'[c] = by[c] /\ Copying(c, cmd.wl)
    BY <2>1, <2>4, <1>b DEF Copying, Inherited
  <2> QED BY <2>1, <2>2, <2>5, <1>b DEF Tracked
<1>9. ASSUME NEW t \in Tids, ExitHook(t) PROVE WorldStep
  <2>1. /\ status[t] = "live" /\ \A c \in Tids : by[c] # t
        /\ UNCHANGED <<by, got, daemonVars>>
        /\ status' = [status EXCEPT ![t] = "exiting"]
        /\ ctx' = [ctx EXCEPT ![t] = NoCtx]
    BY <1>9 DEF ExitHook, Running, Forking
  <2> QED BY <2>1, <1>a, <1>b DEF Tracked, Copying, Inherited
<1> QED BY <1>1, <1>2, <1>3, <1>4, <1>5, <1>6, <1>7, <1>8, <1>9
        DEF KernelStep, HookStep, ForkProcess, ForkThread

\* The steps of the kernel and of the hooks preserve the invariant of the
\* passes, or are churn.
LEMMA PassWorld ==
    ASSUME HInv, CreatorInv', cmd.op = "untrack" => WorldStep, UNCHANGED daemonVars, ChurnStep
    PROVE  PassInv' /\ UntrackDrops' /\ StageInv'
<1>1. StageInv'
  BY DEF HInv, StageInv, daemonVars
<1>2. CASE cmd.op # "untrack"
  BY <1>1, <1>2 DEF PassInv, UntrackDrops, daemonVars
<1>3. CASE cmd.op = "untrack" /\ stage = "unmark1"
  <2>1. /\ UNCHANGED <<cmd, stage, cursor, removed, reply>> /\ reply = "none"
        /\ \A c \in Tids : by[c] \in Tids => status[by[c]] = "live"
        /\ cursor \in 1 .. NTids + 1
    BY <1>3 DEF HInv, Inv, StateOK, CreatorInv, daemonVars
  <2> SUFFICES ASSUME ~churn', ~removed
               PROVE  /\ \A c \in Tids : Copying(c, cmd.wl)' => Tracked(by[c])' /\ by'[c] = by[c]
                      /\ \A t \in Tids : Tracked(t)' => t >= cursor \/ Witness'
    BY <1>1, <1>3, <2>1 DEF PassInv, UntrackDrops, Tracked, Copying, Inherited
  <2>2. /\ ~churn
        /\ \A t \in Tids : Tracked(t) /\ status[t] = "live" => status'[t] \notin {"exiting", "free"}
    BY <1>3, <2>1 DEF ChurnStep, Tracked
  <2>3. /\ \A c \in Tids : Copying(c, cmd.wl) => Tracked(by[c])
        /\ \A t \in Tids : Tracked(t) => t >= cursor \/ Witness
    BY <1>3, <2>2 DEF HInv, PassInv
  <2>4. \A s \in Tids : Tracked(s) /\ status[s] \in {"live", "execing"} =>
          Tracked(s)' /\ status'[s] \in {"live", "execing"}
    BY <1>3, <2>2 DEF WorldStep
  <2>5. Witness => Witness'
    BY <2>1, <2>4 DEF Witness
  <2>6. ASSUME NEW c \in Tids, Copying(c, cmd.wl)' PROVE Tracked(by[c])' /\ by'[c] = by[c]
    <3>1. by[c] \in Tids /\ by'[c] = by[c] /\ Tracked(by[c])
      BY <1>3, <2>3, <2>6 DEF WorldStep
    <3> QED BY <2>1, <2>4, <3>1
  <2>7. ASSUME NEW c \in Tids, Copying(c, cmd.wl), by[c] \in Tids PROVE Witness'
    <3>1. Tracked(by[c]) /\ status[by[c]] = "live"
      BY <2>1, <2>3, <2>7
    <3>2. by[c] >= cursor => Witness
      BY <2>7, <3>1 DEF Witness
    <3> QED BY <2>3, <2>5, <2>7, <3>1, <3>2
  <2>8. ASSUME NEW t \in Tids, Tracked(t)' PROVE t >= cursor \/ Witness'
    <3>1. CASE Tracked(t)
      BY <2>3, <2>5, <3>1
    <3>2. ASSUME NEW c \in Tids, Copying(c, cmd.wl) PROVE Witness'
      <4>1. by[c] \in Tids
        BY <3>2 DEF HInv, Inv, ForkInv, CreatorInv, Copying
      <4> QED BY <2>7, <3>2, <4>1
    <3> QED BY <1>3, <2>2, <2>8, <3>1, <3>2 DEF WorldStep
  <2> QED BY <2>6, <2>8
<1>4. CASE cmd.op = "untrack" /\ stage = "unmark2"
  <2>1. UNCHANGED <<cmd, stage, cursor, removed, reply>> /\ reply = "none"
    BY <1>4 DEF HInv, Inv, StateOK, daemonVars
  <2> SUFFICES ASSUME ~churn'
               PROVE  /\ \A c \in Tids : ~Copying(c, cmd.wl)'
                      /\ \A t \in Tids : Tracked(t)' => t >= cursor
    BY <1>1, <1>4, <2>1 DEF PassInv, UntrackDrops, Copying, Inherited
  <2>2. /\ ~churn
        /\ \A c \in Tids : ~Copying(c, cmd.wl)'
        /\ \A t \in Tids : Tracked(t) /\ status[t] = "live" => status'[t] # "free"
    BY <1>4, <2>1 DEF ChurnStep, Tracked
  <2>3. /\ \A c \in Tids : ~Copying(c, cmd.wl)
        /\ \A t \in Tids : Tracked(t) => t >= cursor
    BY <1>4, <2>2 DEF HInv, PassInv
  <2> QED BY <1>4, <2>2, <2>3 DEF WorldStep
<1>5. CASE cmd.op = "untrack" /\ stage = "idle"
  <2>1. UNCHANGED <<cmd, stage, cursor, removed, reply>>
    BY DEF daemonVars
  <2>2. churn' = churn
    BY <1>5, <2>1 DEF ChurnStep
  <2> SUFFICES ASSUME reply = "ok", ~churn
               PROVE  \A t \in Tids : ~Tracked(t)' /\ ~Copying(t, cmd.wl)'
    BY <1>1, <1>5, <2>1, <2>2 DEF PassInv, UntrackDrops, Tracked, Copying, Inherited
  <2>3. \A t \in Tids : ~Tracked(t) /\ ~Copying(t, cmd.wl)
    BY <1>5 DEF HInv, UntrackDrops, Tracked
  <2> QED BY <1>5, <2>3 DEF WorldStep
<1> QED BY <1>2, <1>3, <1>4, <1>5 DEF HInv, Inv, StateOK, StageInv

\* Clients and the daemon do not touch what CreatorInv is about: a hook that
\* finds another workload behind its pointer had a pointer before.
LEMMA CreatorDaemon == Inv /\ CreatorInv /\ (ClientStep \/ DaemonStep) => CreatorInv'
<1> SUFFICES ASSUME Inv, CreatorInv, ClientStep \/ DaemonStep PROVE CreatorInv'
  OBVIOUS
<1>1. CASE MarkFill
  <2>1. UNCHANGED <<by, status>> /\ \A c \in Tids : got'[c] = got[c] \/ got[c] # NoWl
    BY <1>1, Fills DEF taskVars
  <2> QED BY <2>1 DEF CreatorInv
<1>2. CASE ~MarkFill
  <2>1. UNCHANGED <<by, status, got>>
    BY <1>2 DEF ClientStep, DaemonStep, SendTree, SendUntrack, Send, StartPass, Visit, MarkTid,
           EndMark, EndUnmark, FailPass, Respond, taskVars, ctxVars
  <2> QED BY <2>1 DEF CreatorInv
<1> QED BY <1>1, <1>2

\* A new command starts from nothing done.
LEMMA PassClient ==
    ASSUME HInv, ClientStep
    PROVE  PassInv' /\ UntrackDrops' /\ StageInv'
<1>1. stage' = "idle" /\ reply' = "none"
  BY DEF ClientStep, SendTree, SendUntrack, Send, MaySend
<1> QED BY <1>1 DEF PassInv, UntrackDrops, StageInv

\* The daemon's own steps preserve the invariant of its passes.
LEMMA PassDaemon ==
    ASSUME HInv, DaemonStep, ChurnStep
    PROVE  PassInv' /\ UntrackDrops' /\ StageInv'
<1> USE DEF taskVars, ctxVars
<1>1. CASE StartPass
  <2>1. /\ UNCHANGED <<status, by, ctx, got, cmd, reply>> /\ reply = "none" /\ cursor' = 1
        /\ stage = "idle" /\ stage' = (IF cmd.op = "tree" THEN "mark" ELSE "unmark1")
        /\ cmd.op \in {"tree", "untrack"}
    BY <1>1 DEF StartPass, BeginPass, HInv, Inv, StateOK, Command
  <2>2. cmd.op = "untrack" /\ ~churn' => \A c \in Tids : Copying(c, cmd.wl) => Tracked(by[c])
    BY <2>1 DEF ChurnStep, Tracked
  <2>3. \A t \in Tids : t >= 1
    BY DEF Tids
  <2>4. \A c \in Tids : Copying(c, cmd.wl)' <=> Copying(c, cmd.wl)
    BY <2>1 DEF Copying, Inherited
  <2>5. \A t \in Tids : (Tracked(t)' <=> Tracked(t)) /\ (Tracked(by[t])' <=> Tracked(by[t]))
    BY <2>1 DEF Tracked
  <2> QED BY <2>1, <2>2, <2>3, <2>4, <2>5 DEF PassInv, UntrackDrops, StageInv
<1>2. ASSUME NEW t \in Tids, Visit(t)
      PROVE  PassInv' /\ UntrackDrops' /\ StageInv'
  <2>1. /\ UNCHANGED <<status, by, got, cmd, stage, reply>> /\ stage # "idle" /\ reply = "none"
        /\ t >= cursor /\ \A s \in Tids : s >= cursor /\ Used(s) => t <= s
        /\ stage # "mark" => Unmark(t) /\ cursor' = t + 1
    BY <1>2, Visits DEF NextTask, HInv, Inv, StateOK
  <2>2. StageInv' /\ UntrackDrops'
    BY <2>1 DEF HInv, StageInv, UntrackDrops
  <2>3. CASE cmd.op # "untrack"
    BY <2>1, <2>2, <2>3 DEF PassInv
  <2>4. CASE cmd.op = "untrack"
    <3>1. \/ /\ ~Tracked(t) /\ UNCHANGED <<ctx, removed>>
          \/ /\ removed' = TRUE
             /\ ctx' = [ctx EXCEPT ![t] = NoCtx]
      BY <2>1, <2>4 DEF Unmark, HInv, StageInv, Tracked
    <3>2. cursor \in 1 .. NTids + 1 /\ t \in 1 .. NTids /\ NTids \in Nat /\ cursor' = t + 1
      BY NTidsAssumption, <2>1, <2>4 DEF HInv, Inv, StateOK, Tids, StageInv
    <3>3. CASE stage = "unmark1" /\ ~removed' /\ ~churn'
      <4>1. UNCHANGED <<ctx, removed>> /\ ~Tracked(t) /\ ~churn
        BY <2>1, <3>1, <3>3 DEF ChurnStep
      <4>2. /\ \A c \in Tids : Copying(c, cmd.wl) => Tracked(by[c])
            /\ \A s \in Tids : Tracked(s) => s >= cursor \/ Witness
        BY <2>4, <3>3, <4>1 DEF HInv, PassInv
      <4>3. \A s \in Tids : Tracked(s) /\ s >= cursor => s >= cursor'
        BY <2>1, <2>4, <3>2, <4>1, TrackedIsReal DEF HInv, Tids
      <4>4. Witness => Witness'
        BY <2>1, <4>1, <4>3 DEF Witness, Tracked
      <4>5. \A c \in Tids : /\ Copying(c, cmd.wl)' <=> Copying(c, cmd.wl)
                            /\ Tracked(c)' <=> Tracked(c)
                            /\ Tracked(by[c])' <=> Tracked(by[c])
        BY <2>1, <4>1 DEF Copying, Inherited, Tracked
      <4> QED BY <2>1, <2>2, <3>3, <4>2, <4>3, <4>4, <4>5 DEF PassInv
    <3>4. CASE stage = "unmark2" /\ ~churn'
      <4>1. ~churn /\ \A c \in Tids : ~Copying(c, cmd.wl)'
        BY <2>1, <3>4 DEF ChurnStep
      <4>2. \A s \in Tids : Tracked(s) => s >= cursor
        BY <2>4, <3>4, <4>1 DEF HInv, PassInv
      <4>3. cmd.wl \in Workloads
        BY <2>4 DEF HInv, Inv, StateOK, Command, NoCmd
      <4>4. ASSUME NEW s \in Tids, Tracked(s)' PROVE s >= cursor'
        <5>1. s # t /\ Tracked(s)
          BY <2>1, <3>1, <4>3, <4>4, WorkloadAssumption
             DEF Tracked, NoCtx, HInv, Inv, StateOK
        <5> QED BY <2>1, <2>4, <3>2, <4>2, <5>1, TrackedIsReal DEF HInv, Tids
      <4> QED BY <2>1, <2>2, <3>4, <4>1, <4>4 DEF PassInv
    <3> QED BY <2>1, <2>2, <3>3, <3>4 DEF PassInv
  <2> QED BY <2>3, <2>4
<1>3. CASE EndMark
  <2>1. cmd.op = "tree" /\ cmd' = cmd /\ stage' = "idle"
    BY <1>3 DEF EndMark, Respond, HInv, StageInv
  <2> QED BY <2>1 DEF PassInv, UntrackDrops, StageInv
<1>4. CASE EndUnmark
  <2>1. /\ UNCHANGED <<status, by, ctx, got, cmd>> /\ PassOver /\ cmd.op = "untrack"
        /\ \A c \in Tids : Copying(c, cmd.wl)' <=> Copying(c, cmd.wl)
    BY <1>4 DEF EndUnmark, Respond, HInv, StageInv, Copying, Inherited
  <2>2. CASE stage = "unmark1" /\ removed
    <3>1. stage' = "unmark2" /\ cursor' = 1 /\ reply' = "none"
      BY <1>4, <2>2 DEF EndUnmark, BeginPass, HInv, Inv, StateOK
    <3>2. ~churn' => \A c \in Tids : ~Copying(c, cmd.wl)
      BY <2>2, <3>1 DEF ChurnStep
    <3>3. \A t \in Tids : t >= cursor'
      BY <3>1 DEF Tids
    <3> QED BY <2>1, <3>1, <3>2, <3>3 DEF PassInv, UntrackDrops, StageInv
  <2>3. CASE ~(stage = "unmark1" /\ removed)
    <3>1. /\ stage' = "idle" /\ (stage = "unmark2" \/ (stage = "unmark1" /\ ~removed))
          /\ churn' = churn
      BY <1>4, <2>3 DEF EndUnmark, Respond, ChurnStep
    <3>2. \A t \in Tids : Tracked(t) => ~(t >= cursor)
      BY <2>1, TrackedIsReal DEF PassOver, HInv
    <3>3. ~churn => \A t \in Tids : ~Tracked(t)
      BY <2>1, <3>1, <3>2 DEF HInv, PassInv, Witness
    <3>4. ASSUME ~churn, NEW c \in Tids PROVE ~Copying(c, cmd.wl)
      <4>1. Copying(c, cmd.wl) => by[c] \in Tids
        BY DEF Copying, HInv, Inv, CreatorInv, ForkInv
      <4>2. stage = "unmark2" => ~Copying(c, cmd.wl)
        BY <2>1, <3>4 DEF HInv, PassInv
      <4>3. stage = "unmark1" /\ ~removed => (Copying(c, cmd.wl) => Tracked(by[c]))
        BY <2>1, <3>4 DEF HInv, PassInv
      <4> QED BY <3>1, <3>3, <3>4, <4>1, <4>2, <4>3
    <3> QED BY <2>1, <3>1, <3>3, <3>4 DEF PassInv, UntrackDrops, StageInv, Tracked
  <2> QED BY <2>2, <2>3
<1>5. CASE FailPass
  <2>1. stage' = "idle" /\ reply' = "error"
    BY <1>5 DEF FailPass, Respond
  <2> QED BY <2>1 DEF PassInv, UntrackDrops, StageInv
<1>6. CASE MarkFill \/ MarkTid
  <2>1. stage = "mark" /\ UNCHANGED <<cmd, stage, reply>> /\ reply = "none"
    BY <1>6, Fills, Stores DEF HInv, Inv, StateOK
  <2> QED BY <2>1 DEF HInv, StageInv, PassInv, UntrackDrops
<1> QED BY <1>1, <1>2, <1>3, <1>4, <1>5, <1>6 DEF DaemonStep

\* Every step, or none, preserves the inductive invariant.
LEMMA HInvStep == HInv /\ [HNext]_<<vars, histVars>> => HInv'
<1> SUFFICES ASSUME HInv, [HNext]_<<vars, histVars>> PROVE HInv'
  OBVIOUS
<1>1. CASE UNCHANGED <<vars, histVars>>
  BY <1>1 DEF HInv, Inv, StateOK, ForkInv, FreeInv, CreatorInv, StageInv, PassInv,
              UntrackDrops, Tracked, Witness, Copying, Inherited, vars, histVars
<1>2. CASE KernelStep \/ HookStep
  <2>1. UNCHANGED daemonVars
    BY <1>2 DEF KernelStep, HookStep, Tick, ForkProcess, ForkThread, ForkAttach, ExecSwap,
                ExitNotify, Reap, ForkRead, ForkCopy, ForkDone, ExecHook, ExitHook
  <2>2. Inv' /\ CreatorInv' /\ (cmd.op = "untrack" => WorldStep)
    BY <1>2, KernelInv, HookInv, CreatorWorld, WorldFacts DEF HInv
  <2>3. CASE HNext
    BY <2>1, <2>2, <2>3, PassWorld DEF HNext, HInv
  <2> QED BY <1>1, <2>3
<1>3. CASE ClientStep /\ HNext
  BY <1>3, ClientInv, CreatorDaemon, PassClient DEF HInv
<1>4. CASE DaemonStep /\ HNext
  BY <1>4, DaemonInv, CreatorDaemon, PassDaemon DEF HInv, HNext
<1> QED BY <1>1, <1>2, <1>3, <1>4 DEF HNext, TrackerNext

\* After an untrack command that reports success, and unless one of the races
\* of ChurnStep happened while it ran, no task carries a context of the
\* workload and no fork hook is about to store one (tasks.rs:50-65).
THEOREM UntrackCorrect == HSpec => []UntrackDrops
<1>1. HInit => HInv
  <2> SUFFICES ASSUME HInit PROVE HInv
    OBVIOUS
  <2>1. Inv /\ CreatorInv
    BY InitInv, CreatorInit DEF HInit
  <2>2. stage = "idle" /\ reply = "none"
    BY DEF HInit, Init
  <2> QED BY <2>1, <2>2 DEF HInv, StageInv, PassInv, UntrackDrops
<1>2. HInv => UntrackDrops
  BY DEF HInv
<1> QED BY <1>1, <1>2, HInvStep, PTL DEF HSpec

-----------------------------------------------------------------------------
\* Contexts stay in the family they were requested for.

\* The process tree as OnlyKin needs it: the tasks of a process have the same
\* parent, and its leader keeps its place until the others are gone.
Groups ==
    /\ status[InitTask] = "live" /\ parent[InitTask] = InitTask /\ tgid[InitTask] = InitTask
    /\ \A t \in Tids : Used(t) => Used(tgid[t]) /\ tgid[tgid[t]] = tgid[t]
    /\ \A t \in Tids : status[t] \in {"free", "zombie", "execing"} => tgid[t] = t
    /\ \A t \in Tids \ {InitTask} : tgid[t] # InitTask
    /\ \A s, t \in Tids : Used(s) /\ Used(t) /\ tgid[s] = tgid[t] => parent[s] = parent[t]

\* Parents have their place in the tree, and the creator of a task that is
\* being forked is its parent or of the same process.
Parents ==
    /\ \A t \in Tids : \/ parent[t] = InitTask
                       \/ status[parent[t]] \in {"newborn", "hooking", "live", "execing", "exiting"}
    /\ \A c \in Tids : by[c] \in Tids => parent[c] = by[c] \/ tgid[c] = tgid[by[c]]

Clock ==
    /\ now >= FirstTick /\ \A t \in Tids : start[t] <= now
    /\ ~Wrap => \A t \in Tids : t > last => status[t] = "free"

KinType == kin \in [Workloads -> SUBSET Tids] /\ churn \in BOOLEAN /\ crossed \in SUBSET Tids

\* Kin are running tasks other than init, together with their children and
\* the other tasks of their process.
Kinship ==
    \A w \in Workloads :
        /\ \A t \in kin[w] : Used(t) /\ t # InitTask
        /\ \A t \in Tids : Used(t) /\ parent[t] \in kin[w] => t \in kin[w]
        /\ \A s, t \in Tids : Used(t) /\ s \in kin[w] /\ tgid[s] = tgid[t] => t \in kin[w]

\* Whoever has the requested pid number is kin, or started so much later than
\* the process the client saw that the pass tells them apart.
RootKin ==
    cmd.op = "tree" =>
        /\ cmd.root # InitTask /\ cmd.st <= start[cmd.root]
        /\ Wrap \/ cmd.root <= last \/ cmd.st = 0
        /\ \A a \in Tids : Used(a) /\ tgid[a] = cmd.root
              => a \in kin[cmd.wl] \/ start[a] > cmd.st + 1

\* What a context of the task may name: a workload it is kin for, or, if there
\* is one, the zeros of storage that was not filled.
Owns(t, id) == \E w \in Workloads : t \in kin[w] /\ id \in {w, ZeroWl}

GotKin == \A c \in Tids : got[c] # NoWl => Owns(c, got[c])

\* The task whose storage the pass holds.
MarkKin == mark.task # 0 => mark.task \in kin[cmd.wl]

TreeShape == Groups /\ Parents /\ Clock

KinInv == HInv /\ RemovedOK /\ TreeShape /\ KinType /\ Kinship /\ RootKin /\ GotKin /\ MarkKin /\ OnlyKin

\* Descent is closed under children.
LEMMA DescentClosed ==
    ASSUME NEW root, NEW u \in Tids, tgid[u] = root \/ parent[u] \in Descent(root)
    PROVE  u \in Descent(root)
<1> SUFFICES ASSUME NEW S \in SUBSET Tids,
                    \A v \in Tids : tgid[v] = root \/ parent[v] \in S => v \in S
             PROVE  u \in S
  BY DEF Descent
<1>1. Descent(root) \subseteq S
  BY DEF Descent
<1> QED BY <1>1

\* It lies within every closed set.
LEMMA DescentLeast ==
    ASSUME NEW root, NEW S \in SUBSET Tids,
           \A v \in Tids : tgid[v] = root \/ parent[v] \in S => v \in S
    PROVE  Descent(root) \subseteq S
  BY DEF Descent

\* A member is of the process or has its parent in the set.
LEMMA DescentBack ==
    ASSUME NEW root, NEW u \in Descent(root)
    PROVE  u \in Tids /\ (tgid[u] = root \/ parent[u] \in Descent(root))
<1> DEFINE S == {v \in Descent(root) : tgid[v] = root \/ parent[v] \in Descent(root)}
<1>1. Descent(root) \subseteq Tids
  BY DEF Descent
<1>2. \A v \in Tids : tgid[v] = root \/ parent[v] \in S => v \in S
  BY DescentClosed
<1>3. S \in SUBSET Tids
  BY <1>1
<1>4. Descent(root) \subseteq S
  <2> HIDE DEF S
  <2> QED BY <1>2, <1>3, DescentLeast
<1>5. u \in S
  <2> HIDE DEF S
  <2> QED BY <1>4
<1> QED BY <1>1, <1>5

\* What the family of an agent is: its process, everybody below, whole
\* processes, and never init.
LEMMA FamilyShape ==
    ASSUME Groups, NEW root \in Tids \ {InitTask}
    PROVE  /\ \A t \in Family(root) : t \in Tids /\ Used(t) /\ t # InitTask
           /\ \A t \in Tids : Used(t) /\ tgid[t] = root => t \in Family(root)
           /\ \A t \in Tids : Used(t) /\ parent[t] \in Family(root) => t \in Family(root)
           /\ \A s, t \in Tids : Used(t) /\ s \in Family(root) /\ tgid[s] = tgid[t]
                 => t \in Family(root)
<1>1. Descent(root) \subseteq Tids
  BY DEF Descent
<1>2. InitTask \notin Descent(root)
  <2> DEFINE S == Tids \ {InitTask}
  <2>1. \A v \in Tids : tgid[v] = root \/ parent[v] \in S => v \in S
    BY DEF Groups
  <2>2. S \in SUBSET Tids
    OBVIOUS
  <2>3. Descent(root) \subseteq S
    <3> HIDE DEF S
    <3> QED BY <2>1, <2>2, DescentLeast
  <2> QED BY <2>3
<1>3. ASSUME NEW s \in Tids, NEW t \in Tids, Used(t), s \in Family(root), tgid[s] = tgid[t]
      PROVE  t \in Family(root)
  <2>1. s \in Descent(root) /\ Used(s)
    BY <1>3 DEF Family
  <2>2. parent[s] = parent[t]
    BY <1>3, <2>1 DEF Groups
  <2>3. tgid[t] = root \/ parent[t] \in Descent(root)
    BY <1>3, <2>1, <2>2, DescentBack
  <2> QED BY <1>3, <2>3, DescentClosed DEF Family
<1>4. \A t \in Tids : Used(t) /\ tgid[t] = root => t \in Family(root)
  BY DescentClosed DEF Family
<1>5. \A t \in Tids : Used(t) /\ parent[t] \in Family(root) => t \in Family(root)
  BY DescentClosed DEF Family
<1> QED BY <1>1, <1>2, <1>3, <1>4, <1>5 DEF Family

\* The initial states have that shape.
LEMMA ShapeInit == Init => TreeShape
<1> SUFFICES ASSUME Init PROVE TreeShape
  OBVIOUS
<1>1. PICK agent \in Tids \ {InitTask} :
         /\ agent = 2 \/ Wrap
         /\ status = [t \in Tids |-> IF t \in {InitTask, agent} THEN "live" ELSE "free"]
         /\ tgid = [t \in Tids |-> t]
         /\ parent = [t \in Tids |-> InitTask]
         /\ start = [t \in Tids |-> IF t = agent THEN FirstTick ELSE 0]
         /\ by = [t \in Tids |-> 0]
         /\ last = 2
         /\ now = FirstTick
  BY DEF Init
<1>2. Groups
  BY <1>1, InitIsTask DEF Groups, Used
<1>3. Parents
  BY <1>1, InitIsTask DEF Parents
<1>4. Clock
  BY <1>1, InitIsTask DEF Clock, FirstTick, Tids, InitTask
<1> QED BY <1>2, <1>3, <1>4 DEF TreeShape

\* The kernel and the hooks keep it.
LEMMA ShapeWorld ==
    ASSUME Inv, CreatorInv, TreeShape, KernelStep \/ HookStep
    PROVE  TreeShape'
<1> USE DEF TreeShape, taskVars
<1> USE InitIsTask
<1>a. /\ status \in [Tids -> Status] /\ tgid \in [Tids -> Tids] /\ parent \in [Tids -> Tids]
      /\ start \in [Tids -> 0 .. MaxTick] /\ by \in [Tids -> Tids \cup {0}]
      /\ now \in Nat /\ last \in Nat /\ Tids \subseteq Nat
      /\ \A c \in Tids : by[c] \in Tids <=> status[c] \in {"newborn", "hooking"}
      /\ \A c \in Tids : by[c] \in Tids => status[by[c]] = "live"
  <2>1. /\ status \in [Tids -> Status] /\ tgid \in [Tids -> Tids] /\ parent \in [Tids -> Tids]
        /\ start \in [Tids -> 0 .. MaxTick] /\ by \in [Tids -> Tids \cup {0}]
    BY DEF Inv, StateOK
  <2>2. now \in Nat /\ last \in Nat /\ Tids \subseteq Nat
    BY DEF Inv, StateOK, Tids
  <2> QED  BY <2>1, <2>2 DEF Inv, ForkInv, CreatorInv
<1>1. CASE Tick
  <2>1. UNCHANGED <<status, tgid, parent, start, by, last>> /\ now' = now + 1
    BY <1>1 DEF Tick
  <2>2. Groups' /\ Parents'
    BY <2>1 DEF Groups, Parents, Used
  <2>3. \A t \in Tids : start[t] \in Nat
    BY <1>a, MaxTickAssumption
  <2>4. Clock'
    BY <1>a, <2>1, <2>3 DEF Clock, FirstTick
  <2> QED BY <2>2, <2>4
<1>2. ASSUME NEW p \in Tids, NEW c \in Tids, NEW g \in Tids, NEW r \in Tids, ForkAttach(p, c, g, r),
             (g = c /\ r = p) \/ (g = tgid[p] /\ r = parent[p])
      PROVE  TreeShape'
  <2>1. /\ status[p] = "live" /\ p # InitTask /\ status[c] = "free" /\ c # p /\ c # InitTask
        /\ status' = [status EXCEPT ![c] = "newborn"]
        /\ tgid' = [tgid EXCEPT ![c] = g] /\ parent' = [parent EXCEPT ![c] = r]
        /\ start' = [start EXCEPT ![c] = now] /\ by' = [by EXCEPT ![c] = p] /\ now' = now
        /\ last' = IF Wrap THEN last ELSE c
        /\ ~Wrap => c = last + 1
    BY <1>2 DEF ForkAttach, MayAllocate, Running, Groups
  <2>2. \A t \in Tids : Used(t) => tgid[t] # c
    BY <2>1 DEF Groups, Used
  <2>3. Used(p) /\ Used(tgid[p]) /\ tgid[p] # c
    BY <2>1, <2>2 DEF Groups, Used
  <2>4. /\ status'[InitTask] = "live" /\ parent'[InitTask] = InitTask /\ tgid'[InitTask] = InitTask
        /\ \A t \in Tids : status'[t] # "free" => status'[tgid'[t]] # "free" /\ tgid'[tgid'[t]] = tgid'[t]
    BY <1>a, <2>1, <2>2, <2>3, <1>2 DEF Groups, Used
  <2>5. \A t \in Tids : status'[t] \in {"free", "zombie", "execing"} => tgid'[t] = t
    BY <1>a, <2>1 DEF Groups
  <2>6. \A t \in Tids \ {InitTask} : tgid'[t] # InitTask
    BY <1>a, <2>1, <1>2 DEF Groups
  <2>7. ASSUME NEW s \in Tids, NEW t \in Tids, status'[s] # "free", status'[t] # "free", tgid'[s] = tgid'[t]
        PROVE  parent'[s] = parent'[t]
    <3>1. \A u \in Tids : u # c => tgid'[u] = tgid[u] /\ parent'[u] = parent[u] /\ status'[u] = status[u]
      BY <1>a, <2>1
    <3>2. tgid'[c] = g /\ parent'[c] = r
      BY <1>a, <2>1
    <3>3. CASE g = c /\ r = p
      BY <2>2, <2>7, <3>1, <3>2, <3>3 DEF Groups, Used
    <3>4. CASE g = tgid[p] /\ r = parent[p]
      BY <2>3, <2>7, <3>1, <3>2, <3>4 DEF Groups, Used
    <3> QED BY <1>2, <3>3, <3>4
  <2>8. \A t \in Tids : \/ parent'[t] = InitTask
                        \/ status'[parent'[t]] \in {"newborn", "hooking", "live", "execing", "exiting"}
    BY <1>a, <2>1, <1>2 DEF Parents
  <2>9. \A d \in Tids : by'[d] \in Tids => parent'[d] = by'[d] \/ tgid'[d] = tgid'[by'[d]]
    BY <1>a, <2>1, <1>2 DEF Parents
  <2>10. Clock'
    BY <1>a, <2>1 DEF Clock
  <2> QED BY <2>4, <2>5, <2>6, <2>7, <2>8, <2>9, <2>10 DEF Groups, Parents, Used
<1>3. ASSUME NEW p \in Tids, ExecSwap(p)
      PROVE  TreeShape'
  <2> PICK l \in Tids : l = tgid[p]
    BY <1>a
  <2>1. /\ status[p] = "live" /\ p # l /\ status[l] = "zombie" /\ \A c \in Tids : by[c] # p
        /\ \A t \in Tids : Used(t) /\ tgid[t] = l => t \in {p, l}
        /\ status' = [status EXCEPT ![l] = "execing", ![p] = "free"]
        /\ tgid' = [tgid EXCEPT ![p] = p]
        /\ parent' = [t \in Tids |-> IF t = p THEN InitTask
                                     ELSE IF parent[t] = p THEN l ELSE parent[t]]
        /\ UNCHANGED <<start, by, last, now>>
    BY <1>3 DEF ExecSwap, Running, Forking, Group
  <2>2. tgid[l] = l /\ p # InitTask /\ l # InitTask
    BY <2>1, <1>a DEF Groups
  <2>3. \A t \in Tids : Used(t) => tgid[t] # p
    BY <2>1, <1>a DEF Groups
  <2>4. /\ status'[InitTask] = "live" /\ parent'[InitTask] = InitTask /\ tgid'[InitTask] = InitTask
        /\ \A t \in Tids : status'[t] # "free" => status'[tgid'[t]] # "free" /\ tgid'[tgid'[t]] = tgid'[t]
    BY <1>a, <2>1, <2>2, <2>3, ZenonT(30) DEF Groups, Used
  <2>5. \A t \in Tids : status'[t] \in {"free", "zombie", "execing"} => tgid'[t] = t
    BY <1>a, <2>1, <2>2 DEF Groups
  <2>6. \A t \in Tids \ {InitTask} : tgid'[t] # InitTask
    BY <1>a, <2>1, <2>2 DEF Groups
  <2>7. \A s, t \in Tids : status'[s] # "free" /\ status'[t] # "free" /\ tgid'[s] = tgid'[t]
           => parent'[s] = parent'[t]
    BY <1>a, <2>1, <2>2 DEF Groups, Used
  <2>8. \A t \in Tids : \/ parent'[t] = InitTask
                        \/ status'[parent'[t]] \in {"newborn", "hooking", "live", "execing", "exiting"}
    BY <1>a, <2>1, <2>2 DEF Parents
  <2>9. \A d \in Tids : by'[d] \in Tids => parent'[d] = by'[d] \/ tgid'[d] = tgid'[by'[d]]
    BY <1>a, <2>1, <2>2 DEF Parents
  <2>10. Clock'
    BY <1>a, <2>1 DEF Clock
  <2> QED BY <2>4, <2>5, <2>6, <2>7, <2>8, <2>9, <2>10 DEF Groups, Parents, Used
<1>4. ASSUME NEW t \in Tids, ExitNotify(t)
      PROVE  TreeShape'
  <2>1. PICK h \in Tids :
          /\ h = InitTask \/ status[h] \in {"newborn", "hooking", "live"}
          /\ parent' = [s \in Tids |-> IF parent[s] = t THEN h
                                       ELSE IF s = t /\ t # tgid[t] THEN InitTask ELSE parent[s]]
    BY <1>4, <1>a DEF ExitNotify, Group
  <2>2. /\ status[t] = "exiting" /\ t # InitTask /\ h # t /\ UNCHANGED <<start, by, last, now>>
        /\ \/ t = tgid[t] /\ status' = [status EXCEPT ![t] = "zombie"] /\ tgid' = tgid
           \/ t # tgid[t] /\ status' = [status EXCEPT ![t] = "free"] /\ tgid' = [tgid EXCEPT ![t] = t]
    BY <1>4, <2>1 DEF ExitNotify, Groups
  <2>3. t # tgid[t] => \A s \in Tids : Used(s) => tgid[s] # t
    BY <1>a DEF Groups
  <2>4. /\ status'[InitTask] = "live" /\ tgid'[InitTask] = InitTask
        /\ \A s \in Tids : status'[s] # "free" => status'[tgid'[s]] # "free" /\ tgid'[tgid'[s]] = tgid'[s]
    <3>1. CASE t = tgid[t]
      <4>1. /\ \A s \in Tids : status'[s] # "free" <=> status[s] # "free"
            /\ tgid' = tgid /\ status'[InitTask] = status[InitTask]
        BY <1>a, <2>2, <3>1
      <4> QED BY <1>a, <4>1 DEF Groups, Used
    <3>2. CASE t # tgid[t]
      <4>1. /\ \A s \in Tids : s # t => status'[s] = status[s] /\ tgid'[s] = tgid[s]
            /\ status'[t] = "free"
        BY <1>a, <2>2, <3>2
      <4>2. status'[InitTask] = "live" /\ tgid'[InitTask] = InitTask
        BY <2>2, <4>1 DEF Groups
      <4>3. ASSUME NEW s \in Tids, status'[s] # "free"
            PROVE  status'[tgid'[s]] # "free" /\ tgid'[tgid'[s]] = tgid'[s]
        <5>1. s # t /\ Used(s) /\ tgid'[s] = tgid[s] /\ tgid[s] # t /\ tgid[s] \in Tids
          BY <1>a, <2>3, <3>2, <4>1, <4>3 DEF Used
        <5>2. status'[tgid[s]] = status[tgid[s]] /\ tgid'[tgid[s]] = tgid[tgid[s]]
          BY <4>1, <5>1
        <5> QED BY <5>1, <5>2 DEF Groups, Used
      <4> QED BY <4>2, <4>3
    <3> QED BY <3>1, <3>2
  <2>5. /\ \A s \in Tids : status'[s] \in {"free", "zombie", "execing"} => tgid'[s] = s
        /\ parent'[InitTask] = InitTask
    BY <1>a, <2>1, <2>2 DEF Groups
  <2>6. \A s \in Tids \ {InitTask} : tgid'[s] # InitTask
    BY <1>a, <2>2 DEF Groups
  <2>7. \A r, s \in Tids : status'[r] # "free" /\ status'[s] # "free" /\ tgid'[r] = tgid'[s]
           => parent'[r] = parent'[s]
    <3>1. CASE t = tgid[t]
      BY <1>a, <2>1, <2>2, <3>1 DEF Groups, Used
    <3>2. CASE t # tgid[t]
      BY <1>a, <2>1, <2>2, <3>2 DEF Groups, Used
    <3> QED BY <3>1, <3>2
  <2>8. \A s \in Tids : \/ parent'[s] = InitTask
                        \/ status'[parent'[s]] \in {"newborn", "hooking", "live", "execing", "exiting"}
    <3> SUFFICES ASSUME NEW s \in Tids, parent'[s] # InitTask
                 PROVE  status'[parent'[s]] \in {"newborn", "hooking", "live", "execing", "exiting"}
      OBVIOUS
    <3>1. \A u \in Tids : u # t => status'[u] = status[u]
      BY <1>a, <2>2
    <3>2. CASE parent[s] = t
      BY <2>1, <2>2, <3>1, <3>2
    <3>3. CASE parent[s] # t
      <4>1. parent'[s] = parent[s] /\ parent[s] \in Tids
        BY <1>a, <2>1, <3>3
      <4> QED BY <3>1, <3>3, <4>1 DEF Parents
    <3> QED BY <3>2, <3>3
  <2>9. \A d \in Tids : by'[d] \in Tids => parent'[d] = by'[d] \/ tgid'[d] = tgid'[by'[d]]
    <3> SUFFICES ASSUME NEW d \in Tids, by[d] \in Tids
                 PROVE  parent'[d] = by[d] \/ tgid'[d] = tgid'[by[d]]
      BY <2>2
    <3>1. by[d] # t /\ d # t
      BY <1>a, <2>2
    <3> QED BY <1>a, <2>1, <2>2, <3>1, ZenonT(30) DEF Parents
  <2>10. Clock'
    BY <1>a, <2>2 DEF Clock
  <2> QED BY <2>4, <2>5, <2>6, <2>7, <2>8, <2>9, <2>10 DEF Groups, Parents, Used
<1>5. ASSUME NEW t \in Tids, Reap(t)
      PROVE  TreeShape'
  <2>1. /\ status[t] = "zombie" /\ t # InitTask /\ tgid[t] = t
        /\ \A s \in Tids : Used(s) /\ tgid[s] = t => s = t
        /\ status' = [status EXCEPT ![t] = "free"]
        /\ parent' = [parent EXCEPT ![t] = InitTask]
        /\ UNCHANGED <<tgid, start, by, last, now>>
    BY <1>5 DEF Reap, Group, Groups
  <2>2. Groups'
    BY <1>a, <2>1 DEF Groups, Used
  <2>3. \A d \in Tids : by'[d] \in Tids => parent'[d] = by'[d] \/ tgid'[d] = tgid'[by'[d]]
    BY <1>a, <2>1 DEF Parents
  <2>4. \A s \in Tids : \/ parent'[s] = InitTask
                        \/ status'[parent'[s]] \in {"newborn", "hooking", "live", "execing", "exiting"}
    BY <1>a, <2>1 DEF Parents
  <2>5. Clock'
    BY <1>a, <2>1 DEF Clock
  <2> QED BY <2>2, <2>3, <2>4, <2>5 DEF Parents
<1>6. ASSUME NEW c \in Tids, ForkRead(c)
      PROVE  TreeShape'
  <2>1. /\ status[c] = "newborn" /\ status' = [status EXCEPT ![c] = "hooking"]
        /\ UNCHANGED <<tgid, parent, start, by, last, now>>
    BY <1>6 DEF ForkRead
  <2> QED BY <1>a, <2>1 DEF Groups, Parents, Clock, Used
<1>7. ASSUME NEW c \in Tids, ForkCopy(c)
      PROVE  TreeShape'
  <2>1. /\ status[c] = "hooking" /\ status' = [status EXCEPT ![c] = "live"]
        /\ by' = [by EXCEPT ![c] = 0] /\ UNCHANGED <<tgid, parent, start, last, now>>
    BY <1>7 DEF ForkCopy, ForkDone
  <2> QED BY <1>a, <2>1 DEF Groups, Parents, Clock, Used
<1>8. ASSUME NEW t \in Tids, ExecHook(t)
      PROVE  TreeShape'
  BY <1>8, <1>a DEF ExecHook, Groups, Parents, Clock, Used
<1>9. ASSUME NEW t \in Tids, ExitHook(t)
      PROVE  TreeShape'
  <2>1. /\ status[t] = "live" /\ t # InitTask /\ status' = [status EXCEPT ![t] = "exiting"]
        /\ UNCHANGED <<tgid, parent, start, by, last, now>>
    BY <1>9 DEF ExitHook, Running
  <2>2. \A s \in Tids : (status'[s] = "free") <=> (status[s] = "free")
    BY <1>a, <2>1
  <2>3. Groups'
    BY <1>a, <2>1, <2>2 DEF Groups, Used
  <2>4. Parents' /\ Clock'
    BY <1>a, <2>1, <2>2 DEF Parents, Clock
  <2> QED BY <2>3, <2>4
<1>10. ASSUME NEW p \in Tids, NEW c \in Tids, ForkProcess(p, c) \/ ForkThread(p, c)
       PROVE  TreeShape'
  BY <1>2, <1>10, <1>a DEF ForkProcess, ForkThread
<1> QED BY <1>1, <1>3, <1>4, <1>5, <1>6, <1>7, <1>8, <1>9, <1>10 DEF KernelStep, HookStep

\* Where no task appears, no exec renames one and no command is sent, kin
\* lose only the tasks that disappear.
Quiet ==
    /\ cmd' = cmd
    /\ \A t \in Tids : status[t] = "free" => status'[t] = "free"
    /\ \A t \in Tids : ~(status'[t] = "execing" /\ status[t] = "zombie")

\* What kin are after such a step.
LEMMA KinKept ==
    ASSUME KinType, KinStep, Quiet, NEW w \in Workloads, NEW t \in Tids
    PROVE  t \in kin'[w] <=> t \in kin[w] /\ status'[t] # "free"
  BY DEF KinType, KinStep, Quiet

\* A fork adds the child of a member.
LEMMA KinForked ==
    ASSUME KinType, Kinship, KinStep, cmd' = cmd, status \in [Tids -> Status],
           by \in [Tids -> Tids \cup {0}],
           NEW p \in Tids, NEW c \in Tids, status[c] = "free",
           status' = [status EXCEPT ![c] = "newborn"], by' = [by EXCEPT ![c] = p],
           NEW w \in Workloads, NEW t \in Tids
    PROVE  t \in kin'[w] <=> t \in kin[w] \/ (t = c /\ p \in kin[w])
<1>1. t \in kin'[w] <=>
        /\ status'[t] # "free"
        /\ t \in kin[w] \/ (status[t] = "free" /\ by'[t] \in kin[w])
  BY DEF KinStep
<1>2. t \in kin[w] => status[t] # "free"
  BY DEF Kinship, Used
<1>3. t = c => status'[t] = "newborn" /\ by'[t] = p /\ status[t] = "free"
  OBVIOUS
<1>4. t # c => status'[t] = status[t]
  OBVIOUS
<1> QED BY <1>1, <1>2, <1>3, <1>4

\* The tree command of a client that saw the process adds its family.
LEMMA KinSent ==
    ASSUME KinType, Kinship, KinStep, status \in [Tids -> Status], UNCHANGED status, cmd' # cmd,
           NEW w \in Workloads, NEW t \in Tids
    PROVE  t \in kin'[w] <=>
              \/ t \in kin[w]
              \/ cmd'.op = "tree" /\ cmd'.wl = w /\ Used(cmd'.root) /\ t \in Family(cmd'.root)
<1>1. t \in kin'[w] <=>
        /\ status'[t] # "free"
        /\ \/ t \in kin[w]
           \/ cmd'.op = "tree" /\ cmd'.wl = w /\ Used(cmd'.root) /\ t \in Family(cmd'.root)
  BY DEF KinStep
<1>2. t \in kin[w] \/ t \in Family(cmd'.root) => status[t] # "free"
  BY DEF Kinship, Used, Family
<1> QED BY <1>1, <1>2

\* kin keeps its type.
LEMMA KinTyped ==
    ASSUME KinType, KinStep, ChurnStep, CrossStep
    PROVE  KinType'
<1>1. kin' \in [Workloads -> SUBSET Tids]
  BY DEF KinStep
<1>2. churn' \in BOOLEAN
  BY DEF ChurnStep, KinType
<1>3. crossed' \in SUBSET Tids
  BY DEF CrossStep
<1> QED BY <1>1, <1>2, <1>3 DEF KinType

\* The types the steps below need.
LEMMA KinFacts ==
    ASSUME KinInv
    PROVE  /\ status \in [Tids -> Status] /\ tgid \in [Tids -> Tids] /\ parent \in [Tids -> Tids]
           /\ start \in [Tids -> 0 .. MaxTick] /\ by \in [Tids -> Tids \cup {0}]
           /\ ctx \in [Tids -> TaskCtx \cup {NoCtx}] /\ got \in [Tids -> Ids \cup {NoWl}]
           /\ now \in Nat /\ last \in Nat /\ Tids \subseteq Nat /\ InitTask \in Tids /\ 0 \notin Tids
           /\ \A c \in Tids : by[c] \in Tids <=> status[c] \in {"newborn", "hooking"}
           /\ \A c \in Tids : by[c] \in Tids => status[by[c]] = "live"
           /\ \A t \in Tids : start[t] \in Nat
           /\ \A w \in Workloads : kin[w] \subseteq Tids
           /\ \A t \in Tids : status[t] = "free" => ctx[t] = NoCtx
           /\ \A t \in Tids : ctx[t] # NoCtx <=> ctx[t].wl # NoWl
           /\ TreeShape
           /\ cmd.op = "tree" => cmd.wl \in Workloads /\ cmd.root \in Tids /\ cmd.st \in Nat
<1>1. cmd.op = "tree" => cmd.wl \in Workloads /\ cmd.root \in Tids /\ cmd.st \in Nat
  <2>1. cmd \in Command \cup {NoCmd}
    BY DEF KinInv, HInv, Inv, StateOK
  <2>2. NoCmd.op # "tree"
    BY DEF NoCmd
  <2>3. cmd \in Command => cmd.wl \in Workloads /\ cmd.root \in Tids /\ cmd.st \in Nat
    BY MaxTickAssumption DEF Command
  <2> QED BY <2>1, <2>2, <2>3
<1>2. \A t \in Tids : ctx[t] # NoCtx <=> ctx[t].wl # NoWl
  BY NamesWl DEF KinInv, HInv, Inv, StateOK
<1>3. Tids \subseteq Nat /\ InitTask \in Tids /\ 0 \notin Tids
  BY InitIsTask DEF Tids
<1>4. /\ status \in [Tids -> Status] /\ tgid \in [Tids -> Tids] /\ parent \in [Tids -> Tids]
      /\ start \in [Tids -> 0 .. MaxTick] /\ by \in [Tids -> Tids \cup {0}]
      /\ ctx \in [Tids -> TaskCtx \cup {NoCtx}] /\ got \in [Tids -> Ids \cup {NoWl}]
      /\ now \in 0 .. MaxTick /\ last \in Tids
  BY DEF KinInv, HInv, Inv, StateOK
<1>5. \A t \in Tids : start[t] \in Nat
  BY <1>4, MaxTickAssumption
<1>6. now \in Nat /\ last \in Nat
  BY <1>3, <1>4, MaxTickAssumption
<1>7. \A w \in Workloads : kin[w] \subseteq Tids
  BY DEF KinInv, KinType
<1> QED BY <1>1, <1>2, <1>3, <1>4, <1>5, <1>6, <1>7
        DEF KinInv, HInv, Inv, ForkInv, CreatorInv, FreeInv

\* A task that is being forked is kin when its creator is: it is below it or
\* in its process.
LEMMA ChildKin ==
    ASSUME KinInv, NEW c \in Tids, by[c] \in Tids, NEW w \in Workloads, by[c] \in kin[w]
    PROVE  c \in kin[w]
<1>1. Used(c)
  BY KinFacts DEF Used
<1>2. parent[c] = by[c] \/ tgid[c] = tgid[by[c]]
  BY DEF KinInv, TreeShape, Parents
<1> QED BY <1>1, <1>2 DEF KinInv, Kinship

\* So whatever its hook finds in the creator's context the child may name.
LEMMA CreatorKin ==
    ASSUME KinInv, NEW c \in Tids, by[c] \in Tids, ctx[by[c]].wl # NoWl
    PROVE  Owns(c, ctx[by[c]].wl)
<1>1. ctx[by[c]] # NoCtx
  BY KinFacts
<1>2. PICK w \in Workloads : by[c] \in kin[w] /\ ctx[by[c]].wl \in {w, ZeroWl}
  BY <1>1 DEF KinInv, OnlyKin
<1>3. c \in kin[w]
  BY <1>2, ChildKin
<1> QED BY <1>2, <1>3 DEF Owns

\* And whatever it copies.
LEMMA CopiesKin ==
    ASSUME KinInv, NEW c \in Tids, by[c] \in Tids, got[c] # NoWl, NEW id \in Inherited(c)
    PROVE  Owns(c, id)
<1>1. CASE id = got[c]
  BY <1>1 DEF KinInv, GotKin
<1>2. CASE id = ctx[by[c]].wl /\ id # NoWl
  BY <1>2, CreatorKin
<1> QED BY <1>1, <1>2 DEF Inherited

\* Quiet steps keep kin together as long as the tree keeps its shape: a task
\* changes its parent only to init or to a task of the parent's process.
LEMMA KinshipQuiet ==
    ASSUME KinInv, KinStep, Quiet,
           \A t \in Tids : status'[t] # "free" => tgid'[t] = tgid[t] /\ status[t] # "free",
           \A t \in Tids : status'[t] # "free" =>
              \/ parent'[t] = parent[t] \/ parent'[t] = InitTask
              \/ Used(parent[t]) /\ parent[t] \in Tids /\ Used(parent'[t]) /\ tgid[parent'[t]] = tgid[parent[t]]
    PROVE  Kinship'
<1> SUFFICES ASSUME NEW w \in Workloads
             PROVE  /\ \A t \in kin'[w] : status'[t] # "free" /\ t # InitTask
                    /\ \A t \in Tids : status'[t] # "free" /\ parent'[t] \in kin'[w] => t \in kin'[w]
                    /\ \A s, t \in Tids : status'[t] # "free" /\ s \in kin'[w] /\ tgid'[s] = tgid'[t]
                          => t \in kin'[w]
  BY DEF Kinship, Used
<1>1. \A t \in Tids : t \in kin'[w] <=> t \in kin[w] /\ status'[t] # "free"
  BY KinKept DEF KinInv
<1>2. kin'[w] \subseteq Tids
  BY DEF KinStep
<1>3. /\ \A t \in kin[w] : Used(t) /\ t # InitTask
      /\ \A t \in Tids : Used(t) /\ parent[t] \in kin[w] => t \in kin[w]
      /\ \A s, t \in Tids : Used(t) /\ s \in kin[w] /\ tgid[s] = tgid[t] => t \in kin[w]
  BY DEF KinInv, Kinship
<1>4. ASSUME NEW t \in Tids, status'[t] # "free", parent'[t] \in kin'[w]
      PROVE  t \in kin[w]
  <2>1. parent'[t] \in kin[w] /\ parent'[t] # InitTask /\ Used(t) /\ parent'[t] \in Tids
    BY <1>1, <1>2, <1>3, <1>4 DEF Used
  <2>2. parent[t] \in kin[w]
    BY <1>3, <1>4, <2>1
  <2> QED BY <1>3, <2>1, <2>2
<1> QED BY <1>1, <1>2, <1>3, <1>4 DEF Used

\* They keep the rest as well, if what contexts and hooks gain is of kin.
LEMMA KinQuiet ==
    ASSUME KinInv, KinStep, Quiet, Inv', CreatorInv', UNCHANGED <<start, last>>,
           \A t \in Tids : status'[t] # "free" => tgid'[t] = tgid[t] /\ status[t] # "free",
           \A t \in Tids : status'[t] # "free" =>
              \/ parent'[t] = parent[t] \/ parent'[t] = InitTask
              \/ Used(parent[t]) /\ parent[t] \in Tids /\ Used(parent'[t]) /\ tgid[parent'[t]] = tgid[parent[t]],
           \A t \in Tids : got'[t] # NoWl => Owns(t, got'[t]),
           \A t \in Tids : ctx'[t] # NoCtx => Owns(t, ctx'[t].wl),
           mark'.task # 0 => mark'.task \in kin[cmd.wl] /\ cmd.wl \in Workloads
                             /\ mark'.task \in Tids /\ status'[mark'.task] # "free"
    PROVE  Kinship' /\ RootKin' /\ GotKin' /\ MarkKin' /\ OnlyKin'
<1>1. Kinship'
  BY KinshipQuiet
<1>2. \A w \in Workloads, t \in Tids : t \in kin'[w] <=> t \in kin[w] /\ status'[t] # "free"
  BY KinKept DEF KinInv
<1>3. RootKin'
  <2> SUFFICES ASSUME cmd.op = "tree" PROVE RootKin'
    BY DEF RootKin, Quiet
  <2>1. /\ cmd.root # InitTask /\ cmd.st <= start[cmd.root]
        /\ Wrap \/ cmd.root <= last \/ cmd.st = 0
        /\ \A a \in Tids : Used(a) /\ tgid[a] = cmd.root
              => a \in kin[cmd.wl] \/ start[a] > cmd.st + 1
    BY DEF KinInv, RootKin
  <2>2. cmd' = cmd /\ cmd.wl \in Workloads
    BY KinFacts DEF Quiet
  <2>3. \A a \in Tids : status'[a] # "free" /\ tgid'[a] = cmd.root
              => a \in kin'[cmd.wl] \/ start'[a] > cmd.st + 1
    BY <1>2, <2>1, <2>2 DEF Used
  <2> QED BY <2>1, <2>2, <2>3 DEF RootKin, Used
<1>4. ASSUME NEW t \in Tids, NEW id, Owns(t, id), status'[t] # "free"
      PROVE  \E w \in Workloads : t \in kin'[w] /\ id \in {w, ZeroWl}
  BY <1>2, <1>4 DEF Owns
<1>5. GotKin'
  <2> SUFFICES ASSUME NEW t \in Tids, got'[t] # NoWl
               PROVE  \E w \in Workloads : t \in kin'[w] /\ got'[t] \in {w, ZeroWl}
    BY DEF GotKin, Owns
  <2>1. status'[t] # "free"
    BY DEF CreatorInv
  <2> PICK id : id = got'[t]
    OBVIOUS
  <2>2. Owns(t, id)
    OBVIOUS
  <2> QED BY <1>4, <2>1, <2>2
<1>6. OnlyKin'
  <2> SUFFICES ASSUME NEW t \in Tids, ctx'[t] # NoCtx
               PROVE  \E w \in Workloads : t \in kin'[w] /\ ctx'[t].wl \in {w, ZeroWl}
    BY DEF OnlyKin
  <2>1. status'[t] # "free"
    BY DEF Inv, FreeInv
  <2> PICK id : id = ctx'[t].wl
    OBVIOUS
  <2>2. Owns(t, id)
    OBVIOUS
  <2> QED BY <1>4, <2>1, <2>2
<1>7. MarkKin'
  BY <1>2 DEF MarkKin, Quiet
<1> QED BY <1>1, <1>3, <1>5, <1>6, <1>7

\* Whoever the mark pass gives a context is of kin: its parent's context is,
\* or the walk found a task that is.
LEMMA MarkedKin ==
    ASSUME KinInv, stage = "mark", NEW t \in Tids, Used(t), ResolveAncestor(t)
    PROVE  t \in kin[cmd.wl]
<1>1. cmd.op = "tree" /\ cmd.wl \in Workloads
  BY KinFacts DEF KinInv, HInv, StageInv
<1>2. \A u \in Tids : Used(u) /\ parent[u] \in kin[cmd.wl] => u \in kin[cmd.wl]
  BY <1>1 DEF KinInv, Kinship
<1>3. CASE ctx[parent[t]].wl = cmd.wl /\ parent[t] # t
  <2>1. cmd.wl # NoWl /\ cmd.wl # ZeroWl /\ parent[t] \in Tids
    BY <1>1, WorkloadAssumption, KinFacts
  <2>2. ctx[parent[t]] # NoCtx
    BY <1>3, <2>1, KinFacts
  <2>3. parent[t] \in kin[cmd.wl]
    BY <1>3, <2>1, <2>2 DEF KinInv, OnlyKin
  <2> QED BY <1>2, <2>3
<1>4. CASE DepthBelow(t)
  <2> DEFINE up == Ancestor(t)
  <2>1. PICK d \in 0 .. MaxDepth - 1 : IsRoot(up[d])
    BY <1>4 DEF DepthBelow
  <2>2. MaxDepth \in Nat /\ d \in Nat /\ d <= MaxDepth
    BY MaxDepthAssumption
  <2>3. /\ up[0] = t
        /\ \A n \in 0 .. MaxDepth : up[n] \in Tids
        /\ \A n \in 1 .. MaxDepth : up[n] = parent[up[n - 1]]
    BY KinFacts, AncestorSteps
  <2> HIDE DEF up
  <2>4. \A n \in 0 .. MaxDepth : Used(up[n])
    <3> DEFINE Bad == {n \in 0 .. MaxDepth : ~Used(up[n])}
    <3> SUFFICES ASSUME Bad # {} PROVE FALSE
      OBVIOUS
    <3>1. PICK m \in Bad : \A n \in Bad : m <= n
      <4>1. Bad \subseteq Nat
        OBVIOUS
      <4> HIDE DEF Bad
      <4> QED BY <4>1, LeastNumber
    <3>2. m \in 1 .. MaxDepth /\ m - 1 \in 0 .. MaxDepth /\ ~(m <= m - 1)
      BY <2>2, <2>3, <3>1
    <3>3. Used(up[m - 1]) /\ up[m - 1] \in Tids /\ up[m] = parent[up[m - 1]]
      BY <2>3, <3>1, <3>2
    <3>4. up[m] = InitTask \/ status[up[m]] # "free"
      BY <3>3, KinFacts DEF TreeShape, Parents
    <3> QED BY <3>1, <3>4, KinFacts DEF Used, TreeShape, Groups
  <2>5. up[d] \in kin[cmd.wl]
    <3>1. up[d] \in Tids /\ Used(up[d]) /\ tgid[up[d]] = cmd.root /\ start[up[d]] <= cmd.st + 1
      BY <2>1, <2>2, <2>3, <2>4 DEF IsRoot
    <3>2. start[up[d]] \in Nat /\ cmd.st \in Nat
      BY <1>1, <3>1, KinFacts
    <3>3. ~(start[up[d]] > cmd.st + 1)
      BY <3>1, <3>2
    <3> QED BY <1>1, <3>1, <3>3 DEF KinInv, RootKin
  <2> DEFINE Bad == {k \in 0 .. d : up[d - k] \notin kin[cmd.wl]}
  <2>6. Bad = {}
    <3> SUFFICES ASSUME Bad # {} PROVE FALSE
      OBVIOUS
    <3>1. PICK k \in Bad : \A j \in Bad : k <= j
      <4>1. Bad \subseteq Nat
        OBVIOUS
      <4> HIDE DEF Bad
      <4> QED BY <4>1, LeastNumber
    <3>2. k \in 0 .. d /\ up[d - k] \notin kin[cmd.wl]
      OBVIOUS
    <3>3. k # 0
      BY <2>2, <2>5, <3>2
    <3>4. k - 1 \in 0 .. d /\ ~(k <= k - 1) /\ d - (k - 1) = (d - k) + 1 /\ d - k \in 0 .. MaxDepth
          /\ (d - k) + 1 \in 1 .. MaxDepth /\ ((d - k) + 1) - 1 = d - k
      BY <2>2, <3>2, <3>3
    <3>5. up[(d - k) + 1] \in kin[cmd.wl]
      BY <3>1, <3>4
    <3>6. up[(d - k) + 1] = parent[up[d - k]] /\ up[d - k] \in Tids /\ Used(up[d - k])
      BY <2>3, <2>4, <3>4
    <3> QED BY <1>2, <3>2, <3>5, <3>6
  <2>7. d \in 0 .. d /\ d - d = 0
    BY <2>2
  <2> QED BY <2>3, <2>6, <2>7
<1> QED BY <1>3, <1>4 DEF ResolveAncestor

\* A pass that holds the storage of a task is one of a tree command.
LEMMA MarkOf ==
    ASSUME KinInv, mark.task # 0
    PROVE  /\ stage = "mark" /\ cmd.op = "tree" /\ cmd.wl \in Workloads /\ mark.task \in Tids
           /\ mark.task \in kin[cmd.wl] /\ status[mark.task] # "free"
<1>1. mark \in Marking \cup {NoMark} /\ NoMark.task = 0
  BY DEF KinInv, HInv, Inv, StateOK, NoMark
<1>2. mark # NoMark /\ mark.task \in Tids
  BY <1>1 DEF Marking
<1>3. stage = "mark"
  BY <1>2 DEF KinInv, HInv, Inv, StateOK
<1>4. cmd.op = "tree"
  BY <1>3 DEF KinInv, HInv, StageInv
<1>5. cmd.wl \in Workloads
  BY <1>4, KinFacts
<1> QED BY <1>2, <1>3, <1>4, <1>5 DEF KinInv, MarkKin, Kinship, Used

KinRest == Kinship /\ RootKin /\ GotKin /\ MarkKin /\ OnlyKin

\* A fork: the child is kin when its creator is, and nobody can fork a
\* process the pass takes for the requested one.
LEMMA KinFork ==
    ASSUME KinInv, KinStep, TreeShape', NEW p \in Tids, NEW c \in Tids, NEW g \in Tids, NEW r \in Tids,
           ForkAttach(p, c, g, r), (g = c /\ r = p) \/ (g = tgid[p] /\ r = parent[p])
    PROVE  KinRest'
<1>1. /\ status[p] = "live" /\ p # InitTask /\ status[c] = "free" /\ c # p /\ c # InitTask
      /\ status' = [status EXCEPT ![c] = "newborn"]
      /\ tgid' = [tgid EXCEPT ![c] = g] /\ parent' = [parent EXCEPT ![c] = r]
      /\ start' = [start EXCEPT ![c] = now] /\ by' = [by EXCEPT ![c] = p]
      /\ last' = IF Wrap THEN last ELSE c
      /\ IF Wrap THEN start[c] + 1 < now ELSE c = last + 1
      /\ UNCHANGED <<ctx, got, now, cmd, mark>>
  BY KinFacts DEF ForkAttach, MayAllocate, Running, TreeShape, Groups, ctxVars, daemonVars
<1>2. /\ status \in [Tids -> Status] /\ tgid \in [Tids -> Tids] /\ parent \in [Tids -> Tids]
      /\ start \in [Tids -> 0 .. MaxTick] /\ by \in [Tids -> Tids \cup {0}]
  BY KinFacts
<1>3. /\ \A t \in Tids : t # c => /\ status'[t] = status[t] /\ tgid'[t] = tgid[t]
                                  /\ parent'[t] = parent[t] /\ start'[t] = start[t]
      /\ status'[c] # "free" /\ tgid'[c] = g /\ parent'[c] = r /\ start'[c] = now
  BY <1>1, <1>2
<1>4. \A w \in Workloads, t \in Tids : t \in kin'[w] <=> t \in kin[w] \/ (t = c /\ p \in kin[w])
  BY <1>1, <1>2, KinForked DEF KinInv
<1>5. \A w \in Workloads : kin'[w] \subseteq Tids
  BY DEF KinStep
<1>6. \A t \in Tids : Used(t) => tgid[t] # c /\ parent[t] # c
  <2>1. \A t \in Tids : Used(t) => tgid[t] # c
    BY <1>1, KinFacts DEF Used, TreeShape, Groups
  <2>2. \A t \in Tids : parent[t] # c
    BY <1>1, KinFacts DEF TreeShape, Parents
  <2> QED BY <2>1, <2>2
<1>7. Kinship'
  <2> SUFFICES ASSUME NEW w \in Workloads
               PROVE  /\ \A t \in kin'[w] : status'[t] # "free" /\ t # InitTask
                      /\ \A t \in Tids : status'[t] # "free" /\ parent'[t] \in kin'[w] => t \in kin'[w]
                      /\ \A s, t \in Tids : status'[t] # "free" /\ s \in kin'[w] /\ tgid'[s] = tgid'[t]
                            => t \in kin'[w]
    BY DEF Kinship, Used
  <2>1. /\ \A t \in kin[w] : Used(t) /\ t # InitTask
        /\ \A t \in Tids : Used(t) /\ parent[t] \in kin[w] => t \in kin[w]
        /\ \A s, t \in Tids : Used(t) /\ s \in kin[w] /\ tgid[s] = tgid[t] => t \in kin[w]
        /\ kin[w] \subseteq Tids
    BY KinFacts DEF KinInv, Kinship
  <2>2. Used(p) /\ c \notin kin[w]
    BY <1>1, <2>1 DEF Used
  <2>3. \A t \in kin'[w] : status'[t] # "free" /\ t # InitTask
    BY <1>1, <1>3, <1>4, <1>5, <2>1 DEF Used
  <2>4. ASSUME NEW t \in Tids, status'[t] # "free", parent'[t] \in kin'[w]
        PROVE  t \in kin'[w]
    <3>1. CASE t = c
      <4>1. r # c
        BY <1>1, <1>6, <2>2
      <4>2. r \in kin[w]
        BY <1>3, <1>4, <2>4, <3>1, <4>1
      <4>3. p \in kin[w]
        BY <2>1, <2>2, <4>2
      <4> QED BY <1>4, <3>1, <4>3
    <3>2. CASE t # c
      BY <1>2, <1>3, <1>4, <1>6, <2>1, <2>4, <3>2 DEF Used
    <3> QED BY <3>1, <3>2
  <2>5. ASSUME NEW s \in Tids, NEW t \in Tids, status'[t] # "free", s \in kin'[w], tgid'[s] = tgid'[t]
        PROVE  t \in kin'[w]
    <3>1. CASE s # c /\ t # c
      BY <1>3, <1>4, <2>1, <2>5, <3>1 DEF Used
    <3>2. CASE s = c /\ t # c
      <4>1. p \in kin[w] /\ g = tgid[t] /\ Used(t)
        BY <1>3, <1>4, <2>2, <2>5, <3>2 DEF Used
      <4>2. g = tgid[p]
        BY <1>6, <4>1
      <4> QED BY <1>4, <2>1, <4>1, <4>2
    <3>3. CASE s # c /\ t = c
      <4>1. s \in kin[w] /\ g = tgid[s] /\ Used(s)
        BY <1>3, <1>4, <2>1, <2>5, <3>3
      <4>2. g = tgid[p]
        BY <1>6, <4>1
      <4>3. p \in kin[w]
        BY <2>1, <2>2, <4>1, <4>2
      <4> QED BY <1>4, <3>3, <4>3
    <3>4. CASE s = c /\ t = c
      BY <2>5, <3>4
    <3> QED BY <3>1, <3>2, <3>3, <3>4
  <2> QED BY <2>3, <2>4, <2>5
<1>8. RootKin'
  <2> SUFFICES ASSUME cmd.op = "tree" PROVE RootKin'
    BY <1>1 DEF RootKin
  <2>1. /\ cmd.root # InitTask /\ cmd.st <= start[cmd.root]
        /\ Wrap \/ cmd.root <= last \/ cmd.st = 0
        /\ \A a \in Tids : Used(a) /\ tgid[a] = cmd.root
              => a \in kin[cmd.wl] \/ start[a] > cmd.st + 1
    BY DEF KinInv, RootKin
  <2>2. /\ cmd.wl \in Workloads /\ cmd.root \in Tids /\ cmd.st \in Nat /\ now \in Nat /\ last \in Nat
        /\ c \in Nat /\ cmd.root \in Nat /\ \A t \in Tids : start[t] \in Nat
    BY KinFacts
  <2>3. start[p] <= now /\ start[c] <= now /\ now >= FirstTick /\ (cmd.root = c => start[cmd.root] <= now)
    BY KinFacts DEF TreeShape, Clock
  <2>4. cmd.root = c => now > cmd.st + 1
    <3>1. CASE Wrap
      BY <1>1, <2>1, <2>2, <3>1
    <3>2. CASE ~Wrap
      BY <1>1, <2>1, <2>2, <2>3, <3>2 DEF FirstTick
    <3> QED BY <3>1, <3>2
  <2>5. cmd.st <= start'[cmd.root]
    BY <1>3, <2>1, <2>2, <2>3, <2>4
  <2>6. Wrap \/ cmd.root <= last' \/ cmd.st = 0
    BY <1>1, <2>1, <2>2
  <2>7. ASSUME NEW a \in Tids, status'[a] # "free", tgid'[a] = cmd.root
        PROVE  a \in kin'[cmd.wl] \/ start'[a] > cmd.st + 1
    <3>1. CASE a # c
      BY <1>3, <1>4, <2>1, <2>2, <2>7, <3>1 DEF Used
    <3>2. CASE a = c /\ g = c
      BY <1>3, <2>4, <2>7, <3>2
    <3>3. CASE a = c /\ g = tgid[p]
      <4>1. Used(p) /\ tgid[p] = cmd.root
        BY <1>1, <1>3, <2>7, <3>3 DEF Used
      <4>2. p \in kin[cmd.wl] \/ start[p] > cmd.st + 1
        BY <2>1, <4>1
      <4>3. p \in kin[cmd.wl] => a \in kin'[cmd.wl]
        BY <1>4, <2>2, <3>3
      <4>4. start[p] > cmd.st + 1 => now > cmd.st + 1
        BY <2>2, <2>3
      <4> QED BY <1>3, <3>3, <4>2, <4>3, <4>4
    <3> QED BY <3>1, <3>2, <3>3
  <2> QED BY <1>1, <2>1, <2>5, <2>6, <2>7 DEF RootKin, Used
<1>9. GotKin' /\ OnlyKin'
  BY <1>1, <1>4 DEF KinInv, GotKin, OnlyKin, Owns
<1>10. MarkKin'
  <2>1. mark.task # 0 => cmd.wl \in Workloads /\ mark.task \in Tids
    BY MarkOf
  <2> QED BY <1>1, <1>4, <2>1 DEF KinInv, MarkKin
<1> QED BY <1>7, <1>8, <1>9, <1>10 DEF KinRest

\* An exec that renames a task: the leader's number was kin with the process.
LEMMA KinExec ==
    ASSUME KinInv, KinStep, Inv', NEW p \in Tids, ExecSwap(p)
    PROVE  KinRest'
<1> PICK l \in Tids : l = tgid[p]
  BY KinFacts
<1>1. /\ status[p] = "live" /\ p # l /\ status[l] = "zombie"
      /\ \A t \in Tids : Used(t) /\ tgid[t] = l => t \in {p, l}
      /\ status' = [status EXCEPT ![l] = "execing", ![p] = "free"]
      /\ tgid' = [tgid EXCEPT ![p] = p]
      /\ parent' = [t \in Tids |-> IF t = p THEN InitTask
                                   ELSE IF parent[t] = p THEN l ELSE parent[t]]
      /\ ctx' = [ctx EXCEPT ![l] = ctx[p], ![p] = NoCtx]
      /\ UNCHANGED <<start, last, got, cmd>>
  BY DEF ExecSwap, Running, Group, daemonVars
<1>2. /\ status \in [Tids -> Status] /\ tgid \in [Tids -> Tids] /\ parent \in [Tids -> Tids]
      /\ ctx \in [Tids -> TaskCtx \cup {NoCtx}]
  BY KinFacts
<1>3. /\ \A t \in Tids : t # p => tgid'[t] = tgid[t] /\ (Used(t)' <=> Used(t))
      /\ status'[p] = "free" /\ tgid[l] = l /\ Used(l) /\ Used(p)
      /\ \A t \in Tids \ {p, l} : status'[t] = status[t] /\ ctx'[t] = ctx[t]
      /\ ctx'[l] = ctx[p] /\ ctx'[p] = NoCtx
  BY <1>1, <1>2, KinFacts DEF Used, TreeShape, Groups
<1>4. \A w \in Workloads : l \in kin[w] <=> p \in kin[w]
  BY <1>3 DEF KinInv, Kinship
<1>5. \A w \in Workloads, t \in Tids : t \in kin'[w] <=> t \in kin[w] /\ t # p
  <2> SUFFICES ASSUME NEW w \in Workloads, NEW t \in Tids
               PROVE  t \in kin'[w] <=> t \in kin[w] /\ t # p
    OBVIOUS
  <2>1. t \in kin'[w] <=>
          /\ status'[t] # "free"
          /\ \/ t \in kin[w]
             \/ status[t] = "free" /\ by'[t] \in kin[w]
             \/ status'[t] = "execing" /\ status[t] = "zombie"
                /\ \E s \in kin[w] : status[s] = "live" /\ status'[s] = "free"
    BY <1>1 DEF KinStep
  <2>2. status'[t] = "execing" /\ status[t] = "zombie" => t = l
    BY <1>1, <1>2
  <2>3. \A s \in kin[w] : status[s] = "live" /\ status'[s] = "free" => s = p
    <3>1. kin[w] \subseteq Tids
      BY KinFacts
    <3> QED BY <1>1, <1>3, <3>1
  <2>4. t \in kin[w] /\ t # p => status'[t] # "free"
    BY <1>3 DEF KinInv, Kinship, Used
  <2>5. status[t] = "free" => status'[t] = "free"
    BY <1>1, <1>2
  <2> QED BY <1>3, <1>4, <2>1, <2>2, <2>3, <2>4, <2>5
<1>6. \A w \in Workloads : kin'[w] \subseteq Tids
  BY DEF KinStep
<1>7. Kinship'
  <2> SUFFICES ASSUME NEW w \in Workloads
               PROVE  /\ \A t \in kin'[w] : Used(t)' /\ t # InitTask
                      /\ \A t \in Tids : Used(t)' /\ parent'[t] \in kin'[w] => t \in kin'[w]
                      /\ \A s, t \in Tids : Used(t)' /\ s \in kin'[w] /\ tgid'[s] = tgid'[t]
                            => t \in kin'[w]
    BY DEF Kinship
  <2>1. /\ \A t \in kin[w] : Used(t) /\ t # InitTask
        /\ \A t \in Tids : Used(t) /\ parent[t] \in kin[w] => t \in kin[w]
        /\ \A s, t \in Tids : Used(t) /\ s \in kin[w] /\ tgid[s] = tgid[t] => t \in kin[w]
    BY DEF KinInv, Kinship
  <2>2. \A t \in kin'[w] : Used(t)' /\ t # InitTask
    BY <1>3, <1>5, <1>6, <2>1
  <2>3. \A t \in Tids : Used(t)' => t # p /\ Used(t)
    BY <1>3 DEF Used
  <2>4. ASSUME NEW t \in Tids, Used(t)', parent'[t] \in kin'[w] PROVE t \in kin'[w]
    <3>1. parent[t] \in kin[w]
      <4>1. CASE parent[t] = p
        BY <1>1, <1>4, <1>5, <2>3, <2>4, <4>1
      <4>2. CASE parent[t] # p
        BY <1>1, <1>2, <1>5, <2>3, <2>4, <4>2
      <4> QED BY <4>1, <4>2
    <3> QED BY <1>5, <2>1, <2>3, <2>4, <3>1
  <2>5. ASSUME NEW s \in Tids, NEW t \in Tids, Used(t)', s \in kin'[w], tgid'[s] = tgid'[t]
        PROVE  t \in kin'[w]
    BY <1>3, <1>5, <2>1, <2>3, <2>5
  <2> QED BY <2>2, <2>4, <2>5
<1>8. RootKin'
  <2> SUFFICES ASSUME cmd.op = "tree" PROVE RootKin'
    BY <1>1 DEF RootKin
  <2>1. /\ cmd.root # InitTask /\ cmd.st <= start[cmd.root]
        /\ Wrap \/ cmd.root <= last \/ cmd.st = 0
        /\ \A a \in Tids : Used(a) /\ tgid[a] = cmd.root
              => a \in kin[cmd.wl] \/ start[a] > cmd.st + 1
        /\ cmd.wl \in Workloads
    BY KinFacts DEF KinInv, RootKin
  <2>2. \A a \in Tids : Used(a)' /\ tgid'[a] = cmd.root
           => a \in kin'[cmd.wl] \/ start[a] > cmd.st + 1
    BY <1>3, <1>5, <2>1 DEF Used
  <2> QED BY <1>1, <2>1, <2>2 DEF RootKin
<1>9. GotKin'
  <2>1. got[p] = NoWl
    BY <1>1 DEF KinInv, HInv, CreatorInv
  <2> SUFFICES ASSUME NEW t \in Tids, got[t] # NoWl
               PROVE  \E w \in Workloads : t \in kin'[w] /\ got[t] \in {w, ZeroWl}
    BY <1>1 DEF GotKin, Owns
  <2>2. t # p /\ Owns(t, got[t])
    BY <2>1 DEF KinInv, GotKin
  <2> QED BY <1>5, <2>2 DEF Owns
<1>10. OnlyKin'
  <2> SUFFICES ASSUME NEW t \in Tids, ctx'[t] # NoCtx
               PROVE  \E w \in Workloads : t \in kin'[w] /\ ctx'[t].wl \in {w, ZeroWl}
    BY DEF OnlyKin
  <2>1. t # p
    BY <1>3
  <2>2. CASE t = l
    <3>1. PICK w \in Workloads : p \in kin[w] /\ ctx[p].wl \in {w, ZeroWl}
      BY <1>3, <2>2 DEF KinInv, OnlyKin
    <3> QED BY <1>3, <1>4, <1>5, <2>1, <2>2, <3>1
  <2>3. CASE t # l
    <3>1. PICK w \in Workloads : t \in kin[w] /\ ctx[t].wl \in {w, ZeroWl}
      BY <1>3, <2>1, <2>3 DEF KinInv, OnlyKin
    <3> QED BY <1>3, <1>5, <2>1, <2>3, <3>1
  <2> QED BY <2>2, <2>3
<1>11. MarkKin'
  <2> SUFFICES ASSUME mark'.task # 0 PROVE mark'.task \in kin'[cmd.wl]
    BY <1>1 DEF MarkKin
  <2>1. mark'.task = IF mark.task = l THEN 0 ELSE IF mark.task = p THEN l ELSE mark.task
    BY ExecMoves DEF KinInv, HInv
  <2>2. mark.task # 0 /\ mark.task # l
    <3>1. mark.task # l
      BY <2>1
    <3>2. p # 0
      BY KinFacts
    <3> QED BY <2>1, <3>1, <3>2
  <2>3. cmd.wl \in Workloads /\ mark.task \in kin[cmd.wl] /\ mark.task \in Tids
    BY <2>2, MarkOf
  <2> QED BY <1>1, <1>4, <1>5, <2>1, <2>2, <2>3
<1> QED BY <1>7, <1>8, <1>9, <1>10, <1>11 DEF KinRest

\* The other steps of the kernel and the hooks are quiet.
LEMMA KinWorld ==
    ASSUME KinInv, KinStep, TreeShape', Inv', CreatorInv', KernelStep \/ HookStep
    PROVE  KinRest'
<1>a. /\ status \in [Tids -> Status] /\ tgid \in [Tids -> Tids] /\ parent \in [Tids -> Tids]
      /\ start \in [Tids -> 0 .. MaxTick] /\ by \in [Tids -> Tids \cup {0}]
      /\ ctx \in [Tids -> TaskCtx \cup {NoCtx}] /\ got \in [Tids -> Ids \cup {NoWl}]
      /\ \A c \in Tids : by[c] \in Tids <=> status[c] \in {"newborn", "hooking"}
      /\ \A t \in Tids : got[t] # NoWl => Owns(t, got[t])
      /\ \A t \in Tids : ctx[t] # NoCtx => Owns(t, ctx[t].wl)
  BY KinFacts DEF KinInv, GotKin, OnlyKin, Owns
<1>m. mark.task # 0 => /\ cmd.wl \in Workloads /\ mark.task \in Tids /\ mark.task \in kin[cmd.wl]
                       /\ status[mark.task] # "free"
  BY MarkOf
<1> DEFINE Gains == /\ \A t \in Tids : got'[t] # NoWl => Owns(t, got'[t])
                    /\ \A t \in Tids : ctx'[t] # NoCtx => Owns(t, ctx'[t].wl)
                    /\ mark'.task # 0 => mark'.task = mark.task /\ status'[mark.task] # "free"
           Calm == /\ UNCHANGED <<cmd, start, last, tgid, parent>>
                   /\ \A t \in Tids : status[t] = "free" <=> status'[t] = "free"
                   /\ \A t \in Tids : status'[t] = "execing" => status[t] # "zombie"
<1>b. ASSUME Calm, Gains PROVE KinRest'
  BY <1>b, <1>m, KinQuiet DEF Quiet, KinRest
<1>1. CASE Tick
  <2>1. Calm /\ Gains
    BY <1>1, <1>a, <1>m DEF Tick, taskVars, ctxVars, daemonVars
  <2> QED BY <1>b, <2>1
<1>2. ASSUME NEW c \in Tids, ForkRead(c) PROVE KinRest'
  <2>1. /\ status[c] = "newborn" /\ by[c] \in Tids /\ status' = [status EXCEPT ![c] = "hooking"]
        /\ got' = [got EXCEPT ![c] = ctx[by[c]].wl] \/ got' = got
        /\ ctx' = ctx \/ (ctx' = [ctx EXCEPT ![c] = ZeroCtx] /\ got'[c] # NoWl)
        /\ UNCHANGED <<cmd, start, last, tgid, parent, mark>>
    BY <1>2, ForkReads DEF KinInv, HInv, daemonVars
  <2>2. Calm
    BY <1>a, <2>1
  <2>3. got'[c] # NoWl => Owns(c, got'[c])
    <3>1. CASE got' = got
      BY <1>a, <3>1
    <3>2. CASE got' = [got EXCEPT ![c] = ctx[by[c]].wl]
      <4>1. got'[c] = ctx[by[c]].wl
        BY <1>a, <3>2
      <4> QED BY <2>1, <4>1, CreatorKin
    <3> QED BY <2>1, <3>1, <3>2
  <2>4. got'[c] # NoWl => Owns(c, ZeroWl)
    BY <2>3 DEF Owns
  <2>5. /\ \A t \in Tids : t # c => got'[t] = got[t] /\ ctx'[t] = ctx[t] /\ status'[t] = status[t]
        /\ ctx'[c] = ctx[c] \/ (ctx'[c].wl = ZeroWl /\ got'[c] # NoWl)
        /\ status'[c] # "free"
    BY <1>a, <2>1, FreshContext
  <2>6. ctx'[c] # NoCtx => Owns(c, ctx'[c].wl)
    BY <1>a, <2>4, <2>5
  <2>7. \A t \in Tids : got'[t] # NoWl => Owns(t, got'[t])
    <3> TAKE t \in Tids
    <3> QED BY <1>a, <2>3, <2>5
  <2>8. \A t \in Tids : ctx'[t] # NoCtx => Owns(t, ctx'[t].wl)
    <3> TAKE t \in Tids
    <3> QED BY <1>a, <2>5, <2>6
  <2>9. Gains
    BY <1>m, <2>1, <2>5, <2>7, <2>8
  <2> QED BY <1>b, <2>2, <2>9
<1>3. ASSUME NEW c \in Tids, ForkCopy(c) PROVE KinRest'
  <2>1. /\ status[c] = "hooking" /\ by[c] \in Tids /\ got' = [got EXCEPT ![c] = NoWl]
        /\ status' = [status EXCEPT ![c] = "live"]
        /\ UNCHANGED <<cmd, start, last, tgid, parent, mark>>
        /\ \A t \in Tids : t # c => ctx'[t] = ctx[t]
        /\ ctx'[c] = ctx[c] \/ (got[c] # NoWl /\ ctx'[c].wl \in Inherited(c))
    BY <1>3, ForkCopies DEF KinInv, HInv, ForkDone, daemonVars
  <2>2. Calm
    BY <1>a, <2>1
  <2>3. ctx'[c] # NoCtx => Owns(c, ctx'[c].wl)
    <3>1. CASE ctx'[c] = ctx[c]
      BY <1>a, <3>1
    <3>2. CASE got[c] # NoWl /\ ctx'[c].wl \in Inherited(c)
      BY <2>1, <3>2, CopiesKin
    <3> QED BY <2>1, <3>1, <3>2
  <2>4. \A t \in Tids : ctx'[t] # NoCtx => Owns(t, ctx'[t].wl)
    <3> TAKE t \in Tids
    <3> QED BY <1>a, <2>1, <2>3
  <2>5. \A t \in Tids : got'[t] # NoWl => Owns(t, got'[t])
    <3> TAKE t \in Tids
    <3>1. got'[t] # NoWl => got'[t] = got[t]
      BY <1>a, <2>1
    <3> QED BY <1>a, <3>1
  <2>6. Gains
    BY <1>m, <1>a, <2>1, <2>4, <2>5
  <2> QED BY <1>b, <2>2, <2>6
<1>4. ASSUME NEW t \in Tids, ExecHook(t) PROVE KinRest'
  <2>1. /\ status[t] = "execing" /\ status' = [status EXCEPT ![t] = "live"]
        /\ UNCHANGED <<cmd, start, last, tgid, parent, got, mark>>
        /\ \A s \in Tids : s # t => ctx'[s] = ctx[s]
    BY <1>4, <1>a DEF ExecHook, daemonVars
  <2>2. ctx'[t].wl = ctx[t].wl /\ (ctx'[t] # NoCtx => ctx[t] # NoCtx)
    BY <1>4, <1>a DEF ExecHook, TaskCtx
  <2>3. Calm
    BY <1>a, <2>1
  <2>4. \A s \in Tids : ctx'[s] # NoCtx => Owns(s, ctx'[s].wl)
    <3> TAKE s \in Tids
    <3> QED BY <1>a, <2>1, <2>2
  <2>5. Gains
    BY <1>a, <1>m, <2>1, <2>4
  <2> QED BY <1>b, <2>3, <2>5
<1>5. ASSUME NEW t \in Tids, ExitHook(t) PROVE KinRest'
  <2>1. /\ status[t] = "live" /\ status' = [status EXCEPT ![t] = "exiting"]
        /\ UNCHANGED <<cmd, start, last, tgid, parent, got, mark>>
        /\ ctx' = [ctx EXCEPT ![t] = NoCtx]
    BY <1>5, <1>a DEF ExitHook, Running, daemonVars
  <2>2. Calm
    BY <1>a, <2>1
  <2>3. Gains
    BY <1>a, <1>m, <2>1
  <2> QED BY <1>b, <2>2, <2>3
<1>6. ASSUME NEW t \in Tids, ExitNotify(t) PROVE KinRest'
  <2>1. PICK h \in Tids :
          /\ h = InitTask \/ (Used(h) /\ tgid[h] = tgid[t])
          /\ parent' = [s \in Tids |-> IF parent[s] = t THEN h
                                       ELSE IF s = t /\ t # tgid[t] THEN InitTask ELSE parent[s]]
    BY <1>6, <1>a, KinFacts DEF ExitNotify, Group
  <2>2. /\ status[t] = "exiting" /\ UNCHANGED <<cmd, start, last, got>>
        /\ \A s \in Tids : s # t => status'[s] = status[s] /\ tgid'[s] = tgid[s] /\ ctx'[s] = ctx[s]
        /\ status'[t] \in {"zombie", "free"} /\ (status'[t] # "free" => tgid'[t] = tgid[t])
        /\ ctx'[t] = ctx[t] \/ ctx'[t] = NoCtx
    BY <1>6, <1>a DEF ExitNotify, daemonVars
  <2>3. Quiet
    BY <2>2 DEF Quiet
  <2>4. \A s \in Tids : status'[s] # "free" => tgid'[s] = tgid[s] /\ status[s] # "free"
    BY <2>2
  <2>5. \A s \in Tids : \/ parent'[s] = parent[s] \/ parent'[s] = InitTask
                        \/ Used(parent[s]) /\ parent[s] \in Tids /\ Used(parent'[s])
                           /\ tgid[parent'[s]] = tgid[parent[s]]
    BY <1>a, <2>1, <2>2 DEF Used
  <2>6. mark'.task # 0 => mark'.task = mark.task /\ status'[mark.task] # "free"
    <3>1. \/ status'[t] = "zombie" /\ mark' = mark
          \/ mark'.task = IF mark.task = t THEN 0 ELSE mark.task
      BY <1>6, <1>a, NotifyMoves DEF KinInv, HInv
    <3>2. CASE status'[t] = "zombie" /\ mark' = mark
      BY <1>a, <1>m, <2>2, <3>2
    <3>3. CASE mark'.task = IF mark.task = t THEN 0 ELSE mark.task
      BY <1>a, <1>m, <2>2, <3>3
    <3> QED BY <3>1, <3>2, <3>3
  <2>7. Gains
    BY <1>a, <2>2, <2>6
  <2> QED BY <1>m, <2>2, <2>3, <2>4, <2>5, <2>7, KinQuiet DEF KinRest
<1>7. ASSUME NEW t \in Tids, Reap(t) PROVE KinRest'
  <2>1. /\ status[t] = "zombie" /\ status' = [status EXCEPT ![t] = "free"]
        /\ UNCHANGED <<cmd, start, last, tgid, got>>
        /\ ctx' = [ctx EXCEPT ![t] = NoCtx] /\ parent' = [parent EXCEPT ![t] = InitTask]
    BY <1>7, <1>a DEF Reap, daemonVars
  <2>2. Quiet
    BY <1>a, <2>1 DEF Quiet
  <2>3. \A s \in Tids : status'[s] # "free" => status[s] # "free" /\ parent'[s] = parent[s]
    BY <1>a, <2>1
  <2>4. mark'.task = IF mark.task = t THEN 0 ELSE mark.task
    BY <1>7, ReapMoves DEF KinInv, HInv
  <2>5. Gains
    BY <1>a, <1>m, <2>1, <2>4
  <2> QED BY <1>m, <2>1, <2>2, <2>3, <2>5, KinQuiet DEF KinRest
<1>8. ASSUME NEW p \in Tids, NEW c \in Tids, ForkProcess(p, c) \/ ForkThread(p, c)
      PROVE  KinRest'
  BY <1>8, <1>a, KinFork DEF ForkProcess, ForkThread
<1>9. ASSUME NEW p \in Tids, ExecSwap(p) PROVE KinRest'
  BY <1>9, KinExec
<1> QED BY <1>1, <1>2, <1>3, <1>4, <1>5, <1>6, <1>7, <1>8, <1>9 DEF KernelStep, HookStep

\* A new command: what the client saw, or nothing, is the requested process.
LEMMA KinClient ==
    ASSUME KinInv, KinStep, ClientStep
    PROVE  KinRest'
<1>1. UNCHANGED <<status, tgid, parent, start, last, ctx, got, mark>> /\ stage = "idle"
  BY DEF MaySend, ClientStep, SendTree, SendUntrack, Send, taskVars, ctxVars
<1>2. Groups /\ Clock /\ status \in [Tids -> Status]
  BY KinFacts DEF TreeShape
<1>m. mark.task = 0
  BY <1>1, MarkOf
<1>3. CASE cmd' = cmd
  <2>1. Quiet
    BY <1>1, <1>3 DEF Quiet
  <2>2. \A w \in Workloads, t \in Tids : t \in kin'[w] <=> t \in kin[w]
    BY <1>1, <2>1, KinKept DEF KinInv, Kinship, Used
  <2>3. \A w \in Workloads : kin'[w] = kin[w]
    BY <2>2, KinFacts DEF KinStep
  <2>4. cmd.op = "tree" => cmd.wl \in Workloads
    BY KinFacts
  <2> QED BY <1>1, <1>m, <1>3, <2>3, <2>4
          DEF KinInv, KinRest, Kinship, RootKin, GotKin, OnlyKin, Owns, MarkKin, Used
<1>4. CASE cmd' # cmd
  <2>1. \A w \in Workloads, t \in Tids : t \in kin'[w] <=>
            \/ t \in kin[w]
            \/ cmd'.op = "tree" /\ cmd'.wl = w /\ Used(cmd'.root) /\ t \in Family(cmd'.root)
    BY <1>1, <1>2, <1>4, KinSent DEF KinInv
  <2>2. \A w \in Workloads : kin'[w] \subseteq Tids
    BY DEF KinStep
  <2>3. cmd'.op = "tree" =>
          /\ cmd'.root \in Tids \ {InitTask} /\ cmd'.wl \in Workloads
          /\ cmd'.st = IF Used(cmd'.root) THEN start[cmd'.root] ELSE 0
    <3>1. ASSUME NEW w \in Workloads, SendUntrack(w) PROVE cmd'.op # "tree"
      BY <3>1 DEF SendUntrack, Send
    <3>2. ASSUME NEW root \in Tids \ {InitTask}, NEW w \in Workloads, SendTree(root, w)
          PROVE  cmd'.root = root /\ cmd'.wl = w /\ cmd'.st = IF Used(root) THEN start[root] ELSE 0
      BY <3>2 DEF SendTree, Send
    <3> QED BY <3>1, <3>2 DEF ClientStep
  <2>4. Kinship'
    <3> SUFFICES ASSUME NEW w \in Workloads
                 PROVE  /\ \A t \in kin'[w] : Used(t) /\ t # InitTask
                        /\ \A t \in Tids : Used(t) /\ parent[t] \in kin'[w] => t \in kin'[w]
                        /\ \A s, t \in Tids : Used(t) /\ s \in kin'[w] /\ tgid[s] = tgid[t]
                              => t \in kin'[w]
      BY <1>1 DEF Kinship, Used
    <3>1. /\ \A t \in kin[w] : Used(t) /\ t # InitTask
          /\ \A t \in Tids : Used(t) /\ parent[t] \in kin[w] => t \in kin[w]
          /\ \A s, t \in Tids : Used(t) /\ s \in kin[w] /\ tgid[s] = tgid[t] => t \in kin[w]
      BY DEF KinInv, Kinship
    <3>2. CASE ~(cmd'.op = "tree" /\ cmd'.wl = w /\ Used(cmd'.root))
      <4>1. \A t \in Tids : t \in kin'[w] <=> t \in kin[w]
        BY <2>1, <3>2
      <4>2. kin[w] \subseteq Tids
        BY KinFacts
      <4>3. kin'[w] = kin[w]
        BY <2>2, <4>1, <4>2
      <4> QED BY <3>1, <4>3
    <3>3. CASE cmd'.op = "tree" /\ cmd'.wl = w /\ Used(cmd'.root)
      <4> PICK F : F = Family(cmd'.root)
        OBVIOUS
      <4>1. /\ \A t \in F : t \in Tids /\ Used(t) /\ t # InitTask
            /\ \A t \in Tids : Used(t) /\ parent[t] \in F => t \in F
            /\ \A s, t \in Tids : Used(t) /\ s \in F /\ tgid[s] = tgid[t] => t \in F
        BY <1>2, <2>3, <3>3, FamilyShape
      <4>2. \A t \in Tids : t \in kin'[w] <=> t \in kin[w] \/ t \in F
        BY <2>1, <3>3
      <4>3. parent \in [Tids -> Tids]
        BY KinFacts
      <4> QED BY <2>2, <3>1, <4>1, <4>2, <4>3
    <3> QED BY <3>2, <3>3
  <2>5. RootKin'
    <3> SUFFICES ASSUME cmd'.op = "tree" PROVE RootKin'
      BY DEF RootKin
    <3> PICK r \in Tids \ {InitTask} : r = cmd'.root
      BY <2>3
    <3>1. cmd'.st <= start[r]
      <4>1. start[r] \in Nat
        BY KinFacts
      <4> QED BY <2>3, <4>1
    <3>2. Wrap \/ r <= last \/ cmd'.st = 0
      <4>1. r \in Nat /\ last \in Nat
        BY KinFacts
      <4> QED BY <1>2, <2>3, <4>1 DEF Clock, Used
    <3>3. \A a \in Tids : Used(a) /\ tgid[a] = r => a \in kin'[cmd'.wl]
      <4> SUFFICES ASSUME NEW a \in Tids, Used(a), tgid[a] = r PROVE a \in kin'[cmd'.wl]
        OBVIOUS
      <4>1. Used(r)
        BY <1>2 DEF Groups
      <4>2. a \in Family(r)
        BY <1>2, FamilyShape
      <4> QED BY <2>1, <2>3, <4>1, <4>2
    <3> QED BY <1>1, <2>3, <3>1, <3>2, <3>3 DEF RootKin, Used
  <2>6. GotKin' /\ OnlyKin'
    BY <1>1, <2>1 DEF KinInv, GotKin, OnlyKin, Owns
  <2>7. MarkKin'
    BY <1>1, <1>m DEF MarkKin
  <2> QED BY <2>4, <2>5, <2>6, <2>7 DEF KinRest
<1> QED BY <1>3, <1>4

\* The passes give contexts to kin only, and what they store reaches no fork
\* hook but those of kin.
LEMMA KinDaemon ==
    ASSUME KinInv, KinStep, DaemonStep, Inv', CreatorInv'
    PROVE  KinRest'
<1>1. UNCHANGED <<status, tgid, parent, start, last, cmd>>
  BY DEF DaemonStep, StartPass, Visit, MarkFill, MarkTid, EndMark, EndUnmark, FailPass, Respond,
         taskVars, ctxVars
<1>2. /\ \A t \in Tids : got[t] # NoWl => Owns(t, got[t])
      /\ \A t \in Tids : ctx[t] # NoCtx => Owns(t, ctx[t].wl)
      /\ status \in [Tids -> Status] /\ 0 \notin Tids
      /\ \A c \in Tids : by[c] \in Tids <=> status[c] \in {"newborn", "hooking"}
      /\ \A c \in Tids : got[c] # NoWl => status[c] = "hooking"
  BY KinFacts DEF KinInv, GotKin, OnlyKin, Owns, HInv, CreatorInv
<1>m. mark.task # 0 => /\ cmd.wl \in Workloads /\ mark.task \in Tids /\ mark.task \in kin[cmd.wl]
                       /\ status[mark.task] # "free"
  BY MarkOf
<1>3. Quiet
  BY <1>1, <1>2 DEF Quiet
<1>4. ASSUME \A t \in Tids : got'[t] # NoWl => Owns(t, got'[t]),
             \A t \in Tids : ctx'[t] # NoCtx => Owns(t, ctx'[t].wl),
             mark'.task # 0 => mark'.task \in kin[cmd.wl] /\ cmd.wl \in Workloads
                               /\ mark'.task \in Tids /\ status[mark'.task] # "free"
      PROVE  KinRest'
  <2>1. mark'.task # 0 => mark'.task \in kin[cmd.wl] /\ cmd.wl \in Workloads
                          /\ mark'.task \in Tids /\ status'[mark'.task] # "free"
    BY <1>1, <1>4
  <2> QED BY <1>1, <1>3, <1>4, <2>1, KinQuiet DEF KinRest
<1>5. ASSUME NEW t \in Tids, Visit(t)
      PROVE  KinRest'
  <2>1. /\ got' = got /\ Used(t) /\ mark = NoMark /\ cmd.wl \in Workloads
        /\ \A s \in Tids : s # t => ctx'[s] = ctx[s]
    BY <1>5, Visits DEF KinInv, HInv, NextTask
  <2>2. \/ /\ stage = "mark" /\ ResolveAncestor(t)
           /\ ctx'[t] = IF ctx[t] = NoCtx THEN ZeroCtx ELSE ctx[t]
           /\ mark'.task = t
        \/ (ctx'[t] = ctx[t] \/ ctx'[t] = NoCtx) /\ mark' = mark
    BY <1>5, Visits DEF KinInv, HInv
  <2>3. mark.task = 0
    BY <2>1 DEF NoMark
  <2>4. CASE /\ stage = "mark" /\ ResolveAncestor(t) /\ mark'.task = t
             /\ ctx'[t] = IF ctx[t] = NoCtx THEN ZeroCtx ELSE ctx[t]
    <3>1. t \in kin[cmd.wl]
      BY <2>1, <2>4, MarkedKin
    <3>2. ctx'[t] = ctx[t] \/ ctx'[t].wl = ZeroWl
      BY <2>4, FreshContext
    <3>3. Owns(t, ZeroWl)
      BY <2>1, <3>1 DEF Owns
    <3>4. \A s \in Tids : ctx'[s] # NoCtx => Owns(s, ctx'[s].wl)
      <4> TAKE s \in Tids
      <4> QED BY <1>2, <2>1, <3>2, <3>3
    <3> QED BY <1>2, <1>4, <2>1, <2>4, <3>1, <3>4 DEF Used
  <2>5. CASE (ctx'[t] = ctx[t] \/ ctx'[t] = NoCtx) /\ mark' = mark
    <3>1. \A s \in Tids : ctx'[s] # NoCtx => Owns(s, ctx'[s].wl)
      <4> TAKE s \in Tids
      <4> QED BY <1>2, <2>1, <2>5
    <3> QED BY <1>2, <1>4, <2>1, <2>3, <2>5, <3>1
  <2> QED BY <2>2, <2>4, <2>5
<1>6. CASE MarkFill
  <2>1. /\ cmd.wl \in Workloads /\ mark'.task = mark.task
        /\ ~Kept => ctx' = ctx
        /\ Kept => /\ mark.task \in Tids /\ ctx'[mark.task].wl = cmd.wl
                   /\ \A s \in Tids : s # mark.task => ctx'[s] = ctx[s]
        /\ \A c \in Tids : got'[c] = got[c] \/ (got[c] # NoWl /\ got'[c] = cmd.wl /\ by[c] = mark.task)
        /\ got' = got \/ Kept
    BY <1>6, Fills DEF KinInv, HInv
  <2>2. mark.task # 0 => Owns(mark.task, cmd.wl)
    BY <1>m DEF Owns
  <2>3. \A t \in Tids : ctx'[t] # NoCtx => Owns(t, ctx'[t].wl)
    <3> TAKE t \in Tids
    <3>1. CASE Kept /\ t = mark.task
      BY <1>2, <2>1, <2>2, <3>1
    <3>2. CASE ~(Kept /\ t = mark.task)
      BY <1>2, <2>1, <3>2
    <3> QED BY <3>1, <3>2
  <2>4. \A t \in Tids : got'[t] # NoWl => Owns(t, got'[t])
    <3> TAKE t \in Tids
    <3>1. CASE got'[t] = got[t]
      BY <1>2, <3>1
    <3>2. CASE got[t] # NoWl /\ got'[t] = cmd.wl /\ by[t] = mark.task
      <4>1. by[t] \in Tids
        BY <1>2, <3>2
      <4>2. by[t] \in kin[cmd.wl]
        BY <1>2, <1>m, <3>2, <4>1
      <4>3. t \in kin[cmd.wl]
        BY <2>1, <4>1, <4>2, ChildKin
      <4> QED BY <2>1, <3>2, <4>3 DEF Owns
    <3> QED BY <2>1, <3>1, <3>2
  <2> QED BY <1>m, <1>4, <2>1, <2>3, <2>4
<1>7. CASE MarkTid
  <2>1. /\ got' = got /\ mark' = NoMark
        /\ ~Kept => ctx' = ctx
        /\ Kept => /\ mark.task \in Tids /\ ctx'[mark.task].wl = ctx[mark.task].wl
                   /\ ctx[mark.task] # NoCtx
                   /\ \A s \in Tids : s # mark.task => ctx'[s] = ctx[s]
    BY <1>7, Stores DEF KinInv, HInv
  <2>2. \A t \in Tids : ctx'[t] # NoCtx => Owns(t, ctx'[t].wl)
    <3> TAKE t \in Tids
    <3>1. CASE Kept /\ t = mark.task
      BY <1>2, <2>1, <3>1
    <3>2. CASE ~(Kept /\ t = mark.task)
      BY <1>2, <2>1, <3>2
    <3> QED BY <3>1, <3>2
  <2>3. mark'.task = 0
    BY <2>1 DEF NoMark
  <2> QED BY <1>2, <1>4, <2>1, <2>2, <2>3
<1>8. CASE UNCHANGED <<ctx, got, mark>>
  BY <1>2, <1>m, <1>4, <1>8
<1>9. StartPass \/ EndMark \/ EndUnmark \/ FailPass => UNCHANGED <<ctx, got, mark>>
  BY DEF StartPass, EndMark, EndUnmark, FailPass, Respond, ctxVars
<1> QED BY <1>5, <1>6, <1>7, <1>8, <1>9 DEF DaemonStep

\* Every step, or none, preserves the invariant.
LEMMA KinInvStep == KinInv /\ [HNext]_<<vars, histVars>> => KinInv'
<1> SUFFICES ASSUME KinInv, [HNext]_<<vars, histVars>> PROVE KinInv'
  OBVIOUS
<1>1. HInv' /\ RemovedOK'
  <2>1. [TrackerNext]_vars
    BY DEF HNext, vars
  <2> QED BY <2>1, HInvStep, RemovedType DEF KinInv
<1>2. Inv' /\ CreatorInv'
  BY <1>1 DEF HInv
<1>3. CASE UNCHANGED <<vars, histVars>>
  <2>1. TreeShape'
    BY <1>3 DEF KinInv, TreeShape, Groups, Parents, Clock, Used, vars
  <2>2. KinType' /\ Kinship' /\ RootKin' /\ GotKin' /\ MarkKin' /\ OnlyKin'
    BY <1>3 DEF KinInv, KinType, Kinship, RootKin, GotKin, Owns, MarkKin, OnlyKin, Used, vars, histVars
  <2> QED BY <1>1, <2>1, <2>2 DEF KinInv
<1>4. CASE HNext
  <2>1. KinType'
    BY <1>4, KinTyped DEF HNext, KinInv
  <2>2. CASE KernelStep \/ HookStep
    <3>1. TreeShape'
      BY <2>2, ShapeWorld DEF KinInv, HInv
    <3>2. KinRest'
      BY <1>2, <1>4, <2>2, <3>1, KinWorld DEF HNext
    <3> QED BY <1>1, <2>1, <3>1, <3>2 DEF KinInv, KinRest
  <2>3. CASE ClientStep \/ DaemonStep
    <3>1. UNCHANGED <<status, tgid, parent, start, by, last, now>>
      BY <2>3 DEF ClientStep, SendTree, SendUntrack, Send, DaemonStep, StartPass, Visit, MarkFill,
                  MarkTid, EndMark, EndUnmark, FailPass, Respond, taskVars
    <3>2. TreeShape'
      BY <3>1 DEF KinInv, TreeShape, Groups, Parents, Clock, Used
    <3>3. KinRest'
      BY <1>2, <1>4, <2>3, KinClient, KinDaemon DEF HNext
    <3> QED BY <1>1, <2>1, <3>2, <3>3 DEF KinInv, KinRest
  <2> QED BY <1>4, <2>2, <2>3 DEF HNext, TrackerNext
<1> QED BY <1>3, <1>4

\* It holds in every reachable state.
LEMMA KinAlways == HSpec => []KinInv
<1>1. HInit => KinInv
  <2> SUFFICES ASSUME HInit PROVE KinInv
    OBVIOUS
  <2>1. Inv /\ CreatorInv /\ TreeShape
    BY InitInv, CreatorInit, ShapeInit DEF HInit
  <2>2. /\ stage = "idle" /\ reply = "none" /\ cmd = NoCmd /\ removed = FALSE
        /\ kin = [w \in Workloads |-> {}] /\ churn = FALSE /\ crossed = {}
        /\ ctx = [t \in Tids |-> NoCtx] /\ got = [t \in Tids |-> NoWl] /\ mark = NoMark
    BY DEF HInit, Init
  <2>3. HInv /\ RemovedOK
    BY <2>1, <2>2 DEF HInv, StageInv, PassInv, UntrackDrops, RemovedOK
  <2>4. KinType /\ Kinship
    BY <2>2 DEF KinType, Kinship
  <2>5. RootKin
    BY <2>2 DEF RootKin, NoCmd
  <2>6. GotKin /\ MarkKin /\ OnlyKin
    BY <2>2 DEF GotKin, MarkKin, OnlyKin, NoMark
  <2> QED BY <2>1, <2>3, <2>4, <2>5, <2>6 DEF KinInv
<1> QED BY <1>1, KinInvStep, PTL DEF HSpec

\* The histories keep their types along with the tracker.
THEOREM HistoryTypeCorrect == HSpec => []HTypeOK
<1>1. KinInv => HTypeOK
  BY DEF KinInv, HInv, Inv, HTypeOK, TypeOK, KinType
<1> QED BY <1>1, KinAlways, PTL

\* A context is carried only by tasks of a process requested for a workload
\* and by tasks that descend from one, and names that workload or is one that
\* was read before it was filled, for every interleaving of passes, fork hooks
\* and the stores of both, with threads, execs that rename tasks, reused pid
\* numbers and failing passes: the start time keeps strangers out
\* (mon_procs.bpf.c:25-35).
THEOREM KinOnly == HSpec => []OnlyKin
<1>1. KinInv => OnlyKin
  BY DEF KinInv
<1> QED BY <1>1, KinAlways, PTL
=============================================================================

----------------------------- MODULE TaskTracker -----------------------------
(***************************************************************************)
(* Process tracking: which tasks carry a task context, and for which       *)
(* workload.                                                               *)
(*                                                                         *)
(* Four actors run concurrently:                                           *)
(*   - the kernel creates, re-executes, reaps and reparents tasks;         *)
(*   - the hooks of bpf/mon_procs.bpf.c run inside those events, on the    *)
(*     CPU of the task concerned;                                          *)
(*   - the daemon (mon/src/tasks.rs) serves one command at a time by       *)
(*     passes of the iter/task program, which visits the task list one     *)
(*     task at a time in increasing pid order while the list changes;      *)
(*   - the command line tool reads /proc and sends commands.               *)
(*                                                                         *)
(* A task is named by its pid number (a slot).  Storage of task_ctx_map is *)
(* attached to the task_struct, so it disappears with the task and follows *)
(* the task when an exec gives it another pid number.  Storage is created  *)
(* zeroed and then filled field by field, with nothing to keep the other   *)
(* CPUs out: both hands that create it, the mark pass and the fork hook,   *)
(* do so in several steps here.  Left out is the depth, which only log     *)
(* lines and listings show.                                                *)
(***************************************************************************)
EXTENDS Integers

CONSTANTS
    NTids,       \* pid numbers are 1..NTids; 1 is init
    Workloads,   \* workload ids a client may use
    NoWl,        \* the workload id of "no context"
    ZeroWl,      \* 0, the workload id in storage nobody has filled yet
    MaxDepth,    \* MAX_DEPTH, the bound of the parent walk
    MaxTick,     \* bound of the clock, in USER_HZ ticks since boot
    Wrap,        \* pid allocation has wrapped: any free number may come next
    Threads,     \* processes may create threads
    MayFail      \* storage allocation and iterator creation may fail

ASSUME NTidsAssumption == NTids \in Nat /\ NTids > 1
ASSUME WorkloadAssumption == NoWl \notin Workloads /\ ZeroWl \notin Workloads \cup {NoWl}
ASSUME MaxDepthAssumption == MaxDepth \in Nat \ {0}
ASSUME MaxTickAssumption == MaxTick \in Nat /\ MaxTick > 1
ASSUME SwitchAssumption == Wrap \in BOOLEAN /\ Threads \in BOOLEAN /\ MayFail \in BOOLEAN

VARIABLES
    status,   \* life cycle of the task at each slot
    tgid,     \* task->tgid
    parent,   \* task->real_parent
    start,    \* task->start_boottime in ticks, of the latest occupant
    by,       \* the task inside the fork that is creating this one, 0 if none
    ctx,      \* task_ctx_map
    got,      \* the workload id in the parent's context, where the fork hook's pointer leads
    last,     \* the last pid number allocated, while allocation has not wrapped
    now,      \* the clock, in ticks
    cmd,      \* the latest command sent to the daemon
    stage,    \* which pass the daemon is in
    cursor,   \* the next pid number the pass looks for
    mark,     \* the task whose context the mark pass is filling, and what it holds of it
    removed,  \* the first unmark pass printed a line
    reply     \* the response to cmd

taskVars == <<status, tgid, parent, start, by, last>>
ctxVars == <<ctx, got>>
daemonVars == <<cmd, stage, cursor, removed, reply>>
vars == <<status, tgid, parent, start, by, last, ctx, got, now,
          cmd, stage, cursor, mark, removed, reply>>

Tids == 1 .. NTids
InitTask == 1

\* The first tick at which an agent may start.  Ticks 0 and 1 belong to the
\* first 20 ms after boot.
FirstTick == 2

NoCtx == [wl |-> NoWl, tgid |-> 0, tid |-> 0]
ZeroCtx == [wl |-> ZeroWl, tgid |-> 0, tid |-> 0]
Ids == Workloads \cup {ZeroWl}
TaskCtx == [wl : Ids, tgid : Tids \cup {0}, tid : Tids \cup {0}]

\* No context is being filled; else its task, 0 if that one is gone, and how
\* far the pass is: it has the storage, or has loaded the tid as well.
NoMark == [step |-> "none", task |-> 0, tid |-> 0]
Marking == [step : {"made", "loaded"}, task : Tids \cup {0}, tid : Tids \cup {0}]

NoCmd == [op |-> "none", root |-> InitTask, st |-> 0, wl |-> NoWl]
Command == [op : {"tree", "untrack"}, root : Tids, st : 0 .. MaxTick, wl : Workloads]

Status == {"free", "newborn", "hooking", "live", "execing", "exiting", "zombie"}

StateOK ==
    /\ status \in [Tids -> Status]
    /\ tgid \in [Tids -> Tids]
    /\ parent \in [Tids -> Tids]
    /\ start \in [Tids -> 0 .. MaxTick]
    /\ by \in [Tids -> Tids \cup {0}]
    /\ ctx \in [Tids -> TaskCtx \cup {NoCtx}]
    /\ got \in [Tids -> Ids \cup {NoWl}]
    /\ last \in Tids
    /\ now \in 0 .. MaxTick
    /\ cmd \in Command \cup {NoCmd}
    /\ stage \in {"idle", "mark", "unmark1", "unmark2"}
    /\ cursor \in 1 .. NTids + 1
    /\ mark \in Marking \cup {NoMark}
    /\ mark # NoMark => stage = "mark" /\ cursor \in Tids
    /\ reply \in {"none", "ok", "error"}
    /\ (stage # "idle" \/ cmd = NoCmd) => reply = "none"
    /\ stage # "idle" => cmd # NoCmd

RemovedOK == removed \in BOOLEAN

TypeOK == StateOK /\ RemovedOK

\* Init, an agent process with nothing tracked, and no command yet.
Init ==
    \E agent \in Tids \ {InitTask} :
        /\ agent = 2 \/ Wrap
        /\ status = [t \in Tids |-> IF t \in {InitTask, agent} THEN "live" ELSE "free"]
        /\ tgid = [t \in Tids |-> t]
        /\ parent = [t \in Tids |-> InitTask]
        /\ start = [t \in Tids |-> IF t = agent THEN FirstTick ELSE 0]
        /\ by = [t \in Tids |-> 0]
        /\ ctx = [t \in Tids |-> NoCtx]
        /\ got = [t \in Tids |-> NoWl]
        /\ last = 2
        /\ now = FirstTick
        /\ cmd = NoCmd
        /\ stage = "idle"
        /\ cursor = 1
        /\ mark = NoMark
        /\ removed = FALSE
        /\ reply = "none"

-----------------------------------------------------------------------------
\* Tasks.

Used(t) == status[t] # "free"

\* The task is inside fork(2): it can neither exit nor execute another program.
Forking(p) == \E c \in Tids : by[c] = p

Running(p) == status[p] = "live" /\ ~Forking(p)

Group(p) == {t \in Tids : Used(t) /\ tgid[t] = tgid[p]}

\* Pid numbers are handed out in increasing order.  Once they wrap, any free
\* number may be next; a full turn takes longer than one tick, so a number
\* comes back only more than one tick after its last occupant started.
MayAllocate(c) ==
    /\ status[c] = "free"
    /\ IF Wrap THEN start[c] + 1 < now ELSE c = last + 1

Tick ==
    /\ now < MaxTick
    /\ now' = now + 1
    /\ UNCHANGED <<taskVars, ctxVars, daemonVars, mark>>

\* A new task, in the process and below the parent given.  The kernel links
\* it into the task list before the fork hook runs: from here on a pass can
\* visit it.  A thread has the same parent as its creator.
ForkAttach(p, c, group, realParent) ==
    /\ Running(p) /\ p # InitTask
    /\ MayAllocate(c)
    /\ status' = [status EXCEPT ![c] = "newborn"]
    /\ tgid' = [tgid EXCEPT ![c] = group]
    /\ parent' = [parent EXCEPT ![c] = realParent]
    /\ start' = [start EXCEPT ![c] = now]
    /\ by' = [by EXCEPT ![c] = p]
    /\ last' = IF Wrap THEN last ELSE c
    /\ UNCHANGED <<ctxVars, now, daemonVars, mark>>

ForkProcess(p, c) == ForkAttach(p, c, c, p)
ForkThread(p, c) == Threads /\ ForkAttach(p, c, tgid[p], parent[p])

\* mon_proc_fork looks up the parent's context and, if there is one, gets or
\* creates the child's storage.
ForkRead(c) ==
    /\ status[c] = "newborn"
    /\ \/ /\ got' = [got EXCEPT ![c] = ctx[by[c]].wl]
          /\ ctx' = IF ctx[by[c]] # NoCtx /\ ctx[c] = NoCtx THEN [ctx EXCEPT ![c] = ZeroCtx] ELSE ctx
       \/ MayFail /\ ctx[c] = NoCtx /\ UNCHANGED <<got, ctx>>
    /\ status' = [status EXCEPT ![c] = "hooking"]
    /\ UNCHANGED <<tgid, parent, start, by, last, now, daemonVars, mark>>

\* What the load through the hook's pointer may return: what that storage
\* holds, or held when it was dropped, or what a later one of the parent does.
Inherited(c) == {got[c]} \cup ({ctx[by[c]].wl} \ {NoWl})

\* The child starts to run.
ForkDone(c) ==
    /\ status' = [status EXCEPT ![c] = "live"]
    /\ by' = [by EXCEPT ![c] = 0]
    /\ got' = [got EXCEPT ![c] = NoWl]
    /\ UNCHANGED <<tgid, parent, start, last, now, daemonVars, mark>>

\* A bug: the parent's context is copied without a test that there is one.
ForkCopyBlind(c) ==
    /\ status[c] = "hooking"
    /\ ctx' = [ctx EXCEPT ![c] = [wl |-> got[c], tgid |-> tgid[c], tid |-> c]]
    /\ ForkDone(c)

\* mon_proc_fork fills the child's storage with the parent's workload.  The
\* stores are lost if a pass has dropped that storage meanwhile; if the
\* parent had no context the child keeps the one a pass gave it.
ForkCopy(c) ==
    /\ status[c] = "hooking"
    /\ IF got[c] = NoWl \/ ctx[c] = NoCtx
       THEN UNCHANGED ctx
       ELSE \E wl \in Inherited(c) : ctx' = [ctx EXCEPT ![c] = [wl |-> wl, tgid |-> tgid[c], tid |-> c]]
    /\ ForkDone(c)

\* The task the mark pass is at when slot p is vacated: its new slot, if it
\* has one.
MarkMoves(p, slot) ==
    mark' = IF mark.task = p THEN [mark EXCEPT !.task = slot] ELSE mark

\* A thread that is not the leader executes a program: once every other task
\* of the group is gone it takes over the leader's pid number and start time,
\* and its children and its storage follow it.
ExecSwap(p) ==
    LET leader == tgid[p] IN
    /\ Running(p) /\ p # leader
    /\ Group(p) = {p, leader} /\ status[leader] = "zombie"
    /\ status' = [status EXCEPT ![leader] = "execing", ![p] = "free"]
    /\ tgid' = [tgid EXCEPT ![p] = p]
    /\ parent' = [t \in Tids |-> IF t = p THEN InitTask
                                 ELSE IF parent[t] = p THEN leader ELSE parent[t]]
    /\ ctx' = [ctx EXCEPT ![leader] = ctx[p], ![p] = NoCtx]
    /\ IF mark.task = leader THEN MarkMoves(leader, 0) ELSE MarkMoves(p, leader)
    /\ UNCHANGED <<start, by, last, got, now, daemonVars>>

\* A bug: the context keeps the identity it had before the exec.
ExecHookStale(t) ==
    /\ status[t] = "execing"
    /\ status' = [status EXCEPT ![t] = "live"]
    /\ UNCHANGED <<tgid, parent, start, by, last, ctx, got, now, daemonVars, mark>>

\* mon_proc_exec refreshes the identity stored in the context.
ExecHook(t) ==
    /\ status[t] = "execing"
    /\ ctx' = IF ctx[t] = NoCtx THEN ctx
              ELSE [ctx EXCEPT ![t] = [@ EXCEPT !.tgid = tgid[t], !.tid = t]]
    /\ status' = [status EXCEPT ![t] = "live"]
    /\ UNCHANGED <<tgid, parent, start, by, last, got, now, daemonVars, mark>>

\* mon_proc_exit drops the context.  The task still has its place in the
\* process tree.
ExitHook(t) ==
    /\ Running(t) /\ t # InitTask
    /\ ctx' = [ctx EXCEPT ![t] = NoCtx]
    /\ status' = [status EXCEPT ![t] = "exiting"]
    /\ UNCHANGED <<tgid, parent, start, by, last, got, now, daemonVars, mark>>

\* The kernel hands the children to a thread of the same process that is not
\* exiting, or to init; a leader stays as a zombie, a thread disappears with
\* its storage.
ExitNotify(t) ==
    LET heirs == {s \in Group(t) : status[s] \in {"newborn", "hooking", "live"}} IN
    /\ status[t] = "exiting"
    /\ \E h \in (IF heirs = {} THEN {InitTask} ELSE heirs) :
          parent' = [s \in Tids |-> IF parent[s] = t THEN h
                                    ELSE IF s = t /\ t # tgid[t] THEN InitTask ELSE parent[s]]
    /\ IF t = tgid[t]
       THEN /\ status' = [status EXCEPT ![t] = "zombie"]
            /\ UNCHANGED <<tgid, ctx, mark>>
       ELSE /\ status' = [status EXCEPT ![t] = "free"]
            /\ tgid' = [tgid EXCEPT ![t] = t]
            /\ ctx' = [ctx EXCEPT ![t] = NoCtx]
            /\ MarkMoves(t, 0)
    /\ UNCHANGED <<start, by, last, got, now, daemonVars>>

\* The parent waits for a zombie: the task_struct goes, its storage with it.
Reap(t) ==
    /\ status[t] = "zombie" /\ Group(t) = {t}
    /\ status' = [status EXCEPT ![t] = "free"]
    /\ parent' = [parent EXCEPT ![t] = InitTask]
    /\ ctx' = [ctx EXCEPT ![t] = NoCtx]
    /\ MarkMoves(t, 0)
    /\ UNCHANGED <<tgid, start, by, last, got, now, daemonVars>>

-----------------------------------------------------------------------------
\* Commands.

MaySend == stage = "idle" /\ (cmd = NoCmd \/ reply # "none")

Send(c) ==
    /\ MaySend
    /\ cmd' = c
    /\ reply' = "none"
    /\ UNCHANGED <<taskVars, ctxVars, now, stage, cursor, mark, removed>>

\* track.py --tree: read the start time of the pid from /proc, 0 if that
\* fails, and send both.  Roots are agents, never init.
SendTree(root, w) ==
    Send([op |-> "tree", root |-> root,
          st |-> IF Used(root) THEN start[root] ELSE 0, wl |-> w])

\* track.py --untrack.
SendUntrack(w) == Send([op |-> "untrack", root |-> InitTask, st |-> 0, wl |-> w])

\* run_iter: set up the globals of a pass and start it from the first pid.
BeginPass(s) == stage' = s /\ cursor' = 1

StartPass ==
    /\ stage = "idle" /\ cmd # NoCmd /\ reply = "none"
    /\ BeginPass(IF cmd.op = "tree" THEN "mark" ELSE "unmark1")
    /\ removed' = FALSE
    /\ UNCHANGED <<taskVars, ctxVars, now, cmd, mark, reply>>

\* The task n parents up from t.
Ancestor(t) ==
    LET up[n \in 0 .. MaxDepth] == IF n = 0 THEN t ELSE parent[up[n - 1]]
    IN  up

\* A bug: the root is recognised by its pid alone.
IsRootByPid(a) == tgid[a] = cmd.root

\* depth_below's test of one task on the walk: the pid and, one tick of
\* rounding allowed, the start time of the requested root.
IsRoot(a) ==
    /\ tgid[a] = cmd.root
    /\ start[a] >= cmd.st - 1 /\ start[a] <= cmd.st + 1

\* depth_below finds the root among the first MAX_DEPTH tasks upward.
DepthBelow(t) == \E d \in 0 .. MaxDepth - 1 : IsRoot(Ancestor(t)[d])

\* A bug: the parent's context is not consulted.
ResolveAncestorByWalk(t) == DepthBelow(t)

\* resolve_ancestor: a parent of the same workload, else the walk.
ResolveAncestor(t) == (ctx[parent[t]].wl = cmd.wl /\ parent[t] # t) \/ DepthBelow(t)

\* The iterator goes to the next pid number in use, zombies included.
NextTask(t) == t >= cursor /\ Used(t) /\ \A s \in Tids : s >= cursor /\ Used(s) => t <= s

\* mon_iter_task on task t, MON_ITER_MARK: get or create the storage of a
\* task below the root.
MarkTask(t) ==
    \/ /\ ResolveAncestor(t)
       /\ ctx' = IF ctx[t] = NoCtx THEN [ctx EXCEPT ![t] = ZeroCtx] ELSE ctx
       /\ mark' = [step |-> "made", task |-> t, tid |-> 0]
       /\ cursor' = t
    \/ /\ ~ResolveAncestor(t) \/ (MayFail /\ ctx[t] = NoCtx)
       /\ cursor' = t + 1
       /\ UNCHANGED <<ctx, mark>>

\* mon_iter_task on task t, MON_ITER_UNMARK: drop the context if it is the
\* workload's.
Unmark(t) ==
    /\ IF ctx[t].wl = cmd.wl
       THEN ctx' = [ctx EXCEPT ![t] = NoCtx] /\ removed' = TRUE
       ELSE UNCHANGED <<ctx, removed>>
    /\ cursor' = t + 1
    /\ UNCHANGED mark

Visit(t) ==
    /\ stage # "idle" /\ mark = NoMark /\ NextTask(t)
    /\ IF stage = "mark" THEN MarkTask(t) /\ UNCHANGED removed ELSE Unmark(t)
    /\ UNCHANGED <<taskVars, got, now, cmd, stage, reply>>

\* The task whose storage the pass holds still has it: else, when the task or
\* its exit hook has dropped it, nothing is left of what the pass stores.
Kept == mark.task # 0 /\ ctx[mark.task] # NoCtx

\* The pass stores the workload and the tgid and loads the pid number.  A
\* fork hook whose pointer leads to this storage will load the new workload.
MarkFill ==
    LET m == mark.task
        Reload == [c \in Tids |-> IF by[c] = m /\ got[c] # NoWl THEN cmd.wl ELSE got[c]] IN
    /\ mark.step = "made"
    /\ ctx' = IF Kept THEN [ctx EXCEPT ![m] = [@ EXCEPT !.wl = cmd.wl, !.tgid = tgid[m]]] ELSE ctx
    /\ got' = got \/ (Kept /\ got' = Reload)
    /\ mark' = [mark EXCEPT !.step = "loaded", !.tid = m]
    /\ UNCHANGED <<taskVars, now, cmd, stage, cursor, removed, reply>>

\* The pass stores the pid number it has loaded and goes on.
MarkTid ==
    LET m == mark.task IN
    /\ mark.step = "loaded"
    /\ ctx' = IF Kept THEN [ctx EXCEPT ![m] = [@ EXCEPT !.tid = mark.tid]] ELSE ctx
    /\ mark' = NoMark
    /\ cursor' = cursor + 1
    /\ UNCHANGED <<taskVars, got, now, cmd, stage, removed, reply>>

PassOver == stage # "idle" /\ mark = NoMark /\ \A t \in Tids : t >= cursor => ~Used(t)

Respond(r) ==
    /\ stage' = "idle" /\ cursor' = 1 /\ removed' = FALSE
    /\ reply' = r
    /\ UNCHANGED <<taskVars, ctxVars, now, cmd, mark>>

\* handle_tree: answer when the pass is over.
EndMark == stage = "mark" /\ PassOver /\ Respond("ok")

\* A bug: the first pass is the only one.
EndUnmarkOnce == stage = "unmark1" /\ PassOver /\ Respond("ok")

\* A bug: passes are repeated for as long as the first removed anything.
EndUnmarkAgain ==
    /\ PassOver
    /\ \/ /\ stage \in {"unmark1", "unmark2"} /\ removed
          /\ BeginPass("unmark2")
          /\ UNCHANGED <<taskVars, ctxVars, now, cmd, mark, removed, reply>>
       \/ stage \in {"unmark1", "unmark2"} /\ ~removed /\ Respond("ok")

\* untrack_tree: a second pass if the first removed anything, else answer.
EndUnmark ==
    /\ PassOver
    /\ \/ /\ stage = "unmark1" /\ removed
          /\ BeginPass("unmark2")
          /\ UNCHANGED <<taskVars, ctxVars, now, cmd, mark, removed, reply>>
       \/ /\ stage = "unmark2" \/ (stage = "unmark1" /\ ~removed)
          /\ Respond("ok")

\* The iterator cannot be created, or reading it fails between two tasks: the
\* command ends with an error and what the passes did so far stays.
FailPass == stage # "idle" /\ mark = NoMark /\ MayFail /\ Respond("error")

-----------------------------------------------------------------------------
KernelStep ==
    \/ Tick
    \/ \E p, c \in Tids : ForkProcess(p, c)
    \/ \E p, c \in Tids : ForkThread(p, c)
    \/ \E p \in Tids : ExecSwap(p)
    \/ \E t \in Tids : ExitNotify(t)
    \/ \E t \in Tids : Reap(t)

HookStep ==
    \/ \E c \in Tids : ForkRead(c)
    \/ \E c \in Tids : ForkCopy(c)
    \/ \E t \in Tids : ExecHook(t)
    \/ \E t \in Tids : ExitHook(t)

ClientStep ==
    \/ \E root \in Tids \ {InitTask}, w \in Workloads : SendTree(root, w)
    \/ \E w \in Workloads : SendUntrack(w)

DaemonStep ==
    \/ StartPass
    \/ \E t \in Tids : Visit(t)
    \/ MarkFill
    \/ MarkTid
    \/ EndMark
    \/ EndUnmark
    \/ FailPass

TrackerNext == KernelStep \/ HookStep \/ ClientStep \/ DaemonStep

\* The daemon's loop keeps running; nothing else is promised to happen.
Spec == Init /\ [][TrackerNext]_vars /\ WF_vars(DaemonStep)

-----------------------------------------------------------------------------
\* Properties.

\* The fork hook or the mark pass is filling the context of t.
BeingFilled(t) == status[t] \in {"newborn", "hooking"} \/ mark.task = t

\* The tasks under a root, as the user of the command means it: those with
\* a task of the requested process among their ancestors, none of those in
\* between on its way out.
Under(t, root) ==
    LET up[n \in 0 .. NTids] == IF n = 0 THEN t ELSE parent[up[n - 1]]
    IN  \E n \in 0 .. NTids :
            tgid[up[n]] = root /\ \A m \in 0 .. n : status[up[m]] = "live"

\* After a tree command succeeded, every running task below the requested
\* root, if that very process still runs, carries a context: whatever forks
\* and exits while the pass walks the list (server.rs:18).
TreeCovered ==
    (cmd.op = "tree" /\ reply = "ok" /\ status[cmd.root] = "live" /\ start[cmd.root] = cmd.st)
        => \A t \in Tids : status[t] = "live" /\ Under(t, cmd.root) => ctx[t] # NoCtx

\* After an untrack command succeeded no task carries a context of the
\* workload (server.rs:20).
UntrackComplete ==
    cmd.op = "untrack" /\ reply = "ok" => \A t \in Tids : ctx[t].wl # cmd.wl

\* Every command is answered, however the task list changes under the pass.
Served == (cmd # NoCmd /\ reply = "none") ~> (reply # "none")
=============================================================================

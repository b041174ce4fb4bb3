------------------------- MODULE TaskTrackerHistory -------------------------
(***************************************************************************)
(* TaskTracker with three history variables.  They record what happened    *)
(* and constrain nothing; the properties below need them to say which task *)
(* descends from which requested process, what raced with an untrack       *)
(* command, and which task an exec renamed under the mark pass.            *)
(***************************************************************************)
EXTENDS TaskTracker

VARIABLES
    kin,    \* kin[w]: the tasks that belong to a process requested for w, or descend from one
    churn,  \* something the two unmark passes are not made for happened during the command
    crossed \* the tasks an exec renamed while a mark pass held their old pid number

histVars == <<kin, churn, crossed>>

\* The tasks of the process at pid root, and those below it: the least set
\* with the former and, with a task, all its children.
Descent(root) ==
    {t \in Tids : \A S \in SUBSET Tids :
        (\A u \in Tids : tgid[u] = root \/ parent[u] \in S => u \in S) => t \in S}
Family(root) == {t \in Descent(root) : Used(t)}

\* The command's process joins kin when its start time is read, a new task
\* when its creator is in; a task that disappears leaves.
KinStep ==
    kin' = [w \in Workloads |->
              {t \in Tids :
                 /\ status'[t] # "free"
                 /\ \/ t \in kin[w]
                    \/ status[t] = "free" /\ by'[t] \in kin[w]
                    \/ status'[t] = "execing" /\ status[t] = "zombie"
                       /\ \E s \in kin[w] : status[s] = "live" /\ status'[s] = "free"
                    \/ /\ cmd' # cmd /\ cmd'.op = "tree" /\ cmd'.wl = w
                       /\ Used(cmd'.root) /\ t \in Family(cmd'.root)}]

\* The fork hook of c may copy a context of w.
Copying(c, w) == got[c] # NoWl /\ w \in Inherited(c)

\* In the first pass: a task of the workload exits, so that it is not counted
\* although it may have handed its context on; in both: one is renamed by an
\* exec to a number the pass is beyond.  A fork hook that read the context
\* before the first pass and whose parent has lost it since, or that holds it
\* in the second pass.
ChurnStep ==
    churn' =
      CASE stage = "idle" /\ stage' = "unmark1" ->
             \E c \in Tids : Copying(c, cmd.wl) /\ ctx[by[c]].wl # cmd.wl
        [] stage = "unmark1" /\ stage' = "unmark1" ->
             \/ churn
             \/ \E t \in Tids : ctx[t].wl = cmd.wl /\ status[t] = "live"
                                /\ status'[t] \in {"exiting", "free"}
        [] stage = "unmark1" /\ stage' = "unmark2" ->
             \E c \in Tids : Copying(c, cmd.wl)
        [] stage = "unmark2" /\ stage' = "unmark2" ->
             \/ churn
             \/ \E c \in Tids : Copying(c, cmd.wl)'
             \/ \E t \in Tids : ctx[t].wl = cmd.wl /\ status[t] = "live" /\ status'[t] = "free"
        [] stage' = "mark" -> FALSE
        [] OTHER -> churn

\* A task that is renamed with its pid number in the hands of the pass joins,
\* and leaves when its next exec refreshes the context.
CrossStep ==
    crossed' = {t \in Tids :
        IF status[t] = "zombie" /\ status'[t] = "execing"
        THEN mark.step = "loaded" /\ mark.task # t /\ mark'.task = t
        ELSE t \in crossed /\ status'[t] # "free"}

HInit == Init /\ kin = [w \in Workloads |-> {}] /\ churn = FALSE /\ crossed = {}

HNext == TrackerNext /\ KinStep /\ ChurnStep /\ CrossStep

HSpec == HInit /\ [][HNext]_<<vars, histVars>>

HTypeOK ==
    /\ TypeOK
    /\ kin \in [Workloads -> SUBSET Tids]
    /\ churn \in BOOLEAN
    /\ crossed \in SUBSET Tids

-----------------------------------------------------------------------------
\* A context describes the task that carries it, whatever passes, fork hooks
\* and execs wrote it, once nobody is filling it: a task has its own tgid,
\* and its own tid unless an exec renamed it while a mark pass held the old
\* one (then the pass may store that over what mon_proc_exec refreshed).
\* Nobody else's identity is ever found in it, and a free pid number carries none.
CtxIdentity ==
    \A t \in Tids :
        /\ status[t] = "free" => ctx[t] = NoCtx
        /\ ctx[t] # NoCtx /\ ~BeingFilled(t) =>
              /\ ctx[t].tgid = tgid[t]
              /\ status[t] # "execing" /\ t \notin crossed => ctx[t].tid = t

\* Only tasks of a process requested for a workload, and tasks that descend
\* from one, are tracked, for that workload or with the zeros of storage that
\* is not filled or was inherited before it was: neither a pid number that was
\* reused between the client's look at /proc and the pass, nor a zombie's
\* number, nor a stale copy in a fork hook can spread it to strangers.  This
\* is what the start time in the tree command is for.
OnlyKin ==
    \A t \in Tids : ctx[t] # NoCtx => \E w \in Workloads : t \in kin[w] /\ ctx[t].wl \in {w, ZeroWl}

\* An untrack command that reports success leaves no context of the workload
\* behind, and none appears later in a fork hook that was under way, unless
\* one of the races in ChurnStep happened while it ran (tasks.rs:50-54).
UntrackDrops ==
    cmd.op = "untrack" /\ reply = "ok" /\ ~churn =>
        \A t \in Tids : ctx[t].wl # cmd.wl /\ ~Copying(t, cmd.wl)
=============================================================================

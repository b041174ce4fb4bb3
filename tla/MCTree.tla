-------------------------------- MODULE MCTree --------------------------------
(***************************************************************************)
(* TaskTracker for TLC where its promises hold: processes of one thread,   *)
(* and no failing allocation or iterator.  Threads and failures are in the *)
(* instances that look for what survives them.                             *)
(***************************************************************************)
EXTENDS TaskTracker

ASSUME SingleAssumption == ~Threads /\ ~MayFail

TreeKernel ==
    \/ Tick
    \/ \E p, c \in Tids : ForkProcess(p, c)
    \/ \E t \in Tids : ExitNotify(t)
    \/ \E t \in Tids : Reap(t)

TreeHook ==
    \/ \E c \in Tids : ForkRead(c)
    \/ \E c \in Tids : ForkCopy(c)
    \/ \E t \in Tids : ExitHook(t)

TreeDaemon ==
    \/ StartPass
    \/ \E t \in Tids : Visit(t)
    \/ MarkFill
    \/ MarkTid
    \/ EndMark
    \/ EndUnmark

TreeNext == TreeKernel \/ TreeHook \/ ClientStep \/ TreeDaemon

TreeSpec == Init /\ [][TreeNext]_vars /\ WF_vars(TreeDaemon)
=============================================================================

------------------------------- MODULE NetIdent -------------------------------
(***************************************************************************)
(* Socket identities: which workload and process a socket is attributed    *)
(* to.  conn_ident_map is storage attached to the sock; it is written by   *)
(* three hooks (tcp_connect, tcp_sendmsg, udp_sendmsg), each on the CPU of *)
(* the task in the system call, and by the daemon's seed pass, which walks *)
(* the open files of every task after a tree command.  Nothing orders them *)
(* on one socket.                                                          *)
(*                                                                         *)
(* A writer looks for the storage, creates it (or gets the one that was    *)
(* created meanwhile) and reads the tuple, and fills it: three steps.      *)
(* Only tcp_connect does not look first.                                   *)
(*                                                                         *)
(* How tasks come to be tracked is TaskTracker's subject.  Here a mark pass*)
(* goes over any tasks, one after the other, and gives each its context in *)
(* the two steps a hook can come between: storage with workload id 0, then *)
(* the workload.  A process that starts may have inherited the context of  *)
(* any other, a 0 included; an untrack command takes one step.             *)
(***************************************************************************)
EXTENDS Naturals

CONSTANTS
    Tasks,      \* process slots (tgids)
    Workloads,
    NoWl,       \* no context
    ZeroWl,     \* 0, the workload id in storage not filled yet
    Socks,      \* socks
    Peers,      \* remote ends
    NoPeer,     \* not connected
    Nobody,     \* no task; the task field of storage not filled yet
    Seeder,     \* the daemon in its seed pass, as a writer
    NoOp,       \* the writer is not at work
    NoIdent,    \* the sock has no storage
    MaxGen,     \* processes that exit: one of the slots at most reaches it
    MayFail     \* storage allocation may fail

ASSUME WorkloadAssumption == NoWl \notin Workloads /\ ZeroWl \notin Workloads \cup {NoWl}
ASSUME PeerAssumption == NoPeer \notin Peers
ASSUME SeederAssumption == Seeder \notin Tasks /\ Nobody \notin Tasks
ASSUME GenAssumption == MaxGen \in Nat /\ MayFail \in BOOLEAN

VARIABLES
    ctx,      \* task_ctx_map: the workload of the task
    gen,      \* how many processes the slot had: stands for the start time
    proto,    \* of the sock: "none" before socket(2) or accept(2)
    peer,     \* the remote end a TCP sock is connected to; that of UDP is not followed
    holders,  \* tasks with a file descriptor of the sock
    ident,    \* conn_ident_map
    op,       \* what each writer is doing
    marking,  \* the workload of the mark pass, NoWl when none runs
    marked,   \* the task whose context the mark pass has in hand
    seeding,  \* the workload of the seed pass, NoWl when none runs
    todo,     \* descriptors the pass has not visited
    \* history
    held,     \* processes that held the sock, and the workload they were tracked for
    owed,     \* descriptors through which a sock was connected, sent on or to be seeded,
              \* unless the allocation failed
    raced,    \* two writers were at work on the sock, or one during a connect, since the
              \* last connect that had it for itself
    foreign   \* the sock, already stamped, was last connected by an untracked task

sockVars == <<proto, peer, holders>>
passVars == <<marking, marked, seeding, todo>>
histVars == <<owed, raced, foreign>>
vars == <<ctx, gen, sockVars, ident, op, passVars, histVars, held>>

Writers == Tasks \cup {Seeder}

\* The workload id in a context.
Ids == Workloads \cup {ZeroWl}

\* A conn_ident as it is created: all zero.
Zero == [wl |-> ZeroWl, task |-> Nobody, gen |-> 0, peer |-> NoPeer]
Ident == [wl : Ids, task : Tasks, gen : 0 .. MaxGen, peer : Peers \cup {NoPeer}]

Op == [hook : {"connect", "send", "seed"}, sock : Socks, task : Tasks, gen : 0 .. MaxGen,
       wl : Ids, at : {"create", "fill"}, peer : Peers \cup {NoPeer}]

ASSUME NothingAssumption == NoOp \notin Op /\ NoIdent \notin Ident \cup {Zero}

TypeOK ==
    /\ ctx \in [Tasks -> Ids \cup {NoWl}]
    /\ gen \in [Tasks -> 0 .. MaxGen]
    /\ proto \in [Socks -> {"none", "tcp", "udp"}]
    /\ peer \in [Socks -> Peers \cup {NoPeer}]
    /\ holders \in [Socks -> SUBSET Tasks]
    /\ ident \in [Socks -> Ident \cup {Zero, NoIdent}]
    /\ op \in [Writers -> Op \cup {NoOp}]
    /\ marking \in Workloads \cup {NoWl}
    /\ marked \in Tasks \cup {Nobody}
    /\ marking = NoWl => marked = Nobody
    /\ seeding \in Workloads \cup {NoWl}
    /\ todo \subseteq Tasks \X Socks
    /\ held \in [Socks -> SUBSET (Tasks \X (0 .. MaxGen) \X Ids)]
    /\ owed \subseteq Tasks \X Socks
    /\ raced \subseteq Socks /\ foreign \subseteq Socks

Init ==
    /\ ctx = [t \in Tasks |-> NoWl]
    /\ gen = [t \in Tasks |-> 0]
    /\ proto = [s \in Socks |-> "none"]
    /\ peer = [s \in Socks |-> NoPeer]
    /\ holders = [s \in Socks |-> {}]
    /\ ident = [s \in Socks |-> NoIdent]
    /\ op = [a \in Writers |-> NoOp]
    /\ marking = NoWl /\ marked = Nobody
    /\ seeding = NoWl
    /\ todo = {}
    /\ held = [s \in Socks |-> {}]
    /\ owed = {} /\ raced = {} /\ foreign = {}

-----------------------------------------------------------------------------
Stamped(s) == ident[s] \notin {NoIdent, Zero}

At(a, s) == op[a] # NoOp /\ op[a].sock = s

Busy(s) == \E a \in Writers : At(a, s)

\* A system call on a descriptor of s.
MayCall(t, s) == t \in holders[s] /\ op[t] = NoOp

\* Sockets come from socket(2), unconnected, or from accept(2), connected;
\* no hook sees either.
Open(t, s, kind, p) ==
    /\ proto[s] = "none" /\ op[t] = NoOp
    /\ kind = "udp" => p = NoPeer
    /\ proto' = [proto EXCEPT ![s] = kind]
    /\ peer' = [peer EXCEPT ![s] = p]
    /\ holders' = [holders EXCEPT ![s] = {t}]
    /\ UNCHANGED <<ctx, gen, ident, op, passVars, owed, raced, foreign>>

\* fork(2), or a descriptor in a unix socket message.
PassFd(t, u, s) ==
    /\ MayCall(t, s) /\ u \notin holders[s]
    /\ holders' = [holders EXCEPT ![s] = @ \cup {u}]
    /\ UNCHANGED <<ctx, gen, proto, peer, ident, op, passVars, owed, raced, foreign>>

Close(t, s) ==
    /\ MayCall(t, s)
    /\ holders' = [holders EXCEPT ![s] = @ \ {t}]
    /\ owed' = owed \ {<<t, s>>}
    /\ UNCHANGED <<ctx, gen, proto, peer, ident, op, passVars, raced, foreign>>

\* The last reference is gone: the sock goes with its storage.
Free(s) ==
    /\ proto[s] # "none" /\ holders[s] = {} /\ ~Busy(s)
    /\ proto' = [proto EXCEPT ![s] = "none"]
    /\ peer' = [peer EXCEPT ![s] = NoPeer]
    /\ ident' = [ident EXCEPT ![s] = NoIdent]
    /\ raced' = raced \ {s}
    /\ foreign' = foreign \ {s}
    /\ UNCHANGED <<ctx, gen, holders, op, passVars, owed>>

\* The process exits and another one gets its tgid, with another start time
\* and the context of its parent.
Exit(t) ==
    /\ op[t] = NoOp /\ \A u \in Tasks : gen[u] < MaxGen
    /\ \E wl \in {NoWl} \cup {ctx[u] : u \in Tasks \ {t}} : ctx' = [ctx EXCEPT ![t] = wl]
    /\ marked' = IF marked = t THEN Nobody ELSE marked
    /\ gen' = [gen EXCEPT ![t] = @ + 1]
    /\ holders' = [s \in Socks |-> holders[s] \ {t}]
    /\ owed' = {d \in owed : d[1] # t}
    /\ UNCHANGED <<proto, peer, ident, op, marking, seeding, todo, raced, foreign>>

\* connect(2) to AF_UNSPEC: the sock can be connected again.
Disconnect(t, s) ==
    /\ MayCall(t, s) /\ peer[s] # NoPeer
    /\ peer' = [peer EXCEPT ![s] = NoPeer]
    /\ UNCHANGED <<ctx, gen, proto, holders, ident, op, passVars, histVars>>

-----------------------------------------------------------------------------
\* The hooks.

\* A writer starts on s, on behalf of task t.
Start(a, hook, s, t) ==
    /\ op' = [op EXCEPT ![a] = [hook |-> hook, sock |-> s, task |-> t, gen |-> gen[t],
                                wl |-> ctx[t], at |-> "create", peer |-> NoPeer]]
    /\ owed' = owed \cup {<<t, s>>}

Overlap(s) == raced' = IF Busy(s) THEN raced \cup {s} ELSE raced

\* A bug: connect, like the other hooks, leaves a sock alone that is stamped.
ConnectTcpFirst(t, s, p) ==
    /\ MayCall(t, s) /\ proto[s] = "tcp" /\ peer[s] = NoPeer
    /\ peer' = [peer EXCEPT ![s] = p]
    /\ IF ctx[t] = NoWl \/ ident[s] # NoIdent
       THEN /\ foreign' = IF ctx[t] = NoWl /\ (Stamped(s) \/ Busy(s))
                          THEN foreign \cup {s} ELSE foreign
            /\ UNCHANGED <<op, owed>>
       ELSE foreign' = foreign \ {s} /\ Start(t, "connect", s, t)
    /\ raced' = IF Busy(s) THEN raced \cup {s} ELSE raced \ {s}
    /\ UNCHANGED <<ctx, gen, proto, holders, ident, passVars>>

\* connect(2) of a TCP socket, up to the lookup of the task context in
\* mon_net_connect: the sock has its full tuple by then.
ConnectTcp(t, s, p) ==
    /\ MayCall(t, s) /\ proto[s] = "tcp" /\ peer[s] = NoPeer
    /\ peer' = [peer EXCEPT ![s] = p]
    /\ IF ctx[t] = NoWl
       THEN /\ foreign' = IF Stamped(s) \/ Busy(s) THEN foreign \cup {s} ELSE foreign
            /\ UNCHANGED <<op, owed>>
       ELSE foreign' = foreign \ {s} /\ Start(t, "connect", s, t)
    /\ raced' = IF Busy(s) THEN raced \cup {s} ELSE raced \ {s}
    /\ UNCHANGED <<ctx, gen, proto, holders, ident, passVars>>

\* A bug: a send creates and fills the storage whether there is one or not.
SendAnyway(t, s) ==
    /\ MayCall(t, s)
    /\ ctx[t] # NoWl
    /\ Start(t, "send", s, t)
    /\ Overlap(s)
    /\ UNCHANGED <<ctx, gen, sockVars, ident, passVars, foreign>>

\* mon_net_sendmsg and mon_net_udp_sendmsg, when they find no storage and the
\* task has a context.  A send in any other case writes nothing.
Send(t, s) ==
    /\ MayCall(t, s)
    /\ ident[s] = NoIdent /\ ctx[t] # NoWl
    /\ Start(t, "send", s, t)
    /\ Overlap(s)
    /\ UNCHANGED <<ctx, gen, sockVars, ident, passVars, foreign>>

\* bpf_sk_storage_get with the create flag, then sock_tuple_from_sk.
Create(a) ==
    LET o == op[a] IN
    /\ o # NoOp /\ o.at = "create"
    /\ \/ /\ ident' = [ident EXCEPT ![o.sock] = IF @ = NoIdent THEN Zero ELSE @]
          /\ op' = [op EXCEPT ![a].at = "fill", ![a].peer = peer[o.sock]]
          /\ UNCHANGED owed
       \/ /\ MayFail /\ ident[o.sock] = NoIdent
          /\ owed' = owed \ {<<o.task, o.sock>>}
          /\ op' = [op EXCEPT ![a] = NoOp]
          /\ UNCHANGED ident
    /\ UNCHANGED <<ctx, gen, sockVars, passVars, raced, foreign>>

\* A bug: the context is looked up again, and used without a test.
FillAgain(a) ==
    LET o == op[a] IN
    /\ o # NoOp /\ o.at = "fill"
    /\ ident' = [ident EXCEPT ![o.sock] = [wl |-> ctx[o.task], task |-> o.task, gen |-> o.gen,
                                           peer |-> o.peer]]
    /\ op' = [op EXCEPT ![a] = NoOp]
    /\ UNCHANGED <<ctx, gen, sockVars, passVars, histVars>>

\* A bug: the start time is looked up by the tgid when the identity is filled.
FillByTgid(a) ==
    LET o == op[a] IN
    /\ o # NoOp /\ o.at = "fill"
    /\ ident' = [ident EXCEPT ![o.sock] = [wl |-> o.wl, task |-> o.task, gen |-> gen[o.task],
                                           peer |-> o.peer]]
    /\ op' = [op EXCEPT ![a] = NoOp]
    /\ UNCHANGED <<ctx, gen, sockVars, passVars, histVars>>

\* fill_conn_ident, with the workload id its load has returned.
Fill(a) ==
    LET o == op[a] IN
    /\ o # NoOp /\ o.at = "fill"
    /\ ident' = [ident EXCEPT ![o.sock] = [wl |-> o.wl, task |-> o.task, gen |-> o.gen,
                                           peer |-> o.peer]]
    /\ op' = [op EXCEPT ![a] = NoOp]
    /\ UNCHANGED <<ctx, gen, sockVars, passVars, histVars>>

-----------------------------------------------------------------------------
\* The daemon.

Idle == marking = NoWl /\ seeding = NoWl

\* A tree command: build_tree starts the mark pass.
Tree(w) ==
    /\ Idle
    /\ marking' = w
    /\ UNCHANGED <<ctx, gen, sockVars, ident, op, marked, seeding, todo, histVars>>

\* The mark pass gets or creates the storage of a task below the root.
MarkTask(t) ==
    /\ marking # NoWl /\ marked = Nobody
    /\ ctx' = [ctx EXCEPT ![t] = IF @ = NoWl THEN ZeroWl ELSE @]
    /\ marked' = t
    /\ UNCHANGED <<gen, sockVars, ident, op, marking, seeding, todo, histVars>>

\* It stores the workload there.  A hook that has the storage in hand may
\* have loaded the workload id before, or not.
MarkFill ==
    LET t == marked IN
    /\ t # Nobody
    /\ ctx' = [ctx EXCEPT ![t] = marking]
    /\ \/ UNCHANGED op
       \/ op[t] # NoOp /\ op' = [op EXCEPT ![t].wl = marking]
    /\ marked' = Nobody
    /\ UNCHANGED <<gen, sockVars, ident, marking, seeding, todo, histVars>>

\* The mark pass is over: seed_sockets starts, and owes an identity to every
\* sock a task of the workload holds.
SeedBegin ==
    /\ marking # NoWl /\ marked = Nobody
    /\ marking' = NoWl /\ seeding' = marking
    /\ todo' = Tasks \X Socks
    /\ owed' = owed \cup {d \in Tasks \X Socks : d[1] \in holders[d[2]] /\ ctx[d[1]] = marking}
    /\ UNCHANGED <<ctx, gen, sockVars, ident, op, marked, raced, foreign>>

\* The mark pass fails: handle_tree answers at once.
MarkEnd ==
    /\ MayFail /\ marking # NoWl /\ marked = Nobody
    /\ marking' = NoWl
    /\ UNCHANGED <<ctx, gen, sockVars, ident, op, marked, seeding, todo, histVars>>

\* An untrack command drops the contexts.  Nothing drops the identities.
Untrack(w) ==
    /\ Idle
    /\ \E t \in Tasks : ctx[t] = w
    /\ ctx' = [t \in Tasks |-> IF ctx[t] = w THEN NoWl ELSE ctx[t]]
    /\ UNCHANGED <<gen, sockVars, ident, op, passVars, histVars>>

\* A bug: the pass has an eye for TCP only.
SeedVisitTcp(t, s) ==
    /\ seeding # NoWl /\ op[Seeder] = NoOp /\ <<t, s>> \in todo
    /\ todo' = todo \ {<<t, s>>}
    /\ IF t \in holders[s] /\ ctx[t] = seeding /\ ident[s] = NoIdent /\ proto[s] = "tcp"
       THEN Start(Seeder, "seed", s, t) /\ Overlap(s)
       ELSE UNCHANGED <<op, owed, raced>>
    /\ UNCHANGED <<ctx, gen, sockVars, ident, marking, marked, seeding, foreign>>

\* mon_iter_task_file on one descriptor: a TCP or UDP socket of a task of the
\* workload, not stamped yet, is stamped; anything else is passed over.
SeedVisit(t, s) ==
    /\ seeding # NoWl /\ op[Seeder] = NoOp /\ <<t, s>> \in todo
    /\ todo' = todo \ {<<t, s>>}
    /\ IF t \in holders[s] /\ ctx[t] = seeding /\ ident[s] = NoIdent
       THEN Start(Seeder, "seed", s, t) /\ Overlap(s)
       ELSE UNCHANGED <<op, owed, raced>>
    /\ UNCHANGED <<ctx, gen, sockVars, ident, marking, marked, seeding, foreign>>

\* The pass is over, or the iterator fails, which handle_tree only reports.
SeedEnd ==
    /\ seeding # NoWl /\ op[Seeder] = NoOp
    /\ todo = {} \/ MayFail
    /\ seeding' = NoWl /\ todo' = {}
    /\ owed' = owed \ todo
    /\ UNCHANGED <<ctx, gen, sockVars, ident, op, marking, marked, raced, foreign>>

Step ==
    \/ \E t \in Tasks, s \in Socks, kind \in {"tcp", "udp"}, p \in Peers \cup {NoPeer} :
          Open(t, s, kind, p)
    \/ \E t, u \in Tasks, s \in Socks : PassFd(t, u, s)
    \/ \E t \in Tasks, s \in Socks : Close(t, s)
    \/ \E s \in Socks : Free(s)
    \/ \E t \in Tasks : Exit(t)
    \/ \E t \in Tasks, s \in Socks : Disconnect(t, s)
    \/ \E t \in Tasks, s \in Socks, p \in Peers : ConnectTcp(t, s, p)
    \/ \E t \in Tasks, s \in Socks : Send(t, s)
    \/ \E a \in Writers : Create(a)
    \/ \E a \in Writers : Fill(a)
    \/ \E w \in Workloads : Tree(w)
    \/ \E t \in Tasks : MarkTask(t)
    \/ MarkFill
    \/ SeedBegin
    \/ MarkEnd
    \/ \E w \in Workloads : Untrack(w)
    \/ \E t \in Tasks, s \in Socks : SeedVisit(t, s)
    \/ SeedEnd

\* Who holds the sock and is tracked.
Current(s) == {<<t, gen[t], ctx[t]>> : t \in {t \in holders[s] : ctx[t] # NoWl}}

\* The identity of the sock, or a writer at it, is about this process and workload.
Named(s, t, g, w) ==
    \/ Stamped(s) /\ ident[s].task = t /\ ident[s].gen = g /\ ident[s].wl = w
    \/ \E a \in Writers : At(a, s) /\ op[a].task = t /\ op[a].gen = g /\ op[a].wl = w

\* The history of who held a sock, as far as it can still matter.
Record ==
    held' = [s \in Socks |-> Current(s)' \cup {h \in held[s] : Named(s, h[1], h[2], h[3])'}]

Next == Step /\ Record

Spec == Init /\ [][Next]_vars

-----------------------------------------------------------------------------
\* Properties.

\* An identity names a process that held the sock while its context had that
\* workload id, be it the 0 of a context that was not filled yet: descriptors
\* passed around, tgids reused and passes that race with system calls
\* attribute no sock to another process, nor a process to another workload
\* (mon_net.bpf.c:75-77, 315-317).
IdentHonest ==
    \A s \in Socks : Stamped(s) => <<ident[s].task, ident[s].gen, ident[s].wl>> \in held[s]

\* The socks of a task with a context have an identity: once it has connected
\* or sent, or a seed pass has been over the descriptors a task of the
\* workload had when the pass began, and it keeps it after an untrack as long
\* as the sock lives (net.rs:8-15).  The sock is one the hooks see: TCP, or
\* UDP over IPv4, as nothing is attached to the send of UDP over IPv6.
Attributed ==
    \A d \in owed \ todo : ~Busy(d[2]) => Stamped(d[2])

\* The identity of a TCP sock has the tuple of its connection, also when it
\* was stamped before it was connected (a fast open) or has been connected
\* again, provided a tracked task did it and no other writer interfered
\* (mon_net.bpf.c:89-91).
TupleFresh ==
    \A s \in Socks :
        proto[s] = "tcp" /\ Stamped(s) /\ ~Busy(s) /\ s \notin raced \cup foreign
            => peer[s] \in {NoPeer, ident[s].peer}

\* The first identity wins: only a connect replaces it (mon_net.bpf.c:299-301),
\* unless two writers were at work on the sock at once.
FirstWins ==
    [][\A s \in Socks :
          Stamped(s) /\ ident'[s] # ident[s] /\ proto'[s] # "none" /\ s \notin raced =>
              \E t \in Tasks : op[t] # NoOp /\ op[t].sock = s /\ op[t].hook = "connect"]_vars

\* A sock already stamped is left alone by the seed pass
\* (mon_net.bpf.c:300-301, 327).
SeedLeavesStamped ==
    op[Seeder] # NoOp /\ op[Seeder].at = "fill" => ~Stamped(op[Seeder].sock)
=============================================================================

# Formal models of aidr

aidr watches AI agents on a Linux host. BPF programs attached to the kernel's
fork/exec/exit, network and file paths record what *tracked* tasks do; a
single-threaded daemon (`mon`) loads them and takes commands over a unix socket;
`cli/track.py` sends the commands. These modules model the parts in which
something can go wrong between two steps, or at a boundary no test sits on:
hooks that run on every CPU without locks, passes over lists that change
underneath them, maps that recycle their elements, searches and loops whose
number of rounds is fixed, parsers of paths and packets, and a daemon that is
killed, signalled and kept waiting.

## The system

| Component | State | Operations | Interaction |
|---|---|---|---|
| Process tracking (`bpf/mon_procs.bpf.c`, `mon/src/tasks.rs`) | `task_ctx_map`: per task the workload, tgid, tid, depth; globals of the current pass | hooks: fork copies, exec refreshes, exit drops; passes: mark, unmark | every other program asks the map whether the current task is tracked |
| Socket identities (`bpf/mon_net.bpf.c`, `mon/src/net.rs`) | `conn_ident_map`: per sock the workload, process, tuple | `tcp_connect`, `tcp_sendmsg`, `udp_sendmsg`, seed pass | reads task contexts; the seed pass follows each tree command |
| Packet parsing (`bpf/mon_net.bpf.c`, `bpf/mon_progs.bpf.h`) | `dns_state_map`, `jmp_table` | the server name of a TLS hello; the name and the addresses of a DNS response, over a tail call | for socks with an identity |
| File codons (`bpf/mon_files.bpf.c`) | `open_files`: per open file its description and seen verbs; `ws_roots`: per workload its repository; the frozen extension table | open, permission, mmap, truncate, free; unlink, rmdir, rename | reads task contexts |
| Credential matcher (`bpf/mon_file2.bpf.c`) | pattern tries, filled by the loader | file open | reads task contexts |
| DNS matcher (`bpf/mon_dns.bpf.c`) | rule trie, filled by the loader | UDP sends to port 53 | reads task contexts |
| Loader (`mon/src/bpf.rs`) | skeletons, links, shared maps | load, attach, detach | fills tables, shares `task_ctx_map` |
| Command server (`mon/src/server.rs`, `main.rs`, `signals.rs`) | listener, shutdown flag | accept, read lines, answer, stop | one command at a time, calls tasks and net |
| Command line tool (`cli/track.py`) | none | `--tree`, `--untrack` | reads `/proc`, sends a command |
| Logging, build files, tests, design document | – | – | – |

What is hard to test: the hooks interleave with each other and with the passes;
pid numbers, `struct file` addresses and map elements are reused; a pass sees a
list that changes; one step of several fails; a client goes silent with its line
half written; a length stands at the edge of a buffer. `PROJECT.json` lists these
hazards one by one with the line at which each bites and the property that
would catch it.

What makes each component correct:

- *Process tracking*: after a tree command everything below the root is tracked
  and nothing else ever is; after an untrack nothing of the workload is; a
  context that nobody is filling names the task it is attached to; every command
  is answered.
- *Socket identities*: an identity names a process that really held the sock,
  and the workload id its context had then; a tracked task's socks have one; it
  carries the tuple of the connection; the first one stays.
- *Packet parsing*: a line says what the packet says, no other name and no other
  address. There is one for a hello that was read whole, if it opens a connection
  whose sock was stamped with port 443, and for a response that was read whole.
- *open_files*: no verb is lost, none that was dropped is logged, an entry
  belongs to the open it is found for; a removal is described as the creation of
  the same file was, but for the workspace, which only the creation knows.
- *Workspace*: what is called WS lies in a repository the workload opened,
  which is never a system root or a home directory, and never changes.
- *Extension classes*: each extension gets the class it is listed under.
- *Matchers*: a path, or a name, is reported as a hit exactly when a pattern
  covers it, whatever the order of the list and the bytes of an earlier path.
- *Loader*: while a task is tracked every hook is attached, every table is full
  and all programs look tasks up in the same map.
- *Command server*: lines are answered once each, in order; the socket's path
  leads to the daemon that serves; a client that falls silent loses its stream,
  and a signal ends the daemon once its clients are quiet.

## Modules

Every action is one atomic step of one actor; a hook that reads shared state
and later writes it is split where another CPU can come in between. What a hook
computes from its arguments alone is an operator.

**TaskTracker** – `status`, `tgid`, `parent`, `start`, `by`, `last` are the
kernel's task list, one slot per pid number. `ctx` is `task_ctx_map`; `got` is
what a running fork hook has looked up. `cmd`, `stage`, `cursor`, `mark`,
`removed`, `reply` are the daemon: the command, the pass, the next pid the
iterator looks for, the context the mark pass is filling and the pid number it
has loaded for it, whether the first unmark pass printed a line, and the answer.
Storage is created zeroed (`ZeroCtx`) and filled later, by the fork hook as by
the mark pass; hooks on other CPUs come in between, and the task may exit or
change its pid number, with the pass still holding its storage (`Kept`,
`MarkMoves`).

| Action | Code |
|---|---|
| `ForkRead`, `ForkCopy` | `mon_proc_fork`, lookup and copy |
| `ExecHook`, `ExitHook` | `mon_proc_exec`, `mon_proc_exit` |
| `StartPass`, `Visit` (`MarkTask`, `Unmark`), `EndMark`, `EndUnmark`, `FailPass` | `run_iter`, `mon_iter_task`, `handle_tree`, `untrack_tree`, the error paths |
| `MarkTask`, `MarkFill`, `MarkTid` | `mon_iter_task`: the storage is created; the workload and the tgid are stored and the pid is loaded; the pid is stored |
| `SendTree`, `SendUntrack` | `cli/track.py`, with the start time read from `/proc` |
| `Tick`, `ForkProcess`, `ForkThread`, `ExecSwap`, `ExitNotify`, `Reap` | the kernel, external: as far as the hooks can tell |

The kernel adds a child to the task list before the fork hook runs and hands
children to a live thread of the parent's group, else to init; a leader stays
as a zombie while threads live; a thread's exec takes over the leader's pid
number, start time and children. `DepthBelow` is the bounded walk of
`depth_below` as a set that is empty where the code returns -1.

**TaskTrackerHistory** adds `kin` (who descends from a requested process),
`churn` (a race the two unmark passes are not made for) and `crossed` (tasks that
an exec renamed while the mark pass held their old pid number), which only record.

**NetIdent** – `ident` is `conn_ident_map`, `op` what each writer is doing:
lookup, create and read the tuple, fill, in three steps; the peer of a UDP sock
is not followed. `proto`, `peer`,
`holders` are the kernel's socks and descriptors, `ctx` and `gen` the tasks:
`gen` counts the processes that had a tgid and stands for
`leader_start_boottime`. A tree command marks tasks one after the other, each in
two steps (`marking`, `marked`): a context of workload 0, then of the workload,
so that a hook may come between. Then it visits each (task, sock) pair. Which
tasks are marked is TaskTracker's subject; here it is any. `owed`, `raced`, `foreign`, `held` are histories the properties need.

| Action | Code |
|---|---|
| `ConnectTcp`, `Send`, then `Create`, `Fill` | `mon_net_connect`, `mon_net_sendmsg`, `mon_net_udp_sendmsg`: lookup, `sk_storage_get` with the tuple, `fill_conn_ident` |
| `Tree`, `MarkTask`, `MarkFill`, `MarkEnd`, `Untrack` | `handle_tree`, `mon_iter_task`, as far as identities can tell; a mark pass that fails; `untrack_tree` |
| `SeedBegin`, `SeedVisit`, `SeedEnd` | `mon_iter_task_file` by `seed_sockets` |
| `Open`, `PassFd`, `Close`, `Free`, `Exit`, `Disconnect` | the kernel, external |

**OpenFiles** – `elem` are the elements of the LRU map, `op` the half-done
`note_access` of each CPU, which holds a pointer to an element whatever becomes
of it. The load of `seen` happens once per call, as compilers make it of
line 630 and 632. `Quiet` are the masks `quiet_mask` may return.
`OpenPark` and `OpenPlain` are `mon_files_open`, `AccessLoad` and `AccessStore`
the two halves of `note_access`, `FileFree` is `mon_files_free`.

**PathCodon** (with **Roots**, the table of root names) – the part of
`mon_files.bpf.c` that looks at one file alone: `CreateLine` is what an open
that creates it logs, through `ScanDepth` (`path_scan`), `QuietMask` and, with
the workspace its identity has learned as an argument, `InWs` and `WsDepth`
(`ws_apply`, which Workspace has in detail); `RemoveLine` what its removal logs, through the rounds of `dentry_depth`'s walk
and `RemoveQuiet`. A place is a list of components with the mounts and the
task's root on the way; a component is what the rules can tell of it.

**Workspace** – `elem` are the elements of `ws_roots` with `path`, `depth` and
`len` written by separate actions, `op` what each CPU is doing in `ws_apply`,
`coded` how it classified its latest path. A path is a sequence of components;
a prefix with its trailing '/' is a prefix of components.
`Apply` is the lookup in `ws_apply`, `Insert`, `Find`, `FillPath`, `FillDepth`
and `FillLen` are `ws_learn`, `LoadLen` and `Compare` are `in_ws`.

**WorkspaceOnce** says what the readers of that map are promised: a register per
workload that is set once, in one step; a call answers with the root above its
path, and only a call that began before the root was set may miss it. Workspace
implements it (`ImplementsOnce`): the abstract root is the element's path from
the moment `len` is written (`Register`), every earlier step of the writer is a
stutter, and the abstract verdict is the prefix that `coded` has counted the
depth from (`Verdict`).

**ExtClasses** – `Listings` are files the daemon may find; `Load` accepts or
refuses one and sorts it; `Classify`, `Halve`, `Answer` are a lookup, one round
of the search per step. The characters are ASCII codes, few of each kind, and
the eight-byte word is a number whose order is bytewise order.

**LpmTrie** is the kernel's prefix trie, external: an update replaces, a lookup
takes the longest entry that is a prefix of the key.

**CredMatch** – `PatternOk`, `PatternData` and `InsertPattern` are
`load_cred_patterns`; `ScanOff` with `ScanKey` is the loop over the path's
slashes, `NameLookup` the reversed last component, `CredLogged` the hook. An open
carries the bytes that an earlier path left behind its NUL. `Covers` says what a
pattern means, in the words of the comments on `CredKind`, without a trie.

**DnsMatch** – `RuleOk` and `RuleData` are `dns_rule_key`; `Byte` is one round of
`qname_cb`, `HandleSend` the checks of `handle_send`, `DnsLogged` the two hooked
functions with the kernel's way from one to the other. `RuleCovers` says what a
rule means over labels, without bytes.

**Packets** – `ParseSni` with `SniExt`, `ParseQname` with `QnameByte`,
`ParseAnswers` with `Answer`, each loop a fold over its rounds; `SendLogged` is
`mon_net_sendmsg`, which parses the first bytes of a connection stamped with port
443 only; `RecvLogged` joins the two programs through `jmp_table`. `SniBytes` and `DnsBytes` encode a packet
whose meaning is known, `ReadableLen` what the kernel's iterator tells the hook
of the receiver's buffer. `SniRight` and `AnswersRight` compare a line with that
meaning.

**Recorder** composes the four above with the loader: `patterns` and `rules` are
what the daemon was built with, `step` runs down `Steps`, the list of what
`load()` does, and `links`, `tries`, `trie`, `ctxMap`, `jmp` are what it has left
so far. The system is live all the while, so a call may come at every step.

| Action | Code |
|---|---|
| `Load`, `LoadPattern`, `LoadRule`, `Attach`, `FillJmp` | `load`, in its order: `reuse_fd` and load of the five objects, `load_cred_patterns`, `load_dns_rules`, `attach_all` and the iterators, the two updates of `jmp_table` |
| `Bind`, `Leave` | `main`: the server after the load; the error path of any step, or a signal |
| `DropLink`, `DropObjects`, `Restart` | `detach()`, and the drop of a `Bpf` that is half filled; a new start |
| `Track` | a tree command, as far as the maps can tell |
| `Call`, `Return` | a hooked kernel function: `mon_file2_open`, the DNS hooks, `mon_net_sendmsg`, `mon_udp_recvmsg`, `log_remove` |

**CommandServer** – `pc` is where the daemon's thread is, `stream` and `backlog`
its connections, `name` the listener the socket's path leads to, `start` the
number of starts. Of each client `conn`, `sent`, `seen` are its own side, `line`,
`ran`, `out` what was done for it, `cut` says that a part of an answer was
written. A line may be written in any number of parts, `unread` being those the
daemon has not seen; a client whose connection is over may begin another one, as
often as it likes.

| Action | Code |
|---|---|
| `Start`, `Unlink`, `Bind`, `SetNonblocking` | `main`, `bind_unix_listener` |
| `LoadFails`, `BindFails`, `SetNonblockingFails` | an error before the path is touched; of `bind`; after it, which leaves the new name |
| `Check`, `Accept`, `AcceptEnds` | the loop of `main`, `poll_and_handle` |
| `SetupFails`, `Read`, `ReadPart`, `ReadEnds`, `Respond`, `RespondFails` | `handle_stream`: the read timeout begins anew with every part that comes in; a command is answered ok or, when its handler failed, error |
| `DropServer`, `Signal`, `Kill` | `detach`, `Drop for Server`; `signals.rs`; a SIGKILL |
| `Connect`, `Renew`, `Write`, `Receive`, `Close` | clients, external |

What a command does while it runs is TaskTracker; CommandServer says when and
for whom, TaskTracker what, and each takes the other as given: TaskTracker has
one command at a time because CommandServer's `Read` is the only place that runs
one.

**MC modules** give TLC its inputs and symmetry. **\*Proofs** hold theorems.

A definition whose comment begins with "A bug:" is a mutated form of the one
after it, kept to show that a property notices it; no specification uses it.

## Runs

| Run | Instance | Shows |
|---|---|---|
| tree | 4 pids, depth limit 2, ticks up to 3, no threads, increasing pids | `TreeCovered`, `Served` |
| workloads | 3 pids, 2 workloads, ticks up to 4, threads, reused numbers, failures | `CtxIdentity`, `OnlyKin`, `UntrackDrops` |
| tree_threads | as tree with threads | violated: see below |
| untrack_all | 4 pids, 1 workload, reused numbers, no threads, no failures | violated: see below |
| open_files | 2 files, 1 element, 2 CPUs, counts up to 4 | `NoSilentVerb`, `EntryOfThisOpen`, `PresetNeverLogged` |
| logged_twice | 1 file, counts up to 9 | violated: see below |
| ext_classes | tables of 0, 1, 2, 3, 7, 511, 512 entries and one of 513; every key in, between and beyond the entries | `SearchExact`, `ClassListed` |
| net_ident | 2 tasks, 1 workload and the id 0, 1 sock, 2 peers, one process replaced, failures | `IdentHonest`, `Attributed`, `TupleFresh`, `FirstWins` |
| seed_first | 2 tasks, 2 workloads, 1 sock, 1 peer, no failures | violated: see below |
| workspace | 3 CPUs, 2 workloads, 2 elements, 7 paths | `WsNarrow`, `ImplementsOnce` |
| hooks | 2 builds that load and others that are refused at one entry; over a thousand calls, at every step of load and detach | `ReadyWhenTracked`, `CredExact`, `DnsExact`, `SniExact`, `AnswersExact`, `RemoveExact` |
| server | a client of two lines on each connection and one that writes none, any number of connections, room for one response, two starts, failures | `AnsweredInOrder`, `PathTrue`, `StreamEnds`, `SignalEnds` |

Each passing run also checks its module's type invariant.

### Bounds

*tree*: `NTids` 4 leaves room for init, the root, a child and a grandchild that
is deeper than `MaxDepth` 2 reaches, so that both ways of `resolve_ancestor`
matter; or for two children of an agent on either side of the cursor.
*workloads*: `MaxTick` 4 lets a number be reused outside the tick of slack, two
workloads let a context be of the wrong one. Three pids are init, a root and a
child; what the properties say of more is proved, and `OnlyKin` needs a stranger
on a number that the requested process had, no fourth task.
*open_files*: one element for two files makes every second insert recycle;
`MaxLog` only stops the counters. *net_ident*: `MaxGen` 1 replaces one process;
one sock suffices because no action relates two; two peers let it be connected
again elsewhere; with one workload a context is of it or of none or unfilled, and
for any number of workloads the properties are proved. *workspace*: one CPU fills, one loses the insert, one reads.
*server*: with room for one response the second waits for its reader; a line of
`MaxLines` may come in any number of parts, and connections are not counted, so
that a client can keep its stream for ever, or keep the poll going by coming
back; the second client need not write to be waited for; the second start comes
over what the first left.

*hooks*: the sizes in the configuration (`PATH_BUF` 8 for 4096, `MAX_PAT` 5 for
128, `NAME_MAX_REV` 3 for 64, `NAME_MAX_LEN` 9 for 253, `MAX_EXTS` 3 for
10, `MAX_ANSWERS` 3 for 4, `NAME_ROOM` 5 for 64, `MAX_READ` 160 for 255,
`PATH_MAX` 30, `WALK_MAX` 8, `USER_MAX` 8) are so small that the inputs meet
every limit and pass it by
one; the code has the sizes as macros and uses no other property of them. Byte
lengths of 128 and more, at which a signed char changes a length, occur.

Symmetry permutes only values no action tells apart, and is not used where
liveness is checked. Deadlock is checked except in ext_classes, where a daemon
that refused its listing really stops, and in server, where the last daemon has
ended and its clients are done.

What the properties assume, each stated in the property or its comment:
`TreeCovered` is about a root that still runs and tasks with no exiting ancestor
in between; `UntrackDrops` excludes the races `ChurnStep` names and is about
commands answered ok; `CtxIdentity` leaves out contexts under way and the pid of
tasks in `crossed`; `OnlyKin` and `IdentHonest` allow the workload id 0 of
storage not filled yet (see the limits below); OpenFiles'
properties exclude files whose element the LRU recycled; `TupleFresh` and
`FirstWins` exclude socks on which two writers overlapped; the workspace run
gives the map an element for every workload; `SniExact` and `AnswersExact` demand
a line of packets that were read whole and have no length the code misreads, the
first of hellos that open a connection stamped with port 443 (and forbid a wrong
line of any packet); `StreamEnds` is about a client that stops writing and
connecting, `SignalEnds` about clients that all do; `RemoveExact` compares the places that an open
and a removal can both see (`Comparable`).

### Where the code and its comments differ

- **tree_threads.** `server.rs:18` promises every task under the pid. A thread
  is recognised as part of the root process only if *its own* start time is
  within a tick of the requested one, so threads the root starts later, and
  processes reparented to them, are left out (`mon_procs.bpf.c:29-33`).
- **untrack_all.** `server.rs:20` promises that every context is dropped. A
  task that forks behind the second pass as well, or that hands its context on
  and exits before the first pass counts it, leaves a tracked child.
- **logged_twice.** `mon_files.bpf.c:623-624` says a race can log a verb twice
  at worst. A stale store also clears the bit of the other verb, and it is
  logged again: three times and more.
- **seed_first.** `mon_net.bpf.c:300-301` says a stamped sock is left alone. The
  seed pass tests and then creates: a connect in between is overwritten.

### Limits of the code the models show

Behaviour that no comment denies, modelled as it is:

- The mark pass creates a context (`mon_procs.bpf.c:168`) before it stores the
  workload (172), and whoever finds a context takes its task for tracked. A fork
  in between hands workload 0 to the child, which no untrack of the workload
  finds; a connect or send in between stamps its sock with workload 0, and the
  seed pass leaves it so. `OnlyKin` and `IdentHonest` allow this 0 and no other
  workload.
- The mark pass loads the pid number and stores it (174): when a thread's exec
  renames the task and its hook refreshes the context in between, the old number
  is put back. `crossed` are the tasks this can happen to.
- A length of a TLS or DNS packet is put together from signed chars. From a low
  byte of 128 up it becomes 65280 and more, which ends the parse (`Packets!U16`):
  such hellos and responses get no line.
- `mon_udp_recvmsg` runs when the kernel has moved the iterator past the message.
  For a single buffer its count is then the room that is left, and for a vector
  whose first segment the message fills it points beyond it (`ReadableLen`): the
  addresses of a response are found if as much room is left as it is long.
- The SNI walk counts the header of a name list twice when it passes over one.
- A first path component of one or two letters is counted one level too shallow
  by an open and not by its removal; a user name above 57 letters, and the
  `.cache` directory itself, are treated differently by the two.
- C lines of files in the learned workspace have root WS and a depth below it, D
  lines never do: `RemoveExact` says by how much the two differ.
- The read timeout of the command socket is per read, and the shutdown flag is
  read between two polls: a client that sends a byte every now and then, or
  clients that keep connecting, hold the daemon, and SIGTERM with it, as long as
  they like.
- A start that fails before the bind leaves the dead name of an earlier start at
  the socket's path; one that fails after it leaves its own.
- IPv6 UDP sends pass no hook of mon_net: such socks are stamped by the seed
  pass only, and their responses are not read.
- A workspace root may be evicted from a full map, and the next repository takes
  its place: with fewer elements than workloads `ImplementsOnce` does not hold.

## Fairness

`Served` needs weak fairness of the daemon's own steps: its loop is one thread
that does nothing else while it serves a command. The pass ends because the
cursor only moves up the pid numbers and the second unmark pass is the last.

`StreamEnds` and `SignalEnds` need weak fairness of `DaemonStep`, the one thread
again, whose timeouts are steps of it: wherever it would block on a client, the
kernel ends the call. What clients must do is said in the properties and not
assumed of the model: that from some point on they neither connect nor write, one
of them for `StreamEnds`, all for `SignalEnds`. They need not read, close or
finish a line, and nothing is asked of signals, restarts and failures. Without
that premise both are false, as the code leaves it to the clients when a stream
ends.

## Proofs

All theorems hold for every value of the constants that satisfies the named
assumptions in the modules that declare them: sizes are natural numbers
(`NTids > 1`, `MaxDepth > 0`, `CredSizesAssumption`, `PathSizesAssumption`), stand-ins for "nothing" are
none of the things (`WorkloadAssumption`, `NothingAssumption`,
`ClientAssumption`), and inputs have the shape the kernel, the compiler or the
parser gives them (`CallsAssumption`: a path is a C string, and a removal is of a
file that has a name and lies below its mounts; `BuildsAssumption`:
`CRED_PATTERNS` and `DNS_RULES` are lists; the four of ExtClasses). TLC evaluates
each of them on the instances.

**Process tracking.**

- `TaskTrackerProofs!TypeCorrect`, `IdentityCorrect`: `Spec => []TypeOK` and
  `HSpec => []CtxIdentity`. The inductive invariants (`Inv`, `IdInv`) add to them
  what the hooks rely on: exactly the tasks inside a fork hook have a creator, a
  free slot has no context, and what the mark pass holds is of the task it is at:
  the number it has loaded is that task's unless an exec renamed it since
  (`crossed`). Without it an exec that moves storage from slot to slot could leave
  a context under a pid number of another task, and a pass could fill one that is
  no longer its task's.
- `TaskTrackerProofs!TreeCoverage`: `ASSUME SingleCase PROVE Spec => []TreeCovered`
  for any number of pids and depth limit. `SingleCase` switches off threads,
  failing updates and the wrap of pid numbers, as the run tree does: with threads
  the property is false (tree_threads), a failing update may leave anybody out,
  and pid order is what the pass relies on. The invariant (`Covered`) says of the
  part of the tree that the cursor has passed, and of the forks under way there,
  that it has contexts, filled or not. The hard part are tasks with a context of *another*
  workload, at which `resolve_ancestor` does not look further: they are in a set
  that hands contexts on by itself (`Heirs`).
- `TaskTrackerProofs!UntrackCorrect`: `HSpec => []UntrackDrops`. The
  invariant follows the cursor: in the second pass no task below it has a context
  of the workload and no fork hook holds one, unless `churn`; in the first pass
  the same holds or `removed` is set. Each action is shown to keep it, fork hooks
  being the hard case.
- `TaskTrackerProofs!HistoryTypeCorrect`, `KinOnly`: `HSpec => []HTypeOK`
  and `HSpec => []OnlyKin`, with threads, wrapped pid numbers and failures. Kin
  are closed under children and under the tasks of one process (`Kinship`), so
  what a hook copies stays among them; a process that has taken over the
  requested pid number is kin or started more than the tick of slack later
  (`RootKin`), so that the pass does not take it for the root. The task whose
  context is being filled stays kin while the pass holds it, or has lost it
  (`MarkKin`).

**Sockets and files.**

- `NetIdentProofs!TypeCorrect`, `NoStranger`: `Spec => []IdentHonest`. The
  invariant is about writers at work: each names a process that held the sock
  while its context had the workload id it writes, the 0 of an unfilled one
  included. A hook acts for its own task, which is in a system call on the sock
  and can neither close it nor exit, so that a workload the mark pass stores
  meanwhile is one of a holder too; the seed pass acts for another, whose context
  only its exit can change, because commands wait for the pass.
- `NetIdentProofs!SocksAttributed`: `Spec => []Attributed`. Where a task is owed an
  identity it holds the sock, and the sock has one, or a writer has its storage in
  hand or acts for that task, or the seed pass has still to come by (`OInv`).
- `NetIdentProofs!TupleIsFresh`, `FirstStays`: `Spec => []TupleFresh` and, an
  action property, `Spec => FirstWins`. The invariant (`FInv`) says that a sock
  with no race has one writer, that it is a connect if the sock already has an
  identity, and that the tuple it has read is that of the connection; so only a
  connect can replace anything.
- `OpenFilesProofs!TypeCorrect`, `NoVerbLost`, `PresetStays`, `EntryIsOfOpen`:
  what no race on the seen bits can do, for any number of files, elements and
  CPUs. The invariant bounds the bits between two sets: what an element holds,
  and what a call has loaded and is about to store, contains what was preset
  (so a preset verb is never logged) and lies in what has been accounted for
  (so a verb whose bit is found set was logged). A stale store can move the bits
  within these bounds only, which is also why it can log a verb again.
- `WorkspaceProofs!TypeWithRoom`, `NarrowWithRoom`, `OnceWithRoom`: `Room` says
  that the map has an element for every workload (both finite). Then no element
  is recycled (a pigeonhole argument: a workload without an element leaves one
  unused), only one CPU fills an element, and `len`, written last, tells that the
  path and the depth are there. From this `Spec => []WsNarrow`, and
  `Spec => ImplementsOnce`: each step is shown to be one of WorkspaceOnce's under
  the mapping `Register`, `Call`, `Verdict`, or a stutter.
- `ExtClassesProofs!TypeCorrect`, `SearchCorrect`: `Spec => []SearchExact`, for
  every listing the daemon accepts. The invariant says that the entry with the
  key, if any, lies in the window `base .. base + n - 1`, that the window lies in
  the loaded entries, and that after r rounds it has at most `Left[r]` entries, a
  table that goes from 512 to 1.
- `ExtClassesProofs!ClassCorrect`: `Spec => []ClassListed`. The search finds a
  word; that the word is the extension's is a lemma about the packing
  (`WordTells`): two names of at most eight letters and digits have the same word
  exactly if they are the same up to case, whatever the folding by `| 0x20` does
  to a digit. It holds for every listing and extension over the model's
  characters, a few of each kind (`Char`).

**Loader and matchers.**

- `RecorderProofs!TypeCorrect`, `LoadedWhenTracked`: `Spec => []TypeOK` and
  `Spec => []ReadyWhenTracked`, for every build and all sizes. A step is done by
  what it leaves in the maps; the invariant says that all steps before `step`
  are, and that serving begins only behind the last. No step undoes another's
  work: an insert keeps the keys a trie has.
- `RecorderProofs!CredCorrect`: `Spec => []CredExact`, for every list of patterns
  and every path. Lemmas say what the lookup key at a slash matches: a tail
  pattern, which ends in a NUL, exactly the rest of the path (`TailMatch`), a
  substring exactly where it stands (`SubstrMatch`), a reversed name exactly the
  end of the last component (`SuffixMatch`), although the key is cut at the
  longest pattern and stale bytes stand behind the path. `ScanIs` and `NameIs` put
  them together with what a trie answers (`LookupIs`). The invariant (`CredInv`)
  adds that a trie holds nothing but accepted patterns under their own keys, and
  with `LoadedWhenTracked`'s that it holds them all when a task is tracked.
- `RecorderCallProofs!RemoveCorrect`: `Spec => []RemoveExact`, for every path,
  any workspace, mounts and roots, and all sizes of the buffers. The hooks' loops are folds;
  `FoldExists` and `FoldSteps` turn a fold into a walk, a function that says what
  the loop holds after each round, and a walk keeps an invariant (`NatUp`). That
  of the dentry walk (`WalkAt`) counts its rounds: after k of them it has met as
  many names and mount points, knows the first three names below where it is, and
  is at the root only where the path begins (`DentryDepthIs`). The scan of the
  path, from the other end, counts the same names (`ScanDepthIs`).
- `RecorderCallProofs!DnsCorrect`: `Spec => []DnsExact`, for every list of rules
  and every query. `Offsets` says where each label ends, in the wire and in the
  dotted text alike. The name's loop has, after p bytes of the wire, the first
  p - 1 of the text, or has given up for want of room (`LabelStep`,
  `BehindStep`, `QnameIs`); a wire without a name leaves it none (`NoName`). In
  the text only the ends of labels are dots and nothing is a NUL (`TextChars`),
  so that a reversed rule begins the reversed name exactly if it is the name or,
  for a wildcard, ends it behind a label (`ExactMatch`, `WildMatch`,
  `WildCovers`, `CoversIs`); the trie answers with the longest (`LookupIs`).
  The invariant (`DnsInv`) is `CredInv`'s for the rules; of the two hooks exactly
  one handles a send (`OneHook`).
- `RecorderCallProofs!SniCorrect`: `Spec => []SniExact`, for every hello, first
  on its connection or not, to any port, stamped before or by this send. The
  encoder is unfolded into places: `HelloOf` says at which offset each field of
  the hello stands and `ExtsIn` where each extension begins. As far as the read
  goes, and no further than offset 255, the parser reads those bytes (`Reading`,
  `WordRead`); behind it, it gives up. After each round the walk stands at the
  next extension, or it has stopped, and a line is logged only at the first
  server name; a byte of an extension is never taken for the head of one.
- `RecorderCallProofs!AnswersCorrect`: `Spec => []AnswersExact`, for every
  response, a buffer of any size and either kind of iterator. `ResponseIn` is the
  encoder unfolded into places: where each label of the question ends
  (`LabelsIn`) and where each answer does (`AnswersIn`). After m rounds the name's
  loop has m bytes of the name, with dots for the lengths of labels (`NameUpTo`,
  `NameWalked`). Where it ends short of the name, the byte at which the answers
  are taken to begin is one of the name or of the question, hence not the head
  of a pointer, and no line is logged (`QuestionBytes`, `QuestionRead`,
  `NothingTold`); otherwise the answers' loop stands, after each round, behind as
  many answers as it has gone over and has told of just the addresses in those
  (`AnsKept`, `AnswersWalked`). A count or a length that is read as another one is
  larger than the bytes read have room for (`CountRead`, `LargeRead`).

**Command server.**

- `CommandServerProofs!PathLeads`: `Spec => []PathTrue`, wherever a SIGKILL or a
  failing call of a start falls.
- `CommandServerProofs!TypeCorrect`, `AnsweredOnce`: `Spec => []TypeOK` and
  `Spec => []AnsweredInOrder`, for any number of clients, connections and lines. The
  invariant (`AInv`) says that a connection waits in the backlog once and unread, that the
  answers are level with the lines read or, between `read` and `respond` and
  after a stream that ended there, one behind, and that both are in order.

What these assume of the constants, each in an `ASSUME` that the runs evaluate:
the sizes are natural numbers and the bytes read of a query are enough for the
longest name and three more (`DnsSizesAssumption`; 500 against 256 in the code);
a path is a C string; a file that is removed is there (`IsPlace`); a query's wire
begins with its labels, none of them with a '.' or a NUL in it, and a question's
end, or with no name (`Spells`); the types and lengths of a hello fit their bytes,
and the length of a server name's extension is that of the name with its header
(`IsHello`), as do those of an answer, and a label of a response's name has up to
63 bytes, none of them 192 or more, as in a host name, which is ASCII
(`IsResponse`); between 12 and 255 bytes of a packet are read
(`PacketSizesAssumption`; offsets are masked with 0xFF in the code, and a header
is always read).

Only model-checked: `Served`, `StreamEnds`, `SignalEnds` (liveness is out of the
prover's reach). Where
a proof needs a least or a greatest number it takes it from `WFMin`, because the
library's induction theorems take an operator as a parameter, which the provers
cannot instantiate (`LeastNumber`, `NatUp`).

## Not modelled

- The depth in a task context, the tid of an identity, the line of a first send
  to another port than 443, and `mon_iter_tcp`, which nothing starts.
- Two writers that fill one identity at the same time leave one of them whole in
  the model; in the code their fields may mix. Likewise the fork hook stores the
  workload, tgid and tid of a child in one step, of which only passes could see
  a part.
- Stale bytes behind the NUL of an extension, which `nameclass_of` masks off.
- Log levels, formatting, the text of responses and of the iterators' output, the
  query type in a DNS line; `logger.h` and `logger.rs` are this only.
- The JSON of a command: a line is a command, no command or blank.
- Preemption of a hook by another one of the same CPU (the per-CPU scratch
  entries and `dns_state_map` would be shared); reordered stores (memory is
  sequentially consistent); user memory that cannot be read, except in DNS
  queries; a dentry that is renamed during the walk of a removal.
- Labels with a '.' or a NUL in them; a class name that `NAMECLASSES` lacks.
- Two daemons at once on one socket path: the older one's `Drop` would remove the
  name of the newer.
- Build files, tests and scripts, which have no state, and the genome design,
  which the code implements only as far as described here.

## Plan

Done: TaskTracker and its history; OpenFiles; ExtClasses; NetIdent; Workspace
with WorkspaceOnce; CommandServer; PathCodon; CredMatch, DnsMatch and Packets;
Recorder with the loader; the proofs listed above.

Left:

1. A second hook on the same CPU in the middle of the first, for the scratch
   entries and `dns_state_map`.

------------------------------- MODULE Recorder -------------------------------
(***************************************************************************)
(* The five BPF objects from load to detach (bpf.rs), and the hooks that   *)
(* answer a single call: credential opens, DNS queries, TLS hellos, DNS    *)
(* responses and removals.                                                 *)
(*                                                                         *)
(* load() runs down a list of steps while the system is live: a program    *)
(* takes calls from the moment it is attached.  Any step may fail, and     *)
(* then everything done so far is dropped.  What makes this safe is that   *)
(* no task is tracked before the daemon serves, and that all objects look  *)
(* tasks up in the one task_ctx_map that mon_files created.                *)
(***************************************************************************)
EXTENDS CredMatch, DnsMatch, Packets, PathCodon

CONSTANTS
    Builds,             \* what the daemon was built with: [patterns, rules]
    Calls               \* calls of hooked kernel functions by a task: [kind, ...]

ASSUME BuildsAssumption ==
    \A b \in Builds :
        /\ DOMAIN b.patterns = 1 .. Len(b.patterns) /\ Len(b.patterns) \in Nat
        /\ DOMAIN b.rules = 1 .. Len(b.rules) /\ Len(b.rules) \in Nat
        /\ \A i \in DOMAIN b.patterns : b.patterns[i].kind \in CredKind /\ Text(b.patterns[i].pat)
        /\ \A i \in DOMAIN b.rules : b.rules[i] \in Seq(Octet)

\* The wire begins with these labels and a question's end, or, if there is none, with no name:
\* from the first byte on, each label leads to the next and none to a name's end.
Spells(labels, wire) ==
    IF labels # <<>>
    THEN /\ labels \in Seq(Seq(Octet \ {0, Dot}))
         /\ \A l \in Range(labels) : Len(l) \in 1 .. 63
         /\ IsPrefix(LabelsBytes(labels), wire) /\ Len(wire) >= Len(LabelsBytes(labels)) + 4
    ELSE \E heads \in SUBSET DOMAIN wire :
            /\ wire # <<>> => 1 \in heads
            /\ \A p \in heads :
                  /\ wire[p] = 0 => p = 1
                  /\ wire[p] \in 1 .. 63 /\ p + wire[p] + 1 \in DOMAIN wire => p + wire[p] + 1 \in heads

Word == 0 .. 65535

\* A hello's types and lengths take two bytes; a server name has its header around it.  It is sent
\* on a sock to some port, as its first bytes or later, and the sock may have an identity.
IsHello(h) ==
    /\ h.sid \in Octet /\ h.ciphers \in Word /\ h.comp \in Octet
    /\ h.exts \in Seq([type : Word, len : Word, name : Seq(Octet)])
    /\ \A e \in Range(h.exts) : e.type = 0 => e.len = Len(e.name) + 5
    /\ h.first \in BOOLEAN /\ h.dport \in Word
    /\ h.ident = <<>> \/ \E p \in Word : h.ident = <<p>>

\* A receive of a response, into a buffer that held old.  No byte of a name looks like the start of
\* a pointer: in a host name, which is ASCII, none does.
IsResponse(r) ==
    /\ r.labels \in Seq(Seq(1 .. 191)) /\ \A l \in Range(r.labels) : Len(l) \in 1 .. 63
    /\ r.answers \in Seq([type : Word, class : Word, data : Seq(Octet), compressed : BOOLEAN])
    /\ r.bytes = DnsBytes(r) /\ r.buf \in Nat /\ r.old \in Octet /\ r.iter \in {"ubuf", "iovec"}

\* A path is a C string; a query's name is in its wire, without a '.' or a NUL in a label; a
\* removal is of a file that is there, whose creation met some workspace or none.
ASSUME CallsAssumption ==
    \A c \in Calls :
        /\ c.kind \in {"open", "query", "hello", "response", "remove"}
        /\ c.kind = "open" => Text(c.path) /\ NUL \notin Range(c.path) /\ Text(c.stale)
        /\ c.kind = "query" => c.wire \in Seq(Octet) /\ Spells(c.labels, c.wire) /\ c.dest \in Dests
        /\ c.kind = "hello" => IsHello(c)
        /\ c.kind = "response" => IsResponse(c)
        /\ c.kind = "remove" => IsPlace(c.place) /\ IsWs(c.ws)

Objects == {"files", "procs", "net", "file2", "dns"}
NoMap == "NoMap"
NoCall == [kind |-> "none"]

\* The programs of each object, in the order they are attached; the iterators are not hooks.
Programs(o) ==
    CASE o = "files" -> <<"mon_files_open", "mon_files_permission", "mon_files_mmap",
                          "mon_files_truncate", "mon_files_free", "mon_files_unlink",
                          "mon_files_rmdir", "mon_files_rename">>
      [] o = "procs" -> <<"mon_proc_fork", "mon_proc_exec", "mon_proc_exit">>
      [] o = "net" -> <<"mon_net_connect", "mon_net_sendmsg", "mon_net_udp_sendmsg",
                        "mon_udp_recvmsg">>
      [] o = "file2" -> <<"mon_file2_open">>
      [] o = "dns" -> <<"mon_dns_udp_sendmsg", "mon_dns_udpv6_sendmsg">>
Iterators == <<"mon_iter_task", "mon_iter_task_file", "mon_iter_tcp">>

VARIABLES
    patterns, rules,    \* CRED_PATTERNS and DNS_RULES
    phase,              \* "loading", "serving", "dropping" or "down"
    step,               \* the next step of load()
    ctxMap,             \* the object whose task_ctx_map each object uses
    tries, trie,        \* mon_file2's tries and mon_dns's
    links,              \* programs attached
    jmp,                \* entries of jmp_table
    tracked,            \* maps that hold the task's context
    call                \* the call in progress, with what it logged

vars == <<patterns, rules, phase, step, ctxMap, tries, trie, links, jmp, tracked, call>>

-----------------------------------------------------------------------------
\* load(): the steps in their order.

Do(what, of) == [do |-> what, of |-> of]
Each(what, s) == [i \in DOMAIN s |-> Do(what, s[i])]
Numbers(s) == [i \in DOMAIN s |-> i]

Steps ==
    Each("load", <<"files", "procs", "net", "file2">>)
    \o Each("pattern", Numbers(patterns))
    \o Each("load", <<"dns">>)
    \o Each("rule", Numbers(rules))
    \o Each("attach", Programs("files") \o Programs("procs") \o Programs("net")
                      \o Programs("file2") \o Programs("dns") \o Iterators)
    \o Each("jmp", <<"qname", "answers">>)

Init ==
    /\ \E b \in Builds : patterns = b.patterns /\ rules = b.rules
    /\ phase = "loading" /\ step = 1
    /\ ctxMap = [o \in Objects |-> NoMap]
    /\ tries = NoPatterns /\ trie = Empty
    /\ links = {} /\ jmp = {} /\ tracked = {} /\ call = NoCall

\* The next step is of this kind, and is done.
Take(what) ==
    /\ phase = "loading" /\ step \in DOMAIN Steps /\ Steps[step].do = what
    /\ step' = step + 1

\* A bug: mon_dns keeps the map that libbpf made for it.
LoadAlone ==
    /\ Take("load")
    /\ ctxMap' = [ctxMap EXCEPT ![Steps[step].of] =
                    IF Steps[step].of = "dns" THEN "dns" ELSE "files"]
    /\ UNCHANGED <<patterns, rules, phase, tries, trie, links, jmp, tracked, call>>

\* reuse_fd, then load; mon_files makes the map.
Load ==
    /\ Take("load")
    /\ ctxMap' = [ctxMap EXCEPT ![Steps[step].of] = "files"]
    /\ UNCHANGED <<patterns, rules, phase, tries, trie, links, jmp, tracked, call>>

LoadPattern ==
    /\ Take("pattern")
    /\ PatternOk(patterns[Steps[step].of])
    /\ tries' = InsertPattern(tries, patterns[Steps[step].of], Steps[step].of)
    /\ UNCHANGED <<patterns, rules, phase, ctxMap, trie, links, jmp, tracked, call>>

LoadRule ==
    /\ Take("rule")
    /\ RuleOk(rules[Steps[step].of])
    /\ trie' = Update(trie, RuleData(rules[Steps[step].of]), Steps[step].of)
    /\ UNCHANGED <<patterns, rules, phase, ctxMap, tries, links, jmp, tracked, call>>

Attach ==
    /\ Take("attach")
    /\ links' = links \cup {Steps[step].of}
    /\ UNCHANGED <<patterns, rules, phase, ctxMap, tries, trie, jmp, tracked, call>>

FillJmp ==
    /\ Take("jmp")
    /\ jmp' = jmp \cup {Steps[step].of}
    /\ UNCHANGED <<patterns, rules, phase, ctxMap, tries, trie, links, tracked, call>>

\* A bug: what is bound early serves early.
BindEarly ==
    /\ phase = "loading" /\ step > Len(Steps) - 2
    /\ phase' = "serving"
    /\ UNCHANGED <<patterns, rules, step, ctxMap, tries, trie, links, jmp, tracked, call>>

\* Server::bind: the last thing before the daemon serves.
Bind ==
    /\ phase = "loading" /\ step = Len(Steps) + 1
    /\ phase' = "serving"
    /\ UNCHANGED <<patterns, rules, step, ctxMap, tries, trie, links, jmp, tracked, call>>

\* A step fails (also: a pattern or a rule is refused), or a signal ends the daemon.
Leave ==
    /\ phase \in {"loading", "serving"}
    /\ phase' = "dropping"
    /\ UNCHANGED <<patterns, rules, step, ctxMap, tries, trie, links, jmp, tracked, call>>

\* detach(), and the drop of a half-filled Bpf: link by link, then the objects.
Attached == SelectSeq(Programs("files") \o Programs("procs") \o Programs("net")
                      \o Programs("file2") \o Programs("dns") \o Iterators,
                      LAMBDA p : p \in links)
DropLink ==
    /\ phase = "dropping" /\ links # {}
    /\ links' = links \ {Attached[1]}
    /\ UNCHANGED <<patterns, rules, phase, step, ctxMap, tries, trie, jmp, tracked, call>>

DropObjects ==
    /\ phase = "dropping" /\ links = {} /\ call.kind = "none"
    /\ phase' = "down" /\ step' = 1
    /\ ctxMap' = [o \in Objects |-> NoMap]
    /\ tries' = NoPatterns /\ trie' = Empty /\ jmp' = {} /\ tracked' = {}
    /\ UNCHANGED <<patterns, rules, links, call>>

Restart == phase = "down" /\ phase' = "loading"
           /\ UNCHANGED <<patterns, rules, step, ctxMap, tries, trie, links, jmp, tracked, call>>

\* A Tree command: mon_iter_task puts the task into the map of mon_procs.
Track ==
    /\ phase = "serving" /\ tracked' = tracked \cup {ctxMap["procs"]}
    /\ UNCHANGED <<patterns, rules, phase, step, ctxMap, tries, trie, links, jmp, call>>

-----------------------------------------------------------------------------
\* The hooks.

Hook(kind) ==
    CASE kind = "open" -> "file2" [] kind = "query" -> "dns"
      [] kind \in {"hello", "response"} -> "net" [] kind = "remove" -> "files"

Removes == [unlink |-> "mon_files_unlink", rmdir |-> "mon_files_rmdir",
            rename |-> "mon_files_rename"]

\* What the hooks log for a call of a task they find in their map.  The two of mon_net ask for the
\* sock's identity instead, which it has when mon_net found the task (NetIdent).
Logged(c) ==
    CASE c.kind = "open" -> CredLogged(c, tries)
      [] c.kind = "query" -> DnsLogged(c.dest, c, trie, links)
      [] c.kind = "hello" -> SendLogged(c, SniBytes(c))
      [] c.kind = "response" -> RecvLogged(Received(c), ReadableLen(c), jmp)
      [] c.kind = "remove" -> RemoveLogged(c)

Hooked(c) ==
    CASE c.kind = "open" -> "mon_file2_open" \in links
      [] c.kind = "query" -> links \cap HooksRun(c.dest) # {}
      [] c.kind = "hello" -> "mon_net_sendmsg" \in links
      [] c.kind = "response" -> "mon_udp_recvmsg" \in links
      [] c.kind = "remove" -> Removes[c.op] \in links

\* By the daemon's word the task is tracked; a hook that does not find it logs nothing.
Unseen(c) ==
    CASE c.kind = "open" -> [rule |-> NoRule, off |-> 0]
      [] c.kind # "open" -> <<>>

Call(c) ==
    /\ call.kind = "none" /\ tracked # {} /\ Hooked(c)
    /\ call' = [kind |-> c.kind, of |-> c, served |-> phase = "serving",
                logged |-> IF ctxMap[Hook(c.kind)] \in tracked THEN Logged(c) ELSE Unseen(c)]
    /\ UNCHANGED <<patterns, rules, phase, step, ctxMap, tries, trie, links, jmp, tracked>>

Return ==
    /\ call.kind # "none" /\ call' = NoCall
    /\ UNCHANGED <<patterns, rules, phase, step, ctxMap, tries, trie, links, jmp, tracked>>

Loading == Load \/ LoadPattern \/ LoadRule \/ Attach \/ FillJmp \/ Bind
Dropping == Leave \/ DropLink \/ DropObjects
Next == Loading \/ Dropping \/ Restart \/ Track \/ (\E c \in Calls : Call(c)) \/ Return

Spec == Init /\ [][Next]_vars

-----------------------------------------------------------------------------
\* Properties.

\* Types.
TypeOK ==
    /\ phase \in {"loading", "serving", "dropping", "down"}
    /\ step \in 1 .. Len(Steps) + 1
    /\ phase = "serving" => step = Len(Steps) + 1
    /\ ctxMap \in [Objects -> {NoMap} \cup Objects]
    /\ tracked \subseteq Objects
    /\ links \subseteq {Steps[i].of : i \in {k \in DOMAIN Steps : Steps[k].do = "attach"}}
    /\ jmp \subseteq {"qname", "answers"}
    /\ call.kind \in {"none", "open", "query", "hello", "response", "remove"}

\* What a step of load() leaves behind.
Done(s) ==
    CASE s.do = "load" -> ctxMap[s.of] = "files"
      [] s.do = "pattern" ->
            LET p == patterns[s.of]
            IN  PatternData(p) \in DOMAIN (IF p.kind = "NameSuffix" THEN tries.name_suffix
                                           ELSE tries.patterns)
      [] s.do = "rule" -> RuleData(rules[s.of]) \in DOMAIN trie
      [] s.do = "attach" -> s.of \in links
      [] s.do = "jmp" -> s.of \in jmp

\* While a task is tracked and the daemon serves, nothing of load() is missing: no call of the
\* task can meet an unattached hook, a table without its patterns, an empty jump table or a map
\* of its own ("Patterns go in before the hook is attached", bpf.rs).
ReadyWhenTracked ==
    tracked # {} /\ phase = "serving" =>
        /\ tracked = {"files"}
        /\ \A i \in DOMAIN Steps : Done(Steps[i])

\* mon_file2: an open by a tracked task is logged exactly when a pattern the daemon was built with
\* covers the path, with such a pattern and the place where it stands (the comments on CredKind).
CredExact ==
    call.kind = "open" /\ call.served => CredRight(call.of, call.logged, patterns)

\* mon_dns: a query to port 53 is logged once, whichever of the two hooked functions the kernel
\* takes it through, as a hit of the most specific rule that covers the name, or as a miss.
DnsExact ==
    call.kind = "query" /\ call.served => DnsRight(call.of, call.logged, rules)

\* mon_net_sendmsg, parse_sni: only the name the hello asks for is logged, and it is when it opens a
\* connection that was stamped as one to port 443 and all of it was read.
SniExact ==
    call.kind = "hello" /\ call.served => SniRight(call.of, call.logged)

\* mon_udp_recvmsg: the addresses logged are the response's own, first to last, under the name it
\* answers for; none is left out of a response that was read whole.
AnswersExact ==
    call.kind = "response" /\ call.served =>
        AnswersRight(call.of, ReadableLen(call.of), call.logged)

\* log_remove: a D says of a file what the C of its creation says, is dropped where that is, and
\* says of a file in the workspace where the workspace lies, which the C leaves out.
RemoveExact ==
    call.kind = "remove" /\ call.served => RemoveRight(call.of, call.logged)
=============================================================================

------------------------------- MODULE DnsMatch -------------------------------
(***************************************************************************)
(* The DNS rule matcher: mon_dns.bpf.c and the part of bpf.rs that fills   *)
(* its trie.  Bytes are numbers; a rule is the text the daemon holds.      *)
(*                                                                         *)
(* A query is [labels, resp, qdcount, wire, port53, reads]: labels is the  *)
(* name it asks for, wire the bytes behind the 12 of the header, reads     *)
(* whether its first segment is user memory that can be read.              *)
(***************************************************************************)
EXTENDS LpmTrie, FiniteSetsExt

CONSTANTS
    PKT_BUF,            \* bytes of the message that are read, less the header
    NAME_MAX_LEN        \* longest dotted name

\* The name's loop never runs past the bytes there is room for.
ASSUME DnsSizesAssumption ==
    PKT_BUF \in Nat /\ NAME_MAX_LEN \in Nat /\ PKT_BUF >= NAME_MAX_LEN + 3

Octet == 0 .. 255
Dot == 46
Star == 42
UpperLetters == 65 .. 90
NameChars == (97 .. 122) \cup UpperLetters \cup (48 .. 57) \cup {45, 46, 95}

\* to_ascii_lowercase; the same in qname_cb.
LowerByte(b) == IF b \in UpperLetters THEN b + 32 ELSE b
LowerText(s) == [i \in DOMAIN s |-> LowerByte(s[i])]

-----------------------------------------------------------------------------
\* The daemon's side: dns_rule_key.

\* trim_end_matches('.')
TrimDots(s) == SubSeq(s, 1, Max({i \in DOMAIN s : s[i] # Dot} \cup {0}))

Wildcard(rule) == rule # <<>> /\ rule[1] = Star
RuleBody(rule) ==
    LET s == TrimDots(rule) IN LowerText(IF Wildcard(s) THEN Tail(s) ELSE s)

RuleOk(rule) ==
    LET body == RuleBody(rule)
    IN  /\ Len(body) \in 1 .. NAME_MAX_LEN
        /\ Wildcard(rule) => body[1] = Dot
        /\ Range(body) \subseteq NameChars

\* The trie entry: reversed; an exact name ends in a NUL, a wildcard keeps its '.'.
RuleData(rule) ==
    IF Wildcard(rule) THEN Reverse(RuleBody(rule)) ELSE Append(Reverse(RuleBody(rule)), 0)

-----------------------------------------------------------------------------
\* The hook's side.

\* qname_cb over the wire bytes, one state per byte: remain in the label, the name so far.
\* "out" of range, a compression byte or the end of what was read leaves done = FALSE.
Start == [remain |-> 0, name |-> <<>>, done |-> FALSE, stop |-> FALSE]

Emit(c, ch) ==
    IF Len(c.name) >= NAME_MAX_LEN THEN [c EXCEPT !.stop = TRUE]
    ELSE [c EXCEPT !.name = Append(@, ch)]

Byte(c, ch) ==
    IF c.stop THEN c
    ELSE IF c.remain # 0
    THEN LET d == Emit(c, LowerByte(ch)) IN IF d.stop THEN d ELSE [d EXCEPT !.remain = @ - 1]
    ELSE IF ch = 0 THEN [c EXCEPT !.done = TRUE, !.stop = TRUE]
    ELSE IF ch >= 64 THEN [c EXCEPT !.stop = TRUE]
    ELSE LET d == [c EXCEPT !.remain = ch] IN IF c.name = <<>> THEN d ELSE Emit(d, Dot)

\* bpf_loop(NAME_BUF, qname_cb): at most NAME_MAX_LEN + 3 bytes.
Qname(wire) ==
    FoldLeft(Byte, Start, SubSeq(wire, 1, Min({Len(wire), PKT_BUF, NAME_MAX_LEN + 3})))

\* handle_send: the lines it logs, <<>> or one with the name and the rule.
HandleSend(q, trie) ==
    LET c == Qname(q.wire)
    IN  IF /\ q.port53 /\ q.reads
           /\ Len(q.wire) >= 5                      \* DNS_MIN
           /\ ~q.resp /\ q.qdcount = 1
           /\ c.done /\ c.name # <<>>
        THEN <<[name |-> c.name, rule |-> Lookup(trie, Append(Reverse(c.name), 0))]>>
        ELSE <<>>

\* A destination: the sock's family, and the address given with the call or, without one
\* ("none"), the one the sock is connected to.
Dests == [sk : {"v4"}, name : {"inet", "none"}, peer : {"v4"}]
    \cup [sk : {"v6"}, name : {"inet", "inet6", "mapped"}, peer : {"v6"}]
    \cup [sk : {"v6"}, name : {"none"}, peer : {"v6", "mapped"}]

\* The kernel (external): udpv6_sendmsg passes an AF_INET or v4-mapped destination on to
\* udp_sendmsg, and both are hooked.
MappedDest(d) == d.name = "mapped" \/ (d.name = "none" /\ d.peer = "mapped")
HooksRun(d) ==
    (IF d.sk = "v6" THEN {"mon_dns_udpv6_sendmsg"} ELSE {})
    \cup (IF d.sk = "v4" \/ d.name = "inet" \/ MappedDest(d) THEN {"mon_dns_udp_sendmsg"} ELSE {})

\* A bug: a v4-mapped address of a connected sock is overlooked.
V6SkipsNamed(d) == d.name \in {"inet", "mapped"}

\* mon_dns_udpv6_sendmsg leaves to udp_sendmsg what goes on there.
V6Skips(d) == d.name = "inet" \/ MappedDest(d)

\* The lines of one send, of the hooks that are attached.
DnsLogged(d, q, trie, attached) ==
    (IF "mon_dns_udpv6_sendmsg" \in HooksRun(d) \cap attached /\ ~V6Skips(d)
     THEN HandleSend(q, trie) ELSE <<>>)
    \o (IF "mon_dns_udp_sendmsg" \in HooksRun(d) \cap attached
        THEN HandleSend(q, trie) ELSE <<>>)

-----------------------------------------------------------------------------
\* What a rule means (the comment on DNS_RULES): an exact name itself, a wildcard the names
\* below its body and not the body; of several the one with the longest body, an exact one first.

\* "www", "example", "com" as www.example.com
Dotted(labels) ==
    FoldLeft(LAMBDA s, l : IF s = <<>> THEN LowerText(l) ELSE s \o <<Dot>> \o LowerText(l),
             <<>>, labels)

RuleCovers(rule, labels) ==
    LET body == RuleBody(rule)
    IN  IF Wildcard(rule)
        THEN \E k \in 2 .. Len(labels) :
                Tail(body) = Dotted(SubSeq(labels, k, Len(labels)))
        ELSE body = Dotted(labels)

\* The query is one the comments promise a line for.
Regular(q) ==
    /\ q.port53 /\ q.reads /\ ~q.resp /\ q.qdcount = 1
    /\ q.labels # <<>> /\ Len(Dotted(q.labels)) <= NAME_MAX_LEN

DnsRight(q, logged, rules) ==
    IF ~Regular(q) THEN logged = <<>>
    ELSE LET covers == {i \in DOMAIN rules : RuleCovers(rules[i], q.labels)}
         IN  /\ Len(logged) = 1
             /\ logged[1].name = Dotted(q.labels)
             /\ IF covers = {} THEN logged[1].rule = NoRule
                ELSE /\ logged[1].rule \in covers
                     /\ \A i \in covers : Len(RuleData(rules[i])) <= Len(RuleData(rules[logged[1].rule]))
=============================================================================

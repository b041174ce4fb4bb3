------------------------------ MODULE MCRecorder ------------------------------
(***************************************************************************)
(* Recorder for TLC: what the daemon is built with, and the calls.  The    *)
(* sizes in the configuration are small enough for every limit to be met   *)
(* and passed by one.                                                      *)
(***************************************************************************)
EXTENDS Recorder

\* Opens: all paths of two letters up to five characters, some longer, and stale bytes that would
\* complete a pattern.
PathChar == {"a", "b", Slash}
IsPath(s) ==
    /\ s[1] = Slash /\ (Len(s) > 1 => s[Len(s)] # Slash)
    /\ \A i \in 1 .. Len(s) - 1 : s[i] # Slash \/ s[i + 1] # Slash
MCPaths ==
    {s \in UNION {[1 .. n -> PathChar] : n \in 1 .. 5} : IsPath(s)}
    \cup {<<Slash, "a", "a", "b", "b", "b">>, <<Slash, "b", Slash, "a", "b", Slash, "a">>,
          <<Slash, "a", Slash, "b", Slash, "a", "b">>, <<Slash, "b", Slash, "b", Slash, "a", "b", "a">>}
Stale == {<<"b", "a", Slash, "b">>, <<Slash, "b", Slash, "a">>}
Opens == [kind : {"open"}, path : MCPaths, stale : Stale]

CredPattern(k, p) == [kind |-> k, pat |-> p]
GoodPatterns ==
    <<CredPattern("Tail", <<Slash, "b", "a">>), CredPattern("Substr", <<Slash, "a", Slash>>),
      CredPattern("NameSuffix", <<"a", "b">>), CredPattern("NameSuffix", <<"b", "b", "b">>),
      CredPattern("Substr", <<Slash, "b", Slash, "a">>), CredPattern("Tail", <<Slash, "a", Slash, "b">>)>>

\* Queries: names over two letters and upper case, up to one character too long; what is not a
\* query; every destination.
Labels == {<<97>>, <<98>>, <<97, 98>>, <<65>>}
DnsNames == UNION {[1 .. n -> Labels] : n \in 1 .. 3}
            \cup {<<<<97, 98>>, <<97, 98>>, <<97, 98, 97>>>>, <<<<97, 98, 97>>, <<97, 98>>, <<97, 98, 97>>>>}
Query(labels) ==
    [kind |-> "query", labels |-> labels, wire |-> LabelsBytes(labels) \o <<0, 1, 0, 1>>,
     resp |-> FALSE, qdcount |-> 1, port53 |-> TRUE, reads |-> TRUE,
     dest |-> [sk |-> "v4", name |-> "inet", peer |-> "v4"]]
Plain == Query(<<<<98>>, <<97>>>>)
Queries ==
    {Query(n) : n \in DnsNames}
    \cup {[Plain EXCEPT !.dest = d] : d \in Dests}
    \cup {[Plain EXCEPT !.resp = TRUE], [Plain EXCEPT !.qdcount = 2], [Plain EXCEPT !.port53 = FALSE],
          [Plain EXCEPT !.reads = FALSE], Query(<<>>),
          [Plain EXCEPT !.wire = <<1, 98, 1, 97, 1>>, !.labels = <<>>],
          [Plain EXCEPT !.wire = <<1, 98, 192, 12, 0, 1, 0, 1>>, !.labels = <<>>]}

GoodRules ==
    <<<<98, 46, 97>>, <<Star, 46, 98, 46, 97>>, <<Star, 46, 65, 46>>, <<65, 98>>, <<Star, 46, 97, 98>>>>

\* Hellos: lengths at which the walk must go on and at which a byte's sign gets in its way; one
\* extension too many; names around the room for them.
HostNames == {<<97>>, <<97, 98, 97>>, <<97, 98, 97, 98>>, <<97, 98, 97, 98, 97>>}
OtherExt(n) == [type |-> 10, len |-> n, name |-> <<>>]
ServerExt(n) == [type |-> 0, len |-> Len(n) + 5, name |-> n]
ExtLists ==
    UNION {{<<ServerExt(n)>>, <<OtherExt(0), ServerExt(n)>>, <<OtherExt(4), OtherExt(0), ServerExt(n)>>,
            <<OtherExt(0), OtherExt(0), OtherExt(0), ServerExt(n)>>, <<ServerExt(n), OtherExt(130)>>,
            <<OtherExt(130), ServerExt(n)>>} : n \in HostNames} \cup {<<>>, <<OtherExt(2)>>}
Sends ==    \* first or later, to https or not, with an identity of that port, of another or of none
    [first : BOOLEAN, dport : {443, 8443}, ident : {<<>>, <<0>>, <<443>>, <<8443>>}]
Hello(sid, ciphers, exts, s) ==
    [kind |-> "hello", sid |-> sid, ciphers |-> ciphers, comp |-> 1, exts |-> exts,
     first |-> s.first, dport |-> s.dport, ident |-> s.ident]
Hellos ==
    {Hello(s, c, x, [first |-> TRUE, dport |-> 443, ident |-> <<>>]) :
        s \in {0, 32}, c \in {2, 40, 130}, x \in ExtLists}
    \cup {Hello(0, 2, <<ServerExt(<<97>>)>>, s) : s \in Sends}

\* Responses: addresses and other records, uncompressed names, one answer too many.
Rec(t, n) == [type |-> t, class |-> 1, data |-> [i \in 1 .. n |-> i], compressed |-> TRUE]
AnswerLists ==
    {<<>>, <<Rec(1, 4)>>, <<Rec(28, 16)>>, <<Rec(5, 3), Rec(1, 4)>>, <<Rec(16, 130), Rec(1, 4)>>,
     <<Rec(1, 4), [Rec(1, 4) EXCEPT !.compressed = FALSE], Rec(1, 4)>>,
     <<Rec(1, 4), Rec(28, 16), Rec(1, 4)>>, <<Rec(1, 4), Rec(1, 5), Rec(1, 4)>>,
     <<Rec(1, 4), Rec(1, 4), Rec(1, 4), Rec(1, 4)>>, <<[Rec(1, 4) EXCEPT !.class = 3], Rec(1, 4)>>}
QNames == {<<<<97>>>>, <<<<97, 98>>>>, <<<<97>>, <<98>>>>, <<<<97, 98>>, <<97>>>>, <<<<97>>, <<98>>, <<97>>>>}
Response(l, a, it, b) ==
    [kind |-> "response", labels |-> l, answers |-> a, iter |-> it, buf |-> b, old |-> 192,
     bytes |-> DnsBytes([labels |-> l, answers |-> a])]
Responses ==
    {Response(l, a, it, b) : l \in QNames, a \in AnswerLists, it \in {"ubuf", "iovec"}, b \in {50, 110, 400}}

\* Removals: places under the roots that matter, at the limits of the path, the walk and the
\* user's name; mounts and a chroot on the way.
Comp(n, l) == [name |-> n, len |-> l, ext |-> "", dot |-> 0, stem |-> ""]
WithExt(c, x, d) == [c EXCEPT !.ext = x, !.dot = d]
Dirs ==
    {<<>>, <<Comp("a", 1)>>, <<Comp("etc", 3)>>, <<Comp("home", 4)>>, <<Comp("usr", 3), Comp("lib", 3)>>,
     <<Comp("home", 4), Comp("ann", 3)>>, <<Comp("home", 4), Comp("ann", 3), Comp(".cache", 6)>>,
     <<Comp("home", 4), Comp("longuser", 8), Comp(".cache", 6)>>,
     <<Comp("home", 4), Comp("longer_user", 11), Comp(".cache", 6)>>,
     <<Comp("a", 1), Comp("b", 1), Comp("c", 1), Comp("d", 1)>>,
     <<Comp("root", 4), Comp(".cache", 6)>>, <<Comp("root", 4), Comp("src", 3), Comp(".cache", 6)>>,
     <<Comp("srv", 3), Comp("a", 1), Comp("b", 1), Comp("c", 1), Comp("d", 1)>>,
     <<Comp("srv", 3), Comp("a", 1), Comp("b", 1), Comp("c", 1), Comp("d", 1), Comp("e", 1)>>}
Leaves ==
    {Comp("x", 1), WithExt(Comp("x.py", 4), ".py", 3), WithExt(Comp(".env", 4), ".env", 4),
     WithExt(Comp("x.123456789", 11), ".123456789", 10), WithExt(Comp("x.1234567890", 12), ".1234567890", 11),
     WithExt(Comp("x.", 2), ".", 1), Comp(".cache", 6)}
Places ==
    UNION {[comps : {Append(d, l) : l \in Leaves}, mounts : SUBSET (DOMAIN d \cap {1, 2}),
            root : {Elsewhere, 0} \cup (DOMAIN d \cap {1})] : d \in Dirs}
\* Workspaces: none, or a directory above the file; one that the path leaves at its last level.
Workspaces(place) ==
    {<<>>} \cup {w \in {SubSeq(PathOf(place), 1, n) : n \in 2 .. Len(PathOf(place)) - 1} : IsWs(w)}
    \cup {<<Comp("srv", 3), Comp("a", 1), Comp("b", 1), Comp("x", 1)>>}
Removal(place, ws) ==
    [kind |-> "remove", op |-> "unlink", exists |-> TRUE, exchange |-> FALSE, place |-> place, ws |-> ws]
Removals ==
    UNION {{Removal(p, ws) : ws \in IF p.mounts = {} /\ p.root # Elsewhere THEN Workspaces(p) ELSE {<<>>}} : p \in Places}
    \cup [kind : {"remove"}, op : {"unlink", "rmdir", "rename"}, exists : BOOLEAN, exchange : BOOLEAN,
          place : {[comps |-> <<Comp("srv", 3), Comp("x", 1)>>, mounts |-> {}, root |-> 0]}, ws : {<<>>}]

MCCalls == Opens \cup Queries \cup Hellos \cup Responses \cup Removals

\* Two builds that load and some whose lists are refused.
MCBuilds ==
    {[patterns |-> GoodPatterns, rules |-> GoodRules],
     [patterns |-> Reverse(GoodPatterns) \o SubSeq(GoodPatterns, 3, 3), rules |-> Reverse(GoodRules)]}
    \cup {[patterns |-> <<CredPattern(k, p)>>, rules |-> <<>>] :
            k \in CredKind, p \in {<<>>, <<"a", Slash>>, <<Slash, "a", "b", "a", "b">>, <<Slash, NUL>>}}
    \cup {[patterns |-> <<>>, rules |-> <<r>>] :
            r \in {<<>>, <<Dot>>, <<Star>>, <<Star, 97>>, <<42, 46>>, <<97, 32>>,
                   <<97, 98, 97, 98, 97, 98, 97, 98, 97, 98>>}}
=============================================================================

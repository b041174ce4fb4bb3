------------------------------- MODULE Packets -------------------------------
(***************************************************************************)
(* What mon_net.bpf.c reads out of packets: the server name of a TLS hello *)
(* that is sent (mon_net_sendmsg, parse_sni), and the addresses in a DNS   *)
(* response that is received (mon_udp_recvmsg and the two programs it      *)
(* tail-calls).  Bytes are numbers; offsets count from 0 as in the code.   *)
(*                                                                         *)
(* The packets themselves are an operator each, SniBytes and DnsBytes,     *)
(* which encodes what a packet says; they are the protocols', not this     *)
(* repository's.                                                           *)
(***************************************************************************)
EXTENDS Naturals, SequencesExt, FiniteSetsExt

CONSTANTS
    MAX_READ,           \* MAX_SNI_READ and MAX_DNS_READ
    NAME_ROOM,          \* sizeof(sni), sizeof(qname) and the rounds of the name's loop
    MAX_EXTS,           \* rounds of the loop over extensions
    MAX_ANSWERS         \* rounds of the loop over answers

\* 255, 64, 10 and 4 in the code; offsets are masked with 0xFF, and a header is always read.
ASSUME PacketSizesAssumption ==
    MAX_READ \in 12 .. 255 /\ NAME_ROOM \in Nat \ {0} /\ MAX_EXTS \in Nat /\ MAX_ANSWERS \in Nat

At(data, i) == data[i + 1]

\* (data[i] << 8) | data[i + 1] into a u16: char is signed, so a low byte from 128 up carries
\* its sign over the high byte.
U16(data, i) ==
    IF At(data, i + 1) >= 128 THEN 65280 + At(data, i + 1)
    ELSE 256 * At(data, i) + At(data, i + 1)

\* bpf_probe_read_user of at most MAX_READ of len bytes.
Cut(s, n) == SubSeq(s, 1, Min({Len(s), n}))
Read(buf, len) == Cut(buf, Min({len, MAX_READ}))

Slice(data, i, n) == SubSeq(data, i + 1, i + n)

-----------------------------------------------------------------------------
\* parse_sni.  A walk stops with the line that it logs, or without one.

Fail == [off |-> 0, lines |-> <<>>, stop |-> TRUE]

\* A bug: an extension's header is not counted.
SniExtNoHeader(data, limit, w) ==
    LET body == w.off + 4
        next == [w EXCEPT !.off = w.off + U16(data, w.off + 2)]
        len  == U16(data, body + 3)
    IN  IF w.stop \/ w.off + 4 > limit THEN [w EXCEPT !.stop = TRUE]
        ELSE IF U16(data, w.off) # 0 THEN next
        ELSE IF body + 5 > limit THEN Fail
        ELSE [Fail EXCEPT !.lines = <<Slice(data, body + 5, Min({len, NAME_ROOM - 1}))>>]

\* One round of the loop over extensions, up to limit.
SniExt(data, limit, w) ==
    LET body == w.off + 4
        next == [w EXCEPT !.off = body + U16(data, w.off + 2)]
        len  == U16(data, body + 3)
    IN  IF w.stop \/ w.off + 4 > limit THEN [w EXCEPT !.stop = TRUE]
        ELSE IF U16(data, w.off) # 0 THEN next
        ELSE IF body + 5 > limit THEN Fail
        ELSE IF At(data, body + 2) = 0 /\ body + 5 + len <= limit
        THEN [Fail EXCEPT !.lines = <<Slice(data, body + 5, Min({len, NAME_ROOM - 1}))>>]
        ELSE [next EXCEPT !.off = @ + 5]        \* the list's header is counted twice

\* The offset behind a field whose length takes n bytes at off; 0 when it is not in the bytes read.
Behind(data, off, n) ==
    IF off = 0 \/ off + n > Len(data) THEN 0
    ELSE off + n + (IF n = 1 THEN At(data, off) ELSE U16(data, off))

ParseSni(buf) ==
    LET data  == Read(buf, Len(buf))
        exts  == Behind(data, Behind(data, Behind(data, 43, 1), 2), 1)
        limit == Min({exts + 2 + U16(data, exts), Len(data)})
    IN  IF \/ Len(buf) < 47
           \/ At(data, 0) # 22 \/ At(data, 1) # 3 \/ At(data, 5) # 1
           \/ exts = 0 \/ exts + 2 > Len(data)
        THEN <<>>
        ELSE FoldLeft(LAMBDA w, i : SniExt(data, limit, w),
                      [off |-> exts + 2, lines |-> <<>>, stop |-> FALSE],
                      [i \in 1 .. MAX_EXTS |-> i]).lines

\* mon_net_sendmsg: only the first bytes of a connection are looked at, and only when the port in the
\* sock's identity is that of https.  ident is that port, <<>> when the sock has no identity and
\* this send gives it one, with the port it is connected to.
HTTPS == 443
StampedPort(h) == IF h.ident = <<>> THEN h.dport ELSE h.ident[1]
Parsed(h) == h.first /\ StampedPort(h) = HTTPS
SendLogged(h, bytes) == IF Parsed(h) THEN ParseSni(bytes) ELSE <<>>

-----------------------------------------------------------------------------
\* parse_dns_qname: the question's name and where it ends.

\* One round of its loop: label is what is left of the label.
QnameByte(data, st) ==
    LET b == At(data, st.off)
        put(ch) == IF Len(st.qname) < NAME_ROOM - 1 THEN Append(st.qname, ch) ELSE st.qname
    IN  IF st.stop \/ st.off >= Len(data) THEN [st EXCEPT !.stop = TRUE]
        ELSE IF st.label # 0
        THEN [st EXCEPT !.qname = put(b), !.label = @ - 1, !.off = @ + 1]
        ELSE IF b = 0 \/ b >= 192 THEN [st EXCEPT !.stop = TRUE]
        ELSE [st EXCEPT !.label = b, !.off = @ + 1,
                        !.qname = IF @ = <<>> THEN @ ELSE put(46)]

\* What the first program leaves in dns_state_map, and whether it makes the tail call.
ParseQname(buf, len) ==
    LET data == Read(buf, len)
        end  == FoldLeft(LAMBDA st, i : QnameByte(data, st),
                         [off |-> 12, qname |-> <<>>, label |-> 0, stop |-> FALSE],
                         [i \in 1 .. NAME_ROOM |-> i])
        over == IF end.off >= Len(data) THEN 0
                ELSE IF At(data, end.off) = 0 THEN 1
                ELSE IF At(data, end.off) >= 192 THEN 2 ELSE 0
    IN  IF len < 12 \/ At(data, 2) < 128 \/ U16(data, 4) # 1 \/ U16(data, 6) = 0
        THEN [tail |-> FALSE]
        ELSE [tail |-> TRUE, qname |-> end.qname, off |-> end.off + over + 4, ancount |-> U16(data, 6)]

\* A bug: the class is not looked at.
AnswerAnyClass(data, st, w) ==
    LET rec == w.off + 2
        len == U16(data, rec + 8)
    IN  IF \/ w.stop \/ w.n = st.ancount \/ w.off >= Len(data)
           \/ At(data, w.off) < 192 \/ rec + 10 > Len(data)
           \/ rec + 10 + len > Len(data)
        THEN [w EXCEPT !.stop = TRUE]
        ELSE [w EXCEPT !.n = @ + 1, !.off = rec + 10 + len,
                       !.lines = IF <<U16(data, rec), len>> \in {<<1, 4>>, <<28, 16>>}
                                 THEN Append(@, [qname |-> st.qname, ip |-> Slice(data, rec + 10, len)])
                                 ELSE @]

\* parse_dns_answers: one round of its loop.
Answer(data, st, w) ==
    LET rec == w.off + 2
        len == U16(data, rec + 8)
        kind == <<U16(data, rec), U16(data, rec + 2), len>>
    IN  IF \/ w.stop \/ w.n = st.ancount \/ w.off >= Len(data)
           \/ At(data, w.off) < 192 \/ rec + 10 > Len(data)
           \/ rec + 10 + len > Len(data)
        THEN [w EXCEPT !.stop = TRUE]
        ELSE [w EXCEPT !.n = @ + 1, !.off = rec + 10 + len,
                       !.lines = IF kind \in {<<1, 1, 4>>, <<28, 1, 16>>}
                                 THEN Append(@, [qname |-> st.qname, ip |-> Slice(data, rec + 10, len)])
                                 ELSE @]

ParseAnswers(buf, len, st) ==
    LET data == Read(buf, len)
    IN  FoldLeft(LAMBDA w, i : Answer(data, st, w),
                 [off |-> st.off, n |-> 0, stop |-> FALSE, lines |-> <<>>],
                 [i \in 1 .. MAX_ANSWERS |-> i]).lines

\* mon_udp_recvmsg after a receive into a buffer of the application's: jmp tells which of the two
\* programs jmp_table holds.  A tail call into an empty entry does nothing.
RecvLogged(buf, len, jmp) ==
    LET st == ParseQname(buf, len)
    IN  IF "qname" \notin jmp \/ ~st.tail \/ "answers" \notin jmp THEN <<>>
        ELSE ParseAnswers(buf, len, st)

\* The kernel (external), at udp_recvmsg's return: an ITER_UBUF counts the room that is left
\* behind the message, an ITER_IOVEC the whole segment.  A message that fills its segment has moved
\* the iterator past it: what is read then is not the message, and is taken to be nothing.
ReadableLen(r) ==
    IF r.iter = "ubuf" THEN r.buf - Min({r.buf, Len(r.bytes)})
    ELSE IF Len(r.bytes) < r.buf THEN r.buf ELSE 0

\* The receiver's buffer: the message, and behind it bytes of its own.
Received(r) ==
    Cut(r.bytes, r.buf)
    \o [i \in 1 .. r.buf - Min({r.buf, Len(r.bytes)}) |-> r.old]

-----------------------------------------------------------------------------
\* The packets.

TwoBytes(n) == <<n \div 256, n % 256>>
Zeros(n) == [i \in 1 .. n |-> 0]

\* A hello is [sid, ciphers, comp, exts]: three lengths, and extensions [type, len, name], where
\* a server name has type 0.
ExtBytes(e) ==
    IF e.type = 0
    THEN TwoBytes(0) \o TwoBytes(Len(e.name) + 5) \o TwoBytes(Len(e.name) + 3) \o <<0>>
         \o TwoBytes(Len(e.name)) \o e.name
    ELSE TwoBytes(e.type) \o TwoBytes(e.len) \o Zeros(e.len)
ExtsBytes(exts) == FlattenSeq([i \in DOMAIN exts |-> ExtBytes(exts[i])])
SniBytes(h) ==
    <<22, 3, 1, 0, 0, 1>> \o Zeros(37) \o <<h.sid>> \o Zeros(h.sid)
    \o TwoBytes(h.ciphers) \o Zeros(h.ciphers) \o <<h.comp>> \o Zeros(h.comp)
    \o TwoBytes(Len(ExtsBytes(h.exts))) \o ExtsBytes(h.exts)

\* A response is [labels, answers]; an answer [type, class, data, compressed].
LabelsBytes(labels) ==
    FlattenSeq([i \in DOMAIN labels |-> <<Len(labels[i])>> \o labels[i]]) \o <<0>>
AnswerBytes(a, labels) ==
    (IF a.compressed THEN <<192, 12>> ELSE LabelsBytes(labels))
    \o TwoBytes(a.type) \o TwoBytes(a.class) \o Zeros(4) \o TwoBytes(Len(a.data)) \o a.data
DnsBytes(m) ==
    <<0, 0, 128 + 1, 128, 0, 1>> \o TwoBytes(Len(m.answers)) \o Zeros(4)
    \o LabelsBytes(m.labels) \o <<0, 1, 0, 1>>
    \o FlattenSeq([i \in DOMAIN m.answers |-> AnswerBytes(m.answers[i], m.labels)])

-----------------------------------------------------------------------------
\* What the lines must say.

\* The hello asks for its first server name; the whole of it is read when it is short enough.  It
\* counts as one when it opens its connection, and the connection was stamped as one to https.
Servers(h) == {i \in DOMAIN h.exts : h.exts[i].type = 0}
SniDue(h) ==
    /\ Len(SniBytes(h)) <= MAX_READ
    /\ h.ciphers % 256 < 128
    /\ \E k \in DOMAIN h.exts :
        /\ k <= MAX_EXTS
        /\ h.exts[k].type = 0
        /\ Len(h.exts[k].name) < 128
        /\ \A i \in 1 .. k - 1 : h.exts[i].len % 256 < 128
SniRight(h, logged) ==
    IF Servers(h) = {} \/ ~h.first \/ h.ident \notin {<<>>, <<HTTPS>>} \/ (h.ident = <<>> /\ h.dport # HTTPS)
    THEN logged = <<>>
    ELSE /\ logged \in {<<>>, <<Cut(h.exts[Min(Servers(h))].name, NAME_ROOM - 1)>>}
         /\ SniDue(h) => logged # <<>>

\* The response's addresses, under the question's name.
JoinLabels(labels) ==
    FoldLeft(LAMBDA s, l : IF s = <<>> THEN l ELSE s \o <<46>> \o l, <<>>, labels)
AddressIn(a, name) ==
    IF <<a.type, a.class, Len(a.data)>> \in {<<1, 1, 4>>, <<28, 1, 16>>}
    THEN <<[qname |-> name, ip |-> a.data]>> ELSE <<>>
Addresses(m) ==
    FlattenSeq([i \in DOMAIN m.answers |-> AddressIn(m.answers[i], JoinLabels(m.labels))])
AnswersDue(m, len) ==
    /\ Len(DnsBytes(m)) <= Min({len, MAX_READ})
    /\ Len(JoinLabels(m.labels)) < NAME_ROOM
    /\ Len(m.answers) <= MAX_ANSWERS
    /\ \A i \in DOMAIN m.answers : m.answers[i].compressed /\ Len(m.answers[i].data) < 128
AnswersRight(m, len, logged) ==
    /\ IsPrefix(logged, Addresses(m))
    /\ AnswersDue(m, len) => logged = Addresses(m)
=============================================================================

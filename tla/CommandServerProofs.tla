-------------------------- MODULE CommandServerProofs --------------------------
(***************************************************************************)
(* CommandServer: what is at the socket's path, and what clients are       *)
(* answered, for every number of clients, lines and starts, and wherever a *)
(* SIGKILL falls.                                                          *)
(***************************************************************************)
EXTENDS CommandServer, SequenceTheorems, TLAPS

PCs == {"down", "load", "bind", "bound", "check", "accept", "read", "respond", "detach"}

\* The name is the daemon's own from its bind on; every way out says what is left of it.
Inv == PathTrue /\ pc \in PCs

LEMMA InitInv == Init => Inv
  BY DEF Init, Inv, PathTrue, PCs

\* What clients do, and what comes from outside but a SIGKILL.
LEMMA OutsideInv ==
    ASSUME Inv, NEW c, ClientStep(c) \/ Signal
    PROVE  Inv'
  <1>1. UNCHANGED <<pc, start, name, end>>
    BY DEF ClientStep, Talks, Connect, Receive, Close, Renew, Write, Signal
  <1> QED  BY <1>1 DEF Inv, PathTrue

LEMMA KillInv == Inv /\ Kill => Inv'
  BY DEF Inv, PathTrue, PCs, Kill

LEMMA StartInv == Inv /\ Start => Inv'
  BY DEF Inv, PathTrue, PCs, Start

\* A start: what an earlier one left is removed before the bind, and a failure may leave a name.
LEMMA SetUpInv ==
    ASSUME Inv,
           \/ LoadFails \/ Unlink \/ Bind \/ BindFails \/ SetNonblocking \/ SetNonblockingFails
    PROVE  Inv'
  <1>1. CASE LoadFails \/ BindFails \/ SetNonblockingFails
    <2>1. StartFails
      BY <1>1 DEF LoadFails, BindFails, SetNonblockingFails
    <2> QED  BY <2>1 DEF Inv, PathTrue, PCs, StartFails
  <1>2. CASE Unlink
    BY <1>2 DEF Inv, PathTrue, PCs, Unlink
  <1>3. CASE Bind
    BY <1>3 DEF Inv, PathTrue, PCs, Bind
  <1>4. CASE SetNonblocking
    BY <1>4 DEF Inv, PathTrue, PCs, SetNonblocking
  <1> QED  BY <1>1, <1>2, <1>3, <1>4

\* Serving: nothing but pc changes, among the places where the daemon serves.
LEMMA ServeInv ==
    ASSUME Inv,
           \/ Check \/ Accept \/ AcceptEnds \/ SetupFails
           \/ Read \/ ReadPart \/ ReadEnds \/ Respond \/ RespondFails
    PROVE  Inv'
  <1>1. /\ UNCHANGED <<start, name, end>>
        /\ pc \in {"check", "accept", "read", "respond"}
        /\ pc' \in {"check", "accept", "read", "respond", "detach"}
    <2>1. CASE Check
      BY <2>1 DEF Check
    <2>2. CASE Accept
      BY <2>2 DEF Accept
    <2>3. CASE AcceptEnds
      BY <2>3 DEF AcceptEnds
    <2>4. CASE SetupFails
      BY <2>4 DEF SetupFails, Drop
    <2>5. CASE Read
      BY <2>5 DEF Read
    <2>6. CASE ReadPart
      BY <2>6 DEF ReadPart
    <2>7. CASE ReadEnds
      BY <2>7 DEF ReadEnds, Drop
    <2>8. CASE Respond
      BY <2>8 DEF Respond
    <2>9. CASE RespondFails
      BY <2>9 DEF RespondFails, Drop
    <2> QED  BY <2>1, <2>2, <2>3, <2>4, <2>5, <2>6, <2>7, <2>8, <2>9
  <1> QED  BY <1>1 DEF Inv, PathTrue, PCs

LEMMA DropServerInv == Inv /\ DropServer => Inv'
  BY DEF Inv, PathTrue, PCs, DropServer

LEMMA NextInv == Inv /\ [Next]_vars => Inv'
  <1> SUFFICES ASSUME Inv, [Next]_vars PROVE Inv'
    OBVIOUS
  <1>1. CASE \E c \in Clients : ClientStep(c)
    BY <1>1, OutsideInv
  <1>2. CASE Start
    BY <1>2, StartInv
  <1>3. CASE DaemonStep
    BY <1>3, SetUpInv, ServeInv, DropServerInv DEF DaemonStep
  <1>4. CASE Signal
    BY <1>4, OutsideInv
  <1>5. CASE Kill
    BY <1>5, KillInv
  <1>6. CASE UNCHANGED vars
    BY <1>6 DEF vars, Inv, PathTrue
  <1> QED  BY <1>1, <1>2, <1>3, <1>4, <1>5, <1>6 DEF Next

\* While the daemon serves, clients reach it and no earlier one, whatever is at the path when it
\* starts; an end in order leaves nothing there, so that a dead name is a SIGKILL's or that of a
\* start that failed.
THEOREM PathLeads == Spec => []PathTrue
  <1>1. Inv => PathTrue
    BY DEF Inv
  <1> QED  BY InitInv, NextInv, <1>1, PTL DEF Spec

-----------------------------------------------------------------------------
\* Types.

Reply == [of : Nat, status : {"ok", "error"}]
Line == [kind : Kinds, whole : BOOLEAN]

\* What a longer sequence holds.
LEMMA Appended ==
    ASSUME NEW S, NEW s \in Seq(S), NEW e \in S
    PROVE  /\ Append(s, e) \in Seq(S)
           /\ Len(s) \in Nat /\ Len(Append(s, e)) = Len(s) + 1
           /\ DOMAIN s = 1 .. Len(s) /\ DOMAIN Append(s, e) = 1 .. Len(s) + 1
           /\ \A i \in 1 .. Len(s) : Append(s, e)[i] = s[i]
           /\ Append(s, e)[Len(s) + 1] = e
  OBVIOUS

\* A sequence without its last element.
LEMMA FrontOf ==
    ASSUME NEW S, NEW s \in Seq(S), s # <<>>
    PROVE  /\ Front(s) \in Seq(S) /\ Len(s) \in Nat \ {0} /\ Len(Front(s)) = Len(s) - 1
           /\ \A i \in 1 .. Len(s) - 1 : Front(s)[i] = s[i]
  <1>1. Len(s) \in Nat \ {0} /\ \A i \in 1 .. Len(s) : s[i] \in S
    BY EmptySeq, LenProperties
  <1>2. \A i \in 1 .. Len(s) - 1 : s[i] \in S
    BY <1>1
  <1>3. /\ SubSeq(s, 1, Len(s) - 1) \in Seq(S)
        /\ Len(SubSeq(s, 1, Len(s) - 1)) = IF 1 <= Len(s) - 1 THEN Len(s) - 1 - 1 + 1 ELSE 0
        /\ \A i \in 1 .. Len(s) - 1 - 1 + 1 : SubSeq(s, 1, Len(s) - 1)[i] = s[1 + i - 1]
    BY <1>1, <1>2, SubSeqProperties
  <1>4. \A i \in 1 .. Len(s) - 1 : i \in 1 .. Len(s) - 1 - 1 + 1 /\ 1 + i - 1 = i
    BY <1>1
  <1>5. \A i \in 1 .. Len(s) - 1 : SubSeq(s, 1, Len(s) - 1)[i] = s[i]
    BY <1>3, <1>4
  <1>6. Len(SubSeq(s, 1, Len(s) - 1)) = Len(s) - 1
    <2> PICK n : n = Len(s)
      OBVIOUS
    <2>1. n \in Nat \ {0}
      BY <1>1
    <2>2. (IF 1 <= n - 1 THEN n - 1 - 1 + 1 ELSE 0) = n - 1
      BY <2>1
    <2> QED  BY <1>3, <2>2
  <1> QED  BY <1>1, <1>3, <1>5, <1>6 DEF Front

\* What a client writes: a line more, or the rest of its last one; what was whole stays.
LEMMA Written ==
    ASSUME TypeOK, NEW c \in Clients, NEW k \in Kinds, NEW whole \in BOOLEAN, Write(c, k, whole)
    PROVE  /\ sent' \in [Clients -> Seq(Line)]
           /\ Len(sent[c]) \in Nat
           /\ Len(sent[c]) <= Len(sent'[c]) /\ Len(sent'[c]) <= MaxLines[c]
           /\ \A l \in 1 .. Len(sent[c]) : sent[c][l].whole => sent'[c][l] = sent[c][l]
           /\ \A l \in 1 .. Len(sent[c]) : l < Len(sent[c]) => sent'[c][l] = sent[c][l]
           /\ \A d \in Clients : d # c => sent'[d] = sent[d]
  <1> PICK r : r = [kind |-> k, whole |-> whole]
    OBVIOUS
  <1>1. r \in Line
    BY DEF Line
  <1>2. PICK s : s = sent[c]
    OBVIOUS
  <1>3. s \in Seq(Line) /\ sent \in [Clients -> Seq(Line)] /\ Len(s) <= MaxLines[c] /\ MaxLines[c] \in Nat
    BY <1>2, BoundsAssumption DEF TypeOK, Line
  <1>4. CASE Half(c)
    <2>1. s # <<>> /\ ~s[Len(s)].whole
      BY <1>2, <1>4 DEF Half, Last
    <2>2. sent' = [sent EXCEPT ![c] = Append(Front(s), r)]
      BY <1>2, <1>3, <1>4 DEF Write
    <2>3. /\ Front(s) \in Seq(Line) /\ Len(s) \in Nat \ {0} /\ Len(Front(s)) = Len(s) - 1
          /\ \A i \in 1 .. Len(s) - 1 : Front(s)[i] = s[i]
      BY <1>3, <2>1, FrontOf
    <2> PICK f : f = Front(s)
      OBVIOUS
    <2> PICK n : n = Append(f, r)
      OBVIOUS
    <2>4. /\ n \in Seq(Line) /\ Len(n) = Len(s) /\ \A i \in 1 .. Len(s) - 1 : n[i] = s[i]
      BY <1>1, <2>3, Appended
    <2>5. sent'[c] = n /\ sent' \in [Clients -> Seq(Line)] /\ \A d \in Clients : d # c => sent'[d] = sent[d]
      BY <1>3, <2>2, <2>4
    <2>6. ASSUME NEW l \in 1 .. Len(s), s[l].whole PROVE l \in 1 .. Len(s) - 1
      BY <2>1, <2>3, <2>6
    <2> QED  BY <1>2, <1>3, <2>3, <2>4, <2>5, <2>6
  <1>5. CASE ~Half(c)
    <2>1. sent' = [sent EXCEPT ![c] = Append(s, r)] /\ Len(s) < MaxLines[c]
      BY <1>2, <1>3, <1>5 DEF Write
    <2> PICK n : n = Append(s, r)
      OBVIOUS
    <2>2. /\ n \in Seq(Line) /\ Len(s) \in Nat /\ Len(n) = Len(s) + 1
          /\ \A i \in 1 .. Len(s) : n[i] = s[i]
      BY <1>1, <1>3, Appended
    <2>3. sent'[c] = n /\ sent' \in [Clients -> Seq(Line)] /\ \A d \in Clients : d # c => sent'[d] = sent[d]
      BY <1>3, <2>1, <2>2
    <2> QED  BY <1>2, <1>3, <2>1, <2>2, <2>3
  <1> QED  BY <1>4, <1>5

LEMMA ClientType == ASSUME TypeOK, NEW c \in Clients, ClientStep(c) PROVE TypeOK'
  <1>1. CASE Connect(c)
    <2>1. backlog' \in Seq(Clients)
      BY <1>1, Appended DEF TypeOK, Connect
    <2>2. conn' \in [Clients -> {"new", "open", "half", "closed", "reset"}]
      BY <1>1 DEF TypeOK, Connect
    <2>3. UNCHANGED <<pc, start, name, stream, signal, sent, unread, seen, end, line, ran, out, cut>>
      BY <1>1 DEF Connect, workVars
    <2> QED  BY <2>1, <2>2, <2>3 DEF TypeOK
  <1>2. CASE Receive(c)
    <2>1. /\ seen' = [seen EXCEPT ![c] = @ + 1] /\ seen[c] < Len(out[c])
          /\ UNCHANGED <<pc, start, name, backlog, stream, signal, conn, sent, unread, end, line, ran, out, cut>>
      BY <1>2 DEF Receive, workVars
    <2>2. Len(out[c]) \in Nat
      BY DEF TypeOK
    <2>3. seen' \in [Clients -> Nat] /\ \A d \in Clients : seen'[d] <= Len(out[d])
      BY <2>1, <2>2 DEF TypeOK
    <2> QED  BY <2>1, <2>3 DEF TypeOK
  <1>3. CASE Close(c)
    BY <1>3 DEF TypeOK, Close, workVars
  <1>4. ASSUME NEW k \in Kinds, NEW whole \in BOOLEAN, Write(c, k, whole) PROVE TypeOK'
    <2>1. /\ UNCHANGED <<pc, start, name, backlog, stream, signal, conn, seen, end, line, ran, out, cut>>
          /\ unread' \in {unread \ {c}, unread \cup {c}}
      BY <1>4 DEF Write, workVars
    <2>2. /\ sent' \in [Clients -> Seq(Line)]
          /\ Len(sent[c]) \in Nat /\ Len(sent'[c]) \in Nat
          /\ Len(sent[c]) <= Len(sent'[c]) /\ Len(sent'[c]) <= MaxLines[c]
          /\ \A d \in Clients : d # c => sent'[d] = sent[d]
      BY <1>4, Written
    <2>3. ASSUME NEW d \in Clients PROVE line[d] <= Len(sent'[d]) /\ Len(sent'[d]) <= MaxLines[d]
      <3>1. line[d] \in Nat /\ line[d] <= Len(sent[d]) /\ Len(sent[d]) <= MaxLines[d]
        BY DEF TypeOK
      <3>2. CASE d = c
        BY <2>2, <3>1, <3>2
      <3>3. CASE d # c
        BY <2>2, <3>1, <3>3
      <3> QED  BY <3>2, <3>3
    <2> QED  BY <2>1, <2>2, <2>3 DEF TypeOK, Line
  <1>5. CASE Renew(c)
    <2>1. /\ conn[c] # "new" /\ conn' = [conn EXCEPT ![c] = "new"] /\ sent' = [sent EXCEPT ![c] = <<>>]
          /\ line' = [line EXCEPT ![c] = 0] /\ ran' = [ran EXCEPT ![c] = <<>>]
          /\ out' = [out EXCEPT ![c] = <<>>] /\ seen' = [seen EXCEPT ![c] = 0]
          /\ unread' = unread \ {c} /\ cut' = cut \ {c}
          /\ UNCHANGED <<pc, start, name, backlog, stream, signal, end>>
      BY <1>5 DEF Renew
    <2>2. /\ conn' \in [Clients -> {"new", "open", "half", "closed", "reset"}]
          /\ line' \in [Clients -> Nat] /\ seen' \in [Clients -> Nat]
      BY <2>1 DEF TypeOK
    <2>3. /\ sent' \in [Clients -> Seq([kind : Kinds, whole : BOOLEAN])]
          /\ ran' \in [Clients -> Seq(Nat)]
          /\ out' \in [Clients -> Seq([of : Nat, status : {"ok", "error"}])]
      BY <2>1, EmptySeq DEF TypeOK
    <2>4. ASSUME NEW d \in Clients
          PROVE  line'[d] <= Len(sent'[d]) /\ Len(sent'[d]) <= MaxLines[d] /\ seen'[d] <= Len(out'[d])
      <3>1. CASE d = c
        <4>1. line'[d] = 0 /\ sent'[d] = <<>> /\ seen'[d] = 0 /\ out'[d] = <<>>
          BY <2>1, <3>1 DEF TypeOK
        <4>2. MaxLines[d] \in Nat
          BY BoundsAssumption
        <4>3. Len(sent'[d]) = 0 /\ Len(out'[d]) = 0
          BY <4>1
        <4> QED  BY <4>1, <4>2, <4>3
      <3>2. CASE d # c
        <4>1. line'[d] = line[d] /\ sent'[d] = sent[d] /\ seen'[d] = seen[d] /\ out'[d] = out[d]
          BY <2>1, <3>2 DEF TypeOK
        <4> QED  BY <4>1 DEF TypeOK
      <3> QED  BY <3>1, <3>2
    <2> QED  BY <2>1, <2>2, <2>3, <2>4 DEF TypeOK
  <1> QED  BY <1>1, <1>2, <1>3, <1>4, <1>5 DEF ClientStep, Talks

\* Serving ends, for one stream or all; what was done stays done.
LEMMA DropType ==
    ASSUME TypeOK, NEW c \in Clients, Drop(c), cut' \in {cut, cut \cup {c}} PROVE TypeOK'
  BY ClientAssumption DEF TypeOK, Drop

LEMMA ReadType == ASSUME TypeOK, Read PROVE TypeOK'
  <1> PICK c, l : c = stream /\ l = line[c] + 1
    OBVIOUS
  <1>1. /\ pc = "read" /\ pc' \in {"read", "respond"}
        /\ line[c] < Len(sent[c]) /\ line' = [line EXCEPT ![c] = l]
        /\ ran' = ran \/ ran' = [ran EXCEPT ![c] = Append(@, l)]
        /\ UNCHANGED <<start, name, backlog, stream, signal, out, cut, end, conn, sent, unread, seen>>
    BY DEF Read, Ready, clientVars
  <1>2. c \in Clients
    BY <1>1 DEF TypeOK
  <1>3. l \in Nat /\ Len(sent[c]) \in Nat /\ l <= Len(sent[c])
    BY <1>1, <1>2 DEF TypeOK
  <1>4. line' \in [Clients -> Nat] /\ \A d \in Clients : line'[d] <= Len(sent[d])
    <2>1. line' \in [Clients -> Nat]
      BY <1>1, <1>2, <1>3 DEF TypeOK
    <2>2. line'[c] = l /\ \A d \in Clients : d # c => line'[d] = line[d]
      BY <1>1, <1>2 DEF TypeOK
    <2>3. \A d \in Clients : line[d] <= Len(sent[d])
      BY DEF TypeOK
    <2> QED  BY <1>3, <2>1, <2>2, <2>3
  <1>5. ran' \in [Clients -> Seq(Nat)]
    <2>1. ran \in [Clients -> Seq(Nat)] /\ Append(ran[c], l) \in Seq(Nat)
      BY <1>2, <1>3, Appended DEF TypeOK
    <2> QED  BY <1>1, <1>2, <2>1
  <1> QED  BY <1>1, <1>4, <1>5 DEF TypeOK

LEMMA RespondType == ASSUME TypeOK, Respond PROVE TypeOK'
  <1> PICK c : c = stream
    OBVIOUS
  <1>1. /\ pc = "respond" /\ pc' = "read"
        /\ UNCHANGED <<start, name, backlog, stream, signal, line, ran, cut, end, conn, sent, unread, seen>>
    BY DEF Respond, clientVars
  <1>2. PICK r : /\ r \in Reply
                 /\ out' = [out EXCEPT ![c] = Append(@, r)]
    <2>1. c \in Clients
      BY <1>1 DEF TypeOK
    <2>2. \A t \in {"ok", "error"} : [of |-> line[c], status |-> t] \in Reply
      BY <2>1 DEF TypeOK, Reply
    <2> QED  BY <2>2 DEF Respond
  <1>3. c \in Clients
    BY <1>1 DEF TypeOK
  <1>4. /\ out[c] \in Seq(Reply) /\ Append(out[c], r) \in Seq(Reply) /\ Len(out[c]) \in Nat
        /\ Len(Append(out[c], r)) = Len(out[c]) + 1
    BY <1>2, <1>3, Appended DEF TypeOK, Reply
  <1>5. out' \in [Clients -> Seq(Reply)] /\ \A d \in Clients : seen[d] <= Len(out'[d])
    BY <1>2, <1>3, <1>4 DEF TypeOK, Reply
  <1> QED  BY <1>1, <1>5 DEF TypeOK, Reply

LEMMA NextType == ASSUME TypeOK, [Next]_vars PROVE TypeOK'
  <1>1. CASE \E c \in Clients : ClientStep(c)
    BY <1>1, ClientType
  <1>2. CASE Start
    <2>1. start' \in 0 .. MaxStarts /\ name \in 0 .. start'
      BY <1>2, BoundsAssumption DEF TypeOK, Start
    <2>2. /\ pc = "down" /\ pc' = "load" /\ signal' = FALSE /\ end' = "none"
          /\ UNCHANGED <<name, backlog, stream, conn, sent, unread, seen, line, ran, out, cut>>
      BY <1>2 DEF Start, clientVars, workVars
    <2> QED  BY <2>1, <2>2 DEF TypeOK
  <1>3. CASE Unlink \/ Bind \/ SetNonblocking
    <2>1. name' \in 0 .. start
      BY <1>3, BoundsAssumption DEF TypeOK, Unlink, Bind, SetNonblocking, NoSocket
    <2>2. /\ pc \in {"load", "bind", "bound"} /\ pc' \in {"bind", "bound", "check"}
          /\ UNCHANGED <<start, backlog, stream, signal, end, conn, sent, unread, seen, line, ran, out, cut>>
      BY <1>3 DEF Unlink, Bind, SetNonblocking, clientVars, workVars
    <2> QED  BY <2>1, <2>2 DEF TypeOK
  <1>13. CASE LoadFails \/ BindFails \/ SetNonblockingFails
    <2>1. /\ pc \in {"load", "bind", "bound"} /\ pc' = "down" /\ end' = "failed" /\ backlog' = <<>>
          /\ conn' = Reset(Range(backlog))
          /\ UNCHANGED <<start, name, stream, signal, sent, unread, seen, line, ran, out, cut>>
      BY <1>13 DEF LoadFails, BindFails, SetNonblockingFails, StartFails, workVars
    <2>2. conn' \in [Clients -> {"new", "open", "half", "closed", "reset"}]
      BY <2>1 DEF TypeOK, Reset
    <2> QED  BY <2>1, <2>2, EmptySeq DEF TypeOK
  <1>4. CASE Check \/ AcceptEnds
    BY <1>4 DEF TypeOK, Check, AcceptEnds, clientVars, workVars
  <1>5. CASE Accept
    <2>1. Head(backlog) \in Clients /\ Tail(backlog) \in Seq(Clients)
      BY <1>5 DEF TypeOK, Accept
    <2> QED  BY <1>5, <2>1, ClientAssumption DEF TypeOK, Accept, clientVars, workVars
  <1>6. CASE SetupFails \/ ReadEnds \/ RespondFails
    <2>1. Drop(stream) /\ pc \in {"read", "respond"} /\ cut' \in {cut, cut \cup {stream}}
      BY <1>6 DEF SetupFails, ReadEnds, RespondFails
    <2>2. stream \in Clients
      BY <2>1 DEF TypeOK
    <2> QED  BY <2>1, <2>2, DropType
  <1>14. CASE ReadPart
    <2>1. /\ unread' = unread \ {stream}
          /\ UNCHANGED <<pc, start, name, backlog, stream, signal, conn, sent, seen, end, line, ran, out, cut>>
      BY <1>14 DEF ReadPart, workVars
    <2> QED  BY <2>1 DEF TypeOK
  <1>7. CASE Read
    BY <1>7, ReadType
  <1>8. CASE Respond
    BY <1>8, RespondType
  <1>9. CASE DropServer
    <2>1. name' \in 0 .. start
      BY <1>9, BoundsAssumption DEF TypeOK, DropServer, NoSocket
    <2>2. /\ pc = "detach" /\ pc' = "down" /\ end' = "order" /\ backlog' = <<>>
          /\ conn' = Reset(Range(backlog))
          /\ UNCHANGED <<start, stream, signal, sent, unread, seen, line, ran, out, cut>>
      BY <1>9 DEF DropServer, workVars
    <2>3. conn' \in [Clients -> {"new", "open", "half", "closed", "reset"}]
      BY <2>2 DEF TypeOK, Reset
    <2> QED  BY <2>1, <2>2, <2>3, EmptySeq DEF TypeOK
  <1>10. CASE Signal
    BY <1>10 DEF TypeOK, Signal, clientVars, workVars
  <1>11. CASE Kill
    <2>1. /\ pc' = "down" /\ end' = "killed" /\ backlog' = <<>> /\ stream' = NoClient
          /\ conn' = Reset(Range(backlog) \cup {stream})
          /\ UNCHANGED <<start, name, signal, sent, unread, seen, line, ran, out, cut>>
      BY <1>11 DEF Kill, workVars
    <2>2. conn' \in [Clients -> {"new", "open", "half", "closed", "reset"}]
      BY <2>1 DEF TypeOK, Reset
    <2> QED  BY <2>1, <2>2, EmptySeq DEF TypeOK
  <1>12. CASE UNCHANGED vars
    BY <1>12 DEF TypeOK, vars
  <1> QED
    BY <1>1, <1>2, <1>3, <1>4, <1>5, <1>6, <1>7, <1>8, <1>9, <1>10, <1>11, <1>12,
       <1>13, <1>14 DEF Next, DaemonStep

LEMMA InitType == Init => TypeOK
  <1> SUFFICES ASSUME Init PROVE TypeOK
    OBVIOUS
  <1>1. \A c \in Clients : line[c] <= Len(sent[c]) /\ Len(sent[c]) <= MaxLines[c] /\ seen[c] <= Len(out[c])
    BY BoundsAssumption DEF Init
  <1>2. start \in 0 .. MaxStarts /\ name \in 0 .. start
    BY BoundsAssumption DEF Init, NoSocket
  <1>3. /\ backlog \in Seq(Clients) /\ sent \in [Clients -> Seq([kind : Kinds, whole : BOOLEAN])]
        /\ ran \in [Clients -> Seq(Nat)]
        /\ out \in [Clients -> Seq([of : Nat, status : {"ok", "error"}])]
    BY EmptySeq DEF Init
  <1>4. line \in [Clients -> Nat] /\ seen \in [Clients -> Nat]
    BY DEF Init
  <1>5. conn \in [Clients -> {"new", "open", "half", "closed", "reset"}]
    BY DEF Init
  <1> QED  BY <1>1, <1>2, <1>3, <1>4, <1>5 DEF Init, TypeOK

\* The daemon and its clients keep their types: no answer is read before it is written, no
\* more lines are read than written, and a stream is served exactly at "read" and "respond".
THEOREM TypeCorrect == Spec => []TypeOK
  BY InitType, NextType, PTL DEF Spec

-----------------------------------------------------------------------------
(***************************************************************************)
(* Answers.  A connection is served once, from its first line on; while it *)
(* is served the answers are level with the lines read, or one behind in   *)
(* between, and a connection that ends there never comes back.             *)
(***************************************************************************)

\* A connection waits before any of its lines is read, once, and is not the one being served.
Queue ==
    /\ \A i \in DOMAIN backlog :
          backlog[i] # stream /\ line[backlog[i]] = 0 /\ conn[backlog[i]] # "new"
    /\ \A i, j \in DOMAIN backlog : backlog[i] = backlog[j] => i = j
    /\ \A c \in Clients : conn[c] = "new" => stream # c /\ line[c] = 0

\* A line that was read will not be written on.
WholeRead(c) ==
    \A l \in 1 .. line[c] : sent[c][l].whole \/ conn[c] \in {"half", "closed", "reset"}

OutOrder(c) ==
    /\ \A i, j \in DOMAIN out[c] : i < j => out[c][i].of < out[c][j].of
    /\ \A i \in DOMAIN out[c] : out[c][i].status = "ok" => out[c][i].of \in Commands(c)

RanOrder(c) ==
    /\ \A i, j \in DOMAIN ran[c] : i < j => ran[c][i] < ran[c][j]
    /\ Range(ran[c]) = Commands(c)

\* The answer to the last line read is missing, and no other.
LacksOne(c) == line[c] \in Due(c) /\ Answered(c) = Due(c) \ {line[c]}

Progress(c) ==
    IF stream = c /\ pc = "respond"
    THEN LacksOne(c)
    ELSE Answered(c) = Due(c) \/ (LacksOne(c) /\ Over(c))

\* A part of a response is the last of its connection.
CutLast(c) == c \in cut => Over(c) /\ LacksOne(c)

ClientInv(c) == WholeRead(c) /\ OutOrder(c) /\ RanOrder(c) /\ Progress(c) /\ CutLast(c)

AInv == Queue /\ \A c \in Clients : ClientInv(c)

\* What was read and answered of a client stays as it is.
LEMMA Still ==
    ASSUME TypeOK, NEW c \in Clients, OutOrder(c), RanOrder(c),
           line'[c] = line[c], ran'[c] = ran[c], out'[c] = out[c],
           \A l \in 1 .. line[c] : sent'[c][l] = sent[c][l]
    PROVE  /\ OutOrder(c)' /\ RanOrder(c)' /\ Due(c)' = Due(c) /\ Answered(c)' = Answered(c)
           /\ LacksOne(c)' = LacksOne(c)
  <1>1. Due(c)' = Due(c) /\ Commands(c)' = Commands(c) /\ Answered(c)' = Answered(c)
    BY DEF Due, Commands, Answered
  <1>2. OutOrder(c)' /\ RanOrder(c)'
    BY <1>1 DEF OutOrder, RanOrder
  <1>3. LacksOne(c)' = LacksOne(c)
    BY <1>1 DEF LacksOne
  <1> QED  BY <1>1, <1>2, <1>3

\* A step that reads no line and writes no answer.
LEMMA QuietAInv ==
    ASSUME TypeOK, AInv, Queue', UNCHANGED <<line, ran, out>>,
           \A c \in Clients : \A l \in 1 .. line[c] : sent'[c][l] = sent[c][l],
           \A c \in Clients : conn[c] \in {"half", "closed", "reset"}
                                  => conn'[c] \in {"half", "closed", "reset"},
           \A c \in Clients : conn[c] \in {"closed", "reset"} => conn'[c] \in {"closed", "reset"},
           \A c \in Clients : stream' = c /\ pc' = "respond" => stream = c /\ pc = "respond",
           \A c \in Clients : stream = c /\ pc = "respond" /\ ~(stream' = c /\ pc' = "respond")
                                  => conn'[c] \in {"closed", "reset"} /\ stream' # c,
           \A c \in Clients : stream' = c /\ stream # c => line[c] = 0,
           \A c \in Clients : c \in cut' => c \in cut \/ (stream = c /\ pc = "respond"
                                                        /\ ~(stream' = c /\ pc' = "respond"))
    PROVE  AInv'
  <1> SUFFICES ASSUME NEW c \in Clients PROVE ClientInv(c)'
    BY DEF AInv
  <1>1. ClientInv(c) /\ line[c] \in Nat
    BY DEF AInv, TypeOK
  <1>2. /\ OutOrder(c)' /\ RanOrder(c)' /\ Due(c)' = Due(c) /\ Answered(c)' = Answered(c)
        /\ LacksOne(c)' = LacksOne(c)
    BY <1>1, Still DEF ClientInv
  <1>3. WholeRead(c)'
    BY <1>1 DEF ClientInv, WholeRead
  <1>4. Progress(c)'
    <2>1. CASE stream = c /\ pc = "respond"
      BY <1>1, <1>2, <2>1 DEF ClientInv, Progress, Over
    <2>2. CASE ~(stream = c /\ pc = "respond")
      <3>1. Answered(c) = Due(c) \/ (LacksOne(c) /\ Over(c))
        BY <1>1, <2>2 DEF ClientInv, Progress
      <3>2. ~(stream' = c /\ pc' = "respond")
        BY <2>2
      <3>3. LacksOne(c) => line[c] # 0
        BY <1>1 DEF LacksOne, Due
      <3> QED  BY <1>2, <3>1, <3>2, <3>3 DEF Progress, Over
    <2> QED  BY <2>1, <2>2
  <1>5. CutLast(c)'
    <2> SUFFICES ASSUME c \in cut' PROVE Over(c)' /\ LacksOne(c)
      BY <1>2 DEF CutLast
    <2>1. CASE c \in cut
      <3>1. Over(c) /\ LacksOne(c)
        BY <1>1, <2>1 DEF ClientInv, CutLast
      <3>2. line[c] # 0
        BY <1>1, <3>1 DEF LacksOne, Due
      <3> QED  BY <3>1, <3>2 DEF Over
    <2>2. CASE stream = c /\ pc = "respond" /\ ~(stream' = c /\ pc' = "respond")
      <3>1. LacksOne(c)
        BY <1>1, <2>2 DEF ClientInv, Progress
      <3> QED  BY <2>2, <3>1 DEF Over
    <2> QED  BY <2>1, <2>2
  <1> QED  BY <1>2, <1>3, <1>4, <1>5 DEF ClientInv

LEMMA QueueKept ==
    ASSUME TypeOK, Queue, backlog' = backlog, line' = line, stream' \in {stream, NoClient},
           \A c \in Clients : conn'[c] = "new" <=> conn[c] = "new"
    PROVE  Queue'
  <1>1. \A i \in DOMAIN backlog : backlog[i] \in Clients
    BY DEF TypeOK
  <1> QED  BY <1>1, ClientAssumption DEF Queue

LEMMA ConnectAInv == ASSUME TypeOK, AInv, NEW c \in Clients, Connect(c) PROVE AInv'
  <1>1. /\ conn[c] = "new" /\ conn' = [conn EXCEPT ![c] = "open"] /\ backlog' = Append(backlog, c)
        /\ UNCHANGED <<pc, stream, sent, line, ran, out, cut>>
    BY DEF Connect, workVars
  <1>2. /\ DOMAIN backlog = 1 .. Len(backlog) /\ Len(backlog) \in Nat
        /\ DOMAIN backlog' = 1 .. Len(backlog) + 1
        /\ \A i \in 1 .. Len(backlog) : backlog'[i] = backlog[i] /\ backlog[i] \in Clients
        /\ backlog'[Len(backlog) + 1] = c
    BY <1>1, Appended DEF TypeOK
  <1>3. conn'[c] = "open" /\ \A d \in Clients : d # c => conn'[d] = conn[d]
    BY <1>1 DEF TypeOK
  <1>4. Queue
    BY DEF AInv
  <1>5. \A i \in 1 .. Len(backlog) : backlog[i] # c
    BY <1>1, <1>2, <1>4 DEF Queue
  <1>6. \A i \in DOMAIN backlog' : (i \in 1 .. Len(backlog)) \/ i = Len(backlog) + 1
    BY <1>2
  <1>7. Queue'
    <2>1. ASSUME NEW i \in DOMAIN backlog'
          PROVE  backlog'[i] # stream /\ line[backlog'[i]] = 0 /\ conn'[backlog'[i]] # "new"
      BY <1>1, <1>2, <1>3, <1>4, <1>6 DEF Queue
    <2>2. ASSUME NEW i \in DOMAIN backlog', NEW j \in DOMAIN backlog', backlog'[i] = backlog'[j]
          PROVE  i = j
      BY <1>2, <1>4, <1>5, <1>6, <2>2 DEF Queue
    <2>3. \A d \in Clients : conn'[d] = "new" => stream # d /\ line[d] = 0
      BY <1>3, <1>4 DEF Queue
    <2> QED  BY <1>1, <2>1, <2>2, <2>3 DEF Queue
  <1> QED  BY <1>1, <1>3, <1>7, QuietAInv

LEMMA WriteAInv ==
    ASSUME TypeOK, AInv, NEW c \in Clients, NEW k \in Kinds, NEW whole \in BOOLEAN, Write(c, k, whole)
    PROVE  AInv'
  <1>1. conn[c] = "open" /\ UNCHANGED <<pc, backlog, stream, conn, line, ran, out, cut>>
    BY DEF Write, workVars
  <1>2. Queue'
    BY <1>1, QueueKept DEF AInv
  <1>3. ASSUME NEW d \in Clients, NEW l \in 1 .. line[d] PROVE sent'[d][l] = sent[d][l]
    <2>1. CASE d = c
      <3>1. sent[c][l].whole
        BY <1>1, <1>3, <2>1 DEF AInv, ClientInv, WholeRead
      <3>2. l \in 1 .. Len(sent[c])
        BY <1>3, <2>1 DEF TypeOK
      <3> QED  BY <2>1, <3>1, <3>2, Written
    <2>2. CASE d # c
      BY <2>2, Written
    <2> QED  BY <2>1, <2>2
  <1> QED  BY <1>1, <1>2, <1>3, QuietAInv

LEMMA AcceptAInv == ASSUME TypeOK, AInv, Accept PROVE AInv'
  <1>1. /\ pc = "accept" /\ backlog # <<>> /\ stream' = Head(backlog) /\ backlog' = Tail(backlog)
        /\ pc' = "read" /\ UNCHANGED <<conn, sent, line, ran, out, cut>>
    BY DEF Accept, clientVars, workVars
  <1>2. stream = NoClient
    BY <1>1 DEF TypeOK
  <1>3. /\ DOMAIN backlog = 1 .. Len(backlog) /\ Len(backlog) \in Nat \ {0}
        /\ Head(backlog) = backlog[1] /\ backlog[1] \in Clients
        /\ DOMAIN backlog' = 1 .. Len(backlog) - 1
        /\ \A i \in 1 .. Len(backlog) - 1 : backlog'[i] = backlog[i + 1]
    <2>1. backlog \in Seq(Clients)
      BY DEF TypeOK
    <2>2. Len(backlog) \in Nat \ {0} /\ DOMAIN backlog = 1 .. Len(backlog)
      BY <1>1, <2>1, EmptySeq, LenProperties
    <2>3. /\ Tail(backlog) \in Seq(Clients) /\ Len(Tail(backlog)) = Len(backlog) - 1
          /\ \A i \in 1 .. Len(Tail(backlog)) : Tail(backlog)[i] = backlog[i + 1]
      BY <1>1, <2>1, HeadTailProperties
    <2>4. DOMAIN Tail(backlog) = 1 .. Len(Tail(backlog))
      BY <2>3, LenProperties
    <2>5. backlog[1] \in Clients /\ Head(backlog) = backlog[1]
      BY <1>1, <2>1, <2>2
    <2> QED  BY <1>1, <2>2, <2>3, <2>4, <2>5
  <1>4. \A i \in 1 .. Len(backlog) - 1 : i + 1 \in DOMAIN backlog /\ i + 1 # 1 /\ 1 \in DOMAIN backlog
    BY <1>3
  <1>5. 1 \in DOMAIN backlog
    BY <1>3
  <1>6. Queue
    BY DEF AInv
  <1>7. Queue'
    <2>1. ASSUME NEW i \in DOMAIN backlog'
          PROVE  backlog'[i] # stream' /\ line[backlog'[i]] = 0 /\ conn[backlog'[i]] # "new"
      BY <1>1, <1>3, <1>4, <1>6 DEF Queue
    <2>2. ASSUME NEW i \in DOMAIN backlog', NEW j \in DOMAIN backlog', backlog'[i] = backlog'[j]
          PROVE  i = j
      <3>1. backlog[i + 1] = backlog[j + 1] /\ i + 1 \in DOMAIN backlog /\ j + 1 \in DOMAIN backlog
        BY <1>3, <1>4, <2>2
      <3>2. i + 1 = j + 1
        BY <1>6, <3>1 DEF Queue
      <3> QED  BY <1>3, <3>2
    <2>3. \A c \in Clients : conn[c] = "new" => stream' # c /\ line[c] = 0
      BY <1>1, <1>3, <1>5, <1>6 DEF Queue
    <2> QED  BY <1>1, <2>1, <2>2, <2>3 DEF Queue
  <1>8. \A c \in Clients : stream' = c => line[c] = 0
    BY <1>1, <1>3, <1>5, <1>6 DEF Queue
  <1> QED  BY <1>1, <1>7, <1>8, QuietAInv

LEMMA DropAInv ==
    ASSUME TypeOK, AInv, NEW c \in Clients, c = stream, Drop(c),
           cut' = cut \/ (pc = "respond" /\ cut' \in {cut, cut \cup {c}})
    PROVE  AInv'
  <1>1. /\ stream' = NoClient /\ pc' = "accept"
        /\ conn' = [conn EXCEPT ![c] = IF @ = "closed" THEN @ ELSE "reset"]
        /\ UNCHANGED <<backlog, sent, line, ran, out>>
    BY DEF Drop
  <1>2. conn'[c] \in {"closed", "reset"} /\ \A d \in Clients : d # c => conn'[d] = conn[d]
    BY <1>1 DEF TypeOK
  <1>3. conn[c] # "new"
    BY DEF AInv, Queue
  <1>4. Queue'
    BY <1>1, <1>2, <1>3, QueueKept DEF AInv
  <1>5. \A d \in Clients : d \in cut' => d \in cut \/ (stream = d /\ pc = "respond"
                                                       /\ ~(stream' = d /\ pc' = "respond"))
    BY <1>1
  <1> QED  BY <1>1, <1>2, <1>4, <1>5, QuietAInv, ClientAssumption

\* The daemon ends: in order or by a start that fails, with no stream, or killed.
LEMMA EndAInv ==
    ASSUME TypeOK, AInv,
           DropServer \/ LoadFails \/ BindFails \/ SetNonblockingFails \/ Kill
    PROVE  AInv'
  <1>1. /\ pc' = "down" /\ backlog' = <<>> /\ stream' = NoClient
        /\ UNCHANGED <<sent, line, ran, out, cut>>
    BY DEF TypeOK, DropServer, LoadFails, BindFails, SetNonblockingFails, StartFails, Kill, workVars
  <1>2. PICK s : conn' = Reset(s) /\ stream \in s \cup {NoClient}
    BY DEF TypeOK, DropServer, LoadFails, BindFails, SetNonblockingFails, StartFails, Kill
  <1>3. \A d \in Clients : conn'[d] = IF conn[d] \in {"open", "half"} /\ d \in s THEN "reset" ELSE conn[d]
    BY <1>2 DEF Reset
  <1>4. Queue'
    BY <1>1, <1>3, ClientAssumption DEF AInv, Queue
  <1>5. \A c \in Clients : stream = c => conn'[c] \in {"closed", "reset"}
    BY <1>2, <1>3, ClientAssumption DEF TypeOK, AInv, Queue
  <1> QED  BY <1>1, <1>3, <1>4, <1>5, QuietAInv, ClientAssumption

\* A client that the step is not about.
LEMMA OtherKept ==
    ASSUME TypeOK, NEW d \in Clients, ClientInv(d), stream' = stream, stream # d,
           conn'[d] = conn[d], sent'[d] = sent[d], d \in cut' <=> d \in cut,
           line'[d] = line[d], ran'[d] = ran[d], out'[d] = out[d]
    PROVE  ClientInv(d)'
  <1>1. /\ OutOrder(d)' /\ RanOrder(d)' /\ Due(d)' = Due(d) /\ Answered(d)' = Answered(d)
        /\ LacksOne(d)' = LacksOne(d)
    BY Still DEF ClientInv
  <1>2. WholeRead(d)'
    BY DEF ClientInv, WholeRead
  <1>3. Progress(d)' /\ CutLast(d)'
    BY <1>1 DEF ClientInv, Progress, CutLast, Over
  <1> QED  BY <1>1, <1>2, <1>3 DEF ClientInv

\* A client that begins anew.
LEMMA RenewAInv == ASSUME TypeOK, AInv, NEW c \in Clients, Renew(c) PROVE AInv'
  <1>1. /\ stream # c /\ c \notin Range(backlog)
        /\ conn' = [conn EXCEPT ![c] = "new"] /\ sent' = [sent EXCEPT ![c] = <<>>]
        /\ line' = [line EXCEPT ![c] = 0] /\ ran' = [ran EXCEPT ![c] = <<>>]
        /\ out' = [out EXCEPT ![c] = <<>>] /\ cut' = cut \ {c}
        /\ UNCHANGED <<pc, backlog, stream>>
    BY DEF Renew
  <1>2. line'[c] = 0 /\ ran'[c] = <<>> /\ out'[c] = <<>> /\ conn'[c] = "new" /\ c \notin cut'
    BY <1>1 DEF TypeOK
  <1>3. \A d \in Clients : d # c => /\ line'[d] = line[d] /\ ran'[d] = ran[d] /\ out'[d] = out[d]
                                   /\ conn'[d] = conn[d] /\ sent'[d] = sent[d]
                                   /\ (d \in cut' <=> d \in cut)
    BY <1>1 DEF TypeOK
  <1>4. ClientInv(c)'
    <2>1. \A s : s = <<>> => DOMAIN s = {}
      OBVIOUS
    <2>2. DOMAIN ran'[c] = {} /\ DOMAIN out'[c] = {}
      BY <1>2, <2>1
    <2>3. \A l : l \notin 1 .. 0
      OBVIOUS
    <2>4. Due(c)' = {} /\ Commands(c)' = {}
      BY <1>2, <2>3 DEF Due, Commands
    <2>5. Answered(c)' = {} /\ Range(ran'[c]) = {}
      BY <2>2 DEF Answered, Range
    <2>6. WholeRead(c)' /\ OutOrder(c)' /\ RanOrder(c)' /\ CutLast(c)'
      BY <1>2, <2>2, <2>3, <2>4, <2>5 DEF WholeRead, OutOrder, RanOrder, CutLast
    <2>7. Progress(c)'
      BY <1>1, <2>4, <2>5 DEF Progress
    <2> QED  BY <2>6, <2>7 DEF ClientInv
  <1>5. ASSUME NEW d \in Clients, d # c PROVE ClientInv(d)'
    <2>1. CASE stream = d
      <3>1. ClientInv(d)
        BY DEF AInv
      <3>2. /\ OutOrder(d)' /\ RanOrder(d)' /\ Due(d)' = Due(d) /\ Answered(d)' = Answered(d)
            /\ LacksOne(d)' = LacksOne(d)
        BY <1>3, <1>5, <3>1, Still DEF ClientInv
      <3>3. WholeRead(d)'
        BY <1>3, <1>5, <3>1 DEF ClientInv, WholeRead
      <3>4. Progress(d)' /\ CutLast(d)'
        BY <1>1, <1>3, <1>5, <3>1, <3>2 DEF ClientInv, Progress, CutLast, Over
      <3> QED  BY <3>2, <3>3, <3>4 DEF ClientInv
    <2>2. CASE stream # d
      BY <1>1, <1>3, <1>5, <2>2, OtherKept DEF AInv
    <2> QED  BY <2>1, <2>2
  <1>6. Queue'
    <2>1. \A i \in DOMAIN backlog : backlog[i] \in Clients /\ backlog[i] # c
      BY <1>1 DEF TypeOK, Range
    <2> QED  BY <1>1, <1>2, <1>3, <2>1 DEF AInv, Queue
  <1> QED  BY <1>4, <1>5, <1>6 DEF AInv

LEMMA ReadAInv == ASSUME TypeOK, AInv, Read PROVE AInv'
  <1> PICK c, l : c = stream /\ l = line[c] + 1
    OBVIOUS
  <1> PICK k : k = sent[c][l].kind
    OBVIOUS
  <1>1. /\ pc = "read" /\ c \in Clients
        /\ line' = [line EXCEPT ![c] = l]
        /\ ran' = IF k = "cmd" THEN [ran EXCEPT ![c] = Append(@, l)] ELSE ran
        /\ pc' = IF k = "blank" THEN "read" ELSE "respond"
        /\ UNCHANGED <<backlog, stream, conn, sent, out, cut>>
    BY DEF Read, TypeOK, clientVars
  <1>2. sent[c][l].whole \/ conn[c] = "half" \/ conn[c] = "closed"
    BY DEF Read, Ready
  <1>3. line[c] \in Nat /\ l \in Nat /\ line'[c] = l /\ \A d \in Clients : d # c => line'[d] = line[d]
    BY <1>1 DEF TypeOK
  <1>4. \A m : m \in 1 .. l <=> m \in 1 .. line[c] \/ m = l
    BY <1>3
  <1>5. l \notin 1 .. line[c] /\ \A m \in 1 .. line[c] : m < l
    BY <1>3
  <1>6. /\ Due(c)' = Due(c) \cup (IF k = "blank" THEN {} ELSE {l})
        /\ Commands(c)' = Commands(c) \cup (IF k = "cmd" THEN {l} ELSE {})
        /\ Answered(c)' = Answered(c)
    <2>1. \A m : m \in Due(c)' <=> m \in Due(c) \/ (m = l /\ k # "blank")
      BY <1>1, <1>3, <1>4 DEF Due
    <2>2. \A m : m \in Commands(c)' <=> m \in Commands(c) \/ (m = l /\ k = "cmd")
      BY <1>1, <1>3, <1>4 DEF Commands
    <2>3. Answered(c)' = Answered(c)
      BY <1>1 DEF Answered
    <2> QED  BY <2>1, <2>2, <2>3
  <1>7. ClientInv(c) /\ Answered(c) = Due(c)
    BY <1>1 DEF AInv, ClientInv, Progress, Over
  <1>8. l \notin Due(c) /\ l \notin Commands(c)
    BY <1>5 DEF Due, Commands
  <1>9. WholeRead(c)'
    BY <1>1, <1>2, <1>3, <1>4, <1>7 DEF ClientInv, WholeRead
  <1>10. OutOrder(c)'
    <2>1. \A i \in DOMAIN out[c] : out[c][i].of # l
      BY <1>7, <1>8 DEF Answered
    <2> QED  BY <1>1, <1>6, <1>7, <2>1 DEF ClientInv, OutOrder
  <1>11. RanOrder(c)'
    <2>1. CASE k = "cmd"
      <3>1. /\ DOMAIN ran[c] = 1 .. Len(ran[c]) /\ Len(ran[c]) \in Nat
            /\ DOMAIN ran'[c] = 1 .. Len(ran[c]) + 1 /\ ran'[c][Len(ran[c]) + 1] = l
            /\ \A i \in 1 .. Len(ran[c]) : ran'[c][i] = ran[c][i]
        <4>1. ran[c] \in Seq(Nat) /\ ran'[c] = Append(ran[c], l)
          BY <1>1, <2>1 DEF TypeOK
        <4> QED  BY <1>3, <4>1, Appended
      <3>2. Range(ran[c]) = Commands(c)
        BY <1>7 DEF ClientInv, RanOrder
      <3>3. \A i \in DOMAIN ran[c] : ran[c][i] < l
        BY <1>5, <3>2 DEF Range, Commands
      <3>4. \A i \in DOMAIN ran'[c] : i \in DOMAIN ran[c] \/ i = Len(ran[c]) + 1
        BY <3>1
      <3>5. DOMAIN ran[c] \subseteq DOMAIN ran'[c] /\ Len(ran[c]) + 1 \in DOMAIN ran'[c]
        BY <3>1
      <3>6. Range(ran'[c]) = Range(ran[c]) \cup {l}
        BY <3>1, <3>4, <3>5 DEF Range
      <3>7. ASSUME NEW i \in DOMAIN ran'[c], NEW j \in DOMAIN ran'[c], i < j
            PROVE  ran'[c][i] < ran'[c][j]
        <4>1. i \in DOMAIN ran[c]
          BY <3>1, <3>7
        <4>2. CASE j \in DOMAIN ran[c]
          BY <1>7, <3>1, <3>7, <4>1, <4>2 DEF ClientInv, RanOrder
        <4>3. CASE j = Len(ran[c]) + 1
          BY <3>1, <3>3, <4>1, <4>3
        <4> QED  BY <3>4, <4>2, <4>3
      <3> QED  BY <1>6, <2>1, <3>2, <3>6, <3>7 DEF RanOrder
    <2>2. CASE k # "cmd"
      BY <1>1, <1>6, <1>7, <2>2 DEF ClientInv, RanOrder
    <2> QED  BY <2>1, <2>2
  <1>12. Progress(c)'
    <2>1. CASE k = "blank"
      BY <1>1, <1>6, <1>7, <2>1 DEF Progress
    <2>2. CASE k # "blank"
      <3>1. LacksOne(c)'
        BY <1>3, <1>6, <1>7, <1>8, <2>2 DEF LacksOne
      <3> QED  BY <1>1, <2>2, <3>1 DEF Progress
    <2> QED  BY <2>1, <2>2
  <1>13. ASSUME NEW d \in Clients, d # c PROVE ClientInv(d)'
    <2>1. ran'[d] = ran[d] /\ out'[d] = out[d]
      BY <1>1, <1>13 DEF TypeOK
    <2> QED  BY <1>1, <1>3, <1>13, <2>1, OtherKept DEF AInv
  <1>14. Queue'
    <2>1. \A i \in DOMAIN backlog : backlog[i] \in Clients
      BY DEF TypeOK
    <2> QED  BY <1>1, <1>3, <2>1 DEF AInv, Queue
  <1>15. CutLast(c)'
    BY <1>1, <1>7 DEF ClientInv, CutLast, Over
  <1> QED  BY <1>9, <1>10, <1>11, <1>12, <1>13, <1>14, <1>15 DEF AInv, ClientInv

LEMMA RespondAInv == ASSUME TypeOK, AInv, Respond PROVE AInv'
  <1> PICK c : c = stream
    OBVIOUS
  <1> PICK l : l = line[c]
    OBVIOUS
  <1>0. PICK t : /\ t \in {"ok", "error"} /\ (t = "ok" => sent[c][l].kind = "cmd")
                 /\ out' = [out EXCEPT ![c] = Append(@, [of |-> l, status |-> t])]
    BY DEF Respond
  <1> PICK r : r = [of |-> l, status |-> t]
    OBVIOUS
  <1>1. /\ pc = "respond" /\ pc' = "read" /\ c \in Clients /\ l \in Nat
        /\ out' = [out EXCEPT ![c] = Append(@, r)]
        /\ UNCHANGED <<backlog, stream, line, ran, conn, sent, cut>>
    BY <1>0 DEF Respond, TypeOK, clientVars
  <1>2. r.of = l /\ (r.status = "ok" => sent[c][l].kind = "cmd") /\ r \in Reply
    BY <1>0, <1>1 DEF Reply
  <1>3. ClientInv(c) /\ l \in Due(c) /\ Answered(c) = Due(c) \ {l}
    BY <1>1 DEF AInv, ClientInv, Progress, LacksOne
  <1>4. /\ DOMAIN out[c] = 1 .. Len(out[c]) /\ Len(out[c]) \in Nat
        /\ DOMAIN out'[c] = 1 .. Len(out[c]) + 1 /\ out'[c][Len(out[c]) + 1] = r
        /\ \A i \in 1 .. Len(out[c]) : out'[c][i] = out[c][i]
    <2>1. out[c] \in Seq(Reply) /\ out'[c] = Append(out[c], r)
      BY <1>1 DEF TypeOK, Reply
    <2> QED  BY <1>2, <2>1, Appended
  <1>5. \A i \in DOMAIN out'[c] : i \in DOMAIN out[c] \/ i = Len(out[c]) + 1
    BY <1>4
  <1>6. DOMAIN out[c] \subseteq DOMAIN out'[c] /\ Len(out[c]) + 1 \in DOMAIN out'[c]
    BY <1>4
  <1>7. Due(c)' = Due(c) /\ Commands(c)' = Commands(c)
    BY <1>1 DEF Due, Commands
  <1>8. Answered(c)' = Answered(c) \cup {l}
    <2> PICK o, n : o = out[c] /\ n = out'[c]
      OBVIOUS
    <2>1. \A i \in DOMAIN o : i \in DOMAIN n /\ n[i].of = o[i].of
      BY <1>4, <1>6
    <2>2. \A i \in DOMAIN n : i \in DOMAIN o \/ n[i].of = l
      BY <1>2, <1>4, <1>5
    <2>3. \E i \in DOMAIN n : n[i].of = l
      BY <1>2, <1>4, <1>6
    <2>4. {n[i].of : i \in DOMAIN n} = {o[i].of : i \in DOMAIN o} \cup {l}
      BY <2>1, <2>2, <2>3
    <2> QED  BY <2>4 DEF Answered
  <1>9. \A i \in DOMAIN out[c] : out[c][i].of < l
    <2>1. \A m \in Due(c) \ {l} : m < l
      BY <1>1 DEF Due
    <2> QED  BY <1>3, <2>1 DEF Answered
  <1>10. OutOrder(c)'
    <2>1. ASSUME NEW i \in DOMAIN out'[c], NEW j \in DOMAIN out'[c], i < j
          PROVE  out'[c][i].of < out'[c][j].of
      <3>1. i \in DOMAIN out[c]
        BY <1>4, <2>1
      <3>2. CASE j \in DOMAIN out[c]
        BY <1>3, <1>4, <2>1, <3>1, <3>2 DEF ClientInv, OutOrder
      <3>3. CASE j = Len(out[c]) + 1
        BY <1>2, <1>4, <1>9, <3>1, <3>3
      <3> QED  BY <1>5, <3>2, <3>3
    <2>2. ASSUME NEW i \in DOMAIN out'[c]
          PROVE  out'[c][i].status = "ok" => out'[c][i].of \in Commands(c)
      <3>1. l \in Commands(c) <=> sent[c][l].kind = "cmd"
        BY <1>1, <1>3 DEF Due, Commands
      <3>2. CASE i \in DOMAIN out[c]
        BY <1>3, <1>4, <3>2 DEF ClientInv, OutOrder
      <3>3. CASE i = Len(out[c]) + 1
        BY <1>2, <1>4, <3>1, <3>3
      <3> QED  BY <1>5, <3>2, <3>3
    <2> QED  BY <1>7, <2>1, <2>2 DEF OutOrder
  <1>11. RanOrder(c)'
    BY <1>1, <1>3, <1>7 DEF ClientInv, RanOrder
  <1>12. WholeRead(c)'
    BY <1>1, <1>3 DEF ClientInv, WholeRead
  <1>13. Progress(c)'
    BY <1>1, <1>3, <1>7, <1>8 DEF Progress
  <1>14. ASSUME NEW d \in Clients, d # c PROVE ClientInv(d)'
    <2>1. out'[d] = out[d]
      BY <1>1, <1>14 DEF TypeOK
    <2> QED  BY <1>1, <1>14, <2>1, OtherKept DEF AInv
  <1>15. Queue'
    BY <1>1, QueueKept DEF AInv
  <1>16. CutLast(c)'
    BY <1>1, <1>3 DEF ClientInv, CutLast, Over
  <1> QED  BY <1>10, <1>11, <1>12, <1>13, <1>14, <1>15, <1>16 DEF AInv, ClientInv

LEMMA InitAInv == Init => AInv
  <1> SUFFICES ASSUME Init PROVE AInv
    OBVIOUS
  <1>1. Queue
    BY ClientAssumption DEF Init, Queue
  <1>2. ASSUME NEW c \in Clients PROVE ClientInv(c)
    <2>1. line[c] = 0 /\ ran[c] = <<>> /\ out[c] = <<>> /\ pc = "down" /\ cut = {}
      BY DEF Init
    <2>2. \A s : s = <<>> => DOMAIN s = {}
      OBVIOUS
    <2>3. Due(c) = {} /\ Commands(c) = {} /\ Answered(c) = {} /\ Range(ran[c]) = {}
      BY <2>1, <2>2 DEF Due, Commands, Answered, Range
    <2>4. WholeRead(c) /\ OutOrder(c) /\ RanOrder(c) /\ Progress(c) /\ CutLast(c)
      BY <2>1, <2>2, <2>3 DEF WholeRead, OutOrder, RanOrder, Progress, CutLast
    <2> QED  BY <2>4 DEF ClientInv
  <1> QED  BY <1>1, <1>2 DEF AInv

LEMMA NextAInv == ASSUME TypeOK, AInv, [Next]_vars PROVE AInv'
  <1>1. ASSUME NEW c \in Clients, ClientStep(c) PROVE AInv'
    <2>1. CASE Receive(c)
      <3>1. UNCHANGED <<pc, backlog, stream, conn, sent, line, ran, out, cut>>
        BY <2>1 DEF Receive, workVars
      <3>2. Queue'
        BY <3>1, QueueKept DEF AInv
      <3> QED  BY <3>1, <3>2, QuietAInv
    <2>2. CASE Close(c)
      <3>1. UNCHANGED <<pc, backlog, stream, sent, line, ran, out, cut>>
        BY <2>2 DEF Close, workVars
      <3>2. \A d \in Clients : \/ conn'[d] = conn[d]
                               \/ conn[d] = "open" /\ conn'[d] = "half"
                               \/ conn[d] \in {"open", "half"} /\ conn'[d] = "closed"
        BY <2>2 DEF Close, TypeOK
      <3>3. Queue'
        BY <3>1, <3>2, QueueKept DEF AInv
      <3> QED  BY <3>1, <3>2, <3>3, QuietAInv
    <2> QED  BY <1>1, <2>1, <2>2, ConnectAInv, WriteAInv, RenewAInv DEF ClientStep, Talks
  <1>2. CASE Start \/ Unlink \/ Bind \/ SetNonblocking \/ Check \/ AcceptEnds \/ Signal
    <2>1. UNCHANGED <<backlog, stream, conn, sent, line, ran, out, cut>>
      BY <1>2 DEF Start, Unlink, Bind, SetNonblocking, Check, AcceptEnds, Signal, clientVars, workVars
    <2>2. (pc' = "respond") <=> (pc = "respond")
      BY <1>2 DEF Start, Unlink, Bind, SetNonblocking, Check, AcceptEnds, Signal
    <2>3. Queue'
      BY <2>1, QueueKept DEF AInv
    <2> QED  BY <2>1, <2>2, <2>3, QuietAInv
  <1>3. CASE SetupFails \/ ReadEnds \/ RespondFails
    <2>1. /\ Drop(stream) /\ pc \in {"read", "respond"}
          /\ cut' = cut \/ (pc = "respond" /\ cut' \in {cut, cut \cup {stream}})
      BY <1>3 DEF SetupFails, ReadEnds, RespondFails
    <2>2. stream \in Clients
      BY <2>1 DEF TypeOK
    <2> PICK c : c = stream
      OBVIOUS
    <2>3. /\ c \in Clients /\ Drop(c)
          /\ cut' = cut \/ (pc = "respond" /\ cut' \in {cut, cut \cup {c}})
      BY <2>1, <2>2
    <2> QED  BY <2>3, DropAInv
  <1>4. CASE UNCHANGED vars
    <2>1. UNCHANGED <<pc, backlog, stream, conn, sent, line, ran, out, cut>>
      BY <1>4 DEF vars
    <2>2. Queue'
      BY <2>1, QueueKept DEF AInv
    <2> QED  BY <2>1, <2>2, QuietAInv
  <1>5. CASE ReadPart
    <2>1. UNCHANGED <<pc, backlog, stream, conn, sent, line, ran, out, cut>>
      BY <1>5 DEF ReadPart, workVars
    <2>2. Queue'
      BY <2>1, QueueKept DEF AInv
    <2> QED  BY <2>1, <2>2, QuietAInv
  <1> QED
    BY <1>1, <1>2, <1>3, <1>4, <1>5, AcceptAInv, ReadAInv, RespondAInv, EndAInv DEF Next, DaemonStep

\* Whatever clients write, in parts or whole, whenever they leave, stop reading or come back,
\* whatever commands fail, and wherever the daemon ends: each connection carries the answers to
\* its lines, one each and in order, "ok" to none but commands and nothing behind a part of an
\* answer, and every command read was run once.
THEOREM AnsweredOnce == Spec => []AnsweredInOrder
  <1>1. ASSUME TypeOK, AInv PROVE AnsweredInOrder
    <2> SUFFICES ASSUME NEW c \in Clients
                 PROVE  /\ OutOrder(c) /\ RanOrder(c)
                        /\ \/ Answered(c) = Due(c)
                           \/ /\ line[c] \in Due(c) /\ Answered(c) = Due(c) \ {line[c]}
                              /\ (stream = c /\ pc = "respond") \/ Over(c)
                        /\ c \in cut => Over(c) /\ line[c] \in Due(c) \ Answered(c)
                        /\ \A l \in Range(ran[c]) : sent[c][l].whole \/ conn[c] # "open"
      BY DEF AnsweredInOrder, OutOrder, RanOrder
    <2>1. ClientInv(c)
      BY <1>1 DEF AInv
    <2>2. \A l \in Commands(c) : sent[c][l].whole \/ conn[c] # "open"
      BY <2>1 DEF ClientInv, WholeRead, Commands
    <2>3. c \in cut => Over(c) /\ line[c] \in Due(c) \ Answered(c)
      BY <2>1 DEF ClientInv, CutLast, LacksOne
    <2> QED  BY <2>1, <2>2, <2>3 DEF ClientInv, RanOrder, Progress, LacksOne
  <1>2. TypeOK /\ AInv /\ [Next]_vars => (TypeOK /\ AInv)'
    BY NextType, NextAInv
  <1> QED  BY InitType, InitAInv, <1>1, <1>2, PTL DEF Spec

=============================================================================

----------------------------- MODULE CommandServer -----------------------------
(***************************************************************************)
(* The daemon's main loop and its command socket (main.rs, server.rs,      *)
(* signals.rs) with its clients, over restarts.                            *)
(*                                                                         *)
(* One thread polls: it accepts one stream after the other, as long as any *)
(* wait, and answers each line by line until the client is done or silent  *)
(* for the read timeout, which every byte starts anew; a response the      *)
(* client leaves no room for ends the stream at the write timeout.  Every  *)
(* step of the daemon may be followed by a SIGKILL, which leaves the       *)
(* socket's name behind, as a start that fails may.  Timeouts are not      *)
(* measured: whenever the daemon would block, the timeout may come first.  *)
(***************************************************************************)
EXTENDS Naturals, SequencesExt, FiniteSetsExt

CONSTANTS
    Clients,        \* each with one connection at a time, and another after it
    MaxLines,       \* lines on one connection of each; the bytes of a line are not bounded
    Room,           \* responses that fit before the client reads
    MaxStarts,      \* starts of the daemon
    MayFail         \* TRUE: a command, or a call of the daemon's start and streams, may fail

ASSUME BoundsAssumption == MaxLines \in [Clients -> Nat] /\ Room \in Nat \ {0} /\ MaxStarts \in Nat \ {0}

Kinds == {"cmd", "bad", "blank", "garbled"}     \* a command, no command, an empty line, no text
NoClient == "NoClient"
NoSocket == 0                           \* nothing at the socket's path

ASSUME ClientAssumption == NoClient \notin Clients

VARIABLES
    pc,         \* where the daemon is: see DaemonStep
    start,      \* how often it was started; names the listener of this start
    name,       \* the listener the socket's path leads to
    backlog,    \* connections not yet accepted
    stream,     \* the client that is being served
    signal,     \* a SIGTERM or SIGINT has come
    conn,       \* each client: "new", "open", "half" (done writing), "closed", or "reset" by the daemon
    sent,       \* lines it wrote; the last may lack its newline (whole = FALSE)
    unread,     \* clients with bytes of such a line that the daemon has not yet seen
    line,       \* lines the daemon has read of each
    ran,        \* lines of each whose command was run, in order
    out,        \* responses written to each: the line's number and "ok" or "error"
    cut,        \* clients to whom a part of one more response was written
    seen,       \* how many responses the client has read
    end         \* how the daemon last ended: "none", "order", "failed" or "killed"

vars == <<pc, start, name, backlog, stream, signal, conn, sent, unread, line, ran, out, cut, seen, end>>
clientVars == <<conn, sent, unread, seen>>
workVars == <<line, ran, out, cut>>

Init ==
    /\ pc = "down" /\ start = 0 /\ name = NoSocket /\ backlog = <<>> /\ stream = NoClient
    /\ signal = FALSE /\ end = "none" /\ unread = {} /\ cut = {}
    /\ conn = [c \in Clients |-> "new"] /\ sent = [c \in Clients |-> <<>>]
    /\ line = [c \in Clients |-> 0] /\ ran = [c \in Clients |-> <<>>]
    /\ out = [c \in Clients |-> <<>>] /\ seen = [c \in Clients |-> 0]

-----------------------------------------------------------------------------
\* Clients (external).

\* connect(2): the path leads to a listener, which must be one whose daemon is there.
Connect(c) ==
    /\ conn[c] = "new" /\ name = start /\ pc # "down"
    /\ conn' = [conn EXCEPT ![c] = "open"] /\ backlog' = Append(backlog, c)
    /\ UNCHANGED <<pc, start, name, stream, signal, sent, unread, seen, end, workVars>>

\* The connection is over for both: the client may begin anew, as often as it likes.
Renew(c) ==
    /\ conn[c] \in {"closed", "reset"} /\ stream # c /\ c \notin Range(backlog)
    /\ conn' = [conn EXCEPT ![c] = "new"] /\ sent' = [sent EXCEPT ![c] = <<>>]
    /\ line' = [line EXCEPT ![c] = 0] /\ ran' = [ran EXCEPT ![c] = <<>>]
    /\ out' = [out EXCEPT ![c] = <<>>] /\ seen' = [seen EXCEPT ![c] = 0]
    /\ unread' = unread \ {c} /\ cut' = cut \ {c}
    /\ UNCHANGED <<pc, start, name, backlog, stream, signal, end>>

\* A write of a line, or of a part of one, whose rest may follow, a byte at a time and without an
\* end.  kind is what the text is so far.
Half(c) == sent[c] # <<>> /\ ~Last(sent[c]).whole
Write(c, k, whole) ==
    /\ conn[c] = "open"
    /\ Half(c) \/ Len(sent[c]) < MaxLines[c]
    /\ unread' = IF whole THEN unread \ {c} ELSE unread \cup {c}
    /\ sent' = [sent EXCEPT ![c] = Append(IF Half(c) THEN Front(@) ELSE @, [kind |-> k, whole |-> whole])]
    /\ UNCHANGED <<pc, start, name, backlog, stream, signal, conn, seen, end, workVars>>

Receive(c) ==
    /\ conn[c] \in {"open", "half", "reset"} /\ seen[c] < Len(out[c])
    /\ seen' = [seen EXCEPT ![c] = @ + 1]
    /\ UNCHANGED <<pc, start, name, backlog, stream, signal, conn, sent, unread, end, workVars>>

\* shutdown(SHUT_WR), then close(2); or close at once.
Close(c) ==
    /\ \/ conn[c] = "open" /\ conn' = [conn EXCEPT ![c] = "half"]
       \/ conn[c] \in {"open", "half"} /\ conn' = [conn EXCEPT ![c] = "closed"]
    /\ UNCHANGED <<pc, start, name, backlog, stream, signal, sent, unread, seen, end, workVars>>

-----------------------------------------------------------------------------
\* The daemon.

\* A new process.
Start ==
    /\ pc = "down" /\ start < MaxStarts
    /\ pc' = "load" /\ start' = start + 1 /\ signal' = FALSE /\ end' = "none"
    /\ UNCHANGED <<name, backlog, stream, clientVars, workVars>>

\* Connections that end with the daemon.
Reset(s) == [c \in Clients |-> IF conn[c] \in {"open", "half"} /\ c \in s THEN "reset" ELSE conn[c]]

\* main returns an error before there is a Server to drop: the path is left as it is, and who has
\* connected meanwhile is cut off.
StartFails ==
    /\ pc' = "down" /\ end' = "failed" /\ conn' = Reset(Range(backlog)) /\ backlog' = <<>>
    /\ UNCHANGED <<start, name, stream, signal, sent, unread, seen, workVars>>

\* signals::init, bpf::load, create_dir_all: before the path is touched.
LoadFails == MayFail /\ pc = "load" /\ StartFails

\* bind_unix_listener: what is at the path is removed first, the name of an earlier start included;
\* an error is ignored.
Unlink ==
    /\ pc = "load" /\ (name' = NoSocket \/ (MayFail /\ name' = name)) /\ pc' = "bind"
    /\ UNCHANGED <<start, backlog, stream, signal, end, clientVars, workVars>>

\* UnixListener::bind: clients can connect from here on.
Bind ==
    /\ pc = "bind" /\ name = NoSocket /\ name' = start /\ pc' = "bound"
    /\ UNCHANGED <<start, backlog, stream, signal, end, clientVars, workVars>>

\* It does so for a name that is still there, too.
BindFails == pc = "bind" /\ (MayFail \/ name # NoSocket) /\ StartFails

\* set_nonblocking, which leaves the listener's own name when it fails.
SetNonblocking ==
    /\ pc = "bound" /\ pc' = "check"
    /\ UNCHANGED <<start, name, backlog, stream, signal, end, clientVars, workVars>>

SetNonblockingFails == MayFail /\ pc = "bound" /\ StartFails

\* while !shutdown.requested(): a poll, then a sleep, which changes nothing.
Check ==
    /\ pc = "check" /\ pc' = IF signal THEN "detach" ELSE "accept"
    /\ UNCHANGED <<start, name, backlog, stream, signal, end, clientVars, workVars>>

\* poll_and_handle: one connection after the other, until there is none or accept fails.
Accept ==
    /\ pc = "accept" /\ backlog # <<>>
    /\ stream' = Head(backlog) /\ backlog' = Tail(backlog) /\ pc' = "read"
    /\ UNCHANGED <<start, name, signal, end, clientVars, workVars>>

\* A bug: the listener blocks when nobody is there.
AcceptBlocks ==
    /\ pc = "accept" /\ backlog # <<>> /\ MayFail /\ pc' = "check"
    /\ UNCHANGED <<start, name, backlog, stream, signal, end, clientVars, workVars>>

AcceptEnds ==
    /\ pc = "accept" /\ (backlog = <<>> \/ MayFail) /\ pc' = "check"
    /\ UNCHANGED <<start, name, backlog, stream, signal, end, clientVars, workVars>>

\* The stream is dropped: handle_stream has returned, with or without an error.
Drop(c) ==
    /\ stream' = NoClient /\ pc' = "accept"
    /\ conn' = [conn EXCEPT ![c] = IF @ = "closed" THEN @ ELSE "reset"]
    /\ UNCHANGED <<start, name, backlog, signal, sent, unread, line, ran, out, seen, end>>

SetupFails == MayFail /\ pc = "read" /\ line[stream] = 0 /\ Drop(stream) /\ UNCHANGED cut

\* A line is there: its newline has come, or its writer is done, which a client that closes with
\* a response unread is not: that is an error, and a part of a line goes with it.
Ready(c) ==
    /\ line[c] < Len(sent[c])
    /\ \/ sent[c][line[c] + 1].whole
       \/ conn[c] = "half" \/ (conn[c] = "closed" /\ seen[c] = Len(out[c]))

Garbled(c) == Ready(c) /\ sent[c][line[c] + 1].kind = "garbled"

\* A bug: a blank line is answered too.
ReadBlank ==
    /\ pc = "read" /\ Ready(stream) /\ ~Garbled(stream)
    /\ LET l == line[stream] + 1
       IN  /\ line' = [line EXCEPT ![stream] = l]
           /\ ran' = IF sent[stream][l].kind = "cmd" THEN [ran EXCEPT ![stream] = Append(@, l)] ELSE ran
           /\ pc' = "respond"
    /\ UNCHANGED <<start, name, backlog, stream, signal, out, cut, end, clientVars>>

\* lines(): the next one; a blank one is skipped, a bad one answered, a command run first.
Read ==
    /\ pc = "read" /\ Ready(stream) /\ ~Garbled(stream)
    /\ LET l == line[stream] + 1
           k == sent[stream][l].kind
       IN  /\ line' = [line EXCEPT ![stream] = l]
           /\ ran' = IF k = "cmd" THEN [ran EXCEPT ![stream] = Append(@, l)] ELSE ran
           /\ pc' = IF k = "blank" THEN "read" ELSE "respond"
    /\ UNCHANGED <<start, name, backlog, stream, signal, out, cut, end, clientVars>>

\* A part of a line comes in, and the read timeout begins anew.
ReadPart ==
    /\ pc = "read" /\ ~Ready(stream) /\ stream \in unread /\ unread' = unread \ {stream}
    /\ UNCHANGED <<pc, start, name, backlog, stream, signal, conn, sent, seen, end, workVars>>

\* A bug: without a read timeout.
ReadEndsOpen ==
    /\ pc = "read" /\ (Garbled(stream) \/ (~Ready(stream) /\ stream \notin unread /\ conn[stream] # "open"))
    /\ Drop(stream) /\ UNCHANGED cut

\* The end of the stream, or the read timeout, at which a part of a line is lost; or a line that is
\* no UTF-8.
ReadEnds ==
    /\ pc = "read" /\ (Garbled(stream) \/ (~Ready(stream) /\ stream \notin unread))
    /\ Drop(stream) /\ UNCHANGED cut

\* write_all of the response to the line just read: a command's handler may have failed.
Respond ==
    /\ pc = "respond" /\ conn[stream] # "closed" /\ Len(out[stream]) - seen[stream] < Room
    /\ \E s \in {"ok", "error"} :
          /\ s = "ok" => sent[stream][line[stream]].kind = "cmd"
          /\ s = "error" => MayFail \/ sent[stream][line[stream]].kind # "cmd"
          /\ out' = [out EXCEPT ![stream] = Append(@, [of |-> line[stream], status |-> s])]
    /\ pc' = "read"
    /\ UNCHANGED <<start, name, backlog, stream, signal, line, ran, cut, end, clientVars>>

NoRoom(c) == conn[c] = "closed" \/ Len(out[c]) - seen[c] >= Room

\* A bug: the stream is not forgotten.
RespondFailsOpen ==
    /\ pc = "respond" /\ NoRoom(stream) /\ pc' = "accept"
    /\ UNCHANGED <<start, name, backlog, stream, signal, end, clientVars, workVars>>

\* The client is gone, or has left no room until the write timeout: a part of the response may
\* have been written.
RespondFails ==
    /\ pc = "respond" /\ NoRoom(stream) /\ Drop(stream)
    /\ cut' \in {cut, cut \cup {stream}}

\* A bug: the name is left behind.
DropServerOnly ==
    /\ pc = "detach" /\ pc' = "down" /\ end' = "order"
    /\ conn' = Reset(Range(backlog)) /\ backlog' = <<>>
    /\ UNCHANGED <<start, name, stream, signal, sent, unread, seen, workVars>>

\* detach(), then the server is dropped: the name goes, and connections that wait with it.
DropServer ==
    /\ pc = "detach" /\ pc' = "down" /\ end' = "order" /\ name' = NoSocket
    /\ conn' = Reset(Range(backlog)) /\ backlog' = <<>>
    /\ UNCHANGED <<start, stream, signal, sent, unread, seen, workVars>>

\* From outside: a signal, whose handler sets the flag; a SIGKILL, after which the name stays.
Signal ==
    /\ pc # "down" /\ ~signal /\ signal' = TRUE
    /\ UNCHANGED <<pc, start, name, backlog, stream, end, clientVars, workVars>>

Kill ==
    /\ pc # "down" /\ pc' = "down" /\ end' = "killed"
    /\ conn' = Reset(Range(backlog) \cup {stream}) /\ backlog' = <<>> /\ stream' = NoClient
    /\ UNCHANGED <<start, name, signal, sent, unread, seen, workVars>>

\* What keeps the daemon busy.
Talks(c) == Connect(c) \/ \E k \in Kinds, whole \in BOOLEAN : Write(c, k, whole)

ClientStep(c) == Talks(c) \/ Receive(c) \/ Close(c) \/ Renew(c)

DaemonStep ==
    \/ LoadFails \/ Unlink \/ Bind \/ BindFails \/ SetNonblocking \/ SetNonblockingFails
    \/ Check \/ Accept \/ AcceptEnds \/ SetupFails
    \/ Read \/ ReadPart \/ ReadEnds \/ Respond \/ RespondFails \/ DropServer

Next ==
    \/ \E c \in Clients : ClientStep(c)
    \/ Start \/ DaemonStep \/ Signal \/ Kill

\* The daemon's thread runs, and its timeouts are steps of it.  Nothing is asked of clients,
\* signals, restarts or failures: what clients must do is said in the properties.
Spec == Init /\ [][Next]_vars /\ WF_vars(DaemonStep)

-----------------------------------------------------------------------------
\* Properties.

\* Types.
TypeOK ==
    /\ pc \in {"down", "load", "bind", "bound", "check", "accept", "read", "respond", "detach"}
    /\ start \in 0 .. MaxStarts /\ name \in 0 .. start
    /\ backlog \in Seq(Clients) /\ stream \in Clients \cup {NoClient}
    /\ stream # NoClient <=> pc \in {"read", "respond"}
    /\ signal \in BOOLEAN /\ end \in {"none", "order", "failed", "killed"}
    /\ conn \in [Clients -> {"new", "open", "half", "closed", "reset"}]
    /\ sent \in [Clients -> Seq([kind : Kinds, whole : BOOLEAN])]
    /\ unread \subseteq Clients /\ cut \subseteq Clients
    /\ line \in [Clients -> Nat] /\ seen \in [Clients -> Nat]
    /\ \A c \in Clients : line[c] <= Len(sent[c]) /\ Len(sent[c]) <= MaxLines[c]
    /\ ran \in [Clients -> Seq(Nat)]
    /\ out \in [Clients -> Seq([of : Nat, status : {"ok", "error"}])]
    /\ \A c \in Clients : seen[c] <= Len(out[c])

\* The lines read of c that are due an answer, and those that are commands.
Due(c) == {l \in 1 .. line[c] : sent[c][l].kind # "blank"}
Commands(c) == {l \in 1 .. line[c] : sent[c][l].kind = "cmd"}

\* The lines whose answers were written to c.
Answered(c) == {out[c][i].of : i \in DOMAIN out[c]}

Over(c) == conn[c] \in {"closed", "reset"} /\ stream # c

\* handle_stream: what a client can read on one connection are the answers to its lines, one for
\* each and in order.  The only one that can be missing is that of the last line read, which is
\* being answered or whose stream is over; a part of it may have been written then, and nothing is
\* written behind a part.  Every "ok" is of a command, and every command read was run, once and in
\* order, also one that is answered "error" or not at all.  A part of a line is not run, unless
\* its writer was done.
AnsweredInOrder ==
    \A c \in Clients :
        /\ \A i, j \in DOMAIN out[c] : i < j => out[c][i].of < out[c][j].of
        /\ \A i \in DOMAIN out[c] : out[c][i].status = "ok" => out[c][i].of \in Commands(c)
        /\ \/ Answered(c) = Due(c)
           \/ /\ line[c] \in Due(c) /\ Answered(c) = Due(c) \ {line[c]}
              /\ (stream = c /\ pc = "respond") \/ Over(c)
        /\ c \in cut => Over(c) /\ line[c] \in Due(c) \ Answered(c)
        /\ \A i, j \in DOMAIN ran[c] : i < j => ran[c][i] < ran[c][j]
        /\ Range(ran[c]) = Commands(c)
        /\ \A l \in Range(ran[c]) : sent[c][l].whole \/ conn[c] # "open"

\* bind_unix_listener and Drop: while the daemon serves, the path leads to it, whatever earlier
\* starts left there; after an end in order nothing is at the path.  A dead name is left by a
\* SIGKILL, or by a start that failed.
PathTrue ==
    /\ pc \notin {"down", "load", "bind"} => name = start
    /\ pc = "down" /\ name # NoSocket => end \in {"killed", "failed"}

\* The read and the write timeout (500 ms): a client that falls silent cannot hold the one stream
\* that is served, whether it has left a line unfinished, does not read or does not close, and
\* whatever the other clients do.  One that writes on, a byte now and then, can.
StreamEnds == \A c \in Clients : <>[][~Talks(c)]_vars => []<>(stream # c)

\* signals.rs, main.rs: a signal ends the daemon once clients stop connecting and writing.  The flag
\* is read only between two polls, and a poll goes on while connections and lines come.
SignalEnds == (\A c \in Clients : <>[][~Talks(c)]_vars) => (signal ~> (pc = "down"))
=============================================================================

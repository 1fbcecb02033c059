----------------------------- MODULE EpollServer -----------------------------
(***************************************************************************)
(* The HTTP server of src/core/epoll_server.cpp: one event-loop thread that *)
(* owns every socket, a pool of worker threads that parse and dispatch, and *)
(* the queue of finished responses with the eventfd that wakes the loop.    *)
(*                                                                         *)
(* A client is one TCP connection.  It sends its next request when the      *)
(* answer to the previous one has arrived; a request reaches the server in  *)
(* Segments pieces and a response leaves it in units.  A unit names the     *)
(* request it answers, so that what a client receives can be compared with  *)
(* what it asked.  Routing is abstracted to the kind of response it yields. *)
(*                                                                         *)
(* The loop handles the events of one epoll_wait in any order.  Sockets are *)
(* edge triggered: rdl is the kernel's ready list, and an entry leaves it   *)
(* when it is delivered.  connMutex_ and pendingMutex_ are held within one  *)
(* step and never across two.                                              *)
(*                                                                         *)
(* Fds numbers the sockets only.  A file has a number of the same table,    *)
(* and what an event does that names a socket closed before it is in        *)
(* Descriptors; here its close and its read fail.  Left out as well: a      *)
(* request whose Content-Length line ends with the colon, on which          *)
(* isCompleteRequest throws in the loop and the program ends.               *)
(***************************************************************************)
EXTENDS Integers, Sequences, SequencesExt, FiniteSets

CONSTANTS Clients,      \* connections that will be made
          Impatient,    \* those that may close before their answer arrives
          Malformed,    \* those whose requests parse() may throw on
          NFds,         \* descriptors the kernel may hand to accept4
          Workers,      \* threads of pool_
          Kinds,        \* response kinds the handlers may return
          Requests,     \* bound: requests sent by a client
          Segments,     \* pieces a request arrives in
          SndCap,       \* units the socket send buffer holds
          ConnTimeout,  \* connection_timeout, in timer periods
          MaxTicks,     \* bound: timer periods explored
          NoClient, NoConn

Fds == 1 .. NFds
AllKinds == {"small", "large", "file", "gone", "bad"}

ASSUME ClientsAssumption == Impatient \cup Malformed \subseteq Clients /\ NoClient \notin Clients
ASSUME KindsAssumption == Kinds \subseteq AllKinds \ {"bad"}
ASSUME SizesAssumption == /\ {NFds, Segments, SndCap} \subseteq Nat \ {0}
                          /\ {Requests, ConnTimeout, MaxTicks} \subseteq Nat

VARIABLES
    client,   \* [Clients -> [st, sent, got]]: the peer's side
    rcv, snd, \* the kernel's receive and send buffers, by client
    rst,      \* clients whose connection was reset
    backlog,  \* clients waiting in the accept queue
    newconn,  \* the listening socket has an edge to report
    sock,     \* [Fds -> client connected on it]: the process's open sockets
    mode,     \* [Fds -> "in" | "out"]: events registered with epoll
    rdl,      \* descriptors in epoll's ready list
    ticks, timer,  \* timer periods so far; timerFd_ has expired
    wakeup,   \* counter of wakeupFd_
    conn,     \* connections_
    jobs,     \* [Fds -> Nat]: tasks detached to pool_ and not started
    worker,   \* [Workers -> [pc, fd, data]]
    pending,  \* pendingWrites_
    loop,     \* the loop thread: [pc, fd]
    batch,    \* events of the current epoll_wait not handled yet
    writes,   \* the vector swapped out by processPendingWrites
    files     \* file descriptors open for streaming

kernelVars == <<rcv, snd, rst, backlog, newconn>>
timeVars   == <<ticks, timer>>
sockVars   == <<sock, mode, rdl>>
poolVars   == <<jobs, worker>>
loopVars   == <<loop, batch, writes>>
vars == <<client, kernelVars, timeVars, sockVars, poolVars, loopVars,
          wakeup, conn, pending, files>>

Idle  == [pc |-> "idle", fd |-> 0, data |-> <<>>]
Fresh == [rbuf |-> <<>>, wbuf |-> <<>>, written |-> 0, age |-> 0,
          isFileStream |-> FALSE, fileFd |-> FALSE, stream |-> <<>>]
LoopAt(pc, fd) == [pc |-> pc, fd |-> fd]

Init == /\ client = [c \in Clients |-> [st |-> "idle", sent |-> 0, got |-> <<>>]]
        /\ rcv = [c \in Clients |-> <<>>] /\ snd = [c \in Clients |-> <<>>]
        /\ rst = {} /\ backlog = {} /\ newconn = FALSE
        /\ sock = [f \in Fds |-> NoClient] /\ mode = [f \in Fds |-> "in"] /\ rdl = {}
        /\ ticks = 0 /\ timer = FALSE /\ wakeup = 0
        /\ conn = [f \in Fds |-> NoConn]
        /\ jobs = [f \in Fds |-> 0] /\ worker = [w \in Workers |-> Idle]
        /\ pending = <<>> /\ loop = LoopAt("events", 0) /\ batch = {} /\ writes = <<>>
        /\ files = 0

-----------------------------------------------------------------------------
(* The units of a response: the client, the request answered, the position. *)
Length(kind) == IF kind = "bad" THEN 1 ELSE 2
Unit(r, i, last) == [c |-> r.c, n |-> r.n, i |-> i, last |-> last]
Units(r) == [i \in 1 .. Length(r.kind) |-> Unit(r, i, i = Length(r.kind))]
Header(r) == <<Unit(r, 1, FALSE)>>
Body(r) == <<Unit(r, 2, FALSE), Unit(r, 3, TRUE)>>

Room(c) == SndCap - Len(snd[c])
Least(a, b) == IF a <= b THEN a ELSE b

(* Mutant: what was already sent stays to be sent.                          *)
DropNothing(s, n) == s
(* What is left to send when n units are out.                               *)
Drop(s, n) == SubSeq(s, n + 1, Len(s))

(* Events the kernel reports for a socket in ready list.                    *)
Events(f) ==
    LET c == sock[f]
    IN  {e \in {"in"} : mode[f] = "in" /\ (rcv[c] # <<>> \/ client[c].st = "closed")}
        \cup {e \in {"out"} : mode[f] = "out" /\ Room(c) > 0}
        \cup {e \in {"err"} : c \in rst}

Rearm(f, m) == mode' = [mode EXCEPT ![f] = m] /\ rdl' = rdl \cup {f}

CloseSock(fs) == /\ sock' = [f \in Fds |-> IF f \in fs THEN NoClient ELSE sock[f]]
                 /\ rdl' = rdl \ fs
                 /\ UNCHANGED mode

(* send() puts units in the buffer of a connected socket.                   *)
Deliver(c, us) == /\ snd' = [snd EXCEPT ![c] = @ \o us]
                  /\ UNCHANGED <<rcv, rst, backlog, newconn>>

-----------------------------------------------------------------------------
(* The peers.                                                              *)
Answered(c) == /\ client[c].sent % Segments = 0
               /\ \/ client[c].sent = 0
                  \/ \E i \in DOMAIN client[c].got :
                        /\ client[c].got[i].last
                        /\ client[c].got[i].n = client[c].sent \div Segments

FdsOf(c) == {f \in Fds : sock[f] = c}

Connect(c) == /\ client[c].st = "idle"
              /\ client' = [client EXCEPT ![c].st = "open"]
              /\ backlog' = backlog \cup {c} /\ newconn' = TRUE
              /\ UNCHANGED <<rcv, snd, rst, timeVars, sockVars, poolVars, loopVars,
                             wakeup, conn, pending, files>>

(* The next segment of the current request, or the first of the next one.  *)
SendSegment(c) ==
    /\ client[c].st = "open"
    /\ client[c].sent < Requests * Segments
    /\ client[c].sent % Segments # 0 \/ Answered(c)
    /\ client' = [client EXCEPT ![c].sent = @ + 1]
    /\ rcv' = [rcv EXCEPT ![c] = Append(@, [c |-> c, s |-> client[c].sent])]
    /\ rdl' = rdl \cup FdsOf(c)
    /\ UNCHANGED <<snd, rst, backlog, newconn, timeVars, sock, mode, poolVars, loopVars,
                   wakeup, conn, pending, files>>

Receive(c) ==
    /\ client[c].st = "open" /\ snd[c] # <<>>
    /\ client' = [client EXCEPT ![c].got = Append(@, Head(snd[c]))]
    /\ snd' = [snd EXCEPT ![c] = Tail(@)]
    /\ rdl' = rdl \cup FdsOf(c)
    /\ UNCHANGED <<rcv, rst, backlog, newconn, timeVars, sock, mode, poolVars, loopVars,
                   wakeup, conn, pending, files>>

Leave(c) ==
    /\ client[c].st = "open"
    /\ c \in Impatient \/ (Answered(c) /\ client[c].sent > 0)
    /\ client' = [client EXCEPT ![c].st = "closed"]
    /\ rdl' = rdl \cup FdsOf(c)
    /\ UNCHANGED <<rcv, snd, rst, backlog, newconn, timeVars, sock, mode, poolVars, loopVars,
                   wakeup, conn, pending, files>>

(* What reaches a peer that has closed is answered with a reset.            *)
Reset(c) ==
    /\ client[c].st = "closed" /\ snd[c] # <<>>
    /\ snd' = [snd EXCEPT ![c] = <<>>]
    /\ rst' = rst \cup {c}
    /\ rdl' = rdl \cup FdsOf(c)
    /\ UNCHANGED <<client, rcv, backlog, newconn, timeVars, sock, mode, poolVars, loopVars,
                   wakeup, conn, pending, files>>

TimerExpires == /\ ticks < MaxTicks
                /\ ticks' = ticks + 1 /\ timer' = TRUE
                /\ conn' = [f \in Fds |-> IF conn[f] = NoConn THEN NoConn
                                          ELSE [conn[f] EXCEPT !.age = @ + 1]]
                /\ UNCHANGED <<client, kernelVars, sockVars, poolVars, loopVars,
                               wakeup, pending, files>>
-----------------------------------------------------------------------------
(* The event loop.  At "events" it is at the top of the for statement, and  *)
(* with batch = {} in epoll_wait.                                           *)
Done == loop' = LoopAt("events", 0)
Handle(e) == loop.pc = "events" /\ e \in batch /\ batch' = batch \ {e}

Signals == {e \in {"listen", "timer", "wakeup"} : \/ e = "listen" /\ newconn
                                                  \/ e = "timer" /\ timer
                                                  \/ e = "wakeup" /\ wakeup > 0}

(* Reporting an edge-triggered event consumes it; timerFd_ and wakeupFd_    *)
(* are level triggered.                                                     *)
EpollWait ==
    /\ loop.pc = "events" /\ batch = {}
    /\ batch' = {<<e, 0, {}>> : e \in Signals}
                \cup {<<"socket", f, Events(f)>> : f \in {g \in rdl : Events(g) # {}}}
    /\ batch' # {}
    /\ rdl' = {} /\ newconn' = FALSE
    /\ UNCHANGED <<client, rcv, snd, rst, backlog, timeVars, sock, mode, poolVars,
                   loop, writes, wakeup, conn, pending, files>>

BeginAccept == /\ Handle(<<"listen", 0, {}>>)
               /\ loop' = LoopAt("accept", 0)
               /\ UNCHANGED <<client, kernelVars, timeVars, sockVars, poolVars, writes,
                              wakeup, conn, pending, files>>

Free == {f \in Fds : sock[f] = NoClient}

(* accept4 returns the lowest free descriptor; ADD reports what is there.   *)
Accept(c) ==
    /\ loop.pc = "accept" /\ c \in backlog /\ Free # {}
    /\ LET f == CHOOSE g \in Free : \A h \in Free : g <= h
       IN  /\ sock' = [sock EXCEPT ![f] = c]
           /\ conn' = [conn EXCEPT ![f] = Fresh]
           /\ Rearm(f, "in")
    /\ backlog' = backlog \ {c}
    /\ UNCHANGED <<client, rcv, snd, rst, newconn, timeVars, poolVars, loopVars,
                   wakeup, pending, files>>

(* EAGAIN, or accept4 failing for want of a descriptor.                     *)
EndAccept == /\ loop.pc = "accept" /\ (backlog = {} \/ Free = {})
             /\ Done
             /\ UNCHANGED <<client, kernelVars, timeVars, sockVars, poolVars, batch, writes,
                            wakeup, conn, pending, files>>

(* Closing the descriptors in fs and erasing their connections.  A number   *)
(* already closed is closed again, which changes nothing as long as nobody  *)
(* has taken it: Descriptors has the case that a file has.                  *)
Erase(fs) == /\ CloseSock(fs)
             /\ conn' = [f \in Fds |-> IF f \in fs THEN NoConn ELSE conn[f]]

(* The connections that have a file to close.                               *)
Streaming(fs) == {f \in fs : conn[f] # NoConn /\ conn[f].fileFd}

(* Mutant: the file of a connection that timed out stays open.              *)
TimeoutLeaks ==
    /\ Handle(<<"timer", 0, {}>>) /\ timer' = FALSE
    /\ Erase({f \in Fds : conn[f] # NoConn /\ conn[f].age > ConnTimeout})
    /\ UNCHANGED <<client, kernelVars, ticks, poolVars, loop, writes, wakeup, pending, files>>
CleanupTimeouts ==
    /\ Handle(<<"timer", 0, {}>>) /\ timer' = FALSE
    /\ LET old == {f \in Fds : conn[f] # NoConn /\ conn[f].age > ConnTimeout}
       IN  /\ Erase(old)
           /\ files' = files - Cardinality(Streaming(old))
    /\ UNCHANGED <<client, kernelVars, ticks, poolVars, loop, writes, wakeup, pending>>

(* EPOLLERR or EPOLLHUP, whatever else is reported with it.                 *)
HandleError(f, ev) ==
    /\ Handle(<<"socket", f, ev>>) /\ "err" \in ev
    /\ Erase({f})
    /\ files' = files - Cardinality(Streaming({f}))
    /\ UNCHANGED <<client, kernelVars, timeVars, poolVars, loop, writes, wakeup, pending>>

(* Mutant: end of stream is taken for nothing to read.                      *)
ErrorOnly(c) == c = NoClient \/ c \in rst
(* read() returns 0 or an error other than EAGAIN.                          *)
EndOfStream(c) == c = NoClient \/ c \in rst \/ client[c].st = "closed"

(* Mutant: one read per event, as if it were level triggered.               *)
ReadOnce(c) == SubSeq(rcv[c], 1, 1)
(* What the loop of read() collects: everything there is.                   *)
RequestData(c) == rcv[c]

(* Read until EAGAIN.  At the end of the stream, or on an error, what was   *)
(* read is dropped, and the connection with it: its fileFd is not closed.   *)
HandleRead(f, ev) ==
    /\ Handle(<<"socket", f, ev>>) /\ "err" \notin ev /\ "in" \in ev
    /\ LET c == sock[f]
       IN  IF EndOfStream(c)
           THEN /\ Erase({f})
                /\ UNCHANGED <<rcv, loop>>
           ELSE IF rcv[c] = <<>> THEN UNCHANGED <<rcv, conn, loop, sockVars>>
           ELSE /\ rcv' = [rcv EXCEPT ![c] = Drop(@, Len(RequestData(c)))]
                /\ conn' = [conn EXCEPT ![f].rbuf = @ \o RequestData(c), ![f].age = 0]
                /\ loop' = LoopAt("check", f)
                /\ UNCHANGED sockVars
    /\ UNCHANGED <<client, snd, rst, backlog, newconn, timeVars, poolVars, writes,
                   wakeup, pending, files>>

(* A request has arrived when its last segment has (the end of the header,  *)
(* or of the body it announces); it parses when nothing precedes its first. *)
Complete(buf) == \E i \in DOMAIN buf : buf[i].s % Segments = Segments - 1
Parses(data) == Len(data) >= Segments /\ data[1].s % Segments = 0

(* The lock is released between appending and testing: a worker detached    *)
(* for the same descriptor may have taken the buffer.                       *)
CheckRequest ==
    /\ loop.pc = "check"
    /\ LET f == loop.fd
       IN  jobs' = IF conn[f] # NoConn /\ Complete(conn[f].rbuf)
                   THEN [jobs EXCEPT ![f] = @ + 1] ELSE jobs
    /\ Done
    /\ UNCHANGED <<client, kernelVars, timeVars, sockVars, worker, batch, writes,
                   wakeup, conn, pending, files>>

(* Mutant: fileFd keeps the number of the file just closed.                 *)
KeepFileFd(k) == [k EXCEPT !.stream = <<>>, !.isFileStream = FALSE]
(* The stream of a connection is over.                                      *)
CloseFile(k) == [k EXCEPT !.stream = <<>>, !.isFileStream = FALSE, !.fileFd = FALSE]

(* sendfile until the file ends or the socket is full.  k is the connection *)
(* and its stream what is left of the file; head precedes it, and open is   *)
(* the number of open files, k's included.                                  *)
SendFileChunked(f, k, head, open) ==
    LET c == sock[f]
        n == Least(Room(c) - Len(head), Len(k.stream))
        rest == Drop(k.stream, n)
    IN  IF c \in rst
        THEN /\ Erase({f}) /\ files' = open - 1
             /\ UNCHANGED kernelVars
        ELSE /\ Deliver(c, head \o SubSeq(k.stream, 1, n))
             /\ UNCHANGED sock
             /\ IF rest = <<>>
                THEN /\ conn' = [conn EXCEPT ![f] = CloseFile(k)]
                     /\ files' = open - 1 /\ Rearm(f, "in")
                ELSE /\ conn' = [conn EXCEPT ![f] = [k EXCEPT !.stream = rest]]
                     /\ files' = open /\ Rearm(f, "out")

(* The rest of a buffered response; when it is out, requests are read again. *)
FlushBuffer(f) ==
    LET c == sock[f]
        k == conn[f]
        n == Least(Room(c), Len(k.wbuf) - k.written)
    IN  IF c \in rst
        THEN Erase({f}) /\ UNCHANGED <<kernelVars, files>>
        ELSE /\ Deliver(c, SubSeq(k.wbuf, k.written + 1, k.written + n))
             /\ IF k.written + n = Len(k.wbuf)
                THEN /\ conn' = [conn EXCEPT ![f].wbuf = <<>>, ![f].written = 0]
                     /\ Rearm(f, "in")
                ELSE /\ conn' = [conn EXCEPT ![f].written = @ + n]
                     /\ UNCHANGED <<mode, rdl>>
             /\ UNCHANGED <<sock, files>>

HandleWrite(f, ev) ==
    /\ Handle(<<"socket", f, ev>>) /\ ev = {"out"}
    /\ IF conn[f] = NoConn THEN UNCHANGED <<sockVars, kernelVars, conn, files>>
       ELSE IF conn[f].isFileStream /\ conn[f].fileFd 
         THEN SendFileChunked(f, conn[f], <<>>, files)
       ELSE FlushBuffer(f)
    /\ UNCHANGED <<client, timeVars, poolVars, loop, writes, wakeup, pending>>

(* The eventfd is drained before the queue is taken.                        *)
DrainWakeup == /\ Handle(<<"wakeup", 0, {}>>)
               /\ wakeup' = 0 /\ loop' = LoopAt("drained", 0)
               /\ UNCHANGED <<client, kernelVars, timeVars, sockVars, poolVars, writes,
                              conn, pending, files>>

(* Mutant: one response for each time the loop is woken.                    *)
TakeOnePending ==
    /\ loop.pc = "drained"
    /\ writes' = SubSeq(pending, 1, 1) /\ pending' = Drop(pending, 1)
    /\ loop' = LoopAt("deliver", 0)
    /\ UNCHANGED <<client, kernelVars, timeVars, sockVars, poolVars, batch,
                   wakeup, conn, files>>

TakePending == /\ loop.pc = "drained"
               /\ writes' = pending /\ pending' = <<>> /\ loop' = LoopAt("deliver", 0)
               /\ UNCHANGED <<client, kernelVars, timeVars, sockVars, poolVars, batch,
                              wakeup, conn, files>>

(* sendResponse: up to 64 KiB is sent at once, and only what does not fit   *)
(* is buffered; a longer response is buffered whole.                        *)
SendNow(f, us) ==
    LET c == sock[f]
        n == Least(Room(c), Len(us))
    IN  /\ files' = files
        /\ IF c \in rst THEN UNCHANGED <<kernelVars, conn, sockVars>>
           ELSE /\ Deliver(c, SubSeq(us, 1, n))
                /\ IF n = Len(us) THEN UNCHANGED <<conn, sockVars>>
                   ELSE /\ conn' = [conn EXCEPT ![f].wbuf = Drop(us, n), ![f].written = 0]
                        /\ Rearm(f, "out") /\ UNCHANGED sock

SendLater(f, us) == /\ conn' = [conn EXCEPT ![f].wbuf = us, ![f].written = 0]
                    /\ Rearm(f, "out")
                    /\ UNCHANGED <<sock, kernelVars, files>>

(* The header goes out like a short response, then the file is opened and   *)
(* the socket filled: what did not fit of the header is dropped with        *)
(* writeBuffer, and a file streamed before it is forgotten, not closed.     *)
StreamFile(f, r) ==
    LET k == [conn[f] EXCEPT !.isFileStream = TRUE, !.fileFd = TRUE, !.stream = Body(r),
                             !.wbuf = <<>>, !.written = 0]
        sent == Least(Room(sock[f]), 1)
    IN  SendFileChunked(f, k, SubSeq(Header(r), 1, sent), files + 1)

(* The next response of the batch.  A descriptor without a connection is    *)
(* skipped; a file that does not open closes the connection, header sent.   *)
DeliverNext ==
    /\ loop.pc = "deliver" /\ writes # <<>>
    /\ writes' = Tail(writes)
    /\ LET r == Head(writes)
       IN  \/ /\ conn[r.fd] = NoConn
              /\ UNCHANGED <<kernelVars, sockVars, conn, files>>
           \/ /\ conn[r.fd] # NoConn /\ r.kind \in {"small", "bad"}
              /\ SendNow(r.fd, Units(r))
           \/ /\ conn[r.fd] # NoConn /\ r.kind = "large"
              /\ SendLater(r.fd, Units(r))
           \/ /\ conn[r.fd] # NoConn /\ r.kind = "file"
              /\ StreamFile(r.fd, r)
           \/ /\ conn[r.fd] # NoConn /\ r.kind = "gone"
              /\ Erase({r.fd})
              /\ IF sock[r.fd] \in rst THEN UNCHANGED kernelVars
                 ELSE Deliver(sock[r.fd], SubSeq(Header(r), 1, Least(Room(sock[r.fd]), 1)))
              /\ UNCHANGED files
    /\ UNCHANGED <<client, timeVars, poolVars, loop, batch, wakeup, pending>>

EndDeliver == /\ loop.pc = "deliver" /\ writes = <<>>
              /\ Done
              /\ UNCHANGED <<client, kernelVars, timeVars, sockVars, poolVars, batch, writes,
                             wakeup, conn, pending, files>>

-----------------------------------------------------------------------------
(* A worker.  It takes the whole read buffer of the descriptor it was       *)
(* detached for, whichever connection has that descriptor by now.           *)
TakeJob(w, f) ==
    /\ worker[w].pc = "idle" /\ jobs[f] > 0
    /\ jobs' = [jobs EXCEPT ![f] = @ - 1]
    /\ IF conn[f] = NoConn THEN UNCHANGED <<worker, conn>>
       ELSE /\ worker' = [worker EXCEPT ![w] = [pc |-> "run", fd |-> f, data |-> conn[f].rbuf]]
            /\ conn' = [conn EXCEPT ![f].rbuf = <<>>]
    /\ UNCHANGED <<client, kernelVars, timeVars, sockVars, loopVars, wakeup, pending, files>>

(* Mutant: the task refers to the fd of the loop, which has gone on.        *)
ByReference(f, data, kind) ==
    LET g == IF loop.fd # 0 THEN loop.fd ELSE f
    IN  IF kind = "bad" THEN [fd |-> g, kind |-> kind, c |-> NoClient, n |-> 0]
        ELSE [fd |-> g, kind |-> kind, c |-> data[1].c, n |-> data[1].s \div Segments + 1]
(* What is parsed is dispatched; what is not is answered with a 400.  The   *)
(* response carries the descriptor, and nothing else of the connection.     *)
Response(f, data, kind) ==
    IF kind = "bad" THEN [fd |-> f, kind |-> kind, c |-> NoClient, n |-> 0]
    ELSE [fd |-> f, kind |-> kind, c |-> data[1].c, n |-> data[1].s \div Segments + 1]

Respond(w) ==
    /\ worker[w].pc = "run"
    /\ \E kind \in IF Parses(worker[w].data) THEN Kinds ELSE {"bad"} :
          pending' = Append(pending, Response(worker[w].fd, worker[w].data, kind))
    /\ worker' = [worker EXCEPT ![w] = [Idle EXCEPT !.pc = "signal"]]
    /\ UNCHANGED <<client, kernelVars, timeVars, sockVars, loopVars, jobs, wakeup, conn, files>>

(* parse() throws on a header line that ends with its colon.  The pool      *)
(* discards the exception, and nobody hears of the request again.           *)
Throw(w) ==
    /\ worker[w].pc = "run"
    /\ \E i \in DOMAIN worker[w].data : worker[w].data[i].c \in Malformed
    /\ worker' = [worker EXCEPT ![w] = Idle]
    /\ UNCHANGED <<client, kernelVars, timeVars, sockVars, loopVars, jobs, wakeup, conn,
                   pending, files>>

Signal(w) ==
    /\ worker[w].pc = "signal"
    /\ wakeup' = wakeup + 1
    /\ worker' = [worker EXCEPT ![w] = Idle]
    /\ UNCHANGED <<client, kernelVars, timeVars, sockVars, loopVars, jobs, conn, pending, files>>

-----------------------------------------------------------------------------
Peer(c) == Connect(c) \/ SendSegment(c) \/ Receive(c) \/ Leave(c) \/ Reset(c)

SocketEvents == SUBSET {"in", "out", "err"}
Loop == \/ EpollWait \/ BeginAccept \/ (\E c \in Clients : Accept(c)) \/ EndAccept
        \/ CleanupTimeouts \/ DrainWakeup \/ TakePending \/ DeliverNext \/ EndDeliver
        \/ CheckRequest
        \/ \E f \in Fds, ev \in SocketEvents :
              HandleError(f, ev) \/ HandleRead(f, ev) \/ HandleWrite(f, ev)

Work(w) == (\E f \in Fds : TakeJob(w, f)) \/ Respond(w) \/ Throw(w) \/ Signal(w)

Next == \/ \E c \in Clients : Peer(c)
        \/ TimerExpires
        \/ Loop
        \/ \E w \in Workers : Work(w)

(* The scheduler runs the loop and every worker; TCP delivers a reset; a    *)
(* peer that is owed an answer reads, and one that has begun a request ends *)
(* it.                                                                      *)
Fairness == /\ WF_vars(Loop)
            /\ \A w \in Workers : WF_vars(Work(w))
            /\ \A c \in Clients : WF_vars(Receive(c)) /\ WF_vars(Reset(c))
            /\ \A c \in Clients \ Impatient :
                  WF_vars(SendSegment(c) /\ client[c].sent % Segments # 0)

Spec == Init /\ [][Next]_vars /\ Fairness

-----------------------------------------------------------------------------
Segment  == [c : Clients, s : Nat]
UnitType == [c : Clients \cup {NoClient}, n : Nat, i : 1 .. 3, last : BOOLEAN]
ConnType == [rbuf : Seq(Segment), wbuf : Seq(UnitType), written : Nat, age : Nat,
             isFileStream : BOOLEAN, fileFd : BOOLEAN, stream : Seq(UnitType)]
(* The absence of a connection is no connection.                           *)
ASSUME NoConnAssumption == NoConn \notin ConnType
ResponseType == [fd : Fds, kind : AllKinds, c : Clients \cup {NoClient}, n : Nat]
WorkerType == [pc : {"idle", "run", "signal"}, fd : Fds \cup {0}, data : Seq(Segment)]

(* The type of every variable; in particular a worker never parses bytes of *)
(* two connections that it took for one.                                    *)
TypeOK ==
    /\ client \in [Clients -> [st : {"idle", "open", "closed"}, sent : Nat, got : Seq(UnitType)]]
    /\ rcv \in [Clients -> Seq(Segment)] /\ snd \in [Clients -> Seq(UnitType)]
    /\ rst \subseteq Clients /\ backlog \subseteq Clients /\ newconn \in BOOLEAN
    /\ sock \in [Fds -> Clients \cup {NoClient}]
    /\ mode \in [Fds -> {"in", "out"}] /\ rdl \subseteq Fds
    /\ ticks \in 0 .. MaxTicks /\ timer \in BOOLEAN /\ wakeup \in Nat
    /\ conn \in [Fds -> ConnType \cup {NoConn}]
    /\ jobs \in [Fds -> Nat] /\ worker \in [Workers -> WorkerType]
    /\ pending \in Seq(ResponseType) /\ writes \in Seq(ResponseType)
    /\ loop \in [pc : {"events", "accept", "check", "drained", "deliver"}, fd : Fds \cup {0}]
    /\ batch \subseteq {"listen", "timer", "wakeup", "socket"} \X (Fds \cup {0})
                                                         \X SocketEvents
    /\ files \in Nat

(* A queued response is never forgotten: either the eventfd is readable, or *)
(* a worker is about to write it, or the loop has drained it and is about   *)
(* to take the queue.  Draining after the swap (epoll_server.cpp:153-156)   *)
(* would lose a response queued in between.                                 *)
NoLostWakeup == pending # <<>> => \/ wakeup > 0
                                  \/ \E w \in Workers : worker[w].pc = "signal"
                                  \/ loop.pc = "drained"

(* A connection is in connections_ exactly while its socket is open: the    *)
(* loop closes and erases together on each of its six closing paths, so     *)
(* accept never finds the state of a previous connection, and no socket is  *)
(* left without a connection that would time it out.  (Of stale events,     *)
(* which close a number without looking it up, see Descriptors.)            *)
ConnOwnsSocket == \A f \in Fds : conn[f] # NoConn <=> sock[f] # NoClient

Follows(u, v) == IF u.last THEN v.n = u.n + 1 /\ v.i = 1
                 ELSE v.n = u.n /\ v.i = u.i + 1

(* What a client receives is the answers to its own requests, in the order  *)
(* of the requests, without a unit lost, repeated or out of place, through  *)
(* partial sends, buffering, file streaming and descriptors reused.  (For   *)
(* peers that close only when answered; a descriptor alone identifies the   *)
(* addressee of a response.)                                                *)
AnswersInOrder ==
    \A c \in Clients :
        LET got == client[c].got
        IN  /\ \A i \in DOMAIN got : got[i].c = c
            /\ got # <<>> => got[1].n = 1 /\ got[1].i = 1
            /\ \A i \in 1 .. Len(got) - 1 : Follows(got[i], got[i + 1])

(* Every file the server holds open belongs to a connection that streams    *)
(* it: sendFileChunked closes it at the end and on error, and no path drops *)
(* the connection first.  (For peers that close only when answered.)        *)
NoFileLeak == files = Cardinality(Streaming(Fds))

Disconnected(c) == c \notin backlog /\ FdsOf(c) = {}

(* An answer is addressed by descriptor alone.  A peer gets one that is not *)
(* its own only if it answers another peer, or is a 400 to nobody's request, *)
(* and that peer, or some other one, had begun a request and is connected   *)
(* no more: nothing goes astray between connections that all live.  (Which  *)
(* descriptor it had, and whether it had been answered, is not said.)       *)
StraysHaveNoHome ==
    \A c \in Clients : \A i \in DOMAIN client[c].got :
        LET u == client[c].got[i]
        IN  u.c # c => \E d \in Clients \ {c} : /\ u.c \in {d, NoClient}
                                                /\ client[d].sent > 0 /\ Disconnected(d)

(* A file is lost when it stays open and its connection no longer has it.   *)
(* The read that finds the end of the stream closes no file, and neither    *)
(* does a response that replaces or ends the stream of its connection,      *)
(* which takes an answer gone astray: files are lost one at a time, and     *)
(* never by a timeout, an error or a stream that came to its end.           *)
Departed == {d \in Clients : client[d].sent > 0 /\ Disconnected(d)}
Lost == files - Cardinality(Streaming(Fds))
Loses(f) == /\ conn[f] # NoConn /\ conn[f].fileFd
            /\ \/ client[sock[f]].st = "closed" /\ conn'[f] = NoConn
               \/ /\ loop.pc = "deliver" /\ Head(writes).fd = f
                  /\ Departed \ {sock[f]} # {}
LossNeedsCause == [][Lost' > Lost => Lost' = Lost + 1 /\ \E f \in Fds : Loses(f)]_vars

(* A patient peer that has sent a whole request gets the whole answer, when *)
(* parse() does not throw on it, and whatever it throws on beside it.       *)
EveryRequestAnswered ==
    \A c \in Clients \ (Impatient \cup Malformed) :
        client[c].sent > 0 /\ client[c].sent % Segments = 0 ~> Answered(c)

(* The socket of a peer that has closed is closed in the end, wherever in   *)
(* the request or the response the peer gave up.                            *)
ClosedIsReleased ==
    \A c \in Clients : client[c].st = "closed" ~> Disconnected(c)
=============================================================================
